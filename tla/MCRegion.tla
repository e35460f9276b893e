------------------------------ MODULE MCRegion ------------------------------
EXTENDS RegionProps, TLC

\* Threads run the same code and keys are opaque: permuting either changes
\* nothing.
Symmetry == Permutations(Threads) \cup Permutations(Keys)
=============================================================================
