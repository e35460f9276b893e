---------------------------- MODULE MCTimeTable ----------------------------
EXTENDS TimeTableProps, TLC

\* Threads run the same code and keys are opaque.
Symmetry == Permutations(Threads) \cup Permutations(Keys)
=============================================================================
