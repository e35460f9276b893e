---------------------------- MODULE MCJumpTable ----------------------------
EXTENDS JumpTableProps, TLC

\* Threads run the same code and objects are opaque.
Symmetry == Permutations(Threads) \cup Permutations(Objects)
=============================================================================
