-------------------------- MODULE MCFragmentTable --------------------------
EXTENDS FragmentTableProps, TLC

\* Threads run the same code.
Symmetry == Permutations(Threads)

\* Keys 1 and 3 share a head, and 2, 4 and 6: one kind of entry each.
MCKindOf == [k \in Keys |-> IF k = 3 THEN "plain" ELSE IF k = 4 THEN "name"
                            ELSE "chained"]
=============================================================================
