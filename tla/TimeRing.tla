------------------------------ MODULE TimeRing ------------------------------
(***************************************************************************)
(* The index arithmetic of src/src/TimeTable.h: a ring of `capacity`       *)
(* entries, the live ones from `first` up to, not including, `last`.       *)
(***************************************************************************)
EXTENDS Integers

NextSlot(i, capacity) == (i + 1) % capacity

\* is_full(): one entry is always kept empty.
IsFull(first, last, capacity) == NextSlot(last, capacity) = first

\* free_entry throws "Trying to free an empty table".  The comparison is of
\* plain indices, although `last` may have wrapped below `first`.
FreeRefused(first, last, capacity) == NextSlot(first, capacity) > last

\* The indices of the live entries, oldest first: Live(..)[n] is the nth.
LiveCount(first, last, capacity) == (last - first) % capacity
Live(first, last, capacity) ==
    [n \in 1 .. LiveCount(first, last, capacity) |-> (first + n - 1) % capacity]
=============================================================================
