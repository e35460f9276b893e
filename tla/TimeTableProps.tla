--------------------------- MODULE TimeTableProps ---------------------------
(***************************************************************************)
(* What the time table of TimeTable.tla should guarantee, and does until   *)
(* one of its indices wraps.                                               *)
(***************************************************************************)
EXTENDS TimeTable

Label == {"idle", "full", "reserve", "write", "first", "last", "read", "swap"}

\* Type correctness of the table and of the locals of write_entry and
\* free_entry.
TypeOK ==
    /\ first \in Slots
    /\ last \in Slots
    /\ entry \in [Slots -> Keys \cup {NoKey}]
    /\ reservations \in 0 .. MaxReservations
    /\ evicted \in Seq(Keys \cup {NoKey})
    /\ pc \in [Threads -> Label]
    /\ key \in [Threads -> Keys \cup {NoKey}]
    /\ slot \in [Threads -> Slots]
    /\ seen \in [Threads -> Keys \cup {NoKey}]

-----------------------------------------------------------------------------
\* Neither index wraps within the bounds.
FirstLap == MaxReservations < Capacity /\ MaxEvictions < Capacity

\* Whoever has reserved an entry has it alone, inside the table, and nobody
\* wrote it yet: reserve_entry swaps `last` although its full check read an
\* older one.
OneWriterPerSlot ==
    \A t \in Threads : pc[t] = "write" =>
      /\ slot[t] < last
      /\ entry[slot[t]] = NoKey
      /\ \A u \in Threads : pc[u] = "write" /\ slot[u] = slot[t] => u = t

\* The table is a LRU list (TimeTable.h:8): every step of every interleaving
\* is a step of TimeLru, so keys leave in the order in which their entries
\* were reserved, and no entry leaves twice, from several threads at once.
Lru == INSTANCE TimeLru WITH
           slots <- [n \in 1 .. last |-> entry[n - 1]],
           taken <- first,
           returned <- evicted
ImplementsLru == Lru!Spec

\* free_entry throws "Trying to free an empty table" (TimeTable.h:204) only
\* when the table is empty, whatever `first` it read and whoever moved it since.
RefusedOnlyWhenEmpty ==
    [][\A t \in Threads :
         pc[t] = "last" /\ pc'[t] = "idle" => first = last]_vars
=============================================================================
