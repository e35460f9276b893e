----------------------------- MODULE TimeTable -----------------------------
(***************************************************************************)
(* The time table of a region (src/src/TimeTable.h): a ring of keys that   *)
(* write_entry fills at `last` and free_entry empties at `first`, called   *)
(* by several threads.  Each load, store and compare-and-swap of a shared  *)
(* word is a step; the loop of reserve_entry, which reads and swaps only   *)
(* `last`, is one step.                                                    *)
(*                                                                         *)
(* Entries live in [first, last) as long as neither index has wrapped; the *)
(* bounds MaxReservations and MaxEvictions say how far a run goes.         *)
(***************************************************************************)
EXTENDS Integers, Sequences, TimeRing

CONSTANTS Threads,
          Keys,
          NoKey,            \* what an entry holds before it is written
          Capacity,         \* entry_capacity
          MaxReservations,  \* bound: entries reserved in a run
          MaxEvictions      \* bound: entries freed in a run

ASSUME TableCapacityAssumption == Capacity \in Nat \ {0}
ASSUME TableKeyAssumption == NoKey \notin Keys
ASSUME TableBoundAssumption == MaxReservations \in Nat /\ MaxEvictions \in Nat

VARIABLES
    first, last, entry,   \* the table
    reservations,         \* history: how many entries were ever reserved
    evicted,              \* history: the keys free_entry returned, in order
    pc, key, slot, seen   \* locals of each thread

table == <<first, last, entry>>
vars  == <<table, reservations, evicted, pc, key, slot, seen>>

Slots == 0 .. Capacity - 1

Init ==
    /\ first = 0
    /\ last = 0
    /\ entry = [i \in Slots |-> NoKey]
    /\ reservations = 0
    /\ evicted = <<>>
    /\ pc = [t \in Threads |-> "idle"]
    /\ key = [t \in Threads |-> NoKey]
    /\ slot = [t \in Threads |-> 0]
    /\ seen = [t \in Threads |-> NoKey]

Goto(t, label) == pc' = [pc EXCEPT ![t] = label]

EndCall(t) ==
    /\ Goto(t, "idle")
    /\ key' = [key EXCEPT ![t] = NoKey]
    /\ slot' = [slot EXCEPT ![t] = 0]
    /\ seen' = [seen EXCEPT ![t] = NoKey]

-----------------------------------------------------------------------------
(* write_entry(key): is_full() reads `last`, then `first` (C++ leaves the  *)
(* order open; compilers evaluate the left operand first); then the entry  *)
(* is reserved, and only then written                                      *)

WriteEntry(t, k) ==
    /\ pc[t] = "idle"
    /\ key' = [key EXCEPT ![t] = k]
    /\ slot' = [slot EXCEPT ![t] = last]
    /\ Goto(t, "full")
    /\ UNCHANGED <<table, reservations, evicted, seen>>

\* "TimeTable is full"
WriteRefused(t) ==
    /\ pc[t] = "full"
    /\ IsFull(first, slot[t], Capacity)
    /\ EndCall(t)
    /\ UNCHANGED <<table, reservations, evicted>>

NotFull(t) ==
    /\ pc[t] = "full"
    /\ ~IsFull(first, slot[t], Capacity)
    /\ Goto(t, "reserve")
    /\ UNCHANGED <<table, reservations, evicted, key, slot, seen>>

\* Mutant: `last` read for the full check is swapped without a new load.
ReserveStale(t) ==
    /\ pc[t] = "reserve"
    /\ reservations < MaxReservations
    /\ last' = NextSlot(slot[t], Capacity)
    /\ reservations' = reservations + 1
    /\ Goto(t, "write")
    /\ UNCHANGED <<first, entry, evicted, key, slot, seen>>

\* The compare-and-swap of `last` succeeds.
ReserveEntry(t) ==
    /\ pc[t] = "reserve"
    /\ reservations < MaxReservations
    /\ slot' = [slot EXCEPT ![t] = last]
    /\ last' = NextSlot(last, Capacity)
    /\ reservations' = reservations + 1
    /\ Goto(t, "write")
    /\ UNCHANGED <<first, entry, evicted, key, seen>>

Write(t) ==
    /\ pc[t] = "write"
    /\ entry' = [entry EXCEPT ![slot[t]] = key[t]]
    /\ EndCall(t)
    /\ UNCHANGED <<first, last, reservations, evicted>>

-----------------------------------------------------------------------------
(* free_entry: loads of `first` and `last`, the entry, the swap of `first` *)

LoadFirst(t) ==
    /\ pc[t] \in {"idle", "first"}
    /\ slot' = [slot EXCEPT ![t] = first]
    /\ Goto(t, "last")
    /\ UNCHANGED <<table, reservations, evicted, key, seen>>

\* Mutant: the last entry of the table is never freed.
RefusedEarly(t) ==
    /\ pc[t] = "last"
    /\ NextSlot(slot[t], Capacity) >= last
    /\ EndCall(t)
    /\ UNCHANGED <<table, reservations, evicted>>

\* "Trying to free an empty table"
FreeEntryRefused(t) ==
    /\ pc[t] = "last"
    /\ FreeRefused(slot[t], last, Capacity)
    /\ EndCall(t)
    /\ UNCHANGED <<table, reservations, evicted>>

NotEmpty(t) ==
    /\ pc[t] = "last"
    /\ ~FreeRefused(slot[t], last, Capacity)
    /\ Goto(t, "read")
    /\ UNCHANGED <<table, reservations, evicted, key, slot, seen>>

ReadEntry(t) ==
    /\ pc[t] = "read"
    /\ seen' = [seen EXCEPT ![t] = entry[slot[t]]]
    /\ Goto(t, "swap")
    /\ UNCHANGED <<table, reservations, evicted, key, slot>>

\* Mutant: a plain store of `first`.
FreeStore(t) ==
    /\ pc[t] = "swap"
    /\ Len(evicted) < MaxEvictions
    /\ first' = NextSlot(slot[t], Capacity)
    /\ evicted' = Append(evicted, seen[t])
    /\ EndCall(t)
    /\ UNCHANGED <<last, entry, reservations>>

FreeEntry(t) ==
    /\ pc[t] = "swap"
    /\ first = slot[t]
    /\ Len(evicted) < MaxEvictions
    /\ first' = NextSlot(first, Capacity)
    /\ evicted' = Append(evicted, seen[t])
    /\ EndCall(t)
    /\ UNCHANGED <<last, entry, reservations>>

FreeRetry(t) ==
    /\ pc[t] = "swap"
    /\ first # slot[t]
    /\ Goto(t, "first")
    /\ UNCHANGED <<table, reservations, evicted, key, slot, seen>>

-----------------------------------------------------------------------------
Step(t) == \/ \E k \in Keys : WriteEntry(t, k)
           \/ WriteRefused(t) \/ NotFull(t) \/ ReserveEntry(t) \/ Write(t)
           \/ LoadFirst(t) \/ FreeEntryRefused(t) \/ NotEmpty(t)
           \/ ReadEntry(t) \/ FreeEntry(t) \/ FreeRetry(t)

Next == \E t \in Threads : Step(t)

Spec == Init /\ [][Next]_vars
=============================================================================
