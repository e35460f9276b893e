-------------------------- MODULE TimeTableProofs --------------------------
(***************************************************************************)
(* In its first lap the time table of TimeTable.tla implements TimeLru,    *)
(* for every number of threads, keys and entries.                          *)
(***************************************************************************)
EXTENDS TimeTableProps, SequenceTheorems, TLAPS

\* The indices count the calls that moved them.
Counters == /\ last = reservations
            /\ first = Len(evicted)
            /\ first <= last
            /\ first <= MaxEvictions

\* Beyond `last` nothing was written.
Unwritten == \A i \in Slots : i >= last => entry[i] = NoKey

\* What a call of write_entry holds.
Writers == \A t \in Threads : pc[t] \in {"full", "reserve", "write"} => key[t] \in Keys

\* What a call of free_entry knows of the table it read.
Evictors ==
    \A t \in Threads :
      /\ pc[t] \in {"last", "read", "swap"} => slot[t] <= first
      /\ pc[t] \in {"read", "swap"} => slot[t] < last \/ slot[t] = Capacity - 1
      /\ pc[t] = "swap" => seen[t] \in {NoKey, entry[slot[t]]}

LapInv == TypeOK /\ Counters /\ Unwritten /\ OneWriterPerSlot /\ Writers /\ Evictors

LEMMA LapInit == FirstLap /\ Init => LapInv
<1> SUFFICES ASSUME FirstLap, Init PROVE LapInv
  OBVIOUS
<1> 0 \in Slots
  BY TableCapacityAssumption DEF Slots
<1> QED
  BY TableBoundAssumption, TableCapacityAssumption
  DEF Init, LapInv, TypeOK, Counters, Unwritten, OneWriterPerSlot, Writers, Evictors, Label

\* An index that has not reached the end of the lap moves to the next slot.
LEMMA NextInLap ==
  ASSUME NEW i \in Nat, i + 1 < Capacity PROVE NextSlot(i, Capacity) = i + 1
  BY TableCapacityAssumption DEF NextSlot

LEMMA NextSlotType ==
  ASSUME NEW i \in Slots PROVE NextSlot(i, Capacity) \in Slots
  BY TableCapacityAssumption DEF NextSlot, Slots

\* At the end of the lap free_entry is never refused.
LEMMA RefusedInLap ==
  ASSUME NEW i \in Slots, NEW j \in Slots, FreeRefused(i, j, Capacity)
  PROVE  i >= j /\ i + 1 < Capacity
<1>1. CASE i + 1 < Capacity
  BY <1>1, NextInLap DEF FreeRefused, Slots
<1>2. CASE i + 1 >= Capacity
  <2>1. i + 1 = Capacity
    BY <1>2, TableCapacityAssumption DEF Slots
  <2>2. (i + 1) % Capacity = 0
    BY <2>1, TableCapacityAssumption
  <2> QED
    BY <2>2 DEF FreeRefused, NextSlot, Slots
<1> QED
  BY <1>1, <1>2, TableCapacityAssumption DEF Slots

LEMMA NotRefusedInLap ==
  ASSUME NEW i \in Slots, NEW j \in Slots, ~FreeRefused(i, j, Capacity)
  PROVE  i < j \/ i = Capacity - 1
<1>1. CASE i + 1 < Capacity
  BY <1>1, NextInLap DEF FreeRefused, Slots
<1> QED
  BY <1>1, TableCapacityAssumption DEF Slots

LEMMA LapStep == FirstLap /\ LapInv /\ [Next]_vars => LapInv'
<1> SUFFICES ASSUME FirstLap, LapInv, [Next]_vars PROVE LapInv'
  OBVIOUS
<1> USE TableCapacityAssumption, TableKeyAssumption, TableBoundAssumption DEF FirstLap
<1>0. CASE UNCHANGED vars
  BY <1>0 DEF vars, table, LapInv, TypeOK, Counters, Unwritten, OneWriterPerSlot, Writers, Evictors
<1>. SUFFICES ASSUME NEW t \in Threads, Step(t) PROVE LapInv'
  BY <1>0 DEF Next
<1>1. ASSUME NEW k \in Keys, WriteEntry(t, k) PROVE LapInv'
  BY <1>1 DEF WriteEntry, Goto, table, LapInv, TypeOK, Counters, Unwritten, OneWriterPerSlot, Writers, Evictors, Label
<1>2. CASE WriteRefused(t)
  BY <1>2 DEF WriteRefused, EndCall, Goto, table, LapInv, TypeOK, Counters, Unwritten, OneWriterPerSlot, Writers, Evictors, Label, Slots
<1>3. CASE NotFull(t)
  BY <1>3 DEF NotFull, Goto, table, LapInv, TypeOK, Counters, Unwritten, OneWriterPerSlot, Writers, Evictors, Label
<1>4. CASE ReserveEntry(t)
  <2>1. last + 1 < Capacity /\ last \in Nat
    BY <1>4 DEF ReserveEntry, LapInv, Counters, TypeOK, Slots
  <2>2. last' = last + 1
    BY <1>4, <2>1, NextInLap DEF ReserveEntry
  <2>3. /\ pc' = [pc EXCEPT ![t] = "write"] /\ slot' = [slot EXCEPT ![t] = last]
        /\ reservations' = reservations + 1 /\ reservations < MaxReservations
        /\ UNCHANGED <<first, entry, evicted, key, seen>> /\ pc[t] = "reserve"
    BY <1>4 DEF ReserveEntry, Goto
  <2>4. TypeOK'
    BY <2>1, <2>2, <2>3 DEF LapInv, TypeOK, Counters, Label, Slots
  <2>5. Counters' /\ Unwritten' /\ Writers'
    BY <2>1, <2>2, <2>3 DEF LapInv, TypeOK, Counters, Unwritten, Writers, Slots
  <2>6. OneWriterPerSlot'
    BY <2>1, <2>2, <2>3 DEF LapInv, TypeOK, OneWriterPerSlot, Unwritten, Slots
  <2>7. Evictors'
    BY <2>1, <2>2, <2>3 DEF LapInv, TypeOK, Evictors, Slots
  <2> QED
    BY <2>4, <2>5, <2>6, <2>7 DEF LapInv
<1>5. CASE Write(t)
  <2>1. /\ pc' = [pc EXCEPT ![t] = "idle"] /\ key' = [key EXCEPT ![t] = NoKey]
        /\ slot' = [slot EXCEPT ![t] = 0] /\ seen' = [seen EXCEPT ![t] = NoKey]
        /\ entry' = [entry EXCEPT ![slot[t]] = key[t]] /\ pc[t] = "write"
        /\ UNCHANGED <<first, last, reservations, evicted>>
    BY <1>5 DEF Write, EndCall, Goto
  <2>2. slot[t] \in Slots /\ slot[t] < last /\ entry[slot[t]] = NoKey
    BY <2>1 DEF LapInv, TypeOK, OneWriterPerSlot
  <2>3. TypeOK' /\ Counters' /\ Writers'
    BY <2>1, <2>2 DEF LapInv, TypeOK, Counters, Writers, Label, Slots
  <2>4. Unwritten' /\ OneWriterPerSlot'
    BY <2>1, <2>2 DEF LapInv, TypeOK, Unwritten, OneWriterPerSlot, Slots
  <2>5. Evictors'
    BY <2>1, <2>2 DEF LapInv, TypeOK, Evictors, Slots
  <2> QED
    BY <2>3, <2>4, <2>5 DEF LapInv
<1>6. CASE LoadFirst(t)
  BY <1>6 DEF LoadFirst, Goto, table, LapInv, TypeOK, Counters, Unwritten, OneWriterPerSlot, Writers, Evictors, Label, Slots
<1>7. CASE FreeEntryRefused(t)
  BY <1>7 DEF FreeEntryRefused, EndCall, Goto, table, LapInv, TypeOK, Counters, Unwritten, OneWriterPerSlot, Writers, Evictors, Label, Slots
<1>8. CASE NotEmpty(t)
  <2>1. slot[t] < last \/ slot[t] = Capacity - 1
    BY <1>8, NotRefusedInLap DEF NotEmpty, LapInv, TypeOK
  <2> QED
    BY <1>8, <2>1 DEF NotEmpty, Goto, table, LapInv, TypeOK, Counters, Unwritten, OneWriterPerSlot, Writers, Evictors, Label
<1>9. CASE ReadEntry(t)
  BY <1>9 DEF ReadEntry, Goto, table, LapInv, TypeOK, Counters, Unwritten, OneWriterPerSlot, Writers, Evictors, Label
<1>10. CASE FreeEntry(t)
  <2>1. /\ pc' = [pc EXCEPT ![t] = "idle"] /\ key' = [key EXCEPT ![t] = NoKey]
        /\ slot' = [slot EXCEPT ![t] = 0] /\ seen' = [seen EXCEPT ![t] = NoKey]
        /\ pc[t] = "swap" /\ first = slot[t] /\ Len(evicted) < MaxEvictions
        /\ evicted' = Append(evicted, seen[t])
        /\ UNCHANGED <<last, entry, reservations>>
    BY <1>10 DEF FreeEntry, EndCall, Goto
  <2>2. first + 1 < Capacity /\ first \in Nat
    BY <2>1 DEF LapInv, Counters, TypeOK, Slots
  <2>3. first' = first + 1
    BY <1>10, <2>2, NextInLap DEF FreeEntry
  <2>4. first < last
    BY <2>1, <2>2 DEF LapInv, Evictors, Counters, TypeOK, Slots
  <2>5. TypeOK'
    BY <2>1, <2>2, <2>3 DEF LapInv, TypeOK, Label, Slots
  <2>8. Counters'
    <3>1. Len(evicted') = Len(evicted) + 1 /\ Len(evicted) \in Nat
      BY <2>1 DEF LapInv, TypeOK
    <3> QED
      BY <2>1, <2>2, <2>3, <2>4, <3>1 DEF LapInv, TypeOK, Counters, Slots
  <2>6. Unwritten' /\ OneWriterPerSlot' /\ Writers'
    BY <2>1 DEF LapInv, TypeOK, Unwritten, OneWriterPerSlot, Writers, Slots
  <2>7. ASSUME NEW u \in Threads
        PROVE  /\ pc'[u] \in {"last", "read", "swap"} => slot'[u] <= first'
               /\ pc'[u] \in {"read", "swap"} => slot'[u] < last' \/ slot'[u] = Capacity - 1
               /\ pc'[u] = "swap" => seen'[u] \in {NoKey, entry'[slot'[u]]}
    <3>1. CASE u = t
      BY <2>1, <3>1 DEF LapInv, TypeOK
    <3>2. CASE u # t
      <4>1. pc'[u] = pc[u] /\ slot'[u] = slot[u] /\ seen'[u] = seen[u]
        BY <2>1, <3>2 DEF LapInv, TypeOK
      <4>2. slot[u] \in Nat
        BY DEF LapInv, TypeOK, Slots
      <4> QED
        BY <2>1, <2>2, <2>3, <4>1, <4>2 DEF LapInv, Evictors
    <3> QED
      BY <3>1, <3>2
  <2> QED
    BY <2>5, <2>6, <2>7, <2>8 DEF LapInv, Evictors
<1>11. CASE FreeRetry(t)
  BY <1>11 DEF FreeRetry, Goto, table, LapInv, TypeOK, Counters, Unwritten, OneWriterPerSlot, Writers, Evictors, Label
<1> QED
  BY <1>1, <1>2, <1>3, <1>4, <1>5, <1>6, <1>7, <1>8, <1>9, <1>10, <1>11 DEF Step

LEMMA LapInvariant == ASSUME FirstLap PROVE Spec => []LapInv
<1>1. Init => LapInv
  BY LapInit
<1>2. LapInv /\ [Next]_vars => LapInv'
  BY LapStep
<1> QED
  BY <1>1, <1>2, PTL DEF Spec

\* The indices and the locals of write_entry and free_entry stay in range.
THEOREM LapTypeCorrect == ASSUME FirstLap PROVE Spec => []TypeOK
<1>1. LapInv => TypeOK
  BY DEF LapInv
<1> QED
  BY <1>1, LapInvariant, PTL

\* Concurrent calls of reserve_entry never share an entry, nor write an entry
\* that free_entry could already have passed unwritten to a later call.
THEOREM LapOneWriter == ASSUME FirstLap PROVE Spec => []OneWriterPerSlot
<1>1. LapInv => OneWriterPerSlot
  BY DEF LapInv
<1> QED
  BY <1>1, LapInvariant, PTL

-----------------------------------------------------------------------------
(* free_entry throws only on an empty table *)

LEMMA RefusalStep ==
  FirstLap /\ LapInv /\ [Next]_vars =>
    [\A t \in Threads : pc[t] = "last" /\ pc'[t] = "idle" => first = last]_vars
<1> SUFFICES ASSUME FirstLap, LapInv, Next,
                    NEW t \in Threads, pc[t] = "last", pc'[t] = "idle"
             PROVE  first = last
  BY DEF vars
<1>1. PICK u \in Threads : Step(u)
  BY DEF Next
<1>2. u = t /\ FreeEntryRefused(t)
  BY <1>1 DEF Step, WriteEntry, WriteRefused, NotFull, ReserveEntry, Write, LoadFirst,
     FreeEntryRefused, NotEmpty, ReadEntry, FreeEntry, FreeRetry, EndCall, Goto, LapInv,
     TypeOK, Label
<1>3. slot[t] >= last
  BY <1>2, RefusedInLap DEF FreeEntryRefused, LapInv, TypeOK
<1>4. slot[t] <= first /\ first <= last
  BY DEF LapInv, Evictors, Counters
<1> QED
  BY <1>3, <1>4 DEF LapInv, TypeOK, Slots

\* "Trying to free an empty table" is thrown only on an empty table.
THEOREM LapRefusedOnlyWhenEmpty == ASSUME FirstLap PROVE Spec => RefusedOnlyWhenEmpty
<1>1. LapInv /\ [Next]_vars =>
        [\A t \in Threads : pc[t] = "last" /\ pc'[t] = "idle" => first = last]_vars
  BY RefusalStep
<1> QED
  BY <1>1, LapInvariant, PTL DEF Spec, RefusedOnlyWhenEmpty

-----------------------------------------------------------------------------
(* The refinement *)

\* The mapping of TimeTableProps.
SlotsBar == [n \in 1 .. last |-> entry[n - 1]]

LEMMA AppendIsFunction ==
  ASSUME NEW S, NEW s \in Seq(S), NEW e \in S
  PROVE  Append(s, e) =
           [n \in 1 .. Len(s) + 1 |-> IF n = Len(s) + 1 THEN e ELSE s[n]]
<1> DEFINE f == [n \in 1 .. Len(s) + 1 |-> IF n = Len(s) + 1 THEN e ELSE s[n]]
<1>1. Append(s, e) \in Seq(S) /\ Len(Append(s, e)) = Len(s) + 1 /\ Len(s) \in Nat
  BY AppendProperties
<1>4. ASSUME NEW q \in Seq(S) PROVE q = [n \in 1 .. Len(q) |-> q[n]]
  OBVIOUS
<1>2. Append(s, e) = [n \in 1 .. Len(s) + 1 |-> Append(s, e)[n]]
  BY <1>1, <1>4, Zenon
<1>3. \A n \in 1 .. Len(s) + 1 : Append(s, e)[n] = f[n]
  BY <1>1
<1> QED
  BY <1>2, <1>3, Zenon

\* A new entry appears unwritten at the end of the list.
LEMMA AppendSlot ==
  ASSUME LapInv, last + 1 < Capacity, last' = last + 1, entry' = entry
  PROVE  SlotsBar' = Append(SlotsBar, NoKey)
<1>1. last \in Nat /\ entry[last] = NoKey
  BY TableCapacityAssumption DEF LapInv, TypeOK, Slots, Unwritten
<1>2. \A n \in 1 .. last : n - 1 \in Slots
  BY <1>1, TableCapacityAssumption DEF LapInv, TypeOK, Slots
<1>3. \A n \in 1 .. last : entry[n - 1] \in Keys \cup {NoKey}
  BY <1>2 DEF LapInv, TypeOK
<1>4. SlotsBar \in Seq(Keys \cup {NoKey}) /\ Len(SlotsBar) = last
  BY <1>1, <1>3 DEF SlotsBar
<1>5. Append(SlotsBar, NoKey) =
        [n \in 1 .. last + 1 |-> IF n = last + 1 THEN NoKey ELSE SlotsBar[n]]
  BY <1>1, <1>4, AppendIsFunction
<1> QED
  BY <1>1, <1>5 DEF SlotsBar

LEMMA InitLru == Init => Lru!Init
  BY DEF Init, Lru!Init

LEMMA StepLru == FirstLap /\ LapInv /\ [Next]_vars => [Lru!Next]_(Lru!vars)
<1> SUFFICES ASSUME FirstLap, LapInv, [Next]_vars PROVE [Lru!Next]_(Lru!vars)
  OBVIOUS
<1> USE TableCapacityAssumption, TableKeyAssumption, TableBoundAssumption
<1>0. CASE UNCHANGED <<table, evicted>>
  BY <1>0 DEF table, Lru!vars
<1>. SUFFICES ASSUME NEW t \in Threads, Step(t) PROVE [Lru!Next]_(Lru!vars)
  BY <1>0 DEF Next, vars
<1>1. CASE ReserveEntry(t)
  <2>1. last + 1 < Capacity /\ last \in Nat
    BY <1>1 DEF ReserveEntry, LapInv, Counters, TypeOK, Slots, FirstLap
  <2>2. last' = last + 1 /\ UNCHANGED <<first, entry, evicted>>
    BY <1>1, <2>1, NextInLap DEF ReserveEntry
  <2>3. SlotsBar' = Append(SlotsBar, NoKey)
    BY <2>1, <2>2, AppendSlot
  <2>4. Lru!Reserve
    BY <2>2, <2>3 DEF Lru!Reserve, SlotsBar
  <2> QED
    BY <2>4 DEF Lru!Next
<1>2. CASE Write(t)
  <2>1. /\ entry' = [entry EXCEPT ![slot[t]] = key[t]] /\ pc[t] = "write"
        /\ UNCHANGED <<first, last, evicted>>
    BY <1>2 DEF Write
  <2>2. /\ slot[t] \in Slots /\ slot[t] < last /\ entry[slot[t]] = NoKey
        /\ key[t] \in Keys /\ last \in Nat
    BY <2>1 DEF LapInv, TypeOK, OneWriterPerSlot, Writers, Slots
  <2> DEFINE n == slot[t] + 1
  <2>3. n \in 1 .. last /\ n - 1 = slot[t]
    BY <2>2 DEF Slots
  <2>7. ASSUME NEW m \in 1 .. last
        PROVE  entry'[m - 1] = IF m = n THEN key[t] ELSE entry[m - 1]
    <3>1. m - 1 \in Slots
      BY <2>2 DEF LapInv, TypeOK, Slots
    <3>2. m = n <=> m - 1 = slot[t]
      BY <2>2, <2>3
    <3> QED
      BY <2>1, <2>2, <3>1, <3>2 DEF LapInv, TypeOK
  <2>4. SlotsBar' = [SlotsBar EXCEPT ![n] = key[t]]
    BY <2>1, <2>7 DEF SlotsBar
  <2>5. n \in DOMAIN SlotsBar /\ SlotsBar[n] = NoKey
    BY <2>2, <2>3 DEF SlotsBar
  <2>6. Lru!Write(key[t])
    BY <2>1, <2>4, <2>5 DEF Lru!Write, SlotsBar
  <2> QED
    BY <2>2, <2>6 DEF Lru!Next, Lru!Write
<1>3. CASE FreeEntry(t)
  <2>1. /\ pc[t] = "swap" /\ first = slot[t] /\ evicted' = Append(evicted, seen[t])
        /\ Len(evicted) < MaxEvictions /\ UNCHANGED <<last, entry>>
    BY <1>3 DEF FreeEntry
  <2>2. first + 1 < Capacity /\ first \in Nat /\ last \in Nat
    BY <2>1 DEF LapInv, Counters, TypeOK, Slots, FirstLap
  <2>3. first' = first + 1
    BY <1>3, <2>2, NextInLap DEF FreeEntry
  <2>4. first < last
    BY <2>1, <2>2 DEF LapInv, Evictors
  <2>5. seen[t] \in {NoKey, entry[first]}
    BY <2>1 DEF LapInv, Evictors
  <2>6. Len(SlotsBar) = last /\ SlotsBar[first + 1] = entry[first]
    BY <2>2, <2>4 DEF SlotsBar
  <2>7. Lru!Evict
    BY <2>1, <2>3, <2>4, <2>5, <2>6 DEF Lru!Evict, SlotsBar
  <2> QED
    BY <2>7 DEF Lru!Next
<1>4. CASE ~(ReserveEntry(t) \/ Write(t) \/ FreeEntry(t))
  BY <1>0, <1>4 DEF Step, WriteEntry, WriteRefused, NotFull, LoadFirst, FreeEntryRefused,
     NotEmpty, ReadEntry, FreeRetry, table
<1> QED
  BY <1>1, <1>2, <1>3, <1>4

\* Until an index wraps, the time table is the list its comment promises: keys
\* leave in the order in which write_entry reserved their entries, each once.
THEOREM LapImplementsLru == ASSUME FirstLap PROVE Spec => ImplementsLru
<1>1. LapInv /\ [Next]_vars => [Lru!Next]_(Lru!vars)
  BY StepLru
<1> QED
  BY <1>1, InitLru, LapInvariant, PTL DEF Spec, ImplementsLru, Lru!Spec
=============================================================================
