------------------------------- MODULE Region -------------------------------
(***************************************************************************)
(* The fragment allocator of a region (src/src/Region.h): the bitmap       *)
(* `state`, the counter `fragment_avail`, the search hint                  *)
(* `last_free_fragment`, and the calls that change them, run by several    *)
(* threads.  Each load and each compare-and-swap of a shared word is a     *)
(* step; a loop "load, compute, compare-and-swap, retry" on one word that  *)
(* has no other effect (_update_fragment_avail, and TimeTable's            *)
(* reserve_entry) is one step, its last round.  Nothing here says how many *)
(* rounds such a loop takes: other threads can send it back.               *)
(*                                                                         *)
(* A call of the time table is one step here (TimeTable.tla interleaves    *)
(* the steps inside).  The caller's record of which fragments belong to    *)
(* which object (the FragmentTable) is the history variable `objects`.     *)
(***************************************************************************)
EXTENDS Integers, Sequences, FiniteSets, TimeRing

CONSTANTS Threads,      \* threads calling into the region
          Keys,         \* keys of the objects stored
          NoKey,        \* the key of a thread outside any call
          Capacity,     \* fragment_capacity
          BucketBits,   \* fragments whose bits share one atomic byte (8)
          Requests      \* values of fragments_num

ASSUME CapacityAssumption == Capacity \in Nat \ {0}
ASSUME BucketAssumption   == BucketBits \in Nat \ {0}
ASSUME RequestsAssumption == Requests \subseteq Nat
ASSUME ThreadsAssumption  == IsFiniteSet(Threads)
ASSUME NoKeyAssumption == NoKey \notin Keys

VARIABLES
    state,              \* the bits set in the bitmap: fragments taken
    fragment_avail,     \* free fragments not yet promised to a call
    last_free_fragment, \* where a scan starts
    time_table,         \* the ring of keys: first, last, entry
    objects,            \* history: the fragments delivered for each key
    lost,               \* history: the fragments of calls that threw
    clobbered,          \* history: a free changed a bit not its own
    pc, op, key, num, index, count, expected, reserved \* locals of each thread

shared == <<state, fragment_avail, last_free_fragment, time_table>>
locals == <<pc, op, key, num, index, count, expected, reserved>>
history == <<objects, lost, clobbered>>
vars   == <<shared, history, locals>>

Fragments == 0 .. Capacity - 1

\* The bits the calls can touch: a scan wraps only past Capacity + 1, and a
\* free rewrites a whole byte.  The array itself is larger than that.
Bits == 0 .. Capacity + BucketBits

\* The bits that share the atomic byte of bit i.
Bucket(i) == {b \in Bits : b \div BucketBits = i \div BucketBits}

\* The byte state[i >> 3], as the set of its bits that are set.
Load(i) == state \cap Bucket(i)

\* What a free may store: bit i is clear; `desired` is never initialised, so
\* the other bits are whatever it held.
Desired(i) == SUBSET (Bucket(i) \ {i})

\* The fragments owed to the running calls: promised by fragment_avail, not
\* yet acquired.  <<t, n>> is the nth fragment of the call of t.
Owes(t, n) == /\ pc[t] \in {"start", "load", "cas"}
              /\ Len(reserved[t]) < n /\ n <= num[t]
Owed == {c \in Threads \X (1 .. Capacity) : Owes(c[1], c[2])}

Init ==
    /\ state = {}
    /\ fragment_avail = Capacity
    /\ last_free_fragment = 0
    /\ time_table = [first |-> 0, last |-> 0,
                     entry |-> [i \in Fragments |-> NoKey]]
    /\ objects = [k \in Keys |-> <<>>]
    /\ lost = <<>>
    /\ clobbered = FALSE
    /\ pc = [t \in Threads |-> "idle"]
    /\ op = [t \in Threads |-> "reserve"]
    /\ key = [t \in Threads |-> NoKey]
    /\ num = [t \in Threads |-> 0]
    /\ index = [t \in Threads |-> 0]
    /\ count = [t \in Threads |-> 0]
    /\ expected = [t \in Threads |-> {}]
    /\ reserved = [t \in Threads |-> <<>>]

Goto(t, label) == pc' = [pc EXCEPT ![t] = label]

\* The call returns or throws; its locals are gone.
EndCall(t) ==
    /\ Goto(t, "idle")
    /\ op' = [op EXCEPT ![t] = "reserve"]
    /\ key' = [key EXCEPT ![t] = NoKey]
    /\ num' = [num EXCEPT ![t] = 0]
    /\ index' = [index EXCEPT ![t] = 0]
    /\ count' = [count EXCEPT ![t] = 0]
    /\ expected' = [expected EXCEPT ![t] = {}]
    /\ reserved' = [reserved EXCEPT ![t] = <<>>]

\* The time table lists k.
Listed(k) == LET live == Live(time_table.first, time_table.last, Capacity)
             IN  \E n \in DOMAIN live : time_table.entry[live[n]] = k

\* A key a caller may use for a new object.
Unused(k) == /\ objects[k] = <<>>
             /\ ~Listed(k)
             /\ \A t \in Threads : key[t] # k

-----------------------------------------------------------------------------
(* reserve_fragments and _write_fragment: first the counter ... *)

\* A call for n fragments of key k starts and takes d off the counter.
Admit(t, o, k, n, d) ==
    /\ pc[t] = "idle"
    /\ Unused(k)
    /\ fragment_avail' = fragment_avail - d
    /\ key' = [key EXCEPT ![t] = k]
    /\ num' = [num EXCEPT ![t] = n]
    /\ op' = [op EXCEPT ![t] = o]
    /\ Goto(t, IF n = 0 THEN "entry" ELSE "start")
    /\ UNCHANGED <<state, last_free_fragment, time_table, history, index,
                   count, expected, reserved>>

\* Mutant: the underflow check is dropped.
ClaimUnchecked(t, o, k, n) == Admit(t, o, k, n, n)

\* Mutant: the delta keeps its default of 1.
ClaimOne(t, o, k, n) == fragment_avail >= 1 /\ Admit(t, o, k, n, 1)

\* _update_fragment_avail(false, n) succeeds.
Claim(t, o, k, n) == n <= fragment_avail /\ Admit(t, o, k, n, n)

ReserveFragments(t, k, n) == Claim(t, "reserve", k, n)

WriteFragment(t, k) == Claim(t, "write", k, 1)

\* It throws: "No more available fragments".
ReserveRefused(t, n) ==
    /\ pc[t] = "idle"
    /\ n > fragment_avail
    /\ UNCHANGED vars

(* ... then the scan of the bitmap, _acquire_free_fragment(false) ... *)

\* Mutant: the scan starts behind the hint.
StartScanLate(t) ==
    /\ pc[t] = "start"
    /\ index' = [index EXCEPT ![t] = last_free_fragment + 1]
    /\ count' = [count EXCEPT ![t] = 0]
    /\ Goto(t, "load")
    /\ UNCHANGED <<shared, history, op, key, num, expected, reserved>>

StartScan(t) ==
    /\ pc[t] = "start"
    /\ index' = [index EXCEPT ![t] = last_free_fragment]
    /\ count' = [count EXCEPT ![t] = 0]
    /\ Goto(t, "load")
    /\ UNCHANGED <<shared, history, op, key, num, expected, reserved>>

\* The scan ends on fragment i, whether or not its bit was acquired.
Return(t, i) ==
    /\ reserved' = [reserved EXCEPT ![t] = Append(@, i)]
    /\ Goto(t, IF Len(reserved[t]) + 1 < num[t] THEN "start"
               ELSE IF op[t] = "write" THEN "store" ELSE "entry")

\* The index of the next probe; it wraps only past Capacity + 1.
Successor(i) == IF i > Capacity THEN 0 ELSE i + 1

\* On to the next index; the scan gives up after so many probes.
Advance(t, probes) ==
    /\ index' = [index EXCEPT ![t] = Successor(@)]
    /\ count' = [count EXCEPT ![t] = @ + 1]
    /\ IF count[t] + 1 < probes
         THEN Goto(t, "load") /\ UNCHANGED reserved
         ELSE Return(t, Successor(index[t]))

\* Mutant: the scan gives up one probe early.
NextProbeEarly(t) == Advance(t, Capacity - 1)

\* valid()
NextProbe(t) == Advance(t, Capacity)

ProbeTaken(t) ==
    /\ pc[t] = "load"
    /\ index[t] \in state
    /\ NextProbe(t)
    /\ UNCHANGED <<shared, history, op, key, num, expected>>

ProbeFree(t) ==
    /\ pc[t] = "load"
    /\ index[t] \notin state
    /\ expected' = [expected EXCEPT ![t] = Load(index[t])]
    /\ Goto(t, "cas")
    /\ UNCHANGED <<shared, history, op, key, num, index, count, reserved>>

\* Mutant: a plain store of the byte instead of the compare-and-swap.
StoreAcquire(t) ==
    /\ pc[t] = "cas"
    /\ state' = (state \ Bucket(index[t])) \cup expected[t] \cup {index[t]}
    /\ expected' = [expected EXCEPT ![t] = {}]
    /\ Return(t, index[t])
    /\ UNCHANGED <<fragment_avail, last_free_fragment, time_table, history,
                   op, key, num, index, count>>

CasAcquire(t) ==
    /\ pc[t] = "cas"
    /\ Load(index[t]) = expected[t]
    /\ state' = state \cup {index[t]}
    /\ expected' = [expected EXCEPT ![t] = {}]
    /\ Return(t, index[t])
    /\ UNCHANGED <<fragment_avail, last_free_fragment, time_table, history,
                   op, key, num, index, count>>

\* Mutant: the index is tried again, without counting the probe.
CasRetry(t) ==
    /\ pc[t] = "cas"
    /\ Load(index[t]) # expected[t]
    /\ expected' = [expected EXCEPT ![t] = {}]
    /\ Goto(t, "load")
    /\ UNCHANGED <<shared, history, op, key, num, index, count, reserved>>

\* "we have concurrent modifications": the index is skipped, not retried.
CasFail(t) ==
    /\ pc[t] = "cas"
    /\ Load(index[t]) # expected[t]
    /\ expected' = [expected EXCEPT ![t] = {}]
    /\ NextProbe(t)
    /\ UNCHANGED <<shared, history, op, key, num>>

(* ... and last the time table, or the file. *)

TimeTableFull == IsFull(time_table.first, time_table.last, Capacity)

WriteEntry(t) ==
    /\ pc[t] = "entry"
    /\ ~TimeTableFull
    /\ time_table' = [time_table EXCEPT !.entry[time_table.last] = key[t],
                                     !.last = NextSlot(@, Capacity)]
    /\ objects' = [objects EXCEPT ![key[t]] = reserved[t]]
    /\ EndCall(t)
    /\ UNCHANGED <<state, fragment_avail, last_free_fragment, lost,
                   clobbered>>

\* write_entry throws "TimeTable is full" and the indices die with the call.
WriteEntryThrows(t) ==
    /\ pc[t] = "entry"
    /\ TimeTableFull
    /\ lost' = lost \o reserved[t]
    /\ EndCall(t)
    /\ UNCHANGED <<shared, objects, clobbered>>

\* write_fragment refuses an index beyond Capacity, not Capacity itself.
Store(t) ==
    /\ pc[t] = "store"
    /\ reserved[t][1] <= Capacity
    /\ objects' = [objects EXCEPT ![key[t]] = reserved[t]]
    /\ EndCall(t)
    /\ UNCHANGED <<shared, lost, clobbered>>

\* It throws at such an index, or where pwrite fails; the fragment reserved
\* stays taken, and nobody holds its index any more.
StoreThrows(t) ==
    /\ pc[t] = "store"
    /\ lost' = lost \o reserved[t]
    /\ EndCall(t)
    /\ UNCHANGED <<shared, objects, clobbered>>

-----------------------------------------------------------------------------
(* free_oldest and free_fragments *)

\* The fragments the caller finds for a key; a stale key may have none.
FragmentsOf(k) == IF k \in Keys THEN objects[k] ELSE <<>>

\* The caller holds the indices of key k and frees them in order; `reserved`
\* is what is left to free.
BeginFree(t, k) ==
    /\ key' = [key EXCEPT ![t] = k]
    /\ reserved' = [reserved EXCEPT ![t] = FragmentsOf(k)]
    /\ num' = [num EXCEPT ![t] = Len(FragmentsOf(k))]
    /\ objects' = [x \in Keys |-> IF x = k THEN <<>> ELSE objects[x]]
    /\ op' = [op EXCEPT ![t] = "free"]
    /\ Goto(t, IF FragmentsOf(k) = <<>> THEN "freeavail" ELSE "freeload")
    /\ UNCHANGED <<state, fragment_avail, last_free_fragment, lost,
                   clobbered, index, count, expected>>

\* "ask the time table to kick the oldest entry", then free its fragments.
FreeOldest(t) ==
    /\ pc[t] = "idle"
    /\ ~FreeRefused(time_table.first, time_table.last, Capacity)
    /\ time_table' = [time_table EXCEPT !.first = NextSlot(@, Capacity)]
    /\ BeginFree(t, time_table.entry[time_table.first])

\* free_oldest throws.
FreeOldestRefused(t) ==
    /\ pc[t] = "idle"
    /\ FreeRefused(time_table.first, time_table.last, Capacity)
    /\ UNCHANGED vars

\* An object written without a time-table entry is freed by its index.
FreeWritten(t, k) ==
    /\ pc[t] = "idle"
    /\ objects[k] # <<>>
    /\ ~Listed(k)
    /\ UNCHANGED time_table
    /\ BeginFree(t, k)

FreeLoad(t) ==
    /\ pc[t] = "freeload"
    /\ LET i == Head(reserved[t]) IN
         IF i \in state
           THEN /\ expected' = [expected EXCEPT ![t] = Load(i)]
                /\ Goto(t, "freecas")
           ELSE Goto(t, "freelast") /\ UNCHANGED expected
    /\ UNCHANGED <<shared, history, op, key, num, index, count, reserved>>

FreeStore(i) ==
    \E byte \in Desired(i) :
      /\ state' = (state \ Bucket(i)) \cup byte
      /\ clobbered' = (clobbered \/ byte # Load(i) \ {i})

FreeCas(t) ==
    /\ pc[t] = "freecas"
    /\ LET i == Head(reserved[t]) IN
         IF Load(i) = expected[t]
           THEN FreeStore(i) /\ Goto(t, "freelast")
           ELSE Goto(t, "freeload") /\ UNCHANGED <<state, clobbered>>
    /\ expected' = [expected EXCEPT ![t] = {}]
    /\ UNCHANGED <<fragment_avail, last_free_fragment, time_table, objects,
                   lost, op, key, num, index, count, reserved>>

\* Mutant: each fragment of a batch updates the counter as well.
FreeLastCounts(t) ==
    /\ pc[t] = "freelast"
    /\ last_free_fragment' = Head(reserved[t])
    /\ reserved' = [reserved EXCEPT ![t] = Tail(@)]
    /\ fragment_avail' = fragment_avail + 1
    /\ Goto(t, IF Len(reserved[t]) = 1 THEN "freeavail" ELSE "freeload")
    /\ UNCHANGED <<state, time_table, history, op, key, num, index, count,
                   expected>>

\* _update_last_free_fragment, whether or not the bit was set.
FreeLast(t) ==
    /\ pc[t] = "freelast"
    /\ last_free_fragment' = Head(reserved[t])
    /\ reserved' = [reserved EXCEPT ![t] = Tail(@)]
    /\ Goto(t, IF Len(reserved[t]) = 1 THEN "freeavail" ELSE "freeload")
    /\ UNCHANGED <<state, fragment_avail, time_table, history, op, key, num,
                   index, count, expected>>

\* _update_fragment_avail(true, size); it throws where the sum overflows.
FreeAvail(t) ==
    /\ pc[t] = "freeavail"
    /\ IF fragment_avail + num[t] <= Capacity
         THEN fragment_avail' = fragment_avail + num[t]
         ELSE UNCHANGED fragment_avail
    /\ EndCall(t)
    /\ UNCHANGED <<state, last_free_fragment, time_table, history>>

-----------------------------------------------------------------------------
Acquire(t) == \/ StartScan(t) \/ ProbeTaken(t) \/ ProbeFree(t)
              \/ CasAcquire(t) \/ CasFail(t)
              \/ WriteEntry(t) \/ WriteEntryThrows(t)
              \/ Store(t) \/ StoreThrows(t)

Release(t) == FreeLoad(t) \/ FreeCas(t) \/ FreeLast(t) \/ FreeAvail(t)

CallReserve(t) == \/ \E k \in Keys, n \in Requests : ReserveFragments(t, k, n)
                  \/ \E n \in Requests : ReserveRefused(t, n)
                  \/ \E k \in Keys : WriteFragment(t, k)

CallFree(t) == \/ FreeOldest(t) \/ FreeOldestRefused(t)
               \/ \E k \in Keys : FreeWritten(t, k)

\* A region that is only filled: DiskCache up to the first eviction.
FillNext == \E t \in Threads : CallReserve(t) \/ Acquire(t)

Next == \E t \in Threads : \/ CallReserve(t) \/ Acquire(t)
                           \/ CallFree(t) \/ Release(t)

FillSpec == Init /\ [][FillNext]_vars

Spec == Init /\ [][Next]_vars
=============================================================================
