----------------------------- MODULE JumpTable -----------------------------
(***************************************************************************)
(* The pool of chained entries in which a fragment table keeps the jumps   *)
(* of its objects (src/src/JumpTable.h), used by several threads.  Each    *)
(* load and each compare-and-swap of a shared word is a step; a loop       *)
(* "load, compute, compare-and-swap, retry" on one word that has no other  *)
(* effect is one step.                                                     *)
(*                                                                         *)
(* The caller's record of the chains it was given (the heads kept in the   *)
(* fragment table) is the history variable `chains`.                       *)
(***************************************************************************)
EXTENDS Integers, Sequences, FiniteSets

CONSTANTS Threads,
          Objects,      \* the owners of chains
          NoObject,     \* what a thread outside any call works for
          Capacity,     \* entry_capacity; entry 0 stands for NULL
          BucketBits,   \* entries whose bits share one atomic byte (8)
          Word,         \* entry_avail counts modulo this (2^32)
          Counts,       \* values of count
          MaxFrees      \* bound: calls of free_entries in a run

ASSUME JumpCapacityAssumption == Capacity \in Nat \ {0}
ASSUME JumpBucketAssumption == BucketBits \in Nat \ {0}
ASSUME JumpWordAssumption == Word \in Nat /\ Word > Capacity
ASSUME CountsAssumption == Counts \subseteq Nat \ {0}
ASSUME MaxFreesAssumption == MaxFrees \in Nat
ASSUME NoObjectAssumption == NoObject \notin Objects

VARIABLES
    state,            \* the bits set: entries taken
    entry_avail,      \* free entries not yet promised to a call
    last_free_entry,  \* where a scan starts
    next,             \* the link of each entry
    chains,           \* history: the entries given to each object
    short,            \* history: objects given fewer entries than they asked
    lost,             \* history: entries promised, never found (as a Word)
    frees,            \* history: how many chains were freed
    clobbered,        \* history: a free changed a bit not its own
    pc, owner, count, index, expected, entries, next_index, min_index
                      \* locals of each thread

table   == <<state, entry_avail, last_free_entry, next>>
history == <<chains, short, lost, frees, clobbered>>
locals  == <<pc, owner, count, index, expected, entries, next_index, min_index>>
vars    == <<table, history, locals>>

NULL_INDEX == 0
Entries == 1 .. Capacity - 1
Bits    == 0 .. Capacity + BucketBits - 1

\* The bits that share the atomic byte of bit i, and that byte as the set of
\* its bits that are set.
Bucket(i) == {b \in Bits : b \div BucketBits = i \div BucketBits}
Load(i)   == state \cap Bucket(i)

Init ==
    /\ state = {}
    /\ entry_avail = Capacity - 1
    /\ last_free_entry = 1
    /\ next = [e \in Entries |-> NULL_INDEX]
    /\ chains = [o \in Objects |-> <<>>]
    /\ short = {}
    /\ lost = 0
    /\ frees = 0
    /\ clobbered = FALSE
    /\ pc = [t \in Threads |-> "idle"]
    /\ owner = [t \in Threads |-> NoObject]
    /\ count = [t \in Threads |-> 0]
    /\ index = [t \in Threads |-> 0]
    /\ expected = [t \in Threads |-> {}]
    /\ entries = [t \in Threads |-> <<>>]
    /\ next_index = [t \in Threads |-> NULL_INDEX]
    /\ min_index = [t \in Threads |-> 0]

Goto(t, label) == pc' = [pc EXCEPT ![t] = label]

\* The call returns or throws; its locals are gone.
EndCall(t) ==
    /\ Goto(t, "idle")
    /\ owner' = [owner EXCEPT ![t] = NoObject]
    /\ count' = [count EXCEPT ![t] = 0]
    /\ index' = [index EXCEPT ![t] = 0]
    /\ expected' = [expected EXCEPT ![t] = {}]
    /\ entries' = [entries EXCEPT ![t] = <<>>]
    /\ next_index' = [next_index EXCEPT ![t] = NULL_INDEX]
    /\ min_index' = [min_index EXCEPT ![t] = 0]

-----------------------------------------------------------------------------
(* reserve_entries(n): the check of the counter, then the counter ... *)

ReserveEntries(t, o, n) ==
    /\ pc[t] = "idle"
    /\ chains[o] = <<>>
    /\ \A u \in Threads : owner[u] # o
    /\ entry_avail >= n
    /\ owner' = [owner EXCEPT ![t] = o]
    /\ count' = [count EXCEPT ![t] = n]
    /\ Goto(t, "claim")
    /\ UNCHANGED <<table, history, index, expected, entries, next_index,
                   min_index>>

\* "No available free entries"
ReserveRefused(t, n) ==
    /\ pc[t] = "idle"
    /\ entry_avail < n
    /\ UNCHANGED vars

\* _update_entry_avail(count, false) looks at the counter no more.
Claim(t) ==
    /\ pc[t] = "claim"
    /\ entry_avail' = (entry_avail - count[t]) % Word
    /\ Goto(t, "start")
    /\ UNCHANGED <<state, last_free_entry, next, history, owner, count, index,
                   expected, entries, next_index, min_index>>

(* ... then one scan of the bitmap, to its end and not around it ... *)

\* Mutant: the scan starts one entry behind the hint.
StartScanLate(t) ==
    /\ pc[t] = "start"
    /\ index' = [index EXCEPT ![t] = last_free_entry + 1]
    /\ Goto(t, "probe")
    /\ UNCHANGED <<table, history, owner, count, expected, entries,
                   next_index, min_index>>

StartScan(t) ==
    /\ pc[t] = "start"
    /\ index' = [index EXCEPT ![t] = last_free_entry]
    /\ Goto(t, "probe")
    /\ UNCHANGED <<table, history, owner, count, expected, entries,
                   next_index, min_index>>

ProbeTaken(t) ==
    /\ pc[t] = "probe"
    /\ index[t] < Capacity
    /\ index[t] \in state
    /\ index' = [index EXCEPT ![t] = @ + 1]
    /\ UNCHANGED <<table, history, pc, owner, count, expected, entries,
                   next_index, min_index>>

ProbeFree(t) ==
    /\ pc[t] = "probe"
    /\ index[t] < Capacity
    /\ index[t] \notin state
    /\ expected' = [expected EXCEPT ![t] = Load(index[t])]
    /\ Goto(t, "cas")
    /\ UNCHANGED <<table, history, owner, count, index, entries, next_index,
                   min_index>>

\* Entry index[t] joins the call; `index` stays on the last one.
Take(t) ==
    /\ state' = state \cup {index[t]}
    /\ expected' = [expected EXCEPT ![t] = {}]
    /\ entries' = [entries EXCEPT ![t] = Append(@, index[t])]
    /\ count' = [count EXCEPT ![t] = @ - 1]
    /\ IF count[t] = 1
         THEN Goto(t, "hint") /\ UNCHANGED index
         ELSE Goto(t, "probe") /\ index' = [index EXCEPT ![t] = @ + 1]
    /\ UNCHANGED <<entry_avail, last_free_entry, next, history, owner,
                   next_index, min_index>>

\* Mutant: the byte is not compared.
TakeAnyway(t) == pc[t] = "cas" /\ Take(t)

CasAcquire(t) ==
    /\ pc[t] = "cas"
    /\ Load(index[t]) = expected[t]
    /\ Take(t)

\* "we have concurrent modifications": the entry is skipped.
CasFail(t) ==
    /\ pc[t] = "cas"
    /\ Load(index[t]) # expected[t]
    /\ expected' = [expected EXCEPT ![t] = {}]
    /\ index' = [index EXCEPT ![t] = @ + 1]
    /\ Goto(t, "probe")
    /\ UNCHANGED <<table, history, owner, count, entries, next_index,
                   min_index>>

\* The scan found nothing: the call throws and keeps what it claimed.
ScanThrows(t) ==
    /\ pc[t] = "probe"
    /\ index[t] >= Capacity
    /\ entries[t] = <<>>
    /\ lost' = (lost + count[t]) % Word
    /\ EndCall(t)
    /\ UNCHANGED <<table, chains, short, frees, clobbered>>

\* It found less than `count`: the call goes on as if that were enough.
ScanShort(t) ==
    /\ pc[t] = "probe"
    /\ index[t] >= Capacity
    /\ entries[t] # <<>>
    /\ lost' = (lost + count[t]) % Word
    /\ short' = short \cup {owner[t]}
    /\ Goto(t, "hint")
    /\ UNCHANGED <<table, chains, frees, clobbered, owner, count, index,
                   expected, entries, next_index, min_index>>

(* ... and last the hint, and the links of entries no other call can reach. *)

\* Mutant: the hint moves past an entry nobody looked at.
UpdateHintLate(t) ==
    /\ pc[t] = "hint"
    /\ last_free_entry' = index[t] + 2
    /\ Goto(t, "chain")
    /\ UNCHANGED <<state, entry_avail, next, history, owner, count, index,
                   expected, entries, next_index, min_index>>

UpdateHint(t) ==
    /\ pc[t] = "hint"
    /\ last_free_entry' = index[t] + 1
    /\ Goto(t, "chain")
    /\ UNCHANGED <<state, entry_avail, next, history, owner, count, index,
                   expected, entries, next_index, min_index>>

\* Mutant: the last entry keeps the link of the chain it was in before.
LinkedOpen(c) ==
    [e \in Entries |->
       IF \E n \in DOMAIN c : c[n] = e /\ n < Len(c)
         THEN LET n == CHOOSE n \in DOMAIN c : c[n] = e
              IN  c[n + 1]
         ELSE next[e]]

\* The link of entry e in chain c; an entry outside it keeps its link.
Linked(c) ==
    [e \in Entries |->
       IF \E n \in DOMAIN c : c[n] = e
         THEN LET n == CHOOSE n \in DOMAIN c : c[n] = e
              IN  IF n = Len(c) THEN NULL_INDEX ELSE c[n + 1]
         ELSE next[e]]

ChainEntries(t) ==
    /\ pc[t] = "chain"
    /\ next' = Linked(entries[t])
    /\ chains' = [chains EXCEPT ![owner[t]] = entries[t]]
    /\ EndCall(t)
    /\ UNCHANGED <<state, entry_avail, last_free_entry, short, lost, frees,
                   clobbered>>

-----------------------------------------------------------------------------
(* free_entries(head): each entry in turn, following the links *)

FreeEntries(t, o) ==
    /\ pc[t] = "idle"
    /\ chains[o] # <<>>
    /\ frees < MaxFrees
    /\ index' = [index EXCEPT ![t] = Head(chains[o])]
    /\ min_index' = [min_index EXCEPT ![t] = Head(chains[o])]
    /\ owner' = [owner EXCEPT ![t] = o]
    /\ entries' = [entries EXCEPT ![t] = chains[o]]
    /\ chains' = [chains EXCEPT ![o] = <<>>]
    /\ short' = short \ {o}
    /\ frees' = frees + 1
    /\ Goto(t, "next")
    /\ UNCHANGED <<table, lost, clobbered, count, expected, next_index>>

\* The link is read before the entry is free for others to take.
ReadNext(t) ==
    /\ pc[t] = "next"
    /\ next_index' = [next_index EXCEPT ![t] = next[index[t]]]
    /\ min_index' = [min_index EXCEPT
                       ![t] = IF @ > index[t] THEN index[t] ELSE @]
    /\ Goto(t, "freeload")
    /\ UNCHANGED <<table, history, owner, count, index, expected, entries>>

FreeLoad(t) ==
    /\ pc[t] = "freeload"
    /\ IF index[t] \in state
         THEN /\ expected' = [expected EXCEPT ![t] = Load(index[t])]
              /\ Goto(t, "freecas")
         ELSE Goto(t, "freelast") /\ UNCHANGED expected
    /\ UNCHANGED <<table, history, owner, count, index, entries, next_index,
                   min_index>>

\* `desired` is never initialised: of the byte stored only bit i is known.
FreeStore(i) ==
    \E byte \in SUBSET (Bucket(i) \ {i}) :
      /\ state' = (state \ Bucket(i)) \cup byte
      /\ clobbered' = (clobbered \/ byte # Load(i) \ {i})

FreeCas(t) ==
    /\ pc[t] = "freecas"
    /\ IF Load(index[t]) = expected[t]
         THEN FreeStore(index[t]) /\ Goto(t, "freelast")
         ELSE Goto(t, "freeload") /\ UNCHANGED <<state, clobbered>>
    /\ expected' = [expected EXCEPT ![t] = {}]
    /\ UNCHANGED <<entry_avail, last_free_entry, next, chains, short, lost,
                   frees, owner, count, index, entries, next_index, min_index>>

FreeLast(t) ==
    /\ pc[t] = "freelast"
    /\ last_free_entry' = index[t]
    /\ Goto(t, "freeavail")
    /\ UNCHANGED <<state, entry_avail, next, history, owner, count, index,
                   expected, entries, next_index, min_index>>

\* The counter grows although the entry may have been free already.
FreeAvail(t) ==
    /\ pc[t] = "freeavail"
    /\ entry_avail' = (entry_avail + 1) % Word
    /\ index' = [index EXCEPT ![t] = next_index[t]]
    /\ entries' = [entries EXCEPT ![t] = IF @ = <<>> THEN @ ELSE Tail(@)]
    /\ Goto(t, IF next_index[t] = NULL_INDEX THEN "freemin" ELSE "next")
    /\ UNCHANGED <<state, last_free_entry, next, history, owner, count,
                   expected, next_index, min_index>>

FreeMin(t) ==
    /\ pc[t] = "freemin"
    /\ last_free_entry' = min_index[t]
    /\ EndCall(t)
    /\ UNCHANGED <<state, entry_avail, next, history>>

-----------------------------------------------------------------------------
Reserve(t) == \/ \E o \in Objects, n \in Counts : ReserveEntries(t, o, n)
              \/ \E n \in Counts : ReserveRefused(t, n)
              \/ Claim(t) \/ StartScan(t) \/ ProbeTaken(t) \/ ProbeFree(t)
              \/ CasAcquire(t) \/ CasFail(t) \/ ScanThrows(t) \/ ScanShort(t)
              \/ UpdateHint(t) \/ ChainEntries(t)

Free(t) == \/ \E o \in Objects : FreeEntries(t, o)
           \/ ReadNext(t) \/ FreeLoad(t) \/ FreeCas(t) \/ FreeLast(t)
           \/ FreeAvail(t) \/ FreeMin(t)

Next == \E t \in Threads : Reserve(t) \/ Free(t)

Spec == Init /\ [][Next]_vars
=============================================================================
