------------------------------ MODULE DiskCache ------------------------------
(***************************************************************************)
(* DiskCache.h: store and fetch over the regions, one of each type, and    *)
(* the table.  A session belongs to one call of store; its handlers run    *)
(* when the downloader, which is external, emits init, data and end, and   *)
(* those of several sessions run at the same time.  Each call of a region, *)
(* a time table or the fragment table is one step: the modules Region,     *)
(* TimeTable and FragmentTable are about what happens inside.  Nothing     *)
(* here ever frees a fragment: `delta` in _free_fragments is the           *)
(* difference of two reads of a constant, so it returns before that.       *)
(* Numbers of fragments are computed with floats, as in the code.          *)
(* Each key has a head of the fragment table of its own (HeadsApart): a    *)
(* head is then free or holds its key, no tail is needed, and free_entry   *)
(* of a key that is absent does nothing.  What it does in a chain of       *)
(* several keys is in FragmentTable.                                       *)
(***************************************************************************)
EXTENDS JumpChains, TimeRing, Floats

CONSTANTS
    Sessions,
    Stores,        \* the resources that the sessions may be for: functions to [key, type, size]
    Types,         \* fragment types, ordered as numbers above FragmentDynamic
    FragmentSize,  \* type -> bytes of a fragment
    Header,        \* bytes of the header of a fragment
    Capacity,      \* type -> fragments of the region of that type
    MaxJump,       \* the largest distance of two fragments of an object
    head_capacity  \* heads of the fragment table

FragmentDynamic == 0

ASSUME CacheShape ==
    /\ Types \subseteq Nat \ {FragmentDynamic}
    /\ \A t \in Types : FragmentSize[t] \in Nat /\ FragmentSize[t] > Header /\ FragmentSize[t] < Precision
    /\ Capacity \in [Types -> Nat \ {0}]
    /\ Header \in Nat /\ MaxJump \in Nat \ {0}

\* A resource names a type that has a region, or leaves the choice to guess_type.
ASSUME StoresAssumption ==
    \A r \in Stores :
        /\ DOMAIN r = Sessions
        /\ \A s \in Sessions :
            /\ r[s].type \in Types \cup {FragmentDynamic} /\ r[s].size \in Nat
            /\ \E S \in Scales : 2 * r[s].size < S

VARIABLES
    state,      \* type -> the fragments whose bit is set
    avail,      \* type -> fragment_avail
    times,      \* type -> the time table: [first, last, slots]
    table,      \* key -> the object entry: [type, session]
    jump_head,  \* key -> jump_head of its entry, which outlives the object
    body,       \* type -> what each fragment of the file holds
    resource,   \* of a session
    pc,         \* where a session is
    type,       \* of session_ptr->region_ptr
    got,        \* jmp_indices
    victim,     \* local of _free_fragments: the key that free_oldest returned
    received,   \* the chunks a session has written: history
    evicted,    \* entries that free_entry took: history
    overtaken,  \* keys whose time entry was taken before they had an entry: history
    misfreed    \* jumps were given back by an entry that had kept the jump_head of another: history

regions == <<state, avail, times>>
entries == <<jumpVars, table, jump_head>>
vars == <<regions, entries, body, resource, pc, type, got, victim, received, evicted, overtaken, misfreed>>

NoKey == 0
Keys == UNION {{r[s].key : s \in Sessions} : r \in Stores}
Blank == <<>>

ASSUME HeadsApart == \A j, k \in Keys : j % head_capacity = k % head_capacity => j = k

Sizes == UNION {{r[s].size : s \in Sessions} : r \in Stores}

\* The fragments of an object, and the fragment a chunk goes to.
DataCapacity(t) == FragmentSize[t] - Header
fragments_num == [n \in Sizes |-> [t \in Types |-> Ceil(Quotient(n, DataCapacity(t)))]]
FragmentsNum(s) == fragments_num[resource[s].size][type[s]]
FragmentIndex(offset, t) == Ceil(Quotient(offset, DataCapacity(t)))

Init ==
    /\ state = [t \in Types |-> {}]
    /\ avail = Capacity
    /\ times = [t \in Types |-> [first |-> 0, last |-> 0, slots |-> [i \in 0..(Capacity[t] - 1) |-> NoKey]]]
    /\ JumpsInit
    /\ table = [k \in {} |-> Blank]
    /\ jump_head = [k \in Keys |-> NULL_INDEX]
    /\ body = [t \in Types |-> [i \in 0..Capacity[t] |-> Blank]]
    /\ resource \in Stores
    /\ pc = [s \in Sessions |-> "new"]
    /\ type = [s \in Sessions |-> FragmentDynamic]
    /\ got = [s \in Sessions |-> <<>>]
    /\ victim = [s \in Sessions |-> NoKey]
    /\ received = [s \in Sessions |-> {}]
    /\ evicted = 0
    /\ overtaken = {}
    /\ misfreed = FALSE

\* The process runs until one of its threads crashes.
Running == \A s \in Sessions : pc[s] # "crashed"

Goto(s, from, to) == Running /\ pc[s] = from /\ pc' = [pc EXCEPT ![s] = to]

-----------------------------------------------------------------------------
(* Session: its own listeners call the handlers that store registers       *)

\* The end of store.
Register(s) ==
    /\ Goto(s, "new", "stored")
    /\ UNCHANGED <<regions, entries, body, resource, type, got, victim, received, evicted, overtaken, misfreed>>

\* The downloader emits init before store has registered the handler: nothing happens, and no other
\* init comes.
InitUnheard(s) ==
    /\ Goto(s, "new", "unheard")
    /\ UNCHANGED <<regions, entries, body, resource, type, got, victim, received, evicted, overtaken, misfreed>>

-----------------------------------------------------------------------------
(* init: query_region                                                      *)

Acquired(t, size) == Ceil(Quotient(size, FragmentSize[t]))
Left(t, size) == avail[t] - Acquired(t, size)
LastFill(t, size) == size % FragmentSize[t]

Product(t, size) ==
    LET percent == Quotient(LastFill(t, size), FragmentSize[t]) IN
    Rounded(Float(Left(t, size)) * percent[1], percent[2])

Better(t, u, size) == Product(t, size)[1] * Product(u, size)[2] > Product(u, size)[1] * Product(t, size)[2]

\* guess_type: the first of the types that maximize the product, which must be positive.
GuessType(size) ==
    LET fits == {t \in Types : Left(t, size) > 0 /\ LastFill(t, size) > 0} IN
    {t \in fits : \A u \in fits : ~Better(u, t, size) /\ (u < t => Better(t, u, size))}

\* The type of the resource, or a guess.
Chosen(s) ==
    IF resource[s].type = FragmentDynamic THEN GuessType(resource[s].size) ELSE {resource[s].type}

QueryRegion(s) ==
    /\ Goto(s, "stored", "debit")
    /\ \E t \in Chosen(s) : type' = [type EXCEPT ![s] = t]
    /\ UNCHANGED <<regions, entries, body, resource, got, victim, received, evicted, overtaken, misfreed>>

NoSuitableType(s) ==
    /\ Goto(s, "stored", "cancelled")
    /\ Chosen(s) = {}
    /\ UNCHANGED <<regions, entries, body, resource, type, got, victim, received, evicted, overtaken, misfreed>>

-----------------------------------------------------------------------------
(* init: reserve_fragments, get_jumps, reserve_entry                       *)

Debit(s) ==
    LET t == type[s] IN
    /\ Goto(s, "debit", "acquire")
    /\ avail[t] >= FragmentsNum(s)
    /\ avail' = [avail EXCEPT ![t] = @ - FragmentsNum(s)]
    /\ got' = [got EXCEPT ![s] = <<>>]
    /\ UNCHANGED <<state, times, entries, body, resource, type, victim, received, evicted, overtaken, misfreed>>

NotAvailable(s) ==
    /\ Goto(s, "debit", "free")
    /\ avail[type[s]] < FragmentsNum(s)
    /\ UNCHANGED <<regions, entries, body, resource, type, got, victim, received, evicted, overtaken, misfreed>>

LowestFree(t) == CHOOSE i \in 0..(Capacity[t] - 1) : i \notin state[t] /\ \A j \in 0..(i - 1) : j \in state[t]

\* While no fragment is freed, the scan finds the lowest free one (Region, NoGapBehindScan).
Acquire(s) ==
    /\ Running /\ pc[s] = "acquire" /\ Len(got[s]) < FragmentsNum(s)
    /\ state' = [state EXCEPT ![type[s]] = @ \cup {LowestFree(type[s])}]
    /\ got' = [got EXCEPT ![s] = Append(@, LowestFree(type[s]))]
    /\ UNCHANGED <<avail, times, entries, body, resource, pc, type, victim, received, evicted, overtaken, misfreed>>

\* Mutant: the time entry is not written.
WriteNoTime(s) ==
    /\ Goto(s, "acquire", "enter")
    /\ Len(got[s]) = FragmentsNum(s)
    /\ UNCHANGED <<regions, entries, body, resource, type, got, victim, received, evicted, overtaken, misfreed>>

WriteTime(s) ==
    LET t == type[s] IN
    /\ Goto(s, "acquire", "enter")
    /\ Len(got[s]) = FragmentsNum(s)
    /\ ~IsFull(times[t].first, times[t].last, Capacity[t])
    /\ times' = [times EXCEPT ![t].slots[times[t].last] = resource[s].key,
                              ![t].last = NextSlot(@, Capacity[t])]
    /\ UNCHANGED <<state, avail, entries, body, resource, type, got, victim, received, evicted, overtaken, misfreed>>

TimesFull(s) ==
    LET t == type[s] IN
    /\ Goto(s, "acquire", "free")
    /\ Len(got[s]) = FragmentsNum(s)
    /\ IsFull(times[t].first, times[t].last, Capacity[t])
    /\ UNCHANGED <<regions, entries, body, resource, type, got, victim, received, evicted, overtaken, misfreed>>

\* Mutant: the first jump is left out.
JumpsFromSecond(indices, t) ==
    [i \in 1..(Len(indices) - 2) |-> indices[i + 2] - indices[i + 1]]

Jumps(indices, t) ==
    [i \in 1..(Len(indices) - 1) |->
        IF indices[i + 1] > indices[i] THEN indices[i + 1] - indices[i]
        ELSE Capacity[t] - (indices[i] - indices[i + 1])]

TooFar(s) == \E i \in DOMAIN Jumps(got[s], type[s]) : Jumps(got[s], type[s])[i] > MaxJump

HasPlace(s) == ~TooFar(s) /\ resource[s].key \notin DOMAIN table
HasJumps(jumps) == ~JumpsRefused(jumps) /\ ~NoJumpsAhead(jumps)

Entered(s) ==
    table' = [k \in DOMAIN table \cup {resource[s].key} |->
                IF k = resource[s].key THEN [type |-> type[s], session |-> s] ELSE table[k]]

\* reserve_entries has reserved fewer entries than the loop of reserve_entry writes.
TooShort(jumps) == Len(Found(ChainLength(jumps))) < Written(jumps)

\* jump_head is written only for an object with jumps.
Enter(s) ==
    LET jumps == Jumps(got[s], type[s]) IN
    /\ Goto(s, "enter", "started")
    /\ HasPlace(s) /\ HasJumps(jumps) /\ ~TooShort(jumps)
    /\ StoreJumps(jumps)
    /\ Entered(s)
    /\ jump_head' = IF jumps = <<>> THEN jump_head ELSE [jump_head EXCEPT ![resource[s].key] = JumpHead(jumps)]
    /\ UNCHANGED <<regions, body, resource, type, got, victim, received, evicted, overtaken, misfreed>>

\* reserve_entry throws after it has taken the entry, which stays, with the jump_head it had.
EnterHalf(s) ==
    LET jumps == Jumps(got[s], type[s]) IN
    /\ Goto(s, "enter", "free")
    /\ HasPlace(s) /\ ~HasJumps(jumps)
    /\ lost' = IF JumpsRefused(jumps) THEN lost ELSE lost + ChainLength(jumps)
    /\ Entered(s)
    /\ UNCHANGED <<taken, last_free, next_jump, jump_data, jump_head>>
    /\ UNCHANGED <<regions, body, resource, type, got, victim, received, evicted, overtaken, misfreed>>

\* The loop runs off the chain, a null dereference: the process ends.
EnterCrashes(s) ==
    LET jumps == Jumps(got[s], type[s]) IN
    /\ Goto(s, "enter", "crashed")
    /\ HasPlace(s) /\ HasJumps(jumps) /\ TooShort(jumps)
    /\ UNCHANGED <<regions, entries, body, resource, type, got, victim, received, evicted, overtaken, misfreed>>

\* get_jumps throws, or the key is known.
EnterRefused(s) ==
    /\ Goto(s, "enter", "free")
    /\ ~HasPlace(s)
    /\ UNCHANGED <<regions, entries, body, resource, type, got, victim, received, evicted, overtaken, misfreed>>

-----------------------------------------------------------------------------
(* init: _free_fragments                                                   *)

\* Mutant: the number of fragments to free is found to be at least 0.
FreeAlways(s) ==
    /\ Goto(s, "free", "debit")
    /\ UNCHANGED <<regions, entries, body, resource, type, got, victim, received, evicted, overtaken, misfreed>>

\* Nothing to free is a success, and reserve_fragments is tried again.
FreeNone(s) ==
    /\ Goto(s, "free", "debit")
    /\ FragmentsNum(s) = 0
    /\ UNCHANGED <<regions, entries, body, resource, type, got, victim, received, evicted, overtaken, misfreed>>

NothingOldest(s) ==
    LET t == type[s] IN
    /\ Goto(s, "free", "cancelled")
    /\ FragmentsNum(s) > 0 /\ FreeRefused(times[t].first, times[t].last, Capacity[t])
    /\ UNCHANGED <<regions, entries, body, resource, type, got, victim, received, evicted, overtaken, misfreed>>

FreeOldest(s) ==
    LET t == type[s]
        oldest == times[t].slots[times[t].first] IN
    /\ Goto(s, "free", "evict")
    /\ FragmentsNum(s) > 0 /\ ~FreeRefused(times[t].first, times[t].last, Capacity[t])
    /\ victim' = [victim EXCEPT ![s] = oldest]
    /\ times' = [times EXCEPT ![t].first = NextSlot(@, Capacity[t])]
    /\ overtaken' = overtaken \cup
        {k \in {oldest} : \E r \in Sessions : resource[r].key = k /\ pc[r] = "enter"}
    /\ UNCHANGED <<state, avail, entries, body, resource, type, got, received, evicted, misfreed>>

\* free_entry of the fragment table: jump_head stays.
Freed(key) ==
    /\ table' = [k \in DOMAIN table \ {key} |-> table[k]]
    /\ FreeJumps(IF key \in DOMAIN table THEN jump_head[key] ELSE NULL_INDEX)
    /\ UNCHANGED jump_head

\* The entry has the jumps of its session, not a jump_head that was there before.
OwnJumps(k) == pc[table[k].session] \in {"started", "ended"} /\ Len(got[table[k].session]) > 1

\* free_entry, whether it knows the key or not, and `delta`, which is 0: the session is cancelled.
Evict(s) ==
    /\ Goto(s, "evict", "cancelled")
    /\ Freed(victim[s])
    /\ evicted' = evicted + Cardinality(DOMAIN table \cap {victim[s]})
    /\ misfreed' = (misfreed \/ \E k \in DOMAIN table \cap {victim[s]} : jump_head[k] # NULL_INDEX /\ ~OwnJumps(k))
    /\ UNCHANGED <<regions, body, resource, type, got, victim, received, overtaken>>

Decide(s) ==
    \/ Debit(s) \/ NotAvailable(s) \/ Acquire(s) \/ WriteTime(s) \/ TimesFull(s)
    \/ Enter(s) \/ EnterHalf(s) \/ EnterCrashes(s) \/ EnterRefused(s)
    \/ FreeNone(s) \/ NothingOldest(s) \/ FreeOldest(s) \/ Evict(s)

InitStep(s) == QueryRegion(s) \/ NoSuitableType(s) \/ Decide(s)

-----------------------------------------------------------------------------
(* data and end                                                            *)

\* The chunks that the downloader sends, each of which fills a fragment, and the last what is left.
Chunks(s) == 0..(CeilDiv(resource[s].size, DataCapacity(type[s])) - 1)

\* Mutant: the chunk goes to the fragment after the one it should.
DataAfter(s) ==
    /\ Running /\ pc[s] = "started"
    /\ \E c \in Chunks(s) :
        LET t == type[s]
            index == FragmentIndex(c * DataCapacity(t) + 1, t) IN
        /\ index <= Capacity[t]
        /\ body' = [body EXCEPT ![t][index] = <<s, c>>]
        /\ received' = [received EXCEPT ![s] = @ \cup {c}]
    /\ UNCHANGED <<regions, entries, resource, pc, type, got, victim, evicted, overtaken, misfreed>>

\* A chunk is written at its place in the object, not at the place that was reserved for it.  One that
\* write_fragment refuses is lost: it lets an index pass that is behind the last by one.
Data(s) ==
    /\ Running /\ pc[s] = "started"
    /\ \E c \in Chunks(s) :
        LET t == type[s]
            index == FragmentIndex(c * DataCapacity(t), t) IN
        /\ index <= Capacity[t]
        /\ body' = [body EXCEPT ![t][index] = <<s, c>>]
        /\ received' = [received EXCEPT ![s] = @ \cup {c}]
    /\ UNCHANGED <<regions, entries, resource, pc, type, got, victim, evicted, overtaken, misfreed>>

\* The downloader emits end, or a failed write cancels the session: no chunk follows.
End(s) ==
    /\ Goto(s, "started", "ended")
    /\ UNCHANGED <<regions, entries, body, resource, type, got, victim, received, evicted, overtaken, misfreed>>

Next == \E s \in Sessions : Register(s) \/ InitUnheard(s) \/ InitStep(s) \/ Data(s) \/ End(s)

\* The downloader may never emit init; the thread that has emitted it runs the loop of the handler.
Spec == Init /\ [][Next]_vars /\ \A s \in Sessions : WF_vars(Decide(s))

-----------------------------------------------------------------------------
(* fetch                                                                   *)

\* get_fragment_indices, with the region_head that store has given: 0.
Indices(k) == get_fragment_indices(0, jump_head[k])

ReadFragment(t, index) == body[t][index]
Readable(k) == \A i \in ToSet(Indices(k)) : i <= Capacity[table[k].type]

Fetch(k) == [i \in DOMAIN Indices(k) |-> ReadFragment(table[k].type, Indices(k)[i])]

\* The fetch of a range of bytes: the fragments it returns, none when it throws "Invalid range".
FetchRange(k, from, to) ==
    LET from_index == Floor(Quotient(from, DataCapacity(table[k].type)))
        to_index == Ceil(Quotient(to, DataCapacity(table[k].type))) IN
    IF from_index >= Len(Indices(k)) \/ to_index >= Len(Indices(k)) THEN <<>>
    ELSE SubSeq(Fetch(k), from_index + 1, to_index + 1)

-----------------------------------------------------------------------------
(* Properties                                                              *)

\* DiskCache.h:211-220, Region::get_jumps, FragmentTable::get_fragment_indices: the entry of a session
\* that was started describes the fragments it reserved, moved down by the first of them, and no other
\* session holds them.  It lists more fragments only after an eviction: those of the jumps that the last
\* entry of its chain still held, or, for an object without jumps, of the object that had its entry.
\* It holds until an eviction gives such foreign jumps back: others may have taken them meanwhile.
EntryFollowsReservation ==
    \A k \in DOMAIN table :
        LET s == table[k].session
            indices == Indices(k) IN
        ~misfreed /\ pc[s] \in {"started", "ended"} /\ got[s] # <<>> =>
            /\ Len(indices) >= Len(got[s])
            /\ Len(indices) > Len(got[s]) => (Len(got[s]) - 1) % JumpsPerEntry = 0 /\ evicted > 0
            /\ \A i \in DOMAIN got[s] :
                /\ got[s][i] = indices[i] + got[s][1]
                /\ i > 1 => get_fragment_index(0, jump_head[k], i - 1) = indices[i]
            /\ \A r \in Sessions \ {s} : type[r] = type[s] => ToSet(got[r]) \cap ToSet(got[s]) = {}

Complete(s) == pc[s] = "ended" /\ Chunks(s) # {} /\ received[s] = Chunks(s)
Stored(s) == [i \in 1..Cardinality(Chunks(s)) |-> <<s, i - 1>>]

\* The fragments of the object that hold the bytes of a range, and the next one if `to` is not the first
\* byte of its fragment; "Invalid range" if there is no next one.
Ranged(s, from, to) ==
    LET D == DataCapacity(type[s])
        last == IF to % D = 0 THEN to \div D ELSE to \div D + 1 IN
    IF last < Len(Stored(s)) THEN SubSeq(Stored(s), from \div D + 1, last + 1) ELSE <<>>

\* DiskCache.h:239-266, 288-347: an object smaller than Precision bytes (16 MB) whose fragments are the
\* first of the region, without a gap, is fetched as it was received, as long as no other session writes
\* to that region.  A range of it is fetched with a fragment more than the "minimum list" of
\* DiskCache.h:75, unless it ends with the first byte of a fragment, and refused when it ends behind the
\* first byte of the last fragment.
FetchFirst ==
    \A k \in DOMAIN table : LET s == table[k].session IN
        /\ ~misfreed /\ Complete(s) /\ resource[s].size < Precision /\ Len(Indices(k)) = Len(got[s])
        /\ \A i \in 1..Len(got[s]) : got[s][i] = i - 1
        /\ \A r \in Sessions \ {s} : type[r] = type[s] => received[r] = {}
        => /\ Fetch(k) = Stored(s)
           /\ \A from, to \in 0..(resource[s].size - 1) :
                from <= to => FetchRange(k, from, to) = Ranged(s, from, to)

\* DiskCache.h:80-85 "Get all fragments of a resource": every object is fetched as it was received.
\* It does not hold: all objects of a region are written from its first fragment on.
FetchStored ==
    \A k \in DOMAIN table :
        Complete(table[k].session) => Readable(k) /\ Fetch(k) = Stored(table[k].session)

\* The keys of the live entries of the time table.
Listed(t) == {times[t].slots[i] : i \in ToSet(Live(times[t].first, times[t].last, Capacity[t]))}

\* DiskCache.h:112-149, 212-215: an object can be evicted: its key is in the time table, or has just been
\* taken from it, unless another session took it between the reservation and the entry.
Evictable ==
    \A k \in DOMAIN table :
        k \in Listed(table[k].type) \cup {victim[s] : s \in {s \in Sessions : pc[s] = "evict"}} \cup overtaken

\* DiskCache.h:204-231: the loop of the init handler ends, with start or cancel, for every object that
\* needs a fragment, unless the process ends before.
StoreDecides ==
    \A s \in Sessions :
        [](pc[s] \in {"debit", "acquire", "enter", "free", "evict"} /\ FragmentsNum(s) > 0
            => <>(pc[s] \in {"started", "cancelled"} \/ ~Running))

==============================================================================
