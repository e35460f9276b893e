------------------------------ MODULE JumpChains ------------------------------
(***************************************************************************)
(* FragmentTable.h: the jumps of an object, kept in a chain of entries of  *)
(* the jump table, each of JumpsPerEntry places; a jump of 0 ends an       *)
(* entry.  The calls of the jump table are steps here: what happens inside *)
(* is the business of the module JumpTable.                                *)
(***************************************************************************)
EXTENDS Integers, FiniteSets, SequencesExt

CONSTANTS
    JumpsPerEntry, \* 6 in the code
    CountSize,     \* of the number of entries of a chain: 2^16
    JumpCapacity   \* entries of the jump table; entry 0 stands for NULL

ASSUME ChainShape == JumpsPerEntry \in Nat \ {0} /\ JumpCapacity \in Nat \ {0} /\ CountSize \in Nat \ {0, 1}

VARIABLES
    taken,     \* entries whose bit is set
    lost,      \* entries counted as taken that no call was given
    last_free, \* where the search for free entries starts
    next_jump, \* the link of each entry
    jump_data  \* what the places of each entry hold

jumpVars == <<taken, lost, last_free, next_jump, jump_data>>

NULL_INDEX == 0

NullJumps == [i \in 1..JumpsPerEntry |-> 0]

JumpsInit ==
    /\ taken = {}
    /\ lost = 0
    /\ last_free = 1
    /\ next_jump = [e \in 1..(JumpCapacity - 1) |-> NULL_INDEX]
    /\ jump_data = [e \in 1..(JumpCapacity - 1) |-> NullJumps]

\* An entry more than needed when the last one is full.
ChainLength(jumps) == IF jumps = <<>> THEN 0 ELSE (Len(jumps) \div JumpsPerEntry + 1) % CountSize

entry_avail == JumpCapacity - 1 - Cardinality(taken) - lost

\* The entries that the scan of reserve_entries finds: it does not wrap.
Found(count) ==
    LET scan[e \in 0..(JumpCapacity - 1)] ==
            IF e = 0 THEN <<>>
            ELSE LET before == scan[e - 1] IN
                 IF e < last_free \/ e \in taken \/ Len(before) = count THEN before ELSE Append(before, e)
    IN  scan[JumpCapacity - 1]

\* The places of the nth entry of a chain; those that no jump reaches are cleared.
Block(jumps, n) ==
    [i \in 1..JumpsPerEntry |->
        LET j == (n - 1) * JumpsPerEntry + i IN IF j <= Len(jumps) THEN jumps[j] ELSE 0]

\* The entries that the loop of reserve_entry writes: it ends with the last jump.
Written(jumps) == (Len(jumps) + JumpsPerEntry - 1) \div JumpsPerEntry

\* reserve_entries, which links the chain, then the loop of reserve_entry.  An entry that the loop does
\* not get to keeps what it held.
StoreChain(jumps, chain) ==
    LET count == ChainLength(jumps)
        At(n, e) == n <= Len(chain) /\ chain[n] = e IN
    /\ taken' = taken \cup ToSet(chain)
    /\ lost' = lost + count - Len(chain)
    /\ last_free' = IF chain = <<>> THEN last_free
                    ELSE IF Len(chain) = count THEN Last(chain) + 1 ELSE JumpCapacity + 1
    /\ next_jump' = [e \in DOMAIN next_jump |->
                        IF e \notin ToSet(chain) THEN next_jump[e]
                        ELSE IF e = Last(chain) THEN NULL_INDEX
                        ELSE CHOOSE f \in ToSet(chain) : \E n \in DOMAIN chain : At(n, e) /\ At(n + 1, f)]
    /\ jump_data' = [e \in DOMAIN jump_data |->
                        IF \E n \in 1..Written(jumps) : At(n, e)
                        THEN Block(jumps, CHOOSE n \in 1..Written(jumps) : At(n, e))
                        ELSE jump_data[e]]

StoreJumps(jumps) == \E chain \in {Found(ChainLength(jumps))} : StoreChain(jumps, chain)

JumpHead(jumps) == IF jumps = <<>> THEN NULL_INDEX ELSE Head(Found(ChainLength(jumps)))

\* "Count must be non zero"; "No available free entries", before or after they are counted as taken.
JumpsRefused(jumps) == jumps # <<>> /\ (ChainLength(jumps) = 0 \/ ChainLength(jumps) > entry_avail)
NoJumpsAhead(jumps) == ChainLength(jumps) > 0 /\ Found(ChainLength(jumps)) = <<>>

\* The entries behind a head.
Chain(head) ==
    LET walk[n \in 0..JumpCapacity] ==
            IF n = 0 THEN head
            ELSE LET e == walk[n - 1] IN IF e = NULL_INDEX THEN NULL_INDEX ELSE next_jump[e]
    IN  [n \in {n \in 1..JumpCapacity : walk[n - 1] # NULL_INDEX} |-> walk[n - 1]]

\* free_entries: an entry that is free already is counted as given back all the same.
FreeJumps(head) ==
    /\ taken' = taken \ ToSet(Chain(head))
    /\ lost' = lost - Cardinality(ToSet(Chain(head)) \ taken)
    /\ last_free' = IF head = NULL_INDEX THEN last_free ELSE head
    /\ UNCHANGED <<next_jump, jump_data>>

-----------------------------------------------------------------------------

\* The jumps before the first 0 of an entry.
Filled(places) == [i \in {i \in 1..JumpsPerEntry : \A j \in 1..i : places[j] # 0} |-> places[i]]

get_jumps(head) ==
    LET chain == Chain(head)
        upto[n \in 0..Len(chain)] == IF n = 0 THEN <<>> ELSE upto[n - 1] \o Filled(jump_data[chain[n]])
    IN  upto[Len(chain)]

\* The sum of the first places of a chain.
Walked(head, count) ==
    LET chain == Chain(head)
        At(p) == jump_data[chain[((p - 1) \div JumpsPerEntry) + 1]][((p - 1) % JumpsPerEntry) + 1]
        sum[p \in 0..count] == IF p = 0 THEN 0 ELSE sum[p - 1] + At(p)
    IN  sum[count]

\* get_fragment_indices, and get_fragment_index, which for 0 returns the first entry of the chain.
get_fragment_indices(region_head, head) ==
    LET jumps == get_jumps(head)
        indices[i \in 1..(Len(jumps) + 1)] == IF i = 1 THEN region_head ELSE indices[i - 1] + jumps[i - 1]
    IN  indices

get_fragment_index(region_head, head, i) == IF i = 0 THEN head ELSE region_head + Walked(head, i)

==============================================================================
