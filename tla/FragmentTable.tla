--------------------------- MODULE FragmentTable ---------------------------
(***************************************************************************)
(* The index of the cache (src/src/FragmentTable.h, FragmentEntry.h): a    *)
(* hash table whose heads start chains of tails.  Tails that no chain uses *)
(* form a list, the pool, from tail_first to tail_last.  Each load and     *)
(* each compare-and-swap of a shared word is a step; a loop "load,         *)
(* compute, compare-and-swap, retry" on one word is one step.              *)
(*                                                                         *)
(* The jump table is seen from outside: whole chains, taken and freed in   *)
(* one step (JumpTable.tla has the inside).                                *)
(***************************************************************************)
EXTENDS Integers, FiniteSets

CONSTANTS Threads,
          Keys,            \* the 64-bit hashes in use, here small numbers
          HeadCapacity,    \* head_capacity
          TailCapacity,    \* tail_capacity; tail 0 stands for NULL
          TagShift,        \* the tag of a key is key * TagShift (2^5) ...
          TagWord,         \* ... cut to an uint16_t (2^16)
          JumpChains,      \* chains the jump table has room for
          KindOf,          \* of the entry of a key: see Kinds
          OneCallPerChain, \* callers keep calls on one chain apart
          FreeReserved,    \* callers free only keys that are reserved
          MaxReserves, MaxFrees   \* bounds: calls in a run

ASSUME HeadCapacityAssumption == HeadCapacity \in Nat \ {0}
ASSUME TailCapacityAssumption == TailCapacity \in Nat /\ TailCapacity >= 2
ASSUME KeysAssumption == Keys \subseteq Nat
ASSUME TagAssumption == TagShift \in Nat \ {0} /\ TagWord \in Nat \ {0}
ASSUME JumpChainsAssumption == JumpChains \in Nat
ASSUME CallerAssumption == {OneCallPerChain, FreeReserved} \subseteq BOOLEAN
ASSUME CallsAssumption == MaxReserves \in Nat /\ MaxFrees \in Nat

\* An object in several fragments has jumps, an object in one has none; the
\* entry of a name refers to an object.
Kinds == {"chained", "plain", "name"}
ASSUME KindsAssumption == KindOf \in [Keys -> Kinds]

VARIABLES
    entry,          \* the fields of each entry; type and tag are one word
    tail_first, tail_last, tail_avail,  \* the pool
    jumps,          \* the jump chains that are free
    slot,           \* history: where the entry of each key is, or None
    ghosts,         \* history: keys whose reserve threw and left an entry
    faults,         \* history: what went wrong so far, see Faults
    reserves, frees,\* history: the calls so far
    call            \* the locals of each thread

pool    == <<tail_first, tail_last, tail_avail>>
table   == <<entry, pool, jumps>>
history == <<slot, ghosts, faults, reserves, frees>>
vars    == <<table, history, call>>

NULL_INDEX == 0
Heads   == {<<"head", h>> : h \in 0 .. HeadCapacity - 1}
Tail(i) == <<"tail", i>>
Tails   == {Tail(i) : i \in 1 .. TailCapacity - 1}
Slots   == Heads \cup Tails
None    == <<"none", 0>>
Faults  == {"exhausted",   \* tail_first became NULL
            "aba",         \* tail_first had its value again, not its link
            "overflow",    \* a tail was taken while tail_avail was 0
            "orphaned",    \* a freed head was reserved in front of a chain
            "twice",       \* a key was appended behind its own entry
            "stale",       \* an entry kept the jumps of an earlier one
            "crashed"}     \* a null pointer was dereferenced

HeadOf(k) == <<"head", k % HeadCapacity>>
TagOf(k)  == (k * TagShift) % TagWord

Idle == [pc |-> "idle", key |-> 0, at |-> None,
         prev |-> None, tail |-> NULL_INDEX, loaded |-> FALSE,
         word |-> <<"free", 0>>, seen |-> NULL_INDEX, want |-> NULL_INDEX]

NextTail(i) == IF i < TailCapacity - 1 THEN i + 1 ELSE NULL_INDEX

\* clear(): tails 1, 2, ... are chained in this order.
Init ==
    /\ entry = [e \in Slots |->
                 [type |-> "free", tag |-> 0, jump_head |-> NULL_INDEX,
                  next |-> IF e \in Tails THEN NextTail(e[2]) ELSE NULL_INDEX]]
    /\ tail_first = 1
    /\ tail_last = TailCapacity - 1
    /\ tail_avail = TailCapacity - 1
    /\ jumps = 1 .. JumpChains
    /\ slot = [k \in Keys |-> None]
    /\ ghosts = {} /\ faults = {} /\ reserves = 0 /\ frees = 0
    /\ call = [t \in Threads |-> Idle]

Become(t, c) == call' = [call EXCEPT ![t] = c]
Goto(t, label) == Become(t, [call[t] EXCEPT !.pc = label, !.loaded = FALSE])
EndCall(t) == Become(t, Idle)

\* A null pointer is dereferenced: the process ends.
Crash ==
    /\ faults' = faults \cup {"crashed"}
    /\ call' = [t \in Threads |-> [Idle EXCEPT !.pc = "dead"]]
    /\ UNCHANGED <<slot, ghosts, reserves, frees>>

\* A call for key k may start: no other works on k, or on its chain.
MayCall(t, k) ==
    /\ call[t] = Idle
    /\ \A u \in Threads : call[u] # Idle => call[u].key # k
    /\ OneCallPerChain => \A u \in Threads :
         call[u] # Idle => HeadOf(call[u].key) # HeadOf(k)

\* Compare-and-swap of type_tag and of next against the value loaded: the
\* callers ignore the result, there is no retry.
Word(e) == <<entry[e].type, entry[e].tag>>
CasType(t, new) ==
    LET e == call[t].at
    IN  entry' = IF Word(e) = call[t].word
                   THEN [entry EXCEPT ![e].type = new] ELSE entry
CasTag(t, new) ==
    LET e == call[t].at
    IN  entry' = IF Word(e) = call[t].word
                   THEN [entry EXCEPT ![e].tag = new] ELSE entry
CasNext(t, e, new) ==
    entry' = IF entry[e].next = call[t].seen
               THEN [entry EXCEPT ![e].next = new] ELSE entry

\* A call at "append" and at these labels is about to set the link of an entry.
Setters == {"clear", "unlink", "cut", "push"}
Link(c) == CASE c.pc = "unlink" -> c.prev
             [] c.pc = "push" -> Tail(c.want)
             [] OTHER -> c.at

LoadWord(t) ==
    /\ call[t].pc \in {"acquire", "settag", "settype", "free"}
    /\ ~call[t].loaded
    /\ Become(t, [call[t] EXCEPT !.loaded = TRUE, !.word = Word(call[t].at)])
    /\ UNCHANGED <<table, history>>

LoadNext(t) ==
    /\ call[t].pc \in Setters \cup {"append"}
    /\ ~call[t].loaded
    /\ Become(t, [call[t] EXCEPT !.loaded = TRUE,
                                 !.seen = entry[Link(call[t])].next])
    /\ UNCHANGED <<table, history>>

\* Mutant: a freed tail keeps the link it had in its chain.
NewLinkUncut(c) == CASE c.pc = "unlink" -> c.want
                     [] c.pc = "push" -> c.tail
                     [] c.pc = "cut" -> c.seen
                     [] OTHER -> NULL_INDEX

\* Mutant: the chain ends before the freed tail.
NewLinkEnd(c) == IF c.pc = "push" THEN c.tail ELSE NULL_INDEX

\* The entry before a freed tail gets its link, the last tail of the pool gets
\* the freed one; a tail put to use still has the link it had in the pool, and
\* a head the chain that stayed behind when it was freed: both get NULL.
NewLink(c) == CASE c.pc = "unlink" -> c.want
                [] c.pc = "push" -> c.tail
                [] OTHER -> NULL_INDEX

SetNext(t) ==
    LET c == call[t]
    IN  /\ c.pc \in Setters /\ c.loaded
        /\ CasNext(t, Link(c), NewLink(c))
        /\ Goto(t, CASE c.pc = "clear" -> "data" [] c.pc = "unlink" -> "cut"
                     [] c.pc = "cut" -> "swap" [] c.pc = "push" -> "pushed")
        /\ UNCHANGED <<pool, jumps, history>>

-----------------------------------------------------------------------------
(* _acquire_entry(k): the head if it is free, or the end of its chain ... *)

ReserveEntry(t, k) ==
    /\ MayCall(t, k)
    /\ reserves < MaxReserves
    /\ reserves' = reserves + 1
    /\ Become(t, [Idle EXCEPT !.pc = "acquire", !.key = k, !.at = HeadOf(k)])
    /\ UNCHANGED <<table, slot, ghosts, faults, frees>>

Loaded(t, label) == call[t].pc = label /\ call[t].loaded

\* is_free(true): "free" becomes "gonna-be-used", whatever is behind the head.
Acquire(t) ==
    LET c == call[t]
    IN  /\ Loaded(t, "acquire")
        /\ c.word[1] = "free" /\ Word(c.at) = c.word
        /\ CasType(t, "taken")
        /\ Goto(t, "settag")
        /\ faults' = IF entry[c.at].next = NULL_INDEX THEN faults
                     ELSE faults \cup {"orphaned"}
        /\ UNCHANGED <<pool, jumps, slot, ghosts,
                       reserves, frees>>

AcquireFail(t) ==
    LET c == call[t]
    IN  /\ Loaded(t, "acquire")
        /\ c.word[1] # "free" \/ Word(c.at) # c.word
        /\ Goto(t, "headtag")
        /\ UNCHANGED <<table, history>>

\* "Hash collision is found", or go on along the chain.
CheckTag(t) ==
    LET c == call[t]
    IN  /\ c.pc \in {"headtag", "tag"}
        /\ IF entry[c.at].tag = TagOf(c.key) THEN EndCall(t)
           ELSE Goto(t, IF c.pc = "headtag" THEN "tail" ELSE "step")
        /\ UNCHANGED <<table, history>>

\* The tag of the last tail is not looked at.
AtTail(t) ==
    LET e == call[t].at
    IN  /\ call[t].pc = "tail"
        /\ IF entry[e].next = NULL_INDEX
             THEN /\ Goto(t, "avail")
                  /\ faults' = IF entry[e].tag = TagOf(call[t].key)
                                 THEN faults \cup {"twice"} ELSE faults
             ELSE Goto(t, "tag") /\ UNCHANGED faults
        /\ UNCHANGED <<table, slot, ghosts, reserves, frees>>

\* The link is read again; it may be null by now.
Step(t) ==
    LET n == entry[call[t].at].next
    IN  /\ call[t].pc = "step"
        /\ IF n = NULL_INDEX THEN Crash
           ELSE /\ Become(t, [call[t] EXCEPT !.pc = "tail", !.at = Tail(n)])
                /\ UNCHANGED history
        /\ UNCHANGED table

(* ... _reserve_tail_entry(): take the first tail of the pool ... *)

Avail(t) ==
    /\ call[t].pc = "avail"
    /\ IF tail_avail = 0 THEN EndCall(t) ELSE Goto(t, "first")
    /\ UNCHANGED <<table, history>>

LoadFirst(t) ==
    /\ call[t].pc = "first"
    /\ Become(t, [call[t] EXCEPT !.pc = "second", !.tail = tail_first])
    /\ UNCHANGED <<table, history>>

LoadSecond(t) ==
    /\ call[t].pc = "second"
    /\ IF call[t].tail = NULL_INDEX THEN Crash
       ELSE /\ Become(t, [call[t] EXCEPT !.pc = "pop",
                                         !.want = entry[Tail(call[t].tail)].next])
            /\ UNCHANGED history
    /\ UNCHANGED table

PopFaults(c) ==
    (IF c.want = NULL_INDEX THEN {"exhausted"} ELSE {})
    \cup (IF entry[Tail(c.tail)].next # c.want THEN {"aba"} ELSE {})

Popped(t) ==
    /\ tail_first' = call[t].want
    /\ faults' = faults \cup PopFaults(call[t])
    /\ Goto(t, "popped")
    /\ UNCHANGED <<entry, tail_last, tail_avail, jumps, slot, ghosts, reserves,
                   frees>>

\* Mutant: tail_first is stored without being compared.
PopStore(t) == call[t].pc = "pop" /\ Popped(t)

Pop(t) ==
    /\ call[t].pc = "pop"
    /\ tail_first = call[t].tail
    /\ Popped(t)

PopRetry(t) ==
    /\ call[t].pc = "pop"
    /\ tail_first # call[t].tail
    /\ Goto(t, "first")
    /\ UNCHANGED <<table, history>>

\* "Tails overflow": the tail is lost.  The pool is not empty then: two calls
\* at least have linked a freed tail which they have not counted yet.
PopAvail(t) ==
    /\ call[t].pc = "popped"
    /\ IF tail_avail = 0
         THEN /\ EndCall(t) /\ faults' = faults \cup {"overflow"}
              /\ UNCHANGED tail_avail
         ELSE Goto(t, "append") /\ tail_avail' = tail_avail - 1 /\ UNCHANGED faults
    /\ UNCHANGED <<entry, tail_first, tail_last, jumps, slot, ghosts, reserves,
                   frees>>

\* ... and link it.  When the link changed meanwhile, the call goes on along
\* the chain and takes one more tail; this one is lost.
Append(t) ==
    LET c == call[t]
    IN  /\ Loaded(t, "append")
        /\ IF entry[c.at].next = c.seen
             THEN Become(t, [c EXCEPT !.pc = "settag", !.loaded = FALSE,
                                      !.at = Tail(c.tail)])
             ELSE Goto(t, "tail")
        /\ CasNext(t, c.at, c.tail)
        /\ UNCHANGED <<pool, jumps, history>>

(* reserve_entry: fill in the entry, which others may have reached already *)

SetTag(t) ==
    /\ Loaded(t, "settag")
    /\ CasTag(t, TagOf(call[t].key))
    /\ Goto(t, "settype")
    /\ UNCHANGED <<pool, jumps, history>>

SetType(t) ==
    /\ Loaded(t, "settype")
    /\ CasType(t, IF KindOf[call[t].key] = "name" THEN "name" ELSE "object")
    /\ Goto(t, "clear")
    /\ UNCHANGED <<pool, jumps, history>>

Reserved(t) == slot' = [slot EXCEPT ![call[t].key] = call[t].at] /\ EndCall(t)

\* No jumps: jump_head stays as it is.
KeepJumps(t) ==
    /\ call[t].pc = "data" /\ KindOf[call[t].key] = "plain"
    /\ faults' = IF entry[call[t].at].jump_head = NULL_INDEX THEN faults
                 ELSE faults \cup {"stale"}
    /\ Reserved(t)
    /\ UNCHANGED <<table, ghosts, reserves, frees>>

\* The object key of a name entry overlays jump_head.
WriteName(t) ==
    /\ call[t].pc = "data" /\ KindOf[call[t].key] = "name"
    /\ \E bits \in 0 .. JumpChains :
         entry' = [entry EXCEPT ![call[t].at].jump_head = bits]
    /\ Reserved(t)
    /\ UNCHANGED <<pool, jumps, ghosts, faults,
                   reserves, frees>>

WriteJumps(t) ==
    /\ call[t].pc = "data" /\ KindOf[call[t].key] = "chained"
    /\ \E j \in jumps :
         /\ jumps' = jumps \ {j}
         /\ entry' = [entry EXCEPT ![call[t].at].jump_head = j]
    /\ Reserved(t)
    /\ UNCHANGED <<pool, ghosts, faults,
                   reserves, frees>>

\* "No available free entries": reserve_entry throws, its entry stays.
JumpsThrow(t) ==
    /\ call[t].pc = "data" /\ KindOf[call[t].key] = "chained"
    /\ jumps = {}
    /\ ghosts' = ghosts \cup {call[t].key}
    /\ EndCall(t)
    /\ UNCHANGED <<table, slot, faults, reserves, frees>>

-----------------------------------------------------------------------------
(* free_entry(k): find the entry ... *)

FreeEntry(t, k) ==
    /\ MayCall(t, k)
    /\ frees < MaxFrees
    /\ FreeReserved => slot[k] # None
    /\ frees' = frees + 1
    /\ slot' = [slot EXCEPT ![k] = None]
    /\ Become(t, [Idle EXCEPT !.pc = "isfree", !.key = k, !.at = HeadOf(k)])
    /\ UNCHANGED <<table, ghosts, faults, reserves>>

HeadIsFree(t) ==
    /\ call[t].pc = "isfree"
    /\ Goto(t, IF entry[call[t].at].type = "free" THEN "isempty" ELSE "match")
    /\ UNCHANGED <<table, history>>

ChainIsEmpty(t) ==
    /\ call[t].pc = "isempty"
    /\ IF entry[call[t].at].next = NULL_INDEX THEN EndCall(t)
       ELSE Goto(t, "match")
    /\ UNCHANGED <<table, history>>

Match(t) ==
    LET c == call[t]
    IN  /\ c.pc = "match"
        /\ Goto(t, IF entry[c.at].tag = TagOf(c.key) THEN "jumps" ELSE "follow")
        /\ UNCHANGED <<table, history>>

Follow(t) ==
    LET c == call[t]
        n == entry[c.at].next
    IN  /\ c.pc = "follow"
        /\ IF n = NULL_INDEX THEN EndCall(t)
           ELSE Become(t, [c EXCEPT !.pc = "last", !.prev = c.at, !.tail = n,
                                    !.at = Tail(n)])
        /\ UNCHANGED <<table, history>>

\* The last entry of the chain is taken for the one sought.
Last(t) ==
    /\ call[t].pc = "last"
    /\ Goto(t, IF entry[call[t].at].next = NULL_INDEX THEN "jumps" ELSE "match")
    /\ UNCHANGED <<table, history>>

(* ... give back its jumps and mark it as free ... *)

FreeJumps(t) ==
    LET e == entry[call[t].at]
    IN  /\ call[t].pc = "jumps"
        /\ jumps' = IF e.type = "name" \/ e.jump_head = NULL_INDEX THEN jumps
                    ELSE jumps \cup {e.jump_head}
        /\ Goto(t, "free")
        /\ UNCHANGED <<entry, tail_first, tail_last, tail_avail, history>>

\* Mutant: a head stays reserved.
FreeTypeOfTails(t) ==
    /\ Loaded(t, "free")
    /\ IF call[t].tail = NULL_INDEX THEN EndCall(t) /\ UNCHANGED entry
       ELSE Goto(t, "next") /\ CasType(t, "free")
    /\ UNCHANGED <<pool, jumps, history>>

\* A head is done: it keeps its tag, its jumps and the chain behind it.
FreeType(t) ==
    /\ Loaded(t, "free")
    /\ CasType(t, "free")
    /\ IF call[t].tail = NULL_INDEX THEN EndCall(t) ELSE Goto(t, "next")
    /\ UNCHANGED <<pool, jumps, history>>

(* ... and, if it is a tail, unlink it and move it to the end of the pool. *)

ReadNext(t) ==
    /\ call[t].pc = "next"
    /\ Become(t, [call[t] EXCEPT !.pc = "unlink",
                                 !.want = entry[call[t].at].next])
    /\ UNCHANGED <<table, history>>

\* _update_tail_last: first tail_last, then the link of what it was.
SwapLast(t) ==
    /\ call[t].pc = "swap"
    /\ tail_last' = call[t].tail
    /\ Become(t, [call[t] EXCEPT !.pc = "push", !.want = tail_last])
    /\ UNCHANGED <<entry, tail_first, tail_avail, jumps, history>>

\* "Tails overflow"
PushAvail(t) ==
    /\ call[t].pc = "pushed"
    /\ tail_avail' = IF tail_avail + 1 >= TailCapacity THEN tail_avail
                     ELSE tail_avail + 1
    /\ EndCall(t)
    /\ UNCHANGED <<entry, tail_first, tail_last, jumps, history>>

-----------------------------------------------------------------------------
Reserve(t) ==
    \/ \E k \in Keys : ReserveEntry(t, k)
    \/ LoadWord(t) \/ LoadNext(t) \/ SetNext(t)
    \/ Acquire(t) \/ AcquireFail(t) \/ CheckTag(t) \/ AtTail(t) \/ Step(t)
    \/ Avail(t) \/ LoadFirst(t) \/ LoadSecond(t) \/ Pop(t) \/ PopRetry(t)
    \/ PopAvail(t) \/ Append(t) \/ SetTag(t) \/ SetType(t)
    \/ KeepJumps(t) \/ WriteName(t) \/ WriteJumps(t) \/ JumpsThrow(t)

Free(t) ==
    \/ \E k \in Keys : FreeEntry(t, k)
    \/ HeadIsFree(t) \/ ChainIsEmpty(t) \/ Match(t) \/ Follow(t) \/ Last(t)
    \/ FreeJumps(t) \/ FreeType(t) \/ ReadNext(t)
    \/ SwapLast(t) \/ PushAvail(t)

Next == \E t \in Threads : Reserve(t) \/ Free(t)

Spec == Init /\ [][Next]_vars
=============================================================================
