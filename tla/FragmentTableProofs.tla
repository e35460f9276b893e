------------------------ MODULE FragmentTableProofs ------------------------
(***************************************************************************)
(* What FragmentTable.tla guarantees for every number of threads, keys,    *)
(* heads, tails and jump chains, and any number of calls, as long as the   *)
(* callers keep to what it is built for (Orderly) and nothing happens that *)
(* it does not cope with (Calm).                                           *)
(*                                                                         *)
(* The links alone do not say who owns a tail: one that was just appended  *)
(* still has its link into the pool, one that was just freed has no link   *)
(* to it yet.  So the invariant says that the entries CAN be given owners  *)
(* and an order: own[x] is the head whose chain x belongs to, or the pool, *)
(* or the call that holds it; pos[x] is the time at which x came to its    *)
(* owner, which is the order of the links; home[k] is the entry of key k   *)
(* until its jumps are given back.                                         *)
(***************************************************************************)
EXTENDS FragmentTableProps, FiniteSetTheorems, WellFoundedInduction, TLAPS

\* Callers keep calls on one chain apart and free only reserved keys.
Orderly == OneCallPerChain /\ FreeReserved

Pooled    == <<"pool", 0>>
InHand(t) == <<"hand", t>>
HeadFor(t) == HeadOf(call[t].key)

Setting   == {"settag", "settype", "clear"}
Filling   == Setting \cup {"data"}
Walking   == {"headtag", "tail", "tag", "step"}
Popping   == {"avail", "first", "second", "pop", "popped", "append"}
Seeking   == {"isfree", "isempty", "match", "follow", "last"}
Unlinking == {"free", "next", "unlink"}
Stages    == {"idle", "acquire", "jumps", "cut", "swap", "push", "pushed"}
               \cup Filling \cup Walking \cup Popping \cup Seeking \cup Unlinking

Types   == {"free", "taken", "object", "name"}
TypeFor(k) == IF KindOf[k] = "name" THEN "name" ELSE "object"
Indices == 0 .. TailCapacity - 1
Entries == [type : Types, tag : Nat, jump_head : 0 .. JumpChains, next : Indices]
Calls   == [pc : Stages, key : Nat, at : Slots \cup {None}, prev : Slots \cup {None},
            tail : Indices, loaded : BOOLEAN, word : Types \X Nat, seen : Indices,
            want : Indices]

Typed ==
    /\ entry \in [Slots -> Entries]
    /\ tail_first \in Indices \ {0} /\ tail_last \in Indices \ {0} /\ tail_avail \in Nat
    /\ jumps \subseteq 1 .. JumpChains
    /\ slot \in [Keys -> Slots \cup {None}]
    /\ call \in [Threads -> Calls]

\* Calls at once are on different chains, and no two link the same tail.
CallsApart ==
    \A t, u \in Threads : t # u =>
      /\ call[t].pc # "idle" /\ call[u].pc # "idle" => HeadFor(t) # HeadFor(u)
      /\ call[t].pc = "push" /\ call[u].pc = "push" => call[t].at # call[u].at

-----------------------------------------------------------------------------
Placed(own, pos, home, now) ==
    /\ own \in [Slots -> Heads \cup {Pooled} \cup {InHand(t) : t \in Threads}]
    /\ now \in Nat /\ pos \in [Slots -> 0 .. now]
    /\ home \in [Keys -> Slots \cup {None}]
    /\ \A h \in Heads : own[h] = h /\ pos[h] = 0
    /\ \A x \in Tails : pos[x] > 0
    /\ \A x, y \in Slots : own[x] = own[y] /\ pos[x] = pos[y] => x = y

\* y comes next after x; x is the last.
Succ(own, pos, x, y) ==
    /\ own[x] = own[y] /\ pos[x] < pos[y]
    /\ \A z \in Slots : own[z] = own[x] /\ pos[x] < pos[z] => pos[y] <= pos[z]
Ends(own, pos, x) == \A z \in Slots : own[z] = own[x] => pos[z] <= pos[x]

\* The links of a chain, but for the one of an entry being filled.
Chained(own, pos) ==
    \A x \in Slots : own[x] \in Heads =>
      /\ entry[x].next = 0 => Ends(own, pos, x)
      /\ entry[x].next # 0 => \/ Succ(own, pos, x, Tail(entry[x].next))
                              \/ \E t \in Threads : call[t].pc \in Setting /\ call[t].at = x

\* The links of the pool, but for those about to be set.
Queued(own, pos) ==
    /\ own[Tail(tail_first)] = Pooled
    /\ \A x \in Slots : own[x] = Pooled => pos[Tail(tail_first)] <= pos[x]
    /\ own[Tail(tail_last)] = Pooled /\ Ends(own, pos, Tail(tail_last))
    /\ \A x \in Slots : own[x] = Pooled =>
         /\ entry[x].next = 0 => \/ Ends(own, pos, x)
                                 \/ \E t \in Threads : call[t].pc = "push" /\ Tail(call[t].want) = x
         /\ entry[x].next # 0 => Succ(own, pos, x, Tail(entry[x].next))

\* The entries of a chain have different tags.
Tagged(own) ==
    \A x, y \in Slots :
      own[x] \in Heads /\ own[x] = own[y] /\ x # y /\ entry[x].tag = entry[y].tag =>
        \E t \in Threads : call[t].pc = "settag" /\ call[t].at \in {x, y}

Homed(own, home) ==
    /\ \A k \in Keys : home[k] # None =>
         /\ own[home[k]] = HeadOf(k)
         /\ entry[home[k]].tag = TagOf(k) /\ entry[home[k]].type = TypeFor(k)
    /\ \A j, k \in Keys : home[j] # None /\ home[j] = home[k] => j = k
    /\ \A k \in Keys : slot[k] # home[k] =>
         /\ slot[k] = None
         /\ \E t \in Threads : call[t].pc \in Seeking \cup {"jumps"} /\ call[t].key = k
    /\ \A k \in Keys, t \in Threads :
         call[t].pc \in Filling \cup Unlinking => home[k] # call[t].at

\* No entry of a chain is forgotten, and a call holds no other tail.
Accounted(own, home) ==
    /\ \A x \in Slots : own[x] \in Heads =>
         \/ \E k \in Keys : home[k] = x
         \/ \E t \in Threads : call[t].pc \in Filling \cup Unlinking /\ call[t].at = x
         \/ x \in Heads /\ entry[x].type = "free"
    /\ \A x \in Slots, t \in Threads : own[x] = InHand(t) =>
         \/ call[t].pc \in {"popped", "append"} /\ x = Tail(call[t].tail)
         \/ call[t].pc \in {"cut", "swap"} /\ x = call[t].at

Holds(home, k) == home[k] # None /\ entry[home[k]].type = "object"
                                  /\ entry[home[k]].jump_head # 0
JumpsOwned(home) ==
    "stale" \notin faults => \A k \in Keys : Holds(home, k) =>
      /\ entry[home[k]].jump_head \notin jumps
      /\ \A j \in Keys : Holds(home, j) /\ entry[home[j]].jump_head = entry[home[k]].jump_head
                           => j = k

\* tail_avail counts a tail that was taken too long, and one that was given
\* back not yet.
Busy       == {t \in Threads : call[t].pc # "idle"}
Taken      == {t \in Threads : call[t].pc = "popped"}
Given      == {t \in Threads : call[t].pc \in {"push", "pushed"}}
Queue(own) == {x \in Slots : own[x] = Pooled}
Counted(own) ==
    /\ IsFiniteSet(Busy)
    /\ tail_avail + Cardinality(Given) = Cardinality(Queue(own)) + Cardinality(Taken)

-----------------------------------------------------------------------------
(* What a call knows.                                                      *)

\* No entry of the chain of t at which P has the tag that t looks for.
Walks(own, pos, t) ==
    LET c == call[t] IN
    /\ c.pc # "idle" => c.key \in Keys
    /\ c.pc \in {"acquire", "headtag", "isfree", "isempty"} => c.at = HeadFor(t)
    /\ c.pc \in Walking =>
         /\ c.at \in Slots /\ own[c.at] = HeadFor(t)
         /\ \A y \in Slots : own[y] = HeadFor(t) /\ pos[y] < pos[c.at] => entry[y].tag # TagOf(c.key)
    /\ c.pc \in {"tag", "step"} => entry[c.at].next # 0
    /\ c.pc = "step" => entry[c.at].tag # TagOf(c.key)

Pops(own, pos, t) ==
    LET c == call[t] IN
    /\ c.pc \in Popping =>
         /\ c.at \in Slots /\ own[c.at] = HeadFor(t) /\ Ends(own, pos, c.at)
         /\ \A y \in Slots : own[y] = HeadFor(t) => entry[y].tag # TagOf(c.key)
    /\ c.pc \in {"second", "pop", "popped", "append"} => c.tail # 0
    /\ c.pc \in {"popped", "append"} => own[Tail(c.tail)] = InHand(t)
    /\ c.pc = "append" /\ c.loaded => c.seen = entry[c.at].next

Fills(own, pos, home, t) ==
    LET c == call[t] IN
    /\ c.pc \in Filling =>
         /\ c.at \in Slots /\ own[c.at] = HeadFor(t) /\ Ends(own, pos, c.at)
         /\ home[c.key] = None
         /\ \A y \in Slots : own[y] = HeadFor(t) /\ y # c.at => entry[y].tag # TagOf(c.key)
    /\ c.pc \in Filling \ {"settag"} => entry[c.at].tag = TagOf(c.key)
    /\ c.pc \in {"clear", "data"} => entry[c.at].type = TypeFor(c.key)
    /\ c.pc \in {"settag", "settype"} /\ c.loaded => c.word = Word(c.at)
    /\ c.pc = "clear" /\ c.loaded => c.seen = entry[c.at].next

Seeks(own, pos, home, t) ==
    LET c == call[t] IN
    /\ c.pc \in Seeking \cup {"jumps"} =>
         /\ home[c.key] # None /\ slot[c.key] = None
         /\ pos[c.at] <= pos[home[c.key]]
    /\ c.pc = "isempty" => entry[c.at].type = "free"
    /\ c.pc = "follow" => pos[c.at] < pos[home[c.key]]
    /\ c.pc = "jumps" => home[c.key] = c.at
    /\ c.pc \in Seeking \cup Unlinking \cup {"jumps"} =>
         /\ c.at \in Slots /\ own[c.at] = HeadFor(t)
         /\ c.tail = 0 => c.at \in Heads
         /\ c.tail # 0 => /\ c.at = Tail(c.tail) /\ c.prev \in Slots
                          /\ Succ(own, pos, c.prev, c.at)
    /\ c.pc = "free" /\ c.loaded => c.word = Word(c.at)
    /\ c.pc \in {"next", "unlink"} => c.tail # 0
    /\ c.pc = "next" => ~c.loaded
    /\ c.pc = "unlink" => /\ c.want = entry[c.at].next
                          /\ c.loaded => c.seen = entry[c.prev].next

Pushes(own, pos, t) ==
    LET c == call[t] IN
    /\ c.pc \in {"cut", "swap", "push"} => c.tail # 0 /\ c.at = Tail(c.tail)
    /\ c.pc \in {"cut", "swap"} => own[c.at] = InHand(t)
    /\ c.pc = "cut" /\ c.loaded => c.seen = entry[c.at].next
    /\ c.pc = "swap" => entry[c.at].next = 0 /\ ~c.loaded
    /\ c.pc = "push" =>
         /\ c.want # 0 /\ own[c.at] = Pooled /\ Succ(own, pos, Tail(c.want), c.at)
         /\ entry[Tail(c.want)].next = 0 /\ (c.loaded => c.seen = 0)

Knows(own, pos, home, t) ==
    /\ Walks(own, pos, t) /\ Pops(own, pos, t) /\ Fills(own, pos, home, t)
    /\ Seeks(own, pos, home, t) /\ Pushes(own, pos, t)

Shape(own, pos, home, now) ==
    /\ Placed(own, pos, home, now)
    /\ Chained(own, pos) /\ Queued(own, pos) /\ Tagged(own)
    /\ Homed(own, home) /\ Accounted(own, home) /\ JumpsOwned(home) /\ Counted(own)
    /\ \A t \in Threads : Knows(own, pos, home, t)

Whole(own, pos, home, now) == Typed /\ CallsApart /\ Shape(own, pos, home, now)
TableInv == Calm => \E own, pos, home, now : Whole(own, pos, home, now)

-----------------------------------------------------------------------------
(* Lemmas on entries and numbers.                                          *)

LEMMA SlotFacts ==
    /\ Heads \cap Tails = {} /\ None \notin Slots
    /\ \A i \in Indices \ {0} : Tail(i) \in Tails /\ Tail(i)[2] = i
    /\ \A x \in Tails : x[2] \in Indices \ {0} /\ x = Tail(x[2])
    /\ \A i, j \in Indices : Tail(i) = Tail(j) => i = j
    /\ \A k \in Nat : HeadOf(k) \in Heads
<1>1. Heads \cap Tails = {} /\ None \notin Slots
  BY DEF Heads, Tails, Tail, None, Slots
<1>2. \A i \in Indices \ {0} : i \in 1 .. TailCapacity - 1
  BY TailCapacityAssumption DEF Indices
<1>3. \A i \in Indices \ {0} : Tail(i) \in Tails /\ Tail(i)[2] = i
  BY <1>2 DEF Tails, Tail
<1>4. \A x \in Tails : x[2] \in Indices \ {0} /\ x = Tail(x[2])
  <2>1. SUFFICES ASSUME NEW i \in 1 .. TailCapacity - 1
                 PROVE  Tail(i)[2] \in Indices \ {0} /\ Tail(i) = Tail(Tail(i)[2])
    BY DEF Tails
  <2>2. Tail(i)[2] = i
    BY DEF Tail
  <2>. QED BY <2>2, TailCapacityAssumption DEF Indices
<1>5. \A i, j \in Indices : Tail(i) = Tail(j) => i = j
  BY DEF Tail
<1>6. ASSUME NEW k \in Nat PROVE HeadOf(k) \in Heads
  <2>1. (k % HeadCapacity) \in 0 .. HeadCapacity - 1
    BY HeadCapacityAssumption
  <2>. QED BY <2>1 DEF HeadOf, Heads
<1>. QED BY <1>1, <1>3, <1>4, <1>5, <1>6

LEMMA OwnerFacts ==
    /\ Pooled \notin Heads /\ None \notin Heads
    /\ \A t : InHand(t) \notin Heads /\ InHand(t) # Pooled
    /\ \A t, u : InHand(t) = InHand(u) => t = u
<1>1. Pooled \notin Heads /\ None \notin Heads
  BY DEF Pooled, Heads, None
<1>2. ASSUME NEW t PROVE InHand(t) \notin Heads /\ InHand(t) # Pooled
  BY DEF Pooled, Heads, InHand
<1>3. ASSUME NEW t, NEW u, InHand(t) = InHand(u) PROVE t = u
  BY <1>3 DEF InHand
<1>. QED BY <1>1, <1>2, <1>3

LEMMA TagsAreNumbers == ASSUME NEW k \in Nat PROVE TagOf(k) \in Nat
<1>. DEFINE p == k * TagShift
<1>1. p \in Nat
  BY TagAssumption
<1>. HIDE DEF p
<1>2. (p % TagWord) \in 0 .. TagWord - 1
  BY <1>1, TagAssumption
<1>3. (p % TagWord) \in Nat
  BY <1>2
<1>. QED BY <1>3 DEF TagOf, p

LEMMA ZeroIsIndex == 0 \in Indices /\ Indices \subseteq Nat
BY TailCapacityAssumption DEF Indices

LEMMA TailsCount == IsFiniteSet(Tails) /\ Cardinality(Tails) = TailCapacity - 1
<1>. DEFINE N == 1 .. TailCapacity - 1
            f == [i \in N |-> Tail(i)]
<1>1. IsFiniteSet(N) /\ Cardinality(N) = TailCapacity - 1
  <2>1. 1 \in Int /\ TailCapacity - 1 \in Int /\ ~(1 > TailCapacity - 1)
    BY TailCapacityAssumption
  <2>2. (TailCapacity - 1) - 1 + 1 = TailCapacity - 1
    BY TailCapacityAssumption
  <2>. QED BY <2>1, <2>2, FS_Interval
<1>2. f \in Bijection(N, Tails)
  <2>1. f \in [N -> Tails]
    BY DEF Tails
  <2>2. \A i, j \in N : f[i] = f[j] => i = j
    BY DEF Tail
  <2>3. \A x \in Tails : \E i \in N : f[i] = x
    BY DEF Tails
  <2>. QED BY <2>1, <2>2, <2>3 DEF Bijection, Injection, Surjection, IsInjective
<1>3. ExistsBijection(N, Tails)
  BY <1>2 DEF ExistsBijection
<1>. HIDE DEF N, f
<1>. QED BY <1>1, <1>3, FS_Bijection

LEMMA InitShape == Init => TableInv
<1>. SUFFICES ASSUME Init
              PROVE  \E own, pos, home, now : Whole(own, pos, home, now)
  BY DEF TableInv
<1>. USE SlotFacts, OwnerFacts, ZeroIsIndex, TailCapacityAssumption
<1>1. Typed
  <2>1. entry \in [Slots -> Entries]
    <3>1. \A x \in Tails : NextTail(x[2]) \in Indices
      BY DEF NextTail, Indices, NULL_INDEX
    <3>2. 0 \in 0 .. JumpChains
      BY JumpChainsAssumption
    <3>. QED BY <3>1, <3>2 DEF Init, Entries, Types, NULL_INDEX
  <2>2. tail_first \in Indices \ {0} /\ tail_last \in Indices \ {0} /\ tail_avail \in Nat
    BY DEF Init, Indices
  <2>3. Idle \in Calls
    BY DEF Idle, Calls, Stages, Types, NULL_INDEX
  <2>4. slot \in [Keys -> Slots \cup {None}]
    BY DEF Init
  <2>. QED BY <2>1, <2>2, <2>3, <2>4 DEF Init, Typed
<1>2. \A t \in Threads : call[t] = Idle /\ call[t].pc = "idle"
  BY DEF Init, Idle
<1>3. CallsApart
  BY <1>2 DEF CallsApart
<1>. DEFINE own  == [x \in Slots |-> IF x \in Heads THEN x ELSE Pooled]
            pos  == [x \in Slots |-> IF x \in Heads THEN 0 ELSE x[2]]
            home == [k \in Keys |-> None]
            now  == TailCapacity
<1>4. Slots = Heads \cup Tails
  BY DEF Slots
<1>5. \A h \in Heads : own[h] = h /\ pos[h] = 0 /\ entry[h].next = 0 /\ entry[h].type = "free"
  BY <1>4 DEF Init, NULL_INDEX
<1>6. \A x \in Tails : /\ own[x] = Pooled /\ pos[x] = x[2]
                       /\ entry[x].next = NextTail(x[2])
  BY <1>4 DEF Init
<1>7. \A x \in Slots : own[x] \in Heads => x \in Heads
  BY <1>4, <1>6
<1>8. \A x \in Slots : own[x] = Pooled => x \in Tails
  BY <1>4, <1>5
<1>9. Placed(own, pos, home, now)
  <2>1. own \in [Slots -> Heads \cup {Pooled} \cup {InHand(t) : t \in Threads}]
    BY <1>4
  <2>2. now \in Nat /\ pos \in [Slots -> 0 .. now]
    <3>1. \A x \in Tails : x[2] \in 0 .. now
      BY DEF Indices
    <3>. QED BY <3>1, <1>4
  <2>3. home \in [Keys -> Slots \cup {None}]
    OBVIOUS
  <2>4. \A x \in Tails : pos[x] > 0
    <3>1. \A x \in Tails : x[2] > 0
      BY DEF Indices
    <3>. HIDE DEF pos
    <3>. QED BY <3>1, <1>6
  <2>5. \A x, y \in Slots : own[x] = own[y] /\ pos[x] = pos[y] => x = y
    <3>. SUFFICES ASSUME NEW x \in Slots, NEW y \in Slots, own[x] = own[y], pos[x] = pos[y]
                  PROVE  x = y
      OBVIOUS
    <3>1. CASE x \in Heads
      BY <3>1, <1>4, <1>5, <1>6
    <3>2. CASE x \in Tails
      <4>1. y \in Tails
        BY <3>2, <1>4, <1>5, <1>6
      <4>2. x[2] = y[2]
        BY <3>2, <4>1, <1>6
      <4>. QED BY <3>2, <4>1, <4>2
    <3>. QED BY <3>1, <3>2, <1>4
  <2>. HIDE DEF own, pos, home, now
  <2>. QED BY <2>1, <2>2, <2>3, <2>4, <2>5, <1>5 DEF Placed
<1>. HIDE DEF own, pos, home, now
<1>10. Chained(own, pos)
  <2>. SUFFICES ASSUME NEW x \in Slots, own[x] \in Heads
                PROVE  entry[x].next = 0 /\ Ends(own, pos, x)
    BY DEF Chained
  <2>1. x \in Heads /\ own[x] = x /\ pos[x] = 0
    BY <1>7, <1>5
  <2>2. \A z \in Slots : own[z] = own[x] => z = x
    BY <2>1, <1>7, <1>5
  <2>. QED BY <2>1, <2>2, <1>5 DEF Ends
<1>11. Queued(own, pos)
  <2>1. \A x \in Slots : own[x] = Pooled =>
          /\ x \in Tails /\ x[2] \in 1 .. TailCapacity - 1 /\ pos[x] = x[2] /\ x = Tail(x[2])
    BY <1>8, <1>6 DEF Indices
  <2>2. \A i \in 1 .. TailCapacity - 1 : Tail(i) \in Slots /\ own[Tail(i)] = Pooled /\ pos[Tail(i)] = i
    BY <1>4, <1>6 DEF Indices
  <2>3. tail_first = 1 /\ tail_last = TailCapacity - 1
    BY DEF Init
  <2>4. own[Tail(tail_first)] = Pooled /\ own[Tail(tail_last)] = Pooled
    BY <2>2, <2>3
  <2>5. \A x \in Slots : own[x] = Pooled => pos[Tail(tail_first)] <= pos[x]
    BY <2>1, <2>2, <2>3
  <2>6. Ends(own, pos, Tail(tail_last))
    BY <2>1, <2>2, <2>3 DEF Ends
  <2>7. ASSUME NEW x \in Slots, own[x] = Pooled
        PROVE  /\ entry[x].next = 0 => Ends(own, pos, x)
               /\ entry[x].next # 0 => Succ(own, pos, x, Tail(entry[x].next))
    <3>1. entry[x].next = IF x[2] < TailCapacity - 1 THEN x[2] + 1 ELSE 0
      BY <2>1, <2>7, <1>6 DEF NextTail, NULL_INDEX
    <3>2. CASE x[2] < TailCapacity - 1
      <4>. DEFINE n == x[2] + 1
      <4>1. entry[x].next = n /\ n \in 1 .. TailCapacity - 1 /\ n # 0
        BY <3>1, <3>2, <2>1, <2>7
      <4>2. own[Tail(n)] = Pooled /\ pos[Tail(n)] = n
        BY <4>1, <2>2
      <4>3. \A z \in Slots : own[z] = own[x] /\ pos[x] < pos[z] => pos[Tail(n)] <= pos[z]
        BY <4>2, <2>1, <2>7
      <4>4. pos[x] < pos[Tail(n)]
        BY <4>2, <2>1, <2>7
      <4>. HIDE DEF n
      <4>. QED BY <4>1, <4>2, <4>3, <4>4, <2>7 DEF Succ
    <3>3. CASE ~(x[2] < TailCapacity - 1)
      <4>1. entry[x].next = 0 /\ x[2] = TailCapacity - 1
        BY <3>1, <3>3, <2>1, <2>7
      <4>. QED BY <4>1, <2>1, <2>7 DEF Ends
    <3>. QED BY <3>2, <3>3
  <2>. QED BY <2>4, <2>5, <2>6, <2>7 DEF Queued
<1>12. Tagged(own)
  <2>. SUFFICES ASSUME NEW x \in Slots, NEW y \in Slots, own[x] \in Heads, own[x] = own[y]
                PROVE  x = y
    BY DEF Tagged
  <2>. QED BY <1>7, <1>5
<1>13. \A k \in Keys : home[k] = None /\ slot[k] = None
  BY DEF home, Init
<1>14. Homed(own, home)
  <2>1. \A t \in Threads : call[t].pc \notin Filling \cup Unlinking
    BY <1>2 DEF Filling, Setting, Unlinking
  <2>. QED BY <1>13, <2>1 DEF Homed
<1>15. Accounted(own, home)
  <2>1. \A x \in Slots, t \in Threads : own[x] # InHand(t)
    BY <1>4, <1>5, <1>6
  <2>. QED BY <1>7, <1>5, <2>1 DEF Accounted
<1>16. JumpsOwned(home)
  BY <1>13 DEF JumpsOwned, Holds
<1>17. Counted(own)
  <2>1. Busy = {} /\ Taken = {} /\ Given = {}
    BY <1>2 DEF Busy, Taken, Given
  <2>2. Queue(own) = Tails
    BY <1>4, <1>6, <1>8 DEF Queue
  <2>3. IsFiniteSet({}) /\ Cardinality({}) = 0
    BY FS_EmptySet
  <2>4. tail_avail = TailCapacity - 1
    BY DEF Init
  <2>5. IsFiniteSet(Busy) /\ Cardinality(Taken) = 0 /\ Cardinality(Given) = 0
    BY <2>1, <2>3
  <2>6. Cardinality(Queue(own)) = TailCapacity - 1
    BY <2>2, TailsCount
  <2>. QED BY <2>4, <2>5, <2>6 DEF Counted
<1>18. ASSUME NEW t \in Threads
       PROVE  Knows(own, pos, home, t)
  BY <1>2, <1>18 DEF Knows, Walks, Pops, Fills, Seeks, Pushes, Walking, Popping, Filling, Setting, Seeking,
     Unlinking
<1>19. Shape(own, pos, home, now)
  BY <1>9, <1>10, <1>11, <1>12, <1>14, <1>15, <1>16, <1>17, <1>18 DEF Shape
<1>. QED BY <1>1, <1>3, <1>19 DEF Whole

-----------------------------------------------------------------------------
(* What a step leaves alone.                                               *)

Others(t) == \A u \in Threads : u # t => call'[u] = call[u]

LEMMA Becomes ==
    ASSUME Typed, NEW t \in Threads, NEW c \in Calls, Become(t, c)
    PROVE  call' \in [Threads -> Calls] /\ call'[t] = c /\ Others(t)
BY DEF Typed, Become, Others

LEMMA Ended ==
    ASSUME Typed, NEW t \in Threads, EndCall(t)
    PROVE  call' \in [Threads -> Calls] /\ call'[t].pc = "idle" /\ Others(t)
<1>1. Idle \in Calls /\ Idle.pc = "idle"
  BY ZeroIsIndex DEF Idle, Calls, Stages, Types, NULL_INDEX
<1>. QED BY <1>1, Becomes DEF EndCall

LEMMA Goes ==
    ASSUME Typed, NEW t \in Threads, NEW label \in Stages, Goto(t, label)
    PROVE  /\ call' \in [Threads -> Calls] /\ Others(t)
           /\ call'[t].pc = label /\ call'[t].loaded = FALSE /\ call'[t].key = call[t].key
           /\ call'[t].at = call[t].at /\ call'[t].prev = call[t].prev
           /\ call'[t].tail = call[t].tail /\ call'[t].want = call[t].want
<1>. DEFINE c == [call[t] EXCEPT !.pc = label, !.loaded = FALSE]
<1>1. call[t] \in Calls
  BY DEF Typed
<1>2. c \in Calls
  BY <1>1 DEF Calls
<1>3. /\ c.pc = label /\ c.loaded = FALSE /\ c.key = call[t].key /\ c.at = call[t].at
      /\ c.prev = call[t].prev /\ c.tail = call[t].tail /\ c.want = call[t].want
  BY <1>1 DEF Calls
<1>4. Become(t, c)
  BY DEF Goto
<1>. HIDE DEF c
<1>. QED BY <1>2, <1>3, <1>4, Becomes

LEMMA ChainedKept ==
    ASSUME NEW own, NEW pos, NEW t \in Threads, Others(t), Chained(own, pos),
           \A x \in Slots : own[x] \in Heads => entry'[x].next = entry[x].next,
           call[t].pc \in Setting => call'[t].pc \in Setting /\ call'[t].at = call[t].at
    PROVE  Chained(own, pos)'
<1>. SUFFICES ASSUME NEW x \in Slots, own[x] \in Heads
              PROVE  /\ entry'[x].next = 0 => Ends(own, pos, x)
                     /\ entry'[x].next # 0 =>
                          \/ Succ(own, pos, x, Tail(entry'[x].next))
                          \/ \E u \in Threads : call'[u].pc \in Setting /\ call'[u].at = x
  BY DEF Chained, Succ, Ends
<1>1. entry'[x].next = entry[x].next
  OBVIOUS
<1>2. ASSUME NEW u \in Threads, call[u].pc \in Setting, call[u].at = x
      PROVE  call'[u].pc \in Setting /\ call'[u].at = x
  BY <1>2 DEF Others
<1>. QED BY <1>1, <1>2 DEF Chained

LEMMA QueuedKept ==
    ASSUME NEW own, NEW pos, NEW t \in Threads, Others(t), Queued(own, pos),
           UNCHANGED <<tail_first, tail_last>>,
           \A x \in Slots : own[x] = Pooled => entry'[x].next = entry[x].next,
           call[t].pc = "push" => call'[t].pc = "push" /\ call'[t].want = call[t].want
    PROVE  Queued(own, pos)'
<1>1. ASSUME NEW x \in Slots, own[x] = Pooled
      PROVE  /\ entry'[x].next = 0 =>
                   \/ Ends(own, pos, x)
                   \/ \E u \in Threads : call'[u].pc = "push" /\ Tail(call'[u].want) = x
             /\ entry'[x].next # 0 => Succ(own, pos, x, Tail(entry'[x].next))
  <2>1. entry'[x].next = entry[x].next
    BY <1>1
  <2>2. ASSUME NEW u \in Threads, call[u].pc = "push", Tail(call[u].want) = x
        PROVE  call'[u].pc = "push" /\ Tail(call'[u].want) = x
    BY <2>2 DEF Others
  <2>. QED BY <1>1, <2>1, <2>2 DEF Queued
<1>. QED BY <1>1 DEF Queued, Succ, Ends

LEMMA TaggedKept ==
    ASSUME NEW own, NEW t \in Threads, Others(t), Tagged(own),
           \A x \in Slots : own[x] \in Heads => entry'[x].tag = entry[x].tag,
           call[t].pc = "settag" => call'[t].pc = "settag" /\ call'[t].at = call[t].at
    PROVE  Tagged(own)'
<1>. SUFFICES ASSUME NEW x \in Slots, NEW y \in Slots, own[x] \in Heads, own[x] = own[y], x # y,
                     entry'[x].tag = entry'[y].tag
              PROVE  \E u \in Threads : call'[u].pc = "settag" /\ call'[u].at \in {x, y}
  BY DEF Tagged
<1>1. PICK u \in Threads : call[u].pc = "settag" /\ call[u].at \in {x, y}
  BY DEF Tagged
<1>2. call'[u].pc = "settag" /\ call'[u].at = call[u].at
  BY <1>1 DEF Others
<1>. QED BY <1>1, <1>2

LEMMA HomedKept ==
    ASSUME NEW own, NEW home, NEW t \in Threads, Others(t), Homed(own, home), UNCHANGED slot,
           \A k \in Keys : home[k] # None =>
             /\ entry'[home[k]].tag = entry[home[k]].tag
             /\ entry'[home[k]].type = entry[home[k]].type,
           call[t].pc \in Seeking \cup {"jumps"} =>
             call'[t].pc \in Seeking \cup {"jumps"} /\ call'[t].key = call[t].key,
           call'[t].pc \in Filling \cup Unlinking => \A k \in Keys : home[k] # call'[t].at
    PROVE  Homed(own, home)'
<1>1. \A k \in Keys : home[k] # None =>
         /\ own[home[k]] = HeadOf(k)
         /\ entry'[home[k]].tag = TagOf(k) /\ entry'[home[k]].type = TypeFor(k)
  BY DEF Homed
<1>2. \A j, k \in Keys : home[j] # None /\ home[j] = home[k] => j = k
  BY DEF Homed
<1>3. ASSUME NEW k \in Keys, slot'[k] # home[k]
      PROVE  /\ slot'[k] = None
             /\ \E u \in Threads : call'[u].pc \in Seeking \cup {"jumps"} /\ call'[u].key = k
  <2>1. PICK u \in Threads : call[u].pc \in Seeking \cup {"jumps"} /\ call[u].key = k
    BY <1>3 DEF Homed
  <2>2. call'[u].pc \in Seeking \cup {"jumps"} /\ call'[u].key = k
    BY <2>1 DEF Others
  <2>. QED BY <1>3, <2>2 DEF Homed
<1>4. ASSUME NEW k \in Keys, NEW u \in Threads, call'[u].pc \in Filling \cup Unlinking
      PROVE  home[k] # call'[u].at
  BY <1>4 DEF Homed, Others
<1>. QED BY <1>1, <1>2, <1>3, <1>4 DEF Homed

\* After the step a call holds x.
HeldAfter(x) == \E t \in Threads : call'[t].pc \in Filling \cup Unlinking /\ call'[t].at = x

LEMMA AccountedKept ==
    ASSUME NEW own, NEW home, NEW home2, NEW t \in Threads, Others(t), Accounted(own, home),
           \A k \in Keys : home[k] \in {None, home2[k]} \/ HeldAfter(home[k]),
           call[t].pc \in Filling \cup Unlinking =>
             \/ HeldAfter(call[t].at)
             \/ \E k \in Keys : home2[k] = call[t].at
             \/ call[t].at \in Heads /\ entry'[call[t].at].type = "free",
           \A h \in Heads : entry[h].type = "free" => entry'[h].type = "free" \/ HeldAfter(h),
           call[t].pc \in {"popped", "append"} =>
             call'[t].pc \in {"popped", "append"} /\ call'[t].tail = call[t].tail,
           call[t].pc \in {"cut", "swap"} =>
             call'[t].pc \in {"cut", "swap"} /\ call'[t].at = call[t].at
    PROVE  Accounted(own, home2)'
<1>1. ASSUME NEW x \in Slots, own[x] \in Heads
      PROVE  \/ \E k \in Keys : home2[k] = x
             \/ HeldAfter(x)
             \/ x \in Heads /\ entry'[x].type = "free"
  <2>1. CASE \E k \in Keys : home[k] = x
    BY <2>1, SlotFacts
  <2>2. ASSUME NEW u \in Threads, call[u].pc \in Filling \cup Unlinking, call[u].at = x
        PROVE  \/ \E k \in Keys : home2[k] = x
               \/ HeldAfter(x)
               \/ x \in Heads /\ entry'[x].type = "free"
    <3>1. CASE u = t
      BY <2>2, <3>1
    <3>2. CASE u # t
      <4>1. call'[u].pc \in Filling \cup Unlinking /\ call'[u].at = x
        BY <2>2, <3>2 DEF Others
      <4>. QED BY <4>1 DEF HeldAfter
    <3>. QED BY <3>1, <3>2
  <2>3. CASE x \in Heads /\ entry[x].type = "free"
    BY <2>3
  <2>. QED BY <1>1, <2>1, <2>2, <2>3 DEF Accounted
<1>2. ASSUME NEW x \in Slots, NEW u \in Threads, own[x] = InHand(u)
      PROVE  \/ call'[u].pc \in {"popped", "append"} /\ x = Tail(call'[u].tail)
             \/ call'[u].pc \in {"cut", "swap"} /\ x = call'[u].at
  <2>1. \/ call[u].pc \in {"popped", "append"} /\ x = Tail(call[u].tail)
        \/ call[u].pc \in {"cut", "swap"} /\ x = call[u].at
    BY <1>2 DEF Accounted
  <2>. QED BY <2>1 DEF Others
<1>. QED BY <1>1, <1>2 DEF Accounted, HeldAfter

LEMMA JumpsKept ==
    ASSUME NEW home, JumpsOwned(home), UNCHANGED jumps, faults \subseteq faults',
           \A k \in Keys : home[k] # None =>
             /\ entry'[home[k]].type = entry[home[k]].type
             /\ entry'[home[k]].jump_head = entry[home[k]].jump_head
    PROVE  JumpsOwned(home)'
<1>1. \A k \in Keys : Holds(home, k)' <=> Holds(home, k)
  BY DEF Holds
<1>2. \A k \in Keys : Holds(home, k) => home[k] # None
  BY DEF Holds
<1>. QED BY <1>1, <1>2 DEF JumpsOwned

LEMMA BusyFinite ==
    ASSUME NEW t \in Threads, Others(t), IsFiniteSet(Busy)
    PROVE  IsFiniteSet(Busy') /\ IsFiniteSet(Taken') /\ IsFiniteSet(Given')
<1>1. Busy' \subseteq Busy \cup {t}
  BY DEF Busy, Others
<1>2. IsFiniteSet(Busy \cup {t})
  BY FS_AddElement
<1>3. IsFiniteSet(Busy')
  BY <1>1, <1>2, FS_Subset
<1>4. Taken' \subseteq Busy' /\ Given' \subseteq Busy'
  BY DEF Busy, Taken, Given
<1>. QED BY <1>3, <1>4, FS_Subset

LEMMA CountedKept ==
    ASSUME NEW own, NEW t \in Threads, Others(t), Counted(own), UNCHANGED tail_avail,
           call[t].pc \in {"push", "pushed"} <=> call'[t].pc \in {"push", "pushed"},
           call[t].pc = "popped" <=> call'[t].pc = "popped"
    PROVE  Counted(own)'
<1>1. Taken' = Taken /\ Given' = Given
  BY DEF Taken, Given, Others
<1>2. IsFiniteSet(Busy')
  BY BusyFinite DEF Counted
<1>. QED BY <1>1, <1>2 DEF Counted, Queue

LEMMA OthersKnow ==
    ASSUME NEW own, NEW pos, NEW home, NEW now, NEW own2, NEW pos2, NEW home2, NEW u \in Threads,
           Typed, Placed(own, pos, home, now), Homed(own, home), Knows(own, pos, home, u),
           call'[u] = call[u],
           call[u].pc # "idle" =>
             /\ \A x \in Slots :
                  own[x] \in {HeadFor(u), InHand(u)} \/ own2[x] \in {HeadFor(u), InHand(u)} =>
                    own2[x] = own[x] /\ pos2[x] = pos[x] /\ entry'[x] = entry[x]
             /\ call[u].key \in Keys =>
                  home2[call[u].key] = home[call[u].key] /\ slot'[call[u].key] = slot[call[u].key],
           Pushes(own2, pos2, u)'
    PROVE  Knows(own2, pos2, home2, u)'
<1>. DEFINE c == call[u]
            H == HeadOf(c.key)
<1>1. CASE c.pc = "idle"
  BY <1>1 DEF Knows, Walks, Pops, Fills, Seeks, Walking, Popping, Filling, Setting, Seeking, Unlinking
<1>2. CASE c.pc # "idle"
  <2>1. c \in Calls /\ c.key \in Keys /\ c.key \in Nat
    BY <1>2, KeysAssumption DEF Typed, Knows, Walks
  <2>2. H \in Heads /\ H \in Slots /\ own[H] = H
    BY <2>1, SlotFacts DEF Placed, Slots
  <2>3. HeadFor(u) = H /\ HeadFor(u)' = H
    BY DEF HeadFor
  <2>4. ASSUME NEW x \in Slots
        PROVE  /\ own[x] = H => own2[x] = H /\ pos2[x] = pos[x] /\ entry'[x] = entry[x]
               /\ own2[x] = H => own[x] = H /\ pos2[x] = pos[x] /\ entry'[x] = entry[x]
               /\ own[x] = InHand(u) => own2[x] = InHand(u) /\ entry'[x] = entry[x]
    BY <1>2, <2>3
  <2>5. home2[c.key] = home[c.key] /\ slot'[c.key] = slot[c.key]
    BY <1>2, <2>1
  <2>6. \A x \in Slots : own[x] = H /\ Ends(own, pos, x) => Ends(own2, pos2, x)
    BY <2>4 DEF Ends
  <2>7. \A x, y \in Slots : own[x] = H /\ Succ(own, pos, x, y) => Succ(own2, pos2, x, y)
    BY <2>4 DEF Succ
  <2>8. home[c.key] # None => home[c.key] \in Slots /\ own[home[c.key]] = H
    BY <2>1 DEF Placed, Homed
  <2>. HIDE DEF H
  <2>9. Walks(own2, pos2, u)'
    <3>1. Walks(own, pos, u)
      BY DEF Knows
    <3>. QED BY <3>1, <2>1, <2>2, <2>3, <2>4 DEF Walks, Walking
  <2>10. Pops(own2, pos2, u)'
    <3>1. Pops(own, pos, u)
      BY DEF Knows
    <3>2. c.tail # 0 => Tail(c.tail) \in Slots
      BY <2>1, SlotFacts DEF Calls, Slots
    <3>. QED BY <3>1, <3>2, <2>1, <2>3, <2>4, <2>6 DEF Pops, Popping
  <2>11. Fills(own2, pos2, home2, u)'
    <3>1. Fills(own, pos, home, u)
      BY DEF Knows
    <3>2. c.pc \in Filling /\ c.loaded => Word(c.at)' = Word(c.at)
      BY <3>1, <2>3, <2>4 DEF Fills, Word
    <3>. QED BY <3>1, <3>2, <2>1, <2>3, <2>4, <2>5, <2>6 DEF Fills, Filling, Setting
  <2>12. Seeks(own2, pos2, home2, u)'
    <3>1. Seeks(own, pos, home, u)
      BY DEF Knows
    <3>2. c.pc = "free" => Word(c.at)' = Word(c.at)
      BY <3>1, <2>3, <2>4 DEF Seeks, Word, Unlinking
    <3>3. c.pc \in Seeking \cup {"jumps"} => c.at \in Slots /\ own[c.at] = H
      BY <3>1, <2>3 DEF Seeks
    <3>4. c.pc \in Unlinking => c.at \in Slots /\ own[c.at] = H
      BY <3>1, <2>3 DEF Seeks
    <3>5. c.pc \in Seeking \cup Unlinking \cup {"jumps"} /\ c.tail # 0 =>
            c.prev \in Slots /\ own[c.prev] = H /\ Succ(own2, pos2, c.prev, c.at)
      BY <3>1, <3>3, <3>4, <2>7 DEF Seeks, Succ
    <3>6. c.pc = "unlink" => entry'[c.prev] = entry[c.prev]
      BY <3>1, <3>5, <2>4 DEF Seeks, Unlinking
    <3>. QED BY <3>1, <3>2, <3>3, <3>4, <3>5, <3>6, <2>1, <2>3, <2>4, <2>5, <2>8
            DEF Seeks, Seeking, Unlinking
  <2>. QED BY <2>9, <2>10, <2>11, <2>12 DEF Knows
<1>. QED BY <1>1, <1>2

LEMMA PushesKept ==
    ASSUME NEW own, NEW pos, NEW own2, NEW pos2, NEW u \in Threads,
           Typed, call'[u] = call[u], Pushes(own, pos, u),
           \A x \in Slots : own[x] \in {Pooled, InHand(u)} \/ own2[x] \in {Pooled, InHand(u)} =>
             own2[x] = own[x] /\ pos2[x] = pos[x] /\ entry'[x] = entry[x]
    PROVE  Pushes(own2, pos2, u)'
<1>. DEFINE c == call[u]
<1>1. c \in Calls
  BY DEF Typed
<1>2. /\ c.tail # 0 => Tail(c.tail) \in Slots
      /\ c.want # 0 => Tail(c.want) \in Slots
  BY <1>1, SlotFacts DEF Calls, Slots
<1>3. \A x, y \in Slots : own[x] = Pooled /\ Succ(own, pos, x, y) => Succ(own2, pos2, x, y)
  BY DEF Succ
<1>4. c.pc = "push" => own[Tail(c.want)] = Pooled
  BY DEF Pushes, Succ
<1>. QED BY <1>1, <1>2, <1>3, <1>4 DEF Pushes

\* A step changes only what belongs to one of the owners, before and after.
ChangesOnly(own, pos, own2, pos2, owners) ==
    \A x \in Slots : \/ own2[x] = own[x] /\ pos2[x] = pos[x] /\ entry'[x] = entry[x]
                     \/ {own[x], own2[x]} \subseteq owners

LEMMA OthersKnowPool ==
    ASSUME NEW own, NEW pos, NEW home, NEW now, NEW own2, NEW pos2, NEW home2, NEW t \in Threads,
           Typed, CallsApart, Shape(own, pos, home, now), Others(t), call[t].pc # "idle",
           ChangesOnly(own, pos, own2, pos2, {HeadFor(t), InHand(t), Pooled}),
           \A k \in Keys : k # call[t].key => home2[k] = home[k] /\ slot'[k] = slot[k],
           \A u \in Threads : u # t => Pushes(own2, pos2, u)'
    PROVE  \A u \in Threads : u # t => Knows(own2, pos2, home2, u)'
<1>. SUFFICES ASSUME NEW u \in Threads, u # t PROVE Knows(own2, pos2, home2, u)'
  OBVIOUS
<1>1. call'[u] = call[u]
  BY DEF Others
<1>2. ASSUME call[u].pc # "idle"
      PROVE  /\ \A x \in Slots :
                  own[x] \in {HeadFor(u), InHand(u)} \/ own2[x] \in {HeadFor(u), InHand(u)} =>
                    own2[x] = own[x] /\ pos2[x] = pos[x] /\ entry'[x] = entry[x]
             /\ call[u].key \in Keys =>
                  home2[call[u].key] = home[call[u].key] /\ slot'[call[u].key] = slot[call[u].key]
  <2>1. HeadFor(u) # HeadFor(t)
    BY <1>2 DEF CallsApart
  <2>2. call[u].key # call[t].key
    BY <2>1 DEF HeadFor
  <2>3. Walks(own, pos, u) /\ Walks(own, pos, t)
    BY DEF Shape, Knows
  <2>4. HeadFor(u) \in Heads /\ HeadFor(t) \in Heads
    BY <1>2, <2>3, SlotFacts, KeysAssumption DEF Walks, HeadFor
  <2>5. /\ HeadFor(u) # InHand(t) /\ HeadFor(u) # Pooled
        /\ InHand(u) # HeadFor(t) /\ InHand(u) # InHand(t) /\ InHand(u) # Pooled
    BY <2>4, OwnerFacts
  <2>. QED BY <2>1, <2>2, <2>5 DEF ChangesOnly
<1>3. Placed(own, pos, home, now) /\ Homed(own, home) /\ Knows(own, pos, home, u)
  BY DEF Shape
<1>4. Pushes(own2, pos2, u)'
  OBVIOUS
<1>. QED BY <1>1, <1>2, <1>3, <1>4, OthersKnow

LEMMA OthersKnowChain ==
    ASSUME NEW own, NEW pos, NEW home, NEW now, NEW own2, NEW pos2, NEW home2, NEW t \in Threads,
           Typed, CallsApart, Shape(own, pos, home, now), Others(t), call[t].pc # "idle",
           ChangesOnly(own, pos, own2, pos2, {HeadFor(t), InHand(t)}),
           \A k \in Keys : k # call[t].key => home2[k] = home[k] /\ slot'[k] = slot[k]
    PROVE  \A u \in Threads : u # t => Knows(own2, pos2, home2, u)'
<1>1. ASSUME NEW u \in Threads, u # t PROVE Pushes(own2, pos2, u)'
  <2>1. call'[u] = call[u] /\ Pushes(own, pos, u)
    BY <1>1 DEF Others, Shape, Knows
  <2>2. HeadFor(t) \in Heads
    BY SlotFacts, KeysAssumption DEF Walks, HeadFor, Shape, Knows
  <2>3. /\ Pooled # InHand(t) /\ Pooled # HeadFor(t)
        /\ InHand(u) # HeadFor(t) /\ InHand(u) # InHand(t)
    BY <1>1, <2>2, OwnerFacts
  <2>4. \A x \in Slots : own[x] \in {Pooled, InHand(u)} \/ own2[x] \in {Pooled, InHand(u)} =>
             own2[x] = own[x] /\ pos2[x] = pos[x] /\ entry'[x] = entry[x]
    BY <2>3 DEF ChangesOnly
  <2>. QED BY <2>1, <2>4, PushesKept
<1>2. ChangesOnly(own, pos, own2, pos2, {HeadFor(t), InHand(t), Pooled})
  BY DEF ChangesOnly
<1>. QED BY <1>1, <1>2, OthersKnowPool

-----------------------------------------------------------------------------
(* Steps that only read: the call goes on, and has the same part as before *)
(* in what the table is.                                                   *)

Fixed == Filling \cup {"popped", "append", "free", "unlink", "cut", "swap", "push", "pushed"}

SamePart(t) ==
    /\ call[t].pc \in Fixed => /\ call'[t].pc = call[t].pc /\ call'[t].at = call[t].at
                               /\ call'[t].tail = call[t].tail /\ call'[t].want = call[t].want
    /\ call[t].pc = "next" => call'[t].pc = "unlink" /\ call'[t].at = call[t].at
    /\ call[t].pc \in Seeking \cup {"jumps"} =>
         call'[t].pc \in Seeking \cup {"jumps"} /\ call'[t].key = call[t].key
    /\ call[t].pc \notin Fixed \cup {"next"} => call'[t].pc \notin Fixed \cup {"next"}

LEMMA QuietShape ==
    ASSUME NEW own, NEW pos, NEW home, NEW now, NEW t \in Threads,
           Typed, Shape(own, pos, home, now), Others(t),
           UNCHANGED <<entry, pool, jumps, slot>>, faults \subseteq faults',
           SamePart(t), Knows(own, pos, home, t)'
    PROVE  Shape(own, pos, home, now)'
<1>. USE DEF pool, Fixed, Filling, Setting, Seeking, Unlinking
<1>1. Placed(own, pos, home, now)'
  BY DEF Shape, Placed
<1>2. Chained(own, pos)'
  BY ChainedKept DEF Shape, SamePart
<1>3. Queued(own, pos)'
  BY QueuedKept DEF Shape, SamePart
<1>4. Tagged(own)'
  BY TaggedKept DEF Shape, SamePart
<1>5. Homed(own, home)'
  <2>1. Homed(own, home)
    BY DEF Shape
  <2>2. call'[t].pc \in Filling \cup Unlinking =>
          call[t].pc \in Filling \cup Unlinking /\ call'[t].at = call[t].at
    BY DEF SamePart
  <2>3. call'[t].pc \in Filling \cup Unlinking => \A k \in Keys : home[k] # call'[t].at
    BY <2>1, <2>2 DEF Homed
  <2>4. call[t].pc \in Seeking \cup {"jumps"} =>
          call'[t].pc \in Seeking \cup {"jumps"} /\ call'[t].key = call[t].key
    BY DEF SamePart
  <2>. HIDE DEF Fixed, Filling, Setting, Seeking, Unlinking
  <2>. QED BY <2>1, <2>3, <2>4, HomedKept
<1>6. Accounted(own, home)'
  <2>1. Accounted(own, home)
    BY DEF Shape
  <2>2. call[t].pc \in Filling \cup Unlinking => HeldAfter(call[t].at)
    BY DEF SamePart, HeldAfter
  <2>3. /\ call[t].pc \in {"popped", "append"} =>
             call'[t].pc \in {"popped", "append"} /\ call'[t].tail = call[t].tail
        /\ call[t].pc \in {"cut", "swap"} =>
             call'[t].pc \in {"cut", "swap"} /\ call'[t].at = call[t].at
    BY DEF SamePart
  <2>. HIDE DEF Fixed, Filling, Setting, Seeking, Unlinking
  <2>. QED BY <2>1, <2>2, <2>3, AccountedKept
<1>7. JumpsOwned(home)'
  BY JumpsKept DEF Shape
<1>8. Counted(own)'
  BY CountedKept DEF Shape, SamePart
<1>9. ASSUME NEW u \in Threads PROVE Knows(own, pos, home, u)'
  <2>1. CASE u = t
    BY <2>1
  <2>2. CASE u # t
    <3>1. call'[u] = call[u]
      BY <2>2 DEF Others
    <3>2. Knows(own, pos, home, u) /\ Placed(own, pos, home, now) /\ Homed(own, home)
      BY DEF Shape
    <3>3. Pushes(own, pos, u)'
      BY <3>1, <3>2, PushesKept DEF Knows
    <3>4. /\ \A x \in Slots : entry'[x] = entry[x]
          /\ slot'[call[u].key] = slot[call[u].key]
      OBVIOUS
    <3>. HIDE DEF Fixed, Filling, Setting, Seeking, Unlinking
    <3>. QED BY <3>1, <3>2, <3>3, <3>4, OthersKnow
  <2>. QED BY <2>1, <2>2
<1>. QED BY <1>1, <1>2, <1>3, <1>4, <1>5, <1>6, <1>7, <1>8, <1>9 DEF Shape

LEMMA ApartKept ==
    ASSUME NEW t \in Threads, CallsApart, Others(t),
           call'[t].pc # "idle" => call[t].pc # "idle" /\ call'[t].key = call[t].key,
           call'[t].pc = "push" => call[t].pc = "push" /\ call'[t].at = call[t].at
    PROVE  CallsApart'
<1>1. \A u \in Threads :
        /\ call'[u].pc # "idle" => call[u].pc # "idle" /\ call'[u].key = call[u].key
        /\ call'[u].pc = "push" => call[u].pc = "push" /\ call'[u].at = call[u].at
  BY DEF Others
<1>. QED BY <1>1 DEF CallsApart, HeadFor

LEMMA IdleKnows ==
    ASSUME NEW own, NEW pos, NEW home, NEW t \in Threads, call'[t].pc = "idle"
    PROVE  Knows(own, pos, home, t)'
BY DEF Knows, Walks, Pops, Fills, Seeks, Pushes, Walking, Popping, Filling, Setting, Seeking,
       Unlinking

LEMMA CallFacts ==
    ASSUME NEW own, NEW pos, NEW home, NEW now, NEW t \in Threads,
           Whole(own, pos, home, now), call[t].pc # "idle"
    PROVE  /\ call[t] \in Calls /\ call[t].key \in Keys /\ call[t].key \in Nat
           /\ HeadFor(t) \in Heads /\ HeadFor(t) \in Slots /\ own[HeadFor(t)] = HeadFor(t)
           /\ call[t].pc \in {"acquire", "jumps"} \cup Walking \cup Popping \cup Filling
                               \cup Seeking \cup Unlinking =>
                call[t].at \in Slots /\ own[call[t].at] = HeadFor(t)
<1>1. /\ Walks(own, pos, t) /\ Pops(own, pos, t) /\ Fills(own, pos, home, t)
      /\ Seeks(own, pos, home, t) /\ Placed(own, pos, home, now)
  BY DEF Whole, Shape, Knows
<1>2. call[t] \in Calls
  BY DEF Whole, Typed
<1>3. call[t].key \in Keys /\ call[t].key \in Nat
  BY <1>1, KeysAssumption DEF Walks
<1>4. HeadFor(t) \in Heads /\ HeadFor(t) \in Slots /\ own[HeadFor(t)] = HeadFor(t)
  BY <1>1, <1>3, SlotFacts DEF HeadFor, Slots, Placed
<1>5. CASE call[t].pc = "acquire"
  BY <1>1, <1>2, <1>3, <1>4, <1>5 DEF Walks
<1>6. CASE call[t].pc \in Walking
  BY <1>1, <1>2, <1>3, <1>4, <1>6 DEF Walks
<1>7. CASE call[t].pc \in Popping
  BY <1>1, <1>2, <1>3, <1>4, <1>7 DEF Pops
<1>8. CASE call[t].pc \in Filling
  BY <1>1, <1>2, <1>3, <1>4, <1>8 DEF Fills
<1>9. CASE call[t].pc \in Seeking \cup Unlinking \cup {"jumps"}
  BY <1>1, <1>2, <1>3, <1>4, <1>9 DEF Seeks
<1>. QED BY <1>2, <1>3, <1>4, <1>5, <1>6, <1>7, <1>8, <1>9

LEMMA QuietStep ==
    ASSUME NEW own, NEW pos, NEW home, NEW now, NEW t \in Threads,
           Whole(own, pos, home, now), call' \in [Threads -> Calls], Others(t),
           UNCHANGED <<entry, pool, jumps, slot>>, faults \subseteq faults',
           call[t].pc # "idle",
           call'[t].pc # "idle" => call'[t].key = call[t].key,
           SamePart(t), Knows(own, pos, home, t)'
    PROVE  TableInv'
<1>1. Typed /\ CallsApart /\ Shape(own, pos, home, now)
  BY DEF Whole
<1>2. Typed'
  BY <1>1 DEF Typed, pool
<1>3. CallsApart'
  BY <1>1, ApartKept DEF SamePart, Fixed
<1>4. Shape(own, pos, home, now)'
  BY <1>1, QuietShape
<1>5. Whole(own, pos, home, now)'
  BY <1>2, <1>3, <1>4 DEF Whole
<1>. QED BY <1>5 DEF TableInv

LEMMA WordTyped ==
    ASSUME Typed, NEW x \in Slots
    PROVE  Word(x) \in Types \X Nat /\ entry[x].next \in Indices
<1>1. entry[x] \in Entries
  BY DEF Typed
<1>. QED BY <1>1 DEF Entries, Word

LEMMA LoadWordInv ==
    ASSUME NEW own, NEW pos, NEW home, NEW now, NEW t \in Threads,
           Whole(own, pos, home, now), LoadWord(t)
    PROVE  TableInv'
<1>. DEFINE c == call[t]
            d == [c EXCEPT !.loaded = TRUE, !.word = Word(c.at)]
<1>. USE DEF Walking, Popping, Filling, Setting, Seeking, Unlinking
<1>1. c.pc \in {"acquire", "settag", "settype", "free"} /\ Become(t, d)
  BY DEF LoadWord
<1>2. c \in Calls /\ c.at \in Slots /\ Typed
  BY <1>1, CallFacts DEF Whole
<1>3. d \in Calls /\ d.pc = c.pc /\ d.key = c.key /\ d.at = c.at /\ d.tail = c.tail
      /\ d.want = c.want /\ d.prev = c.prev /\ d.word = Word(c.at)
  BY <1>2, WordTyped DEF Calls
<1>. HIDE DEF d
<1>4. call' \in [Threads -> Calls] /\ call'[t] = d /\ Others(t)
  BY <1>1, <1>2, <1>3, Becomes
<1>5. UNCHANGED <<entry, pool, jumps, slot>> /\ faults \subseteq faults'
  BY DEF LoadWord, table, history
<1>6. SamePart(t)
  BY <1>1, <1>3, <1>4 DEF SamePart, Fixed
<1>7. Knows(own, pos, home, t)
  BY DEF Whole, Shape
<1>8. HeadFor(t)' = HeadFor(t)
  BY <1>3, <1>4 DEF HeadFor
<1>9. Knows(own, pos, home, t)'
  BY <1>1, <1>3, <1>4, <1>5, <1>7, <1>8 DEF Knows, Walks, Pops, Fills, Seeks, Pushes, Word
<1>. QED BY <1>1, <1>3, <1>4, <1>5, <1>6, <1>9, QuietStep

\* The links of a chain are those of its order, as its call sees it.
LEMMA ChainLink ==
    ASSUME NEW own, NEW pos, NEW home, NEW now, NEW t \in Threads,
           Whole(own, pos, home, now), call[t].pc # "idle",
           NEW x \in Slots, own[x] = HeadFor(t),
           ~(call[t].pc \in Setting /\ call[t].at = x)
    PROVE  /\ entry[x].next = 0 => Ends(own, pos, x)
           /\ entry[x].next # 0 => /\ Succ(own, pos, x, Tail(entry[x].next))
                                   /\ Tail(entry[x].next) \in Slots
<1>1. HeadFor(t) \in Heads /\ Typed /\ CallsApart /\ Chained(own, pos)
  BY CallFacts DEF Whole, Shape
<1>2. ASSUME NEW u \in Threads, call[u].pc \in Setting, call[u].at = x PROVE FALSE
  <2>1. own[x] = HeadFor(u) /\ call[u].pc # "idle"
    BY <1>2, CallFacts DEF Setting, Filling
  <2>2. u = t
    BY <1>1, <2>1 DEF CallsApart
  <2>. QED BY <1>2, <2>2
<1>3. entry[x].next \in Indices
  BY <1>1, WordTyped
<1>4. entry[x].next # 0 => Tail(entry[x].next) \in Slots
  BY <1>3, SlotFacts DEF Slots
<1>. QED BY <1>1, <1>2, <1>4 DEF Chained

\* In the chain of a call, the last entry has no link.
LEMMA ChainEnd ==
    ASSUME NEW own, NEW pos, NEW home, NEW now, NEW t \in Threads,
           Whole(own, pos, home, now), call[t].pc # "idle",
           NEW x \in Slots, own[x] = HeadFor(t), Ends(own, pos, x),
           ~(call[t].pc \in Setting /\ call[t].at = x)
    PROVE  entry[x].next = 0
<1>. SUFFICES ASSUME entry[x].next # 0 PROVE FALSE
  OBVIOUS
<1>. DEFINE y == Tail(entry[x].next)
<1>1. Succ(own, pos, x, y) /\ y \in Slots
  BY ChainLink
<1>2. own[y] = own[x] /\ pos[x] < pos[y] /\ pos[y] <= pos[x]
  BY <1>1 DEF Succ, Ends
<1>3. pos[x] \in Nat /\ pos[y] \in Nat
  BY <1>1 DEF Whole, Shape, Placed
<1>. QED BY <1>2, <1>3

LEMMA OrderFacts ==
    ASSUME NEW own, NEW pos, NEW home, NEW now, Whole(own, pos, home, now)
    PROVE  /\ \A x \in Slots : pos[x] \in Nat /\ pos[x] <= now
           /\ now \in Nat /\ own \in [Slots -> Heads \cup {Pooled} \cup {InHand(t) : t \in Threads}]
           /\ \A h \in Heads : own[h] = h /\ pos[h] = 0
           /\ \A x \in Tails : pos[x] > 0
           /\ \A x, y \in Slots : own[x] = own[y] /\ pos[x] = pos[y] => x = y
           /\ Heads \subseteq Slots /\ Tails \subseteq Slots
BY DEF Whole, Shape, Placed, Slots

LEMMA LoadNextInv ==
    ASSUME NEW own, NEW pos, NEW home, NEW now, NEW t \in Threads,
           Whole(own, pos, home, now), LoadNext(t)
    PROVE  TableInv'
<1>. DEFINE c == call[t]
            d == [c EXCEPT !.loaded = TRUE, !.seen = entry[Link(c)].next]
<1>. USE DEF Walking, Popping, Filling, Setting, Seeking, Unlinking
<1>1. c.pc \in {"clear", "unlink", "cut", "push", "append"} /\ Become(t, d)
  BY DEF LoadNext, Setters
<1>2. c \in Calls /\ Typed /\ Knows(own, pos, home, t)
  BY <1>1, CallFacts DEF Whole, Shape
<1>3. Link(c) \in Slots
  <2>1. c.pc \in {"clear", "append"} => c.at \in Slots
    BY CallFacts
  <2>2. c.pc = "unlink" => c.prev \in Slots
    BY <1>2 DEF Knows, Seeks
  <2>3. c.pc = "cut" => c.at \in Slots
    BY <1>2, SlotFacts DEF Knows, Pushes, Calls, Slots
  <2>4. c.pc = "push" => Tail(c.want) \in Slots
    BY <1>2, SlotFacts DEF Knows, Pushes, Calls, Slots
  <2>. QED BY <1>1, <2>1, <2>2, <2>3, <2>4 DEF Link
<1>4. d \in Calls /\ d.pc = c.pc /\ d.key = c.key /\ d.at = c.at /\ d.tail = c.tail
      /\ d.want = c.want /\ d.prev = c.prev /\ d.seen = entry[Link(c)].next
  BY <1>2, <1>3, WordTyped DEF Calls
<1>. HIDE DEF d
<1>5. call' \in [Threads -> Calls] /\ call'[t] = d /\ Others(t)
  BY <1>1, <1>2, <1>4, Becomes
<1>6. UNCHANGED <<entry, pool, jumps, slot>> /\ faults \subseteq faults'
  BY DEF LoadNext, table, history
<1>7. SamePart(t)
  BY <1>1, <1>4, <1>5 DEF SamePart, Fixed
<1>8. HeadFor(t)' = HeadFor(t)
  BY <1>4, <1>5 DEF HeadFor
<1>9. Knows(own, pos, home, t)'
  BY <1>1, <1>2, <1>4, <1>5, <1>6, <1>8 DEF Knows, Walks, Pops, Fills, Seeks, Pushes, Link
<1>. QED BY <1>1, <1>4, <1>5, <1>6, <1>7, <1>9, QuietStep

LEMMA AcquireFailInv ==
    ASSUME NEW own, NEW pos, NEW home, NEW now, NEW t \in Threads,
           Whole(own, pos, home, now), AcquireFail(t)
    PROVE  TableInv'
<1>. USE DEF Walking, Popping, Filling, Setting, Seeking, Unlinking
<1>1. call[t].pc = "acquire" /\ Goto(t, "headtag") /\ "headtag" \in Stages
  BY DEF AcquireFail, Loaded, Stages
<1>2. call[t].at \in Slots /\ own[call[t].at] = HeadFor(t) /\ Typed /\ HeadFor(t) \in Heads
      /\ call[t].key \in Keys
  BY <1>1, CallFacts DEF Whole
<1>3. /\ call' \in [Threads -> Calls] /\ Others(t) /\ call'[t].pc = "headtag"
      /\ call'[t].key = call[t].key /\ call'[t].at = call[t].at
  BY <1>1, <1>2, Goes
<1>4. UNCHANGED <<entry, pool, jumps, slot>> /\ faults \subseteq faults'
  BY DEF AcquireFail, table, history
<1>5. SamePart(t)
  BY <1>1, <1>3 DEF SamePart, Fixed
<1>6. call[t].at = HeadFor(t) /\ HeadFor(t)' = HeadFor(t)
  BY <1>1, <1>3 DEF Whole, Shape, Knows, Walks, HeadFor
<1>7. \A y \in Slots : ~(pos[y] < pos[call[t].at])
  BY <1>2, <1>6, OrderFacts
<1>8. Knows(own, pos, home, t)'
  BY <1>2, <1>3, <1>4, <1>6, <1>7 DEF Knows, Walks, Pops, Fills, Seeks, Pushes
<1>. QED BY <1>1, <1>3, <1>4, <1>5, <1>8, QuietStep

LEMMA CheckTagInv ==
    ASSUME NEW own, NEW pos, NEW home, NEW now, NEW t \in Threads,
           Whole(own, pos, home, now), CheckTag(t)
    PROVE  TableInv'
<1>. USE DEF Walking, Popping, Filling, Setting, Seeking, Unlinking
<1>1. call[t].pc \in {"headtag", "tag"}
  BY DEF CheckTag
<1>2. UNCHANGED <<entry, pool, jumps, slot>> /\ faults \subseteq faults' /\ Typed
  BY DEF CheckTag, table, history, Whole
<1>3. CASE EndCall(t)
  <2>1. call' \in [Threads -> Calls] /\ call'[t].pc = "idle" /\ Others(t)
    BY <1>2, <1>3, Ended
  <2>2. SamePart(t)
    BY <1>1, <2>1 DEF SamePart, Fixed
  <2>3. Knows(own, pos, home, t)'
    BY <2>1, IdleKnows
  <2>. QED BY <1>1, <1>2, <2>1, <2>2, <2>3, QuietStep
<1>4. ASSUME entry[call[t].at].tag # TagOf(call[t].key),
             NEW label \in {"tail", "step"}, label = "step" => call[t].pc = "tag", Goto(t, label)
      PROVE  TableInv'
  <2>1. label \in Stages
    BY DEF Stages
  <2>2. /\ call' \in [Threads -> Calls] /\ Others(t) /\ call'[t].pc = label
        /\ call'[t].key = call[t].key /\ call'[t].at = call[t].at
    BY <1>2, <1>4, <2>1, Goes
  <2>3. SamePart(t)
    BY <1>1, <2>2 DEF SamePart, Fixed
  <2>4. HeadFor(t)' = HeadFor(t) /\ Knows(own, pos, home, t)
    BY <2>2 DEF HeadFor, Whole, Shape
  <2>5. Knows(own, pos, home, t)'
    BY <1>1, <1>2, <1>4, <2>2, <2>4 DEF Knows, Walks, Pops, Fills, Seeks, Pushes
  <2>. QED BY <1>1, <1>2, <2>2, <2>3, <2>5, QuietStep
<1>. QED BY <1>1, <1>3, <1>4 DEF CheckTag

LEMMA AtTailInv ==
    ASSUME NEW own, NEW pos, NEW home, NEW now, NEW t \in Threads,
           Whole(own, pos, home, now), AtTail(t)
    PROVE  TableInv'
<1>. SUFFICES ASSUME Calm' PROVE TableInv'
  BY DEF TableInv
<1>. USE DEF Walking, Popping, Filling, Setting, Seeking, Unlinking
<1>. DEFINE c == call[t]
<1>1. c.pc = "tail" /\ Typed
  BY DEF AtTail, Whole
<1>2. UNCHANGED <<entry, pool, jumps, slot>> /\ faults \subseteq faults'
  BY DEF AtTail, table
<1>3. /\ c.at \in Slots /\ own[c.at] = HeadFor(t)
      /\ \A y \in Slots : own[y] = HeadFor(t) /\ pos[y] < pos[c.at] => entry[y].tag # TagOf(c.key)
  BY <1>1 DEF Whole, Shape, Knows, Walks
<1>4. CASE entry[c.at].next = NULL_INDEX
  <2>1. Goto(t, "avail") /\ entry[c.at].tag # TagOf(c.key)
    BY <1>4 DEF AtTail, Calm
  <2>2. /\ call' \in [Threads -> Calls] /\ Others(t) /\ call'[t].pc = "avail"
        /\ call'[t].key = c.key /\ call'[t].at = c.at
    BY <1>1, <2>1, Goes DEF Stages
  <2>3. SamePart(t)
    BY <1>1, <2>2 DEF SamePart, Fixed
  <2>4. Ends(own, pos, c.at)
    BY <1>1, <1>3, <1>4, ChainLink DEF NULL_INDEX
  <2>5. \A y \in Slots : own[y] = HeadFor(t) => entry[y].tag # TagOf(c.key)
    <3>. SUFFICES ASSUME NEW y \in Slots, own[y] = HeadFor(t) PROVE entry[y].tag # TagOf(c.key)
      OBVIOUS
    <3>1. pos[y] <= pos[c.at]
      BY <1>3, <2>4 DEF Ends
    <3>2. pos[y] < pos[c.at] \/ y = c.at
      BY <1>3, <3>1, OrderFacts
    <3>. QED BY <1>3, <2>1, <3>2
  <2>6. HeadFor(t)' = HeadFor(t) /\ c.key \in Keys
    BY <1>1, <2>2, CallFacts DEF HeadFor
  <2>7. Knows(own, pos, home, t)'
    BY <1>2, <1>3, <2>2, <2>4, <2>5, <2>6 DEF Knows, Walks, Pops, Fills, Seeks, Pushes, Ends
  <2>. QED BY <1>1, <1>2, <2>2, <2>3, <2>7, QuietStep
<1>5. CASE entry[c.at].next # NULL_INDEX
  <2>1. Goto(t, "tag")
    BY <1>5 DEF AtTail
  <2>2. /\ call' \in [Threads -> Calls] /\ Others(t) /\ call'[t].pc = "tag"
        /\ call'[t].key = c.key /\ call'[t].at = c.at
    BY <1>1, <2>1, Goes DEF Stages
  <2>3. SamePart(t)
    BY <1>1, <2>2 DEF SamePart, Fixed
  <2>6. HeadFor(t)' = HeadFor(t) /\ c.key \in Keys
    BY <1>1, <2>2, CallFacts DEF HeadFor
  <2>7. Knows(own, pos, home, t)'
    BY <1>2, <1>3, <1>5, <2>2, <2>6 DEF Knows, Walks, Pops, Fills, Seeks, Pushes, NULL_INDEX
  <2>. QED BY <1>1, <1>2, <2>2, <2>3, <2>7, QuietStep
<1>. QED BY <1>4, <1>5

LEMMA StepInv ==
    ASSUME NEW own, NEW pos, NEW home, NEW now, NEW t \in Threads,
           Whole(own, pos, home, now), Step(t)
    PROVE  TableInv'
<1>. USE DEF Walking, Popping, Filling, Setting, Seeking, Unlinking
<1>. DEFINE c == call[t]
            n == entry[c.at].next
            d == [c EXCEPT !.pc = "tail", !.at = Tail(n)]
<1>1. c.pc = "step" /\ Typed /\ c \in Calls
  BY CallFacts DEF Step, Whole
<1>2. /\ c.at \in Slots /\ own[c.at] = HeadFor(t) /\ n # 0 /\ entry[c.at].tag # TagOf(c.key)
      /\ \A y \in Slots : own[y] = HeadFor(t) /\ pos[y] < pos[c.at] => entry[y].tag # TagOf(c.key)
  BY <1>1 DEF Whole, Shape, Knows, Walks
<1>3. Become(t, d) /\ UNCHANGED <<entry, pool, jumps, slot>> /\ faults \subseteq faults'
  BY <1>2 DEF Step, table, history, NULL_INDEX
<1>4. Succ(own, pos, c.at, Tail(n)) /\ Tail(n) \in Slots
  BY <1>1, <1>2, ChainLink
<1>5. ASSUME NEW y \in Slots, own[y] = HeadFor(t), pos[y] < pos[Tail(n)]
      PROVE  entry[y].tag # TagOf(c.key)
  <2>1. ~(pos[c.at] < pos[y])
    BY <1>2, <1>4, <1>5, OrderFacts DEF Succ
  <2>2. pos[y] < pos[c.at] \/ y = c.at
    BY <1>2, <1>5, <2>1, OrderFacts
  <2>. QED BY <1>2, <1>5, <2>2
<1>6. d \in Calls /\ d.pc = "tail" /\ d.key = c.key /\ d.at = Tail(n)
  BY <1>1, <1>4 DEF Calls, Stages
<1>. HIDE DEF d, n
<1>7. call' \in [Threads -> Calls] /\ call'[t] = d /\ Others(t)
  BY <1>1, <1>3, <1>6, Becomes
<1>8. call'[t].pc = "tail" /\ call'[t].key = c.key /\ call'[t].at = Tail(n)
  BY <1>6, <1>7
<1>9. SamePart(t)
  BY <1>1, <1>8 DEF SamePart, Fixed
<1>10. HeadFor(t)' = HeadFor(t) /\ c.key \in Keys
  BY <1>1, <1>8, CallFacts DEF HeadFor
<1>11. own[Tail(n)] = HeadFor(t)
  BY <1>2, <1>4 DEF Succ
<1>12. Knows(own, pos, home, t)'
  BY <1>3, <1>4, <1>5, <1>8, <1>10, <1>11 DEF Knows, Walks, Pops, Fills, Seeks, Pushes
<1>. QED BY <1>1, <1>3, <1>7, <1>8, <1>9, <1>12, QuietStep

LEMMA AvailInv ==
    ASSUME NEW own, NEW pos, NEW home, NEW now, NEW t \in Threads,
           Whole(own, pos, home, now), Avail(t)
    PROVE  TableInv'
<1>. USE DEF Walking, Popping, Filling, Setting, Seeking, Unlinking
<1>1. call[t].pc = "avail" /\ Typed
  BY DEF Avail, Whole
<1>2. UNCHANGED <<entry, pool, jumps, slot>> /\ faults \subseteq faults'
  BY DEF Avail, table, history
<1>3. CASE EndCall(t)
  <2>1. call' \in [Threads -> Calls] /\ call'[t].pc = "idle" /\ Others(t)
    BY <1>1, <1>3, Ended
  <2>2. SamePart(t)
    BY <1>1, <2>1 DEF SamePart, Fixed
  <2>3. Knows(own, pos, home, t)'
    BY <2>1, IdleKnows
  <2>. QED BY <1>1, <1>2, <2>1, <2>2, <2>3, QuietStep
<1>4. CASE Goto(t, "first")
  <2>1. /\ call' \in [Threads -> Calls] /\ Others(t) /\ call'[t].pc = "first"
        /\ call'[t].key = call[t].key /\ call'[t].at = call[t].at
    BY <1>1, <1>4, Goes DEF Stages
  <2>2. SamePart(t)
    BY <1>1, <2>1 DEF SamePart, Fixed
  <2>3. HeadFor(t)' = HeadFor(t) /\ Knows(own, pos, home, t)
    BY <2>1 DEF HeadFor, Whole, Shape
  <2>4. Knows(own, pos, home, t)'
    BY <1>1, <1>2, <2>1, <2>3 DEF Knows, Walks, Pops, Fills, Seeks, Pushes, Ends
  <2>. QED BY <1>1, <1>2, <2>1, <2>2, <2>4, QuietStep
<1>. QED BY <1>3, <1>4 DEF Avail

LEMMA PopRetryInv ==
    ASSUME NEW own, NEW pos, NEW home, NEW now, NEW t \in Threads,
           Whole(own, pos, home, now), PopRetry(t)
    PROVE  TableInv'
<1>. USE DEF Walking, Popping, Filling, Setting, Seeking, Unlinking
<1>1. call[t].pc = "pop" /\ Typed /\ Goto(t, "first")
  BY DEF PopRetry, Whole
<1>2. UNCHANGED <<entry, pool, jumps, slot>> /\ faults \subseteq faults'
  BY DEF PopRetry, table, history
<1>3. /\ call' \in [Threads -> Calls] /\ Others(t) /\ call'[t].pc = "first"
      /\ call'[t].key = call[t].key /\ call'[t].at = call[t].at
  BY <1>1, Goes DEF Stages
<1>4. SamePart(t)
  BY <1>1, <1>3 DEF SamePart, Fixed
<1>5. HeadFor(t)' = HeadFor(t) /\ Knows(own, pos, home, t)
  BY <1>3 DEF HeadFor, Whole, Shape
<1>6. Knows(own, pos, home, t)'
  BY <1>1, <1>2, <1>3, <1>5 DEF Knows, Walks, Pops, Fills, Seeks, Pushes, Ends
<1>. QED BY <1>1, <1>2, <1>3, <1>4, <1>6, QuietStep

LEMMA LoadFirstInv ==
    ASSUME NEW own, NEW pos, NEW home, NEW now, NEW t \in Threads,
           Whole(own, pos, home, now), LoadFirst(t) \/ LoadSecond(t)
    PROVE  TableInv'
<1>. USE DEF Walking, Popping, Filling, Setting, Seeking, Unlinking
<1>. DEFINE c == call[t]
<1>1. Typed /\ Knows(own, pos, home, t) /\ c.pc \in {"first", "second"}
  BY DEF Whole, Shape, LoadFirst, LoadSecond
<1>2. ASSUME NEW d \in Calls, Become(t, d), d.pc \in {"second", "pop"}, d.key = c.key, d.at = c.at,
             d.tail # 0, UNCHANGED <<table, history>>
      PROVE  TableInv'
  <2>1. call' \in [Threads -> Calls] /\ call'[t] = d /\ Others(t)
    BY <1>1, <1>2, Becomes
  <2>2. UNCHANGED <<entry, pool, jumps, slot>> /\ faults \subseteq faults'
    BY <1>2 DEF table, history
  <2>3. SamePart(t)
    BY <1>1, <1>2, <2>1 DEF SamePart, Fixed
  <2>4. HeadFor(t)' = HeadFor(t)
    BY <1>2, <2>1 DEF HeadFor
  <2>5. Knows(own, pos, home, t)'
    BY <1>1, <1>2, <2>1, <2>2, <2>4 DEF Knows, Walks, Pops, Fills, Seeks, Pushes, Ends
  <2>. QED BY <1>1, <1>2, <2>1, <2>2, <2>3, <2>5, QuietStep
<1>3. c \in Calls
  BY <1>1, CallFacts
<1>4. CASE LoadFirst(t)
  <2>. DEFINE d == [c EXCEPT !.pc = "second", !.tail = tail_first]
  <2>1. d \in Calls /\ d.pc = "second" /\ d.key = c.key /\ d.at = c.at /\ d.tail # 0
    BY <1>1, <1>3 DEF Calls, Stages, Typed
  <2>2. Become(t, d) /\ UNCHANGED <<table, history>>
    BY <1>4 DEF LoadFirst
  <2>. HIDE DEF d
  <2>. QED BY <1>2, <2>1, <2>2
<1>5. CASE LoadSecond(t)
  <2>. DEFINE x == Tail(c.tail)
              d == [c EXCEPT !.pc = "pop", !.want = entry[x].next]
  <2>1. c.pc = "second" /\ c.tail # 0 /\ c.tail \in Indices
    BY <1>1, <1>3, <1>5 DEF LoadSecond, Knows, Pops, Calls
  <2>2. x \in Slots
    BY <2>1, SlotFacts DEF Slots
  <2>3. d \in Calls /\ d.pc = "pop" /\ d.key = c.key /\ d.at = c.at /\ d.tail # 0
    BY <1>1, <1>3, <2>1, <2>2, WordTyped DEF Calls, Stages
  <2>4. Become(t, d) /\ UNCHANGED <<table, history>>
    BY <1>5, <2>1 DEF LoadSecond, NULL_INDEX
  <2>. HIDE DEF d
  <2>. QED BY <1>2, <2>3, <2>4
<1>. QED BY <1>4, <1>5

\* What a call that seeks an entry knows of it.
LEMMA SoughtFacts ==
    ASSUME NEW own, NEW pos, NEW home, NEW now, NEW t \in Threads,
           Whole(own, pos, home, now), call[t].pc \in Seeking \cup {"jumps"}
    PROVE  LET c == call[t]
               h == home[c.key]
           IN  /\ c \in Calls /\ c.key \in Keys /\ HeadFor(t) \in Heads
               /\ h \in Slots /\ own[h] = HeadFor(t) /\ pos[c.at] <= pos[h]
               /\ entry[h].tag = TagOf(c.key) /\ entry[h].type # "free"
               /\ c.at \in Slots /\ own[c.at] = HeadFor(t)
               /\ entry[c.at].next = 0 => c.at = h
               /\ entry[c.at].tag = TagOf(c.key) => c.at = h
<1>. DEFINE c == call[t]
            h == home[c.key]
<1>1. Seeks(own, pos, home, t) /\ Homed(own, home) /\ Placed(own, pos, home, now) /\ Tagged(own)
      /\ CallsApart
  BY DEF Whole, Shape, Knows
<1>2. c.pc # "idle" /\ c.pc \notin Filling \cup Unlinking
  BY DEF Seeking, Filling, Setting, Unlinking
<1>3. c \in Calls /\ c.key \in Keys /\ HeadFor(t) \in Heads /\ c.at \in Slots /\ own[c.at] = HeadFor(t)
  BY <1>1, <1>2, CallFacts DEF Seeks
<1>4. h # None /\ pos[c.at] <= pos[h]
  BY <1>1 DEF Seeks
<1>5. h \in Slots /\ own[h] = HeadFor(t) /\ entry[h].tag = TagOf(c.key) /\ entry[h].type # "free"
  BY <1>1, <1>3, <1>4 DEF Homed, Placed, HeadFor, TypeFor
<1>6. ASSUME entry[c.at].next = 0 PROVE c.at = h
  <2>1. Ends(own, pos, c.at)
    BY <1>2, <1>3, <1>6, ChainLink DEF Filling
  <2>2. pos[h] <= pos[c.at]
    BY <2>1, <1>3, <1>5 DEF Ends
  <2>. QED BY <2>2, <1>3, <1>4, <1>5, OrderFacts
<1>7. ASSUME entry[c.at].tag = TagOf(c.key), c.at # h PROVE FALSE
  <2>1. PICK u \in Threads : call[u].pc = "settag" /\ call[u].at \in {c.at, h}
    BY <1>1, <1>3, <1>5, <1>7 DEF Tagged
  <2>2. own[call[u].at] = HeadFor(u) /\ call[u].pc # "idle"
    BY <2>1, CallFacts DEF Filling, Setting
  <2>3. u = t
    BY <1>1, <1>2, <1>3, <1>5, <2>1, <2>2 DEF CallsApart
  <2>. QED BY <1>2, <2>1, <2>3 DEF Filling, Setting
<1>. QED BY <1>3, <1>4, <1>5, <1>6, <1>7

\* The steps of a search that go to another label and stay where they are.
LEMMA SeekOn ==
    ASSUME NEW own, NEW pos, NEW home, NEW now, NEW t \in Threads, NEW label,
           Whole(own, pos, home, now), UNCHANGED <<table, history>>, Goto(t, label),
           call[t].pc \in Seeking, label \in {"isempty", "match", "follow", "jumps"},
           label = "isempty" => /\ call[t].pc = "isfree" /\ entry[call[t].at].type = "free",
           label = "follow" => entry[call[t].at].tag # TagOf(call[t].key),
           label = "jumps" => entry[call[t].at].tag = TagOf(call[t].key) \/ entry[call[t].at].next = 0
    PROVE  TableInv'
<1>. USE DEF Walking, Popping, Filling, Setting, Seeking, Unlinking
<1>. DEFINE c == call[t]
            h == home[c.key]
<1>1. Typed /\ Knows(own, pos, home, t)
  BY DEF Whole, Shape
<1>2. UNCHANGED <<entry, pool, jumps, slot>> /\ faults \subseteq faults'
  BY DEF table, history
<1>3. /\ call' \in [Threads -> Calls] /\ Others(t) /\ call'[t].pc = label
      /\ call'[t].key = c.key /\ call'[t].at = c.at
      /\ call'[t].tail = c.tail /\ call'[t].prev = c.prev
  BY <1>1, Goes DEF Stages
<1>4. SamePart(t)
  BY <1>3 DEF SamePart, Fixed
<1>5. HeadFor(t)' = HeadFor(t)
  BY <1>3 DEF HeadFor
<1>6. /\ c.key \in Keys /\ h \in Slots /\ own[h] = HeadFor(t) /\ pos[c.at] <= pos[h]
      /\ c.at \in Slots /\ own[c.at] = HeadFor(t)
      /\ label = "jumps" => h = c.at
      /\ entry[h].tag = TagOf(c.key)
  <2>1. c.pc \in Seeking \cup {"jumps"}
    OBVIOUS
  <2>. HIDE DEF Walking, Popping, Filling, Setting, Seeking, Unlinking
  <2>2. /\ c.key \in Keys /\ h \in Slots /\ own[h] = HeadFor(t) /\ pos[c.at] <= pos[h]
        /\ c.at \in Slots /\ own[c.at] = HeadFor(t) /\ entry[h].tag = TagOf(c.key)
        /\ entry[c.at].next = 0 => c.at = h
        /\ entry[c.at].tag = TagOf(c.key) => c.at = h
    BY <2>1, SoughtFacts
  <2>. QED BY <2>2
<1>7. label = "follow" => pos[c.at] < pos[h]
  BY <1>6, OrderFacts
<1>8. Knows(own, pos, home, t)'
  BY <1>1, <1>2, <1>3, <1>5, <1>6, <1>7 DEF Knows, Walks, Pops, Fills, Seeks, Pushes, Succ
<1>. QED BY <1>2, <1>3, <1>4, <1>8, QuietStep

LEMMA SeekInv ==
    ASSUME NEW own, NEW pos, NEW home, NEW now, NEW t \in Threads, Whole(own, pos, home, now),
           HeadIsFree(t) \/ ChainIsEmpty(t) \/ Match(t) \/ Last(t)
    PROVE  TableInv'
<1>. DEFINE c == call[t]
<1>1. c.pc \in Seeking /\ UNCHANGED <<table, history>>
  BY DEF HeadIsFree, ChainIsEmpty, Match, Last, Seeking
<1>2. CASE HeadIsFree(t)
  <2>. DEFINE label == IF entry[c.at].type = "free" THEN "isempty" ELSE "match"
  <2>1. Goto(t, label) /\ c.pc = "isfree"
    BY <1>2 DEF HeadIsFree
  <2>2. label \in {"isempty", "match"} /\ (label = "isempty" => entry[c.at].type = "free")
    OBVIOUS
  <2>. HIDE DEF label
  <2>. QED BY <1>1, <2>1, <2>2, SeekOn
<1>3. CASE ChainIsEmpty(t)
  <2>1. entry[c.at].type = "free"
    BY <1>3 DEF ChainIsEmpty, Whole, Shape, Knows, Seeks
  <2>2. entry[c.at].next # 0
    BY <1>1, <2>1, SoughtFacts
  <2>3. Goto(t, "match")
    BY <1>3, <2>2 DEF ChainIsEmpty, NULL_INDEX
  <2>. QED BY <1>1, <2>3, SeekOn
<1>4. CASE Match(t)
  <2>. DEFINE label == IF entry[c.at].tag = TagOf(c.key) THEN "jumps" ELSE "follow"
  <2>1. Goto(t, label)
    BY <1>4 DEF Match
  <2>2. /\ label \in {"jumps", "follow"} /\ (label = "jumps" => entry[c.at].tag = TagOf(c.key))
        /\ (label = "follow" => entry[c.at].tag # TagOf(c.key))
    OBVIOUS
  <2>. HIDE DEF label
  <2>. QED BY <1>1, <2>1, <2>2, SeekOn
<1>5. CASE Last(t)
  <2>. DEFINE label == IF entry[c.at].next = NULL_INDEX THEN "jumps" ELSE "match"
  <2>1. Goto(t, label)
    BY <1>5 DEF Last
  <2>2. label \in {"jumps", "match"} /\ (label = "jumps" => entry[c.at].next = 0)
    BY DEF NULL_INDEX
  <2>. HIDE DEF label
  <2>. QED BY <1>1, <2>1, <2>2, SeekOn
<1>. QED BY <1>2, <1>3, <1>4, <1>5

LEMMA FollowInv ==
    ASSUME NEW own, NEW pos, NEW home, NEW now, NEW t \in Threads,
           Whole(own, pos, home, now), Follow(t)
    PROVE  TableInv'
<1>. USE DEF Walking, Popping, Filling, Setting, Seeking, Unlinking
<1>. DEFINE c == call[t]
            h == home[c.key]
            n == entry[c.at].next
            d == [c EXCEPT !.pc = "last", !.prev = c.at, !.tail = n, !.at = Tail(n)]
<1>1. c.pc = "follow" /\ Typed /\ Knows(own, pos, home, t)
  BY DEF Follow, Whole, Shape
<1>2. /\ c \in Calls /\ c.key \in Keys /\ h \in Slots /\ own[h] = HeadFor(t)
      /\ c.at \in Slots /\ own[c.at] = HeadFor(t) /\ (n = 0 => c.at = h)
  BY SMTT(30), <1>1, SoughtFacts
<1>3. pos[c.at] < pos[h] /\ h # None /\ slot[c.key] = None
  BY <1>1 DEF Knows, Seeks
<1>4. n # 0 /\ n \in Indices
  BY <1>1, <1>2, <1>3, OrderFacts, WordTyped
<1>5. Become(t, d) /\ UNCHANGED <<entry, pool, jumps, slot>> /\ faults \subseteq faults'
  BY <1>4 DEF Follow, table, history, NULL_INDEX
<1>6. Succ(own, pos, c.at, Tail(n)) /\ Tail(n) \in Slots
  BY <1>1, <1>2, <1>4, ChainLink
<1>7. pos[Tail(n)] <= pos[h] /\ own[Tail(n)] = HeadFor(t)
  BY <1>2, <1>3, <1>6 DEF Succ
<1>8. d \in Calls /\ d.pc = "last" /\ d.key = c.key /\ d.at = Tail(n) /\ d.tail = n /\ d.prev = c.at
  BY <1>2, <1>4, <1>6 DEF Calls, Stages
<1>. HIDE DEF d, n
<1>9. call' \in [Threads -> Calls] /\ call'[t] = d /\ Others(t)
  BY <1>1, <1>5, <1>8, Becomes
<1>10. /\ call'[t].pc = "last" /\ call'[t].key = c.key /\ call'[t].at = Tail(n)
       /\ call'[t].tail = n /\ call'[t].prev = c.at
  BY <1>8, <1>9
<1>11. SamePart(t)
  BY <1>1, <1>10 DEF SamePart, Fixed
<1>12. HeadFor(t)' = HeadFor(t)
  BY <1>10 DEF HeadFor
<1>13. Knows(own, pos, home, t)'
  BY <1>2, <1>3, <1>4, <1>5, <1>6, <1>7, <1>10, <1>12
     DEF Knows, Walks, Pops, Fills, Seeks, Pushes, Succ
<1>. QED BY <1>1, <1>5, <1>9, <1>10, <1>11, <1>13, QuietStep

LEMMA ReadNextInv ==
    ASSUME NEW own, NEW pos, NEW home, NEW now, NEW t \in Threads,
           Whole(own, pos, home, now), ReadNext(t)
    PROVE  TableInv'
<1>. USE DEF Walking, Popping, Filling, Setting, Seeking, Unlinking
<1>. DEFINE c == call[t]
            d == [c EXCEPT !.pc = "unlink", !.want = entry[c.at].next]
<1>1. c.pc = "next" /\ Typed /\ Knows(own, pos, home, t) /\ Become(t, d)
  BY DEF ReadNext, Whole, Shape
<1>2. UNCHANGED <<entry, pool, jumps, slot>> /\ faults \subseteq faults'
  BY DEF ReadNext, table, history
<1>3. c \in Calls /\ c.key \in Keys /\ c.at \in Slots /\ entry[c.at].next \in Indices
  BY <1>1, CallFacts, WordTyped
<1>4. /\ d \in Calls /\ d.pc = "unlink" /\ d.key = c.key /\ d.at = c.at /\ d.tail = c.tail
      /\ d.prev = c.prev /\ d.want = entry[c.at].next /\ d.loaded = c.loaded /\ d.seen = c.seen
  BY <1>3 DEF Calls, Stages
<1>. HIDE DEF d
<1>5. call' \in [Threads -> Calls] /\ call'[t] = d /\ Others(t)
  BY <1>1, <1>4, Becomes
<1>6. SamePart(t)
  BY <1>1, <1>4, <1>5 DEF SamePart, Fixed
<1>7. HeadFor(t)' = HeadFor(t)
  BY <1>4, <1>5 DEF HeadFor
<1>8. Knows(own, pos, home, t)'
  BY <1>1, <1>2, <1>3, <1>4, <1>5, <1>7 DEF Knows, Walks, Pops, Fills, Seeks, Pushes, Succ
<1>. QED BY <1>1, <1>2, <1>4, <1>5, <1>6, <1>8, QuietStep

LEMMA ReserveEntryInv ==
    ASSUME NEW own, NEW pos, NEW home, NEW now, NEW t \in Threads, NEW k \in Keys,
           Orderly, Whole(own, pos, home, now), ReserveEntry(t, k)
    PROVE  TableInv'
<1>. USE DEF Walking, Popping, Filling, Setting, Seeking, Unlinking
<1>. DEFINE d == [Idle EXCEPT !.pc = "acquire", !.key = k, !.at = HeadOf(k)]
<1>1. Typed /\ CallsApart /\ Shape(own, pos, home, now) /\ Become(t, d) /\ MayCall(t, k)
  BY DEF ReserveEntry, Whole
<1>2. call[t].pc = "idle"
  BY <1>1 DEF MayCall, Idle
<1>3. UNCHANGED <<entry, pool, jumps, slot>> /\ faults \subseteq faults'
  BY DEF ReserveEntry, table
<1>4. HeadOf(k) \in Slots /\ k \in Nat
  BY SlotFacts, KeysAssumption DEF Slots
<1>5. d \in Calls /\ d.pc = "acquire" /\ d.key = k /\ d.at = HeadOf(k)
  BY <1>4, ZeroIsIndex DEF Idle, Calls, Stages, Types, NULL_INDEX
<1>. HIDE DEF d
<1>6. call' \in [Threads -> Calls] /\ call'[t] = d /\ Others(t)
  BY <1>1, <1>5, Becomes
<1>7. SamePart(t)
  BY <1>2, <1>5, <1>6 DEF SamePart, Fixed
<1>8. Knows(own, pos, home, t)'
  BY <1>5, <1>6 DEF Knows, Walks, Pops, Fills, Seeks, Pushes, HeadFor
<1>9. Shape(own, pos, home, now)'
  BY <1>1, <1>3, <1>6, <1>7, <1>8, QuietShape
<1>10. Typed'
  BY <1>1, <1>3, <1>6 DEF Typed, pool
<1>11. CallsApart'
  <2>1. \A u \in Threads : u # t /\ call[u].pc # "idle" => HeadFor(u) # HeadOf(k)
    BY <1>1 DEF MayCall, Orderly, HeadFor, Idle
  <2>2. \A u \in Threads : u # t => call'[u] = call[u]
    BY <1>6 DEF Others
  <2>3. call'[t].pc = "acquire" /\ call'[t].key = k
    BY <1>5, <1>6
  <2>. QED BY <1>1, <2>1, <2>2, <2>3 DEF CallsApart, HeadFor
<1>12. Whole(own, pos, home, now)'
  BY <1>9, <1>10, <1>11 DEF Whole
<1>. QED BY <1>12 DEF TableInv

LEMMA JumpsThrowInv ==
    ASSUME NEW t \in Threads, JumpsThrow(t)
    PROVE  TableInv'
BY DEF JumpsThrow, TableInv, Calm

-----------------------------------------------------------------------------
(* Steps that change the table.                                            *)

LEMMA TypeSet ==
    ASSUME Typed, NEW e \in Slots, NEW ty \in Types, entry' = [entry EXCEPT ![e].type = ty]
    PROVE  /\ entry' \in [Slots -> Entries] /\ \A x \in Slots : x # e => entry'[x] = entry[x]
           /\ entry'[e].type = ty /\ entry'[e].tag = entry[e].tag
           /\ entry'[e].next = entry[e].next /\ entry'[e].jump_head = entry[e].jump_head
<1>1. entry \in [Slots -> Entries] /\ entry[e] \in Entries
  BY DEF Typed
<1>. DEFINE r == [entry[e] EXCEPT !.type = ty]
<1>2. /\ r \in Entries /\ r.type = ty /\ r.tag = entry[e].tag
      /\ r.next = entry[e].next /\ r.jump_head = entry[e].jump_head
  BY <1>1 DEF Entries
<1>3. entry' = [entry EXCEPT ![e] = r]
  BY <1>1
<1>. HIDE DEF r
<1>. QED BY <1>1, <1>2, <1>3

LEMMA TagSet ==
    ASSUME Typed, NEW e \in Slots, NEW tag \in Nat, entry' = [entry EXCEPT ![e].tag = tag]
    PROVE  /\ entry' \in [Slots -> Entries] /\ \A x \in Slots : x # e => entry'[x] = entry[x]
           /\ entry'[e].type = entry[e].type /\ entry'[e].tag = tag
           /\ entry'[e].next = entry[e].next /\ entry'[e].jump_head = entry[e].jump_head
<1>1. entry \in [Slots -> Entries] /\ entry[e] \in Entries
  BY DEF Typed
<1>. DEFINE r == [entry[e] EXCEPT !.tag = tag]
<1>2. /\ r \in Entries /\ r.type = entry[e].type /\ r.tag = tag
      /\ r.next = entry[e].next /\ r.jump_head = entry[e].jump_head
  BY <1>1 DEF Entries
<1>3. entry' = [entry EXCEPT ![e] = r]
  BY <1>1
<1>. HIDE DEF r
<1>. QED BY <1>1, <1>2, <1>3

LEMMA NextSet ==
    ASSUME Typed, NEW e \in Slots, NEW n \in Indices, entry' = [entry EXCEPT ![e].next = n]
    PROVE  /\ entry' \in [Slots -> Entries] /\ \A x \in Slots : x # e => entry'[x] = entry[x]
           /\ entry'[e].type = entry[e].type /\ entry'[e].tag = entry[e].tag
           /\ entry'[e].next = n /\ entry'[e].jump_head = entry[e].jump_head
<1>1. entry \in [Slots -> Entries] /\ entry[e] \in Entries
  BY DEF Typed
<1>. DEFINE r == [entry[e] EXCEPT !.next = n]
<1>2. /\ r \in Entries /\ r.type = entry[e].type /\ r.tag = entry[e].tag
      /\ r.next = n /\ r.jump_head = entry[e].jump_head
  BY <1>1 DEF Entries
<1>3. entry' = [entry EXCEPT ![e] = r]
  BY <1>1
<1>. HIDE DEF r
<1>. QED BY <1>1, <1>2, <1>3

LEMMA JumpSet ==
    ASSUME Typed, NEW e \in Slots, NEW j \in 0 .. JumpChains,
           entry' = [entry EXCEPT ![e].jump_head = j]
    PROVE  /\ entry' \in [Slots -> Entries] /\ \A x \in Slots : x # e => entry'[x] = entry[x]
           /\ entry'[e].type = entry[e].type /\ entry'[e].tag = entry[e].tag
           /\ entry'[e].next = entry[e].next /\ entry'[e].jump_head = j
<1>1. entry \in [Slots -> Entries] /\ entry[e] \in Entries
  BY DEF Typed
<1>. DEFINE r == [entry[e] EXCEPT !.jump_head = j]
<1>2. /\ r \in Entries /\ r.type = entry[e].type /\ r.tag = entry[e].tag
      /\ r.next = entry[e].next /\ r.jump_head = j
  BY <1>1 DEF Entries
<1>3. entry' = [entry EXCEPT ![e] = r]
  BY <1>1
<1>. HIDE DEF r
<1>. QED BY <1>1, <1>2, <1>3

\* A step of a call that changes entries of its own chain, and no owners.
LEMMA ChainStep ==
    ASSUME NEW own, NEW pos, NEW home, NEW now, NEW home2, NEW t \in Threads,
           Whole(own, pos, home, now), call[t].pc # "idle", Others(t),
           call' \in [Threads -> Calls], entry' \in [Slots -> Entries], UNCHANGED pool,
           jumps' \subseteq 1 .. JumpChains, slot' \in [Keys -> Slots \cup {None}],
           home2 \in [Keys -> Slots \cup {None}],
           \A x \in Slots : entry'[x] = entry[x] \/ own[x] = HeadFor(t),
           \A k \in Keys : k # call[t].key => home2[k] = home[k] /\ slot'[k] = slot[k],
           call'[t].pc # "idle" => call'[t].key = call[t].key,
           {call[t].pc, call'[t].pc} \cap {"popped", "push", "pushed"} = {},
           Chained(own, pos)', Tagged(own)', Homed(own, home2)', Accounted(own, home2)',
           JumpsOwned(home2)', Knows(own, pos, home2, t)'
    PROVE  TableInv'
<1>1. Typed /\ CallsApart /\ Shape(own, pos, home, now) /\ HeadFor(t) \in Heads
  BY CallFacts DEF Whole
<1>2. Typed'
  BY <1>1 DEF Typed, pool
<1>3. CallsApart'
  BY <1>1, ApartKept
<1>4. Placed(own, pos, home2, now)'
  BY <1>1 DEF Shape, Placed
<1>5. Queued(own, pos)'
  <2>1. \A x \in Slots : own[x] = Pooled => entry'[x] = entry[x]
    BY <1>1, OwnerFacts
  <2>. QED BY <1>1, <2>1, QueuedKept DEF Shape, pool
<1>6. Counted(own)'
  BY <1>1, CountedKept DEF Shape, pool
<1>7. \A u \in Threads : u # t => Knows(own, pos, home2, u)'
  <2>1. ChangesOnly(own, pos, own, pos, {HeadFor(t), InHand(t)})
    BY DEF ChangesOnly
  <2>. QED BY <1>1, <2>1, OthersKnowChain
<1>8. Shape(own, pos, home2, now)'
  BY <1>4, <1>5, <1>6, <1>7 DEF Shape
<1>. QED BY <1>2, <1>3, <1>8 DEF TableInv, Whole

LEMMA AcquireInv ==
    ASSUME NEW own, NEW pos, NEW home, NEW now, NEW t \in Threads,
           Whole(own, pos, home, now), Acquire(t)
    PROVE  TableInv'
<1>. SUFFICES ASSUME Calm' PROVE TableInv'
  BY DEF TableInv
<1>. DEFINE c == call[t]
            e == call[t].at
<1>1. /\ c.pc = "acquire" /\ c.pc # "idle" /\ Typed /\ CallsApart /\ Shape(own, pos, home, now)
      /\ Homed(own, home) /\ Knows(own, pos, home, t)
  BY DEF Acquire, Loaded, Whole, Shape
<1>2. /\ e \in Slots /\ own[e] = HeadFor(t) /\ HeadFor(t) \in Heads /\ c.key \in Keys /\ e = HeadFor(t)
  BY <1>1, CallFacts DEF Knows, Walks
<1>3. entry[e].type = "free" /\ entry' = [entry EXCEPT ![e].type = "taken"]
  <2>1. Word(e) = c.word /\ c.word[1] = "free" /\ CasType(t, "taken")
    BY DEF Acquire
  <2>2. Word(e)[1] = entry[e].type
    BY DEF Word
  <2>. QED BY <2>1, <2>2 DEF CasType
<1>4. /\ entry' \in [Slots -> Entries] /\ \A x \in Slots : x # e => entry'[x] = entry[x]
      /\ entry'[e].tag = entry[e].tag
      /\ entry'[e].next = entry[e].next /\ entry'[e].jump_head = entry[e].jump_head
  BY <1>1, <1>2, <1>3, TypeSet DEF Types
<1>5. /\ call' \in [Threads -> Calls] /\ Others(t) /\ call'[t].pc = "settag"
      /\ call'[t].key = c.key /\ call'[t].at = c.at /\ call'[t].loaded = FALSE
  BY <1>1, Goes DEF Acquire, Stages, Filling, Setting
<1>6. UNCHANGED <<pool, jumps, slot>> /\ faults \subseteq faults'
  BY DEF Acquire
<1>7. entry[e].next = 0
  BY DEF Acquire, Calm, NULL_INDEX
<1>8. Ends(own, pos, e)
  BY <1>1, <1>2, <1>7, ChainLink DEF Setting
<1>9. ASSUME NEW y \in Slots, own[y] = HeadFor(t) PROVE y = e
  BY <1>2, <1>8, <1>9, OrderFacts DEF Ends
<1>10. \A k \in Keys : home[k] # None => home[k] # e /\ home[k] \in Slots
  BY <1>1, <1>3 DEF Homed, TypeFor, Shape, Placed
<1>11. home[c.key] = None
  BY <1>1, <1>2, <1>9, <1>10 DEF Homed, HeadFor
<1>15. Chained(own, pos)'
  BY <1>1, <1>4, <1>5, ChainedKept DEF Shape, Setting
<1>17. Tagged(own)'
  BY <1>1, <1>4, <1>5, TaggedKept DEF Shape
<1>18. Homed(own, home)'
  <2>1. \A k \in Keys : home[k] # call'[t].at
    BY <1>2, <1>5, <1>10, SlotFacts
  <2>2. call[t].pc \notin Seeking \cup {"jumps"}
    BY <1>1 DEF Seeking
  <2>. QED BY <1>1, <1>4, <1>5, <1>6, <1>10, <2>1, <2>2, HomedKept
<1>19. Accounted(own, home)'
  <2>1. HeldAfter(e)
    BY <1>5 DEF HeldAfter, Filling, Setting
  <2>2. Accounted(own, home) /\ call[t].pc \notin Filling \cup Unlinking
    BY <1>1 DEF Shape, Filling, Setting, Unlinking
  <2>3. \A h \in Heads : h \in Slots
    BY OrderFacts
  <2>. QED BY <1>1, <1>4, <1>5, <2>1, <2>2, <2>3, AccountedKept
<1>20. JumpsOwned(home)'
  BY <1>1, <1>4, <1>6, <1>10, JumpsKept DEF Shape
<1>23. Knows(own, pos, home, t)'
  <2>1. HeadFor(t)' = HeadFor(t)
    BY <1>5 DEF HeadFor
  <2>. QED BY <1>2, <1>5, <1>8, <1>9, <1>11, <2>1
          DEF Knows, Walks, Pops, Fills, Seeks, Pushes, Ends, Walking, Popping, Filling, Setting,
              Seeking, Unlinking
<1>24. \A x \in Slots : entry'[x] = entry[x] \/ own[x] = HeadFor(t)
  BY <1>2, <1>4
<1>25. home \in [Keys -> Slots \cup {None}] /\ slot' \in [Keys -> Slots \cup {None}]
       /\ jumps' \subseteq 1 .. JumpChains
  BY <1>1, <1>6 DEF Shape, Placed, Typed
<1>. QED BY <1>1, <1>4, <1>5, <1>6, <1>15, <1>17, <1>18, <1>19, <1>20, <1>23, <1>24, <1>25, ChainStep
\* A call that fills its entry: no other knows of the entry.
LEMMA FillStep ==
    ASSUME NEW own, NEW pos, NEW home, NEW now, NEW t \in Threads,
           Whole(own, pos, home, now), call[t].pc \in Setting, call'[t].pc \in Filling, Others(t),
           call' \in [Threads -> Calls], call'[t].key = call[t].key, call'[t].at = call[t].at,
           entry' \in [Slots -> Entries],
           \A x \in Slots : x # call[t].at => entry'[x] = entry[x],
           UNCHANGED <<pool, jumps, slot>>, faults \subseteq faults',
           Chained(own, pos)', Tagged(own)', Knows(own, pos, home, t)'
    PROVE  TableInv'
<1>. DEFINE e == call[t].at
<1>1. /\ Typed /\ Shape(own, pos, home, now) /\ Homed(own, home) /\ Accounted(own, home)
      /\ call[t].pc \in Filling /\ call[t].pc # "idle"
  BY DEF Whole, Shape, Filling, Setting
<1>2. e \in Slots /\ own[e] = HeadFor(t)
  BY <1>1, CallFacts
<1>3. \A k \in Keys : home[k] # e /\ (home[k] # None => home[k] \in Slots)
  BY <1>1 DEF Homed, Shape, Placed
<1>4. Homed(own, home)'
  <2>1. \A k \in Keys : home[k] # call'[t].at
    BY <1>3
  <2>2. call[t].pc \notin Seeking \cup {"jumps"}
    BY <1>1 DEF Seeking, Filling, Setting
  <2>. QED BY <1>1, <1>3, <2>1, <2>2, HomedKept
<1>5. Accounted(own, home)'
  <2>1. HeldAfter(e)
    BY DEF HeldAfter
  <2>2. call[t].pc \notin {"popped", "append", "cut", "swap"}
    BY <1>1 DEF Filling, Setting
  <2>3. \A h \in Heads : h \in Slots
    BY OrderFacts
  <2>. QED BY <1>1, <2>1, <2>2, <2>3, AccountedKept
<1>6. JumpsOwned(home)'
  BY <1>1, <1>3, JumpsKept DEF Shape
<1>7. \A x \in Slots : entry'[x] = entry[x] \/ own[x] = HeadFor(t)
  BY <1>2
<1>8. home \in [Keys -> Slots \cup {None}] /\ slot' \in [Keys -> Slots \cup {None}]
      /\ jumps' \subseteq 1 .. JumpChains
  BY <1>1 DEF Shape, Placed, Typed
<1>9. {call[t].pc, call'[t].pc} \cap {"popped", "push", "pushed"} = {}
  BY <1>1 DEF Filling, Setting
<1>. QED BY <1>1, <1>4, <1>5, <1>6, <1>7, <1>8, <1>9, ChainStep

LEMMA SetTagInv ==
    ASSUME NEW own, NEW pos, NEW home, NEW now, NEW t \in Threads,
           Whole(own, pos, home, now), SetTag(t)
    PROVE  TableInv'
<1>. DEFINE c == call[t]
            e == call[t].at
<1>1. /\ c.pc = "settag" /\ c.pc \in Setting /\ c.pc \in Filling /\ c.pc # "idle" /\ c.loaded
      /\ Typed /\ CallsApart /\ Shape(own, pos, home, now) /\ Knows(own, pos, home, t)
  BY DEF SetTag, Loaded, Whole, Shape, Setting, Filling
<1>2. /\ e \in Slots /\ own[e] = HeadFor(t) /\ HeadFor(t) \in Heads /\ c.key \in Keys /\ c.key \in Nat
  BY <1>1, CallFacts
<1>3. /\ Ends(own, pos, e) /\ home[c.key] = None /\ c.word = Word(e)
      /\ \A y \in Slots : own[y] = HeadFor(t) /\ y # e => entry[y].tag # TagOf(c.key)
  BY <1>1 DEF Knows, Fills
<1>4. entry' = [entry EXCEPT ![e].tag = TagOf(c.key)]
  BY <1>3 DEF SetTag, CasTag
<1>5. /\ entry' \in [Slots -> Entries] /\ \A x \in Slots : x # e => entry'[x] = entry[x]
      /\ entry'[e].tag = TagOf(c.key) /\ entry'[e].next = entry[e].next
  BY <1>1, <1>2, <1>4, TagSet, TagsAreNumbers
<1>6. /\ call' \in [Threads -> Calls] /\ Others(t) /\ call'[t].pc = "settype"
      /\ call'[t].key = c.key /\ call'[t].at = c.at /\ call'[t].loaded = FALSE
  BY <1>1, Goes DEF SetTag, Stages, Filling, Setting
<1>7. UNCHANGED <<pool, jumps, slot>> /\ faults \subseteq faults'
  BY DEF SetTag, history
<1>8. Chained(own, pos)'
  BY <1>1, <1>5, <1>6, ChainedKept DEF Shape, Setting
<1>9. Tagged(own)'
  <2>. SUFFICES ASSUME NEW x \in Slots, NEW y \in Slots, own[x] \in Heads, own[x] = own[y], x # y,
                       entry'[x].tag = entry'[y].tag
                PROVE  \E u \in Threads : call'[u].pc = "settag" /\ call'[u].at \in {x, y}
    BY DEF Tagged
  <2>1. x # e /\ y # e
    BY <1>2, <1>3, <1>5
  <2>2. PICK u \in Threads : call[u].pc = "settag" /\ call[u].at \in {x, y}
    BY <1>1, <1>5, <2>1 DEF Shape, Tagged
  <2>3. u # t
    BY <2>1, <2>2
  <2>. QED BY <1>6, <2>2, <2>3 DEF Others
<1>10. Knows(own, pos, home, t)'
  <2>1. HeadFor(t)' = HeadFor(t)
    BY <1>6 DEF HeadFor
  <2>. QED BY <1>2, <1>3, <1>5, <1>6, <2>1
          DEF Knows, Walks, Pops, Fills, Seeks, Pushes, Ends, Walking, Popping, Filling, Setting,
              Seeking, Unlinking
<1>11. call'[t].pc \in Filling
  BY <1>6 DEF Filling, Setting
<1>. QED BY <1>1, <1>5, <1>6, <1>7, <1>8, <1>9, <1>10, <1>11, FillStep

LEMMA SetTypeInv ==
    ASSUME NEW own, NEW pos, NEW home, NEW now, NEW t \in Threads,
           Whole(own, pos, home, now), SetType(t)
    PROVE  TableInv'
<1>. DEFINE c == call[t]
            e == call[t].at
<1>1. /\ c.pc = "settype" /\ c.pc \in Setting /\ c.pc \in Filling /\ c.pc # "idle" /\ c.loaded
      /\ Typed /\ CallsApart /\ Shape(own, pos, home, now) /\ Knows(own, pos, home, t)
  BY DEF SetType, Loaded, Whole, Shape, Setting, Filling
<1>2. /\ e \in Slots /\ own[e] = HeadFor(t) /\ HeadFor(t) \in Heads /\ c.key \in Keys
  BY <1>1, CallFacts
<1>3. /\ Ends(own, pos, e) /\ home[c.key] = None /\ c.word = Word(e) /\ entry[e].tag = TagOf(c.key)
      /\ \A y \in Slots : own[y] = HeadFor(t) /\ y # e => entry[y].tag # TagOf(c.key)
  BY <1>1 DEF Knows, Fills, Filling, Setting
<1>4. entry' = [entry EXCEPT ![e].type = TypeFor(c.key)] /\ TypeFor(c.key) \in Types
  BY <1>3 DEF SetType, CasType, TypeFor, Types
<1>5. /\ entry' \in [Slots -> Entries] /\ \A x \in Slots : x # e => entry'[x] = entry[x]
      /\ entry'[e].type = TypeFor(c.key) /\ entry'[e].tag = entry[e].tag
      /\ entry'[e].next = entry[e].next
  BY <1>1, <1>2, <1>4, TypeSet
<1>6. /\ call' \in [Threads -> Calls] /\ Others(t) /\ call'[t].pc = "clear"
      /\ call'[t].key = c.key /\ call'[t].at = c.at /\ call'[t].loaded = FALSE
  BY <1>1, Goes DEF SetType, Stages, Filling, Setting
<1>7. UNCHANGED <<pool, jumps, slot>> /\ faults \subseteq faults'
  BY DEF SetType, history
<1>8. Chained(own, pos)'
  BY <1>1, <1>5, <1>6, ChainedKept DEF Shape, Setting
<1>9. Tagged(own)'
  BY <1>1, <1>5, <1>6, TaggedKept DEF Shape
<1>10. Knows(own, pos, home, t)'
  <2>1. HeadFor(t)' = HeadFor(t)
    BY <1>6 DEF HeadFor
  <2>. QED BY <1>2, <1>3, <1>5, <1>6, <2>1
          DEF Knows, Walks, Pops, Fills, Seeks, Pushes, Ends, Walking, Popping, Filling, Setting,
              Seeking, Unlinking
<1>11. call'[t].pc \in Filling
  BY <1>6 DEF Filling, Setting
<1>. QED BY <1>1, <1>5, <1>6, <1>7, <1>8, <1>9, <1>10, <1>11, FillStep

LEMMA ClearNextInv ==
    ASSUME NEW own, NEW pos, NEW home, NEW now, NEW t \in Threads,
           Whole(own, pos, home, now), SetNext(t), call[t].pc = "clear"
    PROVE  TableInv'
<1>. DEFINE c == call[t]
            e == call[t].at
<1>1. /\ c.pc \in Setting /\ c.pc \in Filling /\ c.pc # "idle" /\ c.loaded
      /\ Typed /\ CallsApart /\ Shape(own, pos, home, now) /\ Knows(own, pos, home, t)
  BY DEF SetNext, Whole, Shape, Setting, Filling
<1>2. /\ e \in Slots /\ own[e] = HeadFor(t) /\ HeadFor(t) \in Heads /\ c.key \in Keys
  BY <1>1, CallFacts
<1>3. /\ Ends(own, pos, e) /\ home[c.key] = None /\ c.seen = entry[e].next
      /\ entry[e].tag = TagOf(c.key) /\ entry[e].type = TypeFor(c.key)
      /\ \A y \in Slots : own[y] = HeadFor(t) /\ y # e => entry[y].tag # TagOf(c.key)
  BY <1>1 DEF Knows, Fills, Filling, Setting
<1>4. Link(c) = e /\ NewLink(c) = 0
  BY DEF Link, NewLink, NULL_INDEX
<1>5. entry' = [entry EXCEPT ![e].next = 0]
  BY <1>3, <1>4 DEF SetNext, CasNext
<1>6. /\ entry' \in [Slots -> Entries] /\ \A x \in Slots : x # e => entry'[x] = entry[x]
      /\ entry'[e].type = entry[e].type /\ entry'[e].tag = entry[e].tag /\ entry'[e].next = 0
  BY <1>1, <1>2, <1>5, NextSet, ZeroIsIndex
<1>7. Goto(t, "data")
  BY DEF SetNext
<1>8. /\ call' \in [Threads -> Calls] /\ Others(t) /\ call'[t].pc = "data"
      /\ call'[t].key = c.key /\ call'[t].at = c.at /\ call'[t].loaded = FALSE
  BY <1>1, <1>7, Goes DEF Stages, Filling
<1>9. UNCHANGED <<pool, jumps, slot>> /\ faults \subseteq faults'
  BY DEF SetNext, history
<1>10. Chained(own, pos)'
  <2>. SUFFICES ASSUME NEW x \in Slots, own[x] \in Heads
                PROVE  /\ entry'[x].next = 0 => Ends(own, pos, x)
                       /\ entry'[x].next # 0 =>
                            \/ Succ(own, pos, x, Tail(entry'[x].next))
                            \/ \E u \in Threads : call'[u].pc \in Setting /\ call'[u].at = x
    BY DEF Chained, Succ, Ends
  <2>1. CASE x = e
    BY <1>3, <1>6, <2>1
  <2>2. CASE x # e
    <3>1. entry'[x] = entry[x]
      BY <1>6, <2>2
    <3>2. ASSUME NEW u \in Threads, call[u].pc \in Setting, call[u].at = x
          PROVE  call'[u].pc \in Setting /\ call'[u].at = x
      BY <1>8, <2>2, <3>2 DEF Others
    <3>. QED BY <1>1, <3>1, <3>2 DEF Shape, Chained
  <2>. QED BY <2>1, <2>2
<1>11. Tagged(own)'
  <2>1. \A x \in Slots : entry'[x].tag = entry[x].tag
    BY <1>6
  <2>. QED BY <1>1, <1>8, <2>1, TaggedKept DEF Shape
<1>12. Knows(own, pos, home, t)'
  <2>1. HeadFor(t)' = HeadFor(t)
    BY <1>8 DEF HeadFor
  <2>. QED BY <1>2, <1>3, <1>6, <1>8, <2>1
          DEF Knows, Walks, Pops, Fills, Seeks, Pushes, Ends, Walking, Popping, Filling, Setting,
              Seeking, Unlinking
<1>13. call'[t].pc \in Filling
  BY <1>8 DEF Filling
<1>. QED BY <1>1, <1>6, <1>8, <1>9, <1>10, <1>11, <1>12, <1>13, FillStep

\* reserve_entry returns: the entry is at home.
LEMMA ReservedStep ==
    ASSUME NEW own, NEW pos, NEW home, NEW now, NEW home2, NEW t \in Threads,
           Whole(own, pos, home, now), call[t].pc = "data", Reserved(t),
           home2 = [home EXCEPT ![call[t].key] = call[t].at],
           entry' \in [Slots -> Entries],
           \A x \in Slots : x # call[t].at => entry'[x] = entry[x],
           entry'[call[t].at].type = entry[call[t].at].type,
           entry'[call[t].at].tag = entry[call[t].at].tag,
           entry'[call[t].at].next = entry[call[t].at].next,
           UNCHANGED pool, jumps' \subseteq 1 .. JumpChains, JumpsOwned(home2)'
    PROVE  TableInv'
<1>. DEFINE c == call[t]
            e == call[t].at
<1>1. /\ c.pc \in Filling /\ c.pc # "idle" /\ c.pc \notin Seeking \cup {"jumps"} /\ c.pc \notin Setting
      /\ Typed /\ CallsApart /\ Shape(own, pos, home, now) /\ Knows(own, pos, home, t)
      /\ Homed(own, home) /\ Accounted(own, home) /\ home \in [Keys -> Slots \cup {None}]
  BY DEF Whole, Shape, Setting, Filling, Seeking, Placed
<1>2. /\ e \in Slots /\ own[e] = HeadFor(t) /\ HeadFor(t) \in Heads /\ c.key \in Keys
  BY <1>1, CallFacts
<1>3. /\ home[c.key] = None /\ entry[e].tag = TagOf(c.key) /\ entry[e].type = TypeFor(c.key)
  BY <1>1 DEF Knows, Fills, Setting
<1>4. call' \in [Threads -> Calls] /\ call'[t].pc = "idle" /\ Others(t)
  BY <1>1, Ended DEF Reserved
<1>5. slot' = [slot EXCEPT ![c.key] = e] /\ slot \in [Keys -> Slots \cup {None}]
  BY <1>1 DEF Reserved, Typed
<1>6. /\ home2 \in [Keys -> Slots \cup {None}] /\ slot' \in [Keys -> Slots \cup {None}]
      /\ home2[c.key] = e /\ slot'[c.key] = e
      /\ \A k \in Keys : k # c.key => home2[k] = home[k] /\ slot'[k] = slot[k]
  BY <1>1, <1>2, <1>5
<1>7. \A k \in Keys : home[k] # e
  BY <1>1 DEF Homed
<1>8. \A x \in Slots : entry'[x].next = entry[x].next /\ entry'[x].tag = entry[x].tag
                       /\ entry'[x].type = entry[x].type
  OBVIOUS
<1>9. Chained(own, pos)'
  BY <1>1, <1>4, <1>8, ChainedKept DEF Shape
<1>10. Tagged(own)'
  BY <1>1, <1>4, <1>8, TaggedKept DEF Shape, Setting
<1>11. Homed(own, home2)'
  <2>1. ASSUME NEW k \in Keys, home2[k] # None
        PROVE  /\ own[home2[k]] = HeadOf(k)
               /\ entry'[home2[k]].tag = TagOf(k) /\ entry'[home2[k]].type = TypeFor(k)
    <3>1. CASE k = c.key
      BY <1>2, <1>3, <1>6, <3>1 DEF HeadFor
    <3>2. CASE k # c.key
      <4>1. home[k] # None /\ home[k] \in Slots /\ home2[k] = home[k]
        BY <1>1, <1>6, <2>1, <3>2
      <4>. QED BY <1>1, <1>8, <4>1 DEF Homed
    <3>. QED BY <3>1, <3>2
  <2>2. \A j, k \in Keys : home2[j] # None /\ home2[j] = home2[k] => j = k
    BY <1>1, <1>6, <1>7 DEF Homed
  <2>3. ASSUME NEW k \in Keys, slot'[k] # home2[k]
        PROVE  /\ slot'[k] = None
               /\ \E u \in Threads : call'[u].pc \in Seeking \cup {"jumps"} /\ call'[u].key = k
    <3>1. k # c.key /\ slot[k] # home[k] /\ slot'[k] = slot[k]
      BY <1>6, <2>3
    <3>2. PICK u \in Threads : call[u].pc \in Seeking \cup {"jumps"} /\ call[u].key = k
      BY <1>1, <3>1 DEF Homed
    <3>3. call'[u] = call[u]
      BY <1>1, <1>4, <3>2 DEF Others
    <3>. QED BY <1>1, <3>1, <3>2, <3>3 DEF Homed
  <2>4. ASSUME NEW k \in Keys, NEW u \in Threads, call'[u].pc \in Filling \cup Unlinking
        PROVE  home2[k] # call'[u].at
    <3>1. u # t /\ call'[u] = call[u]
      BY <1>4, <2>4 DEF Others, Filling, Setting, Unlinking
    <3>2. CASE k # c.key
      BY <1>1, <1>6, <2>4, <3>1, <3>2 DEF Homed
    <3>3. CASE k = c.key
      <4>1. call[u].pc # "idle"
        BY <2>4, <3>1 DEF Filling, Setting, Unlinking
      <4>2. own[call[u].at] = HeadFor(u)
        BY <2>4, <3>1, <4>1, CallFacts
      <4>3. HeadFor(u) # HeadFor(t)
        BY <1>1, <3>1, <4>1 DEF CallsApart
      <4>. QED BY <1>2, <1>6, <3>1, <3>3, <4>2, <4>3
    <3>. QED BY <3>2, <3>3
  <2>. QED BY <2>1, <2>2, <2>3, <2>4 DEF Homed
<1>12. Accounted(own, home2)'
  <2>1. \A k \in Keys : home[k] \in {None, home2[k]}
    BY <1>3, <1>6
  <2>2. call[t].pc \notin {"popped", "append", "cut", "swap"}
    BY <1>1 DEF Filling, Setting
  <2>3. \A h \in Heads : h \in Slots
    BY OrderFacts
  <2>4. \E k \in Keys : home2[k] = e
    BY <1>2, <1>6
  <2>. QED BY ZenonT(30), <1>1, <1>4, <1>8, <2>1, <2>2, <2>3, <2>4, AccountedKept
<1>13. Knows(own, pos, home2, t)'
  BY <1>4, IdleKnows
<1>14. \A x \in Slots : entry'[x] = entry[x] \/ own[x] = HeadFor(t)
  BY <1>2
<1>15. {call[t].pc, call'[t].pc} \cap {"popped", "push", "pushed"} = {}
  BY <1>4
<1>. QED BY <1>1, <1>4, <1>6, <1>9, <1>10, <1>11, <1>12, <1>13, <1>14, <1>15, ChainStep

LEMMA DataInv ==
    ASSUME NEW own, NEW pos, NEW home, NEW now, NEW t \in Threads, Whole(own, pos, home, now),
           KeepJumps(t) \/ WriteName(t) \/ WriteJumps(t)
    PROVE  TableInv'
<1>. SUFFICES ASSUME NEW e, NEW key, NEW home2, e = call[t].at, key = call[t].key,
                     home2 = [home EXCEPT ![key] = e]
              PROVE  TableInv'
  OBVIOUS
<1>1. /\ call[t].pc = "data" /\ call[t].pc # "idle" /\ Reserved(t) /\ UNCHANGED pool
      /\ Typed /\ Homed(own, home) /\ JumpsOwned(home) /\ home \in [Keys -> Slots \cup {None}]
      /\ Knows(own, pos, home, t)
  BY DEF Whole, Shape, Placed, KeepJumps, WriteName, WriteJumps, table
<1>2. e \in Slots /\ key \in Keys /\ entry[e].type = TypeFor(key)
  BY <1>1, CallFacts DEF Knows, Fills, Filling
<1>3. /\ home2[key] = e /\ \A k \in Keys : k # key => home2[k] = home[k]
  BY <1>1, <1>2
<1>4. \A k \in Keys : home[k] # e /\ (home[k] # None => home[k] \in Slots)
  BY <1>1 DEF Homed, Filling
<1>5. ASSUME NEW k \in Keys, k # key, \A x \in Slots : x # e => entry'[x] = entry[x]
      PROVE  /\ Holds(home2, k)' <=> Holds(home, k)
             /\ Holds(home, k) => entry'[home2[k]].jump_head = entry[home[k]].jump_head
  BY <1>3, <1>4, <1>5 DEF Holds
<1>6. CASE KeepJumps(t)
  <2>1. UNCHANGED <<entry, jumps>> /\ faults \subseteq faults'
    BY <1>6 DEF KeepJumps, table
  <2>2. "stale" \notin faults' => entry[e].jump_head = 0
    BY <1>6 DEF KeepJumps, NULL_INDEX
  <2>3. "stale" \notin faults' => ~Holds(home2, key)'
    BY <1>3, <2>1, <2>2 DEF Holds
  <2>4. JumpsOwned(home2)'
    BY <1>1, <1>3, <1>5, <2>1, <2>3 DEF JumpsOwned
  <2>5. entry' \in [Slots -> Entries] /\ jumps' \subseteq 1 .. JumpChains
    BY <1>1, <2>1 DEF Typed
  <2>. QED BY <1>1, <1>3, <2>1, <2>4, <2>5, ReservedStep
<1>7. CASE WriteName(t)
  <2>1. PICK bits \in 0 .. JumpChains : entry' = [entry EXCEPT ![e].jump_head = bits]
    BY <1>7 DEF WriteName
  <2>2. /\ entry' \in [Slots -> Entries] /\ \A x \in Slots : x # e => entry'[x] = entry[x]
        /\ entry'[e].type = entry[e].type /\ entry'[e].tag = entry[e].tag
        /\ entry'[e].next = entry[e].next
    BY <1>1, <1>2, <2>1, JumpSet
  <2>3. UNCHANGED <<jumps, faults>> /\ TypeFor(key) = "name"
    BY <1>7 DEF WriteName, TypeFor
  <2>4. ~Holds(home2, key)'
    BY <1>2, <1>3, <2>2, <2>3 DEF Holds
  <2>5. JumpsOwned(home2)'
    BY ZenonT(30), <1>1, <1>3, <1>5, <2>2, <2>3, <2>4 DEF JumpsOwned
  <2>6. jumps' \subseteq 1 .. JumpChains
    BY <1>1, <2>3 DEF Typed
  <2>. QED BY <1>1, <1>3, <2>2, <2>5, <2>6, ReservedStep
<1>8. CASE WriteJumps(t)
  <2>1. PICK j \in jumps : jumps' = jumps \ {j} /\ entry' = [entry EXCEPT ![e].jump_head = j]
    BY <1>8 DEF WriteJumps
  <2>2. jumps \subseteq 1 .. JumpChains /\ j \in 0 .. JumpChains /\ j # 0
    BY <1>1, JumpChainsAssumption DEF Typed
  <2>3. /\ entry' \in [Slots -> Entries] /\ \A x \in Slots : x # e => entry'[x] = entry[x]
        /\ entry'[e].type = entry[e].type /\ entry'[e].tag = entry[e].tag
        /\ entry'[e].next = entry[e].next /\ entry'[e].jump_head = j
    BY ZenonT(30), <1>1, <1>2, <2>1, <2>2, JumpSet
  <2>4. UNCHANGED faults
    BY <1>8 DEF WriteJumps
  <2>5. ASSUME "stale" \notin faults', NEW k \in Keys, Holds(home2, k)'
        PROVE  /\ entry'[home2[k]].jump_head \notin jumps'
               /\ \A i \in Keys : Holds(home2, i)'
                    /\ entry'[home2[i]].jump_head = entry'[home2[k]].jump_head => i = k
    <3>1. ASSUME NEW i \in Keys, i # key, Holds(home2, i)'
          PROVE  /\ Holds(home, i) /\ entry'[home2[i]].jump_head = entry[home[i]].jump_head
                 /\ entry[home[i]].jump_head \notin jumps
      BY <1>1, <1>5, <2>3, <2>4, <2>5, <3>1 DEF JumpsOwned
    <3>2. entry'[home2[key]].jump_head = j
      BY <1>3, <2>3
    <3>3. CASE k = key
      <4>1. j \notin jumps' /\ j \in jumps
        BY <2>1
      <4>2. ASSUME NEW i \in Keys, Holds(home2, i)', i # key
            PROVE  entry'[home2[i]].jump_head # j
        BY <3>1, <4>1, <4>2
      <4>. QED BY <3>2, <3>3, <4>1, <4>2
    <3>4. CASE k # key
      <4>1. /\ Holds(home, k) /\ entry'[home2[k]].jump_head = entry[home[k]].jump_head
            /\ entry[home[k]].jump_head \notin jumps
        BY <2>5, <3>1, <3>4
      <4>2. \A i \in Keys : Holds(home, i) /\ entry[home[i]].jump_head = entry[home[k]].jump_head
                              => i = k
        BY <1>1, <2>4, <2>5, <4>1 DEF JumpsOwned
      <4>3. jumps' \subseteq jumps /\ j \in jumps
        BY <2>1
      <4>4. ASSUME NEW i \in Keys, Holds(home2, i)',
                   entry'[home2[i]].jump_head = entry'[home2[k]].jump_head
            PROVE  i = k
        <5>1. i # key
          BY <3>2, <4>1, <4>3, <4>4
        <5>. QED BY <3>1, <4>1, <4>2, <4>4, <5>1
      <4>. QED BY <4>1, <4>3, <4>4
    <3>. QED BY <3>3, <3>4
  <2>6. JumpsOwned(home2)'
    BY <2>5 DEF JumpsOwned
  <2>7. jumps' \subseteq 1 .. JumpChains
    BY <2>1, <2>2
  <2>. QED BY <1>1, <1>3, <2>3, <2>6, <2>7, ReservedStep
<1>. QED BY <1>6, <1>7, <1>8

LEMMA FreeEntryInv ==
    ASSUME NEW own, NEW pos, NEW home, NEW now, NEW t \in Threads, NEW k \in Keys,
           Orderly, Whole(own, pos, home, now), FreeEntry(t, k)
    PROVE  TableInv'
<1>. DEFINE d == [Idle EXCEPT !.pc = "isfree", !.key = k, !.at = HeadOf(k)]
<1>1. /\ Typed /\ CallsApart /\ Shape(own, pos, home, now) /\ Become(t, d) /\ MayCall(t, k)
      /\ Homed(own, home) /\ Placed(own, pos, home, now)
  BY DEF FreeEntry, Whole, Shape
<1>2. call[t].pc = "idle"
  BY <1>1 DEF MayCall, Idle
<1>3. UNCHANGED <<entry, pool, jumps, faults>>
  BY DEF FreeEntry, table
<1>4. slot' = [slot EXCEPT ![k] = None] /\ slot[k] # None /\ slot \in [Keys -> Slots \cup {None}]
  BY <1>1 DEF FreeEntry, Orderly, Typed
<1>5. /\ slot' \in [Keys -> Slots \cup {None}] /\ slot'[k] = None
      /\ \A j \in Keys : j # k => slot'[j] = slot[j]
  BY <1>4
<1>6. home[k] = slot[k] /\ home[k] \in Slots
  BY <1>1, <1>4 DEF Homed
<1>7. HeadOf(k) \in Slots /\ HeadOf(k) \in Heads /\ k \in Nat
  BY SlotFacts, KeysAssumption DEF Slots
<1>8. d \in Calls /\ d.pc = "isfree" /\ d.key = k /\ d.at = HeadOf(k) /\ d.tail = 0
  BY <1>7, ZeroIsIndex DEF Idle, Calls, Stages, Seeking, Types, NULL_INDEX
<1>. HIDE DEF d
<1>9. call' \in [Threads -> Calls] /\ call'[t] = d /\ Others(t)
  BY <1>1, <1>8, Becomes
<1>10. call'[t].pc = "isfree" /\ call'[t].key = k /\ call'[t].at = HeadOf(k) /\ call'[t].tail = 0
  BY <1>8, <1>9
<1>11. Typed'
  BY <1>1, <1>3, <1>5, <1>9 DEF Typed, pool
<1>12. \A u \in Threads : u # t /\ call[u].pc # "idle" => HeadFor(u) # HeadOf(k)
  BY <1>1 DEF MayCall, Orderly, HeadFor, Idle
<1>13. CallsApart'
  <2>1. \A u \in Threads : u # t => call'[u] = call[u]
    BY <1>9 DEF Others
  <2>. QED BY <1>1, <1>10, <1>12, <2>1 DEF CallsApart, HeadFor
<1>14. Placed(own, pos, home, now)'
  BY <1>1 DEF Placed
<1>15. Chained(own, pos)'
  BY <1>1, <1>2, <1>3, <1>9, ChainedKept DEF Shape, Setting
<1>16. Queued(own, pos)'
  BY <1>1, <1>2, <1>3, <1>9, QueuedKept DEF Shape, pool
<1>17. Tagged(own)'
  BY <1>1, <1>2, <1>3, <1>9, TaggedKept DEF Shape
<1>18. Homed(own, home)'
  <2>1. \A j \in Keys : home[j] # None =>
         /\ own[home[j]] = HeadOf(j)
         /\ entry'[home[j]].tag = TagOf(j) /\ entry'[home[j]].type = TypeFor(j)
    BY <1>1, <1>3 DEF Homed
  <2>2. \A i, j \in Keys : home[i] # None /\ home[i] = home[j] => i = j
    BY <1>1 DEF Homed
  <2>3. ASSUME NEW j \in Keys, slot'[j] # home[j]
        PROVE  /\ slot'[j] = None
               /\ \E u \in Threads : call'[u].pc \in Seeking \cup {"jumps"} /\ call'[u].key = j
    <3>1. CASE j = k
      BY <1>5, <1>10, <3>1 DEF Seeking
    <3>2. CASE j # k
      <4>1. slot[j] # home[j] /\ slot'[j] = slot[j]
        BY <1>5, <2>3, <3>2
      <4>2. PICK u \in Threads : call[u].pc \in Seeking \cup {"jumps"} /\ call[u].key = j
        BY <1>1, <4>1 DEF Homed
      <4>3. call'[u] = call[u]
        BY <1>2, <1>9, <4>2 DEF Others, Seeking
      <4>. QED BY <1>1, <4>1, <4>2, <4>3 DEF Homed
    <3>. QED BY <3>1, <3>2
  <2>4. ASSUME NEW j \in Keys, NEW u \in Threads, call'[u].pc \in Filling \cup Unlinking
        PROVE  home[j] # call'[u].at
    <3>1. u # t
      BY <1>10, <2>4 DEF Filling, Setting, Unlinking
    <3>. QED BY <1>1, <1>9, <2>4, <3>1 DEF Homed, Others
  <2>. QED BY <2>1, <2>2, <2>3, <2>4 DEF Homed
<1>19. Accounted(own, home)'
  <2>1. call[t].pc \notin Filling \cup Unlinking /\ Accounted(own, home)
    BY <1>1, <1>2 DEF Filling, Setting, Unlinking, Shape
  <2>. QED BY <1>2, <1>3, <1>9, <2>1, AccountedKept
<1>20. JumpsOwned(home)'
  BY <1>1, <1>3, JumpsKept DEF Shape
<1>21. Counted(own)'
  BY <1>1, <1>2, <1>3, <1>9, <1>10, CountedKept DEF Shape, pool
<1>22. Knows(own, pos, home, t)'
  <2>1. HeadFor(t)' = HeadOf(k)
    BY <1>10 DEF HeadFor
  <2>2. own[HeadOf(k)] = HeadOf(k) /\ pos[HeadOf(k)] = 0 /\ pos[home[k]] \in Nat
    BY <1>1, <1>6, <1>7 DEF Placed
  <2>3. home[k] # None
    BY <1>6, SlotFacts
  <2>. QED BY <1>5, <1>7, <1>10, <2>1, <2>2, <2>3
          DEF Knows, Walks, Pops, Fills, Seeks, Pushes, Walking, Popping, Filling, Setting,
              Seeking, Unlinking
<1>23. ASSUME NEW u \in Threads, u # t PROVE Knows(own, pos, home, u)'
  <2>1. call'[u] = call[u] /\ Knows(own, pos, home, u)
    BY <1>1, <1>9, <1>23 DEF Others, Shape
  <2>2. Pushes(own, pos, u)'
    BY <1>1, <1>3, <2>1, PushesKept DEF Knows
  <2>3. call[u].pc # "idle" /\ call[u].key \in Keys => slot'[call[u].key] = slot[call[u].key]
    BY <1>5, <1>12, <1>23 DEF HeadFor
  <2>. QED BY <1>1, <1>3, <2>1, <2>2, <2>3, OthersKnow
<1>24. Shape(own, pos, home, now)'
  BY <1>14, <1>15, <1>16, <1>17, <1>18, <1>19, <1>20, <1>21, <1>22, <1>23 DEF Shape
<1>. QED BY <1>11, <1>13, <1>24 DEF TableInv, Whole

LEMMA FreeJumpsInv ==
    ASSUME NEW own, NEW pos, NEW home, NEW now, NEW t \in Threads,
           Whole(own, pos, home, now), FreeJumps(t)
    PROVE  TableInv'
<1>. SUFFICES ASSUME NEW e, NEW key, NEW home2, e = call[t].at, key = call[t].key,
                     home2 = [home EXCEPT ![key] = None]
              PROVE  TableInv'
  OBVIOUS
<1>1. /\ call[t].pc = "jumps" /\ call[t].pc # "idle" /\ Typed /\ Homed(own, home) /\ JumpsOwned(home)
      /\ Accounted(own, home) /\ home \in [Keys -> Slots \cup {None}] /\ Knows(own, pos, home, t)
      /\ Shape(own, pos, home, now) /\ call[t].pc \notin Filling \cup Unlinking
  BY DEF Whole, Shape, Placed, FreeJumps, Filling, Setting, Unlinking
<1>2. /\ e \in Slots /\ own[e] = HeadFor(t) /\ key \in Keys /\ home[key] = e /\ slot[key] = None
      /\ HeadFor(t) = HeadOf(key)
  BY <1>1, CallFacts DEF Knows, Seeks, HeadFor
<1>3. /\ home2 \in [Keys -> Slots \cup {None}] /\ home2[key] = None
      /\ \A k \in Keys : k # key => home2[k] = home[k]
  BY <1>1, <1>2
<1>4. /\ call' \in [Threads -> Calls] /\ Others(t) /\ call'[t].pc = "free"
      /\ call'[t].key = key /\ call'[t].at = e /\ call'[t].loaded = FALSE
      /\ call'[t].tail = call[t].tail /\ call'[t].prev = call[t].prev
  BY <1>1, Goes DEF FreeJumps, Stages, Unlinking
<1>5. UNCHANGED <<entry, pool, slot>> /\ faults \subseteq faults'
  BY DEF FreeJumps, pool, history
<1>6. jumps' = IF entry[e].type = "name" \/ entry[e].jump_head = 0 THEN jumps
               ELSE jumps \cup {entry[e].jump_head}
  BY DEF FreeJumps, NULL_INDEX
<1>7. jumps' \subseteq 1 .. JumpChains
  <2>1. entry[e] \in Entries /\ jumps \subseteq 1 .. JumpChains
    BY <1>1, <1>2 DEF Typed
  <2>2. entry[e].jump_head \in 0 .. JumpChains
    BY <2>1 DEF Entries
  <2>3. entry[e].jump_head # 0 => entry[e].jump_head \in 1 .. JumpChains
    BY <2>2, JumpChainsAssumption
  <2>. QED BY <1>6, <2>1, <2>3
<1>8. Chained(own, pos)'
  BY <1>1, <1>4, <1>5, ChainedKept DEF Shape, Setting
<1>9. Tagged(own)'
  BY <1>1, <1>4, <1>5, TaggedKept DEF Shape
<1>10. Homed(own, home2)'
  <2>1. ASSUME NEW k \in Keys, home2[k] # None
        PROVE  /\ k # key /\ home2[k] = home[k] /\ home[k] # None /\ own[home2[k]] = HeadOf(k)
               /\ entry'[home2[k]].tag = TagOf(k) /\ entry'[home2[k]].type = TypeFor(k)
    BY <1>1, <1>3, <1>5, <2>1 DEF Homed
  <2>2. \A j, k \in Keys : home2[j] # None /\ home2[j] = home2[k] => j = k
    BY <1>1, <2>1 DEF Homed
  <2>3. ASSUME NEW k \in Keys, slot'[k] # home2[k]
        PROVE  /\ slot'[k] = None
               /\ \E u \in Threads : call'[u].pc \in Seeking \cup {"jumps"} /\ call'[u].key = k
    <3>1. k # key /\ slot[k] # home[k] /\ slot'[k] = slot[k]
      BY <1>2, <1>3, <1>5, <2>3
    <3>2. PICK u \in Threads : call[u].pc \in Seeking \cup {"jumps"} /\ call[u].key = k
      BY <1>1, <3>1 DEF Homed
    <3>3. call'[u] = call[u]
      BY <1>4, <3>1, <3>2 DEF Others
    <3>. QED BY <1>1, <3>1, <3>2, <3>3 DEF Homed
  <2>4. ASSUME NEW k \in Keys, NEW u \in Threads, call'[u].pc \in Filling \cup Unlinking
        PROVE  home2[k] # call'[u].at
    <3>1. CASE u = t
      <4>1. home2[k] # None => home[k] # home[key]
        BY <1>1, <1>2, <2>1 DEF Homed
      <4>. QED BY <1>2, <1>4, <2>1, <3>1, <4>1, SlotFacts
    <3>2. CASE u # t
      <4>1. call'[u] = call[u]
        BY <1>4, <3>2 DEF Others
      <4>2. call[u].pc # "idle"
        BY <2>4, <4>1 DEF Filling, Setting, Unlinking
      <4>3. call[u].at \in Slots
        BY <2>4, <4>1, <4>2, CallFacts
      <4>4. home[k] # call[u].at
        BY <1>1, <2>4, <4>1 DEF Homed
      <4>. QED BY <2>1, <4>1, <4>3, <4>4, SlotFacts
    <3>. QED BY <3>1, <3>2
  <2>. QED BY <2>1, <2>2, <2>3, <2>4 DEF Homed
<1>11. Accounted(own, home2)'
  <2>1. HeldAfter(e)
    BY <1>4 DEF HeldAfter, Unlinking
  <2>2. \A k \in Keys : home[k] \in {None, home2[k]} \/ HeldAfter(home[k])
    BY <1>2, <1>3, <2>1
  <2>. QED BY <1>1, <1>4, <1>5, <2>2, AccountedKept
<1>12. JumpsOwned(home2)'
  <2>1. \A k \in Keys : Holds(home2, k)' <=> k # key /\ Holds(home, k)
    BY <1>3, <1>5 DEF Holds
  <2>. SUFFICES ASSUME "stale" \notin faults', NEW k \in Keys, k # key, Holds(home, k)
                PROVE  /\ entry'[home2[k]].jump_head \notin jumps'
                       /\ \A j \in Keys : Holds(home2, j)'
                            /\ entry'[home2[j]].jump_head = entry'[home2[k]].jump_head => j = k
    BY <2>1 DEF JumpsOwned
  <2>2. /\ entry[home[k]].jump_head \notin jumps
        /\ \A j \in Keys : Holds(home, j) /\ entry[home[j]].jump_head = entry[home[k]].jump_head
                             => j = k
    BY <1>1, <1>5 DEF JumpsOwned
  <2>3. entry'[home2[k]].jump_head = entry[home[k]].jump_head
    BY <1>3, <1>5
  <2>4. jumps' # jumps => Holds(home, key)
    <3>1. entry[e].type \in {"name", "object"} /\ e # None
      BY <1>1, <1>2, SlotFacts DEF Homed, TypeFor
    <3>. QED BY <1>2, <1>6, <3>1 DEF Holds
  <2>5. jumps' # jumps => jumps' = jumps \cup {entry[home[key]].jump_head}
    BY <1>2, <1>6
  <2>6. entry[home[k]].jump_head \notin jumps'
    BY <1>2, <2>2, <2>4, <2>5
  <2>7. ASSUME NEW j \in Keys, Holds(home2, j)',
               entry'[home2[j]].jump_head = entry'[home2[k]].jump_head
        PROVE  j = k
    <3>1. j # key /\ Holds(home, j) /\ entry'[home2[j]].jump_head = entry[home[j]].jump_head
      BY <1>3, <1>5, <2>1, <2>7
    <3>. QED BY <2>2, <2>3, <2>7, <3>1
  <2>. QED BY <2>3, <2>6, <2>7
<1>13. Knows(own, pos, home2, t)'
  <2>1. HeadFor(t)' = HeadFor(t)
    BY <1>4 DEF HeadFor
  <2>2. Seeks(own, pos, home, t) /\ call[t].key \in Keys
    BY <1>1, <1>2 DEF Knows
  <2>. QED BY <1>1, <1>2, <1>4, <1>5, <2>1, <2>2
          DEF Knows, Walks, Pops, Fills, Seeks, Pushes, Succ, Walking, Popping, Filling, Setting,
              Seeking, Unlinking
<1>14. {call[t].pc, call'[t].pc} \cap {"popped", "push", "pushed"} = {}
  BY <1>1, <1>4
<1>15. entry' \in [Slots -> Entries] /\ slot' \in [Keys -> Slots \cup {None}]
  BY <1>1, <1>5 DEF Typed
<1>. QED BY ZenonT(30), <1>1, <1>3, <1>4, <1>5, <1>7, <1>8, <1>9, <1>10, <1>11, <1>12, <1>13, <1>14, <1>15, ChainStep

LEMMA FreeTypeInv ==
    ASSUME NEW own, NEW pos, NEW home, NEW now, NEW t \in Threads,
           Whole(own, pos, home, now), FreeType(t)
    PROVE  TableInv'
<1>. DEFINE c == call[t]
            e == call[t].at
<1>1. /\ c.pc = "free" /\ c.pc \in Unlinking /\ c.pc # "idle" /\ c.loaded
      /\ Typed /\ Homed(own, home) /\ Accounted(own, home) /\ Shape(own, pos, home, now)
      /\ home \in [Keys -> Slots \cup {None}] /\ Knows(own, pos, home, t)
  BY DEF Whole, Shape, Placed, FreeType, Loaded, Unlinking
<1>2. /\ e \in Slots /\ own[e] = HeadFor(t) /\ HeadFor(t) \in Heads /\ c.key \in Keys
  BY <1>1, CallFacts
<1>3. c.word = Word(e) /\ (c.tail = 0 => e \in Heads)
  BY <1>1 DEF Knows, Seeks
<1>4. entry' = [entry EXCEPT ![e].type = "free"]
  BY <1>3 DEF FreeType, CasType
<1>5. /\ entry' \in [Slots -> Entries] /\ \A x \in Slots : x # e => entry'[x] = entry[x]
      /\ entry'[e].type = "free" /\ entry'[e].tag = entry[e].tag
      /\ entry'[e].next = entry[e].next
  BY <1>1, <1>2, <1>4, TypeSet DEF Types
<1>6. /\ call' \in [Threads -> Calls] /\ Others(t)
      /\ call'[t].pc = IF c.tail = 0 THEN "idle" ELSE "next"
      /\ c.tail # 0 => /\ call'[t].key = c.key /\ call'[t].at = e /\ call'[t].loaded = FALSE
                       /\ call'[t].tail = c.tail /\ call'[t].prev = c.prev
  <2>1. CASE c.tail = 0
    <3>1. EndCall(t)
      BY <2>1 DEF FreeType, NULL_INDEX
    <3>. QED BY <1>1, <2>1, <3>1, Ended
  <2>2. CASE c.tail # 0
    <3>1. Goto(t, "next") /\ "next" \in Stages
      BY <2>2 DEF FreeType, NULL_INDEX, Stages, Unlinking
    <3>. QED BY <1>1, <2>2, <3>1, Goes
  <2>. QED BY <2>1, <2>2
<1>7. UNCHANGED <<pool, jumps, slot>> /\ faults \subseteq faults'
  BY DEF FreeType, history
<1>8. \A k \in Keys : home[k] # e /\ (home[k] # None => home[k] \in Slots)
  BY <1>1 DEF Homed
<1>9. Chained(own, pos)'
  BY <1>1, <1>5, <1>6, ChainedKept DEF Shape, Setting
<1>10. Tagged(own)'
  BY <1>1, <1>5, <1>6, TaggedKept DEF Shape
<1>11. Homed(own, home)'
  <2>1. call'[t].pc \in Filling \cup Unlinking => \A k \in Keys : home[k] # call'[t].at
    BY <1>6, <1>8 DEF Filling, Setting, Unlinking
  <2>2. call[t].pc \notin Seeking \cup {"jumps"}
    BY <1>1 DEF Seeking
  <2>. QED BY <1>1, <1>5, <1>6, <1>7, <1>8, <2>1, <2>2, HomedKept
<1>12. Accounted(own, home)'
  <2>1. HeldAfter(e) \/ (e \in Heads /\ entry'[e].type = "free")
    BY <1>3, <1>5, <1>6 DEF HeldAfter, Unlinking
  <2>2. \A h \in Heads : h \in Slots
    BY OrderFacts
  <2>3. \A h \in Heads : entry[h].type = "free" => entry'[h].type = "free" \/ HeldAfter(h)
    BY <1>5, <2>2
  <2>. QED BY <1>1, <1>6, <2>1, <2>3, AccountedKept
<1>13. JumpsOwned(home)'
  BY <1>1, <1>5, <1>7, <1>8, JumpsKept DEF Shape
<1>14. Knows(own, pos, home, t)'
  <2>1. CASE c.tail = 0
    BY <1>6, <2>1, IdleKnows
  <2>2. CASE c.tail # 0
    <3>1. HeadFor(t)' = HeadFor(t)
      BY <1>6, <2>2 DEF HeadFor
    <3>. QED BY <1>1, <1>2, <1>6, <2>2, <3>1
            DEF Knows, Walks, Pops, Fills, Seeks, Pushes, Succ, Walking, Popping, Filling, Setting,
                Seeking, Unlinking
  <2>. QED BY <2>1, <2>2
<1>15. \A x \in Slots : entry'[x] = entry[x] \/ own[x] = HeadFor(t)
  BY <1>2, <1>5
<1>16. /\ slot' \in [Keys -> Slots \cup {None}] /\ jumps' \subseteq 1 .. JumpChains
       /\ call'[t].pc # "idle" => call'[t].key = c.key
       /\ {call[t].pc, call'[t].pc} \cap {"popped", "push", "pushed"} = {}
  BY <1>1, <1>6, <1>7 DEF Typed
<1>. QED BY <1>1, <1>5, <1>6, <1>7, <1>9, <1>10, <1>11, <1>12, <1>13, <1>14, <1>15, <1>16, ChainStep

-----------------------------------------------------------------------------
(* Steps on the pool.                                                      *)

\* A step of a call on the pool and on the tail it holds: the chains stay.
LEMMA PoolStep ==
    ASSUME NEW own, NEW pos, NEW home, NEW now, NEW own2, NEW pos2, NEW now2, NEW t \in Threads,
           Whole(own, pos, home, now), Others(t), call' \in [Threads -> Calls],
           call[t].pc \notin {"idle", "jumps"} \cup Filling \cup Seeking \cup Unlinking,
           call'[t].pc \notin Filling \cup Seeking \cup Unlinking \cup {"jumps"},
           call'[t].pc # "idle" => call'[t].key = call[t].key,
           call'[t].pc = "push" =>
             \A u \in Threads : u # t /\ call[u].pc = "push" => call[u].at # call'[t].at,
           entry' \in [Slots -> Entries], UNCHANGED <<jumps, slot>>, faults \subseteq faults',
           tail_first' \in Indices \ {0}, tail_last' \in Indices \ {0}, tail_avail' \in Nat,
           Placed(own2, pos2, home, now2),
           ChangesOnly(own, pos, own2, pos2, {InHand(t), Pooled}),
           \A x \in Slots : own2[x] = InHand(t) =>
             \/ call'[t].pc \in {"popped", "append"} /\ x = Tail(call'[t].tail)
             \/ call'[t].pc \in {"cut", "swap"} /\ x = call'[t].at,
           Queued(own2, pos2)', Counted(own2)', Knows(own2, pos2, home, t)',
           \A u \in Threads : u # t => Pushes(own2, pos2, u)'
    PROVE  TableInv'
<1>1. /\ Typed /\ CallsApart /\ Shape(own, pos, home, now) /\ Homed(own, home)
      /\ Accounted(own, home) /\ home \in [Keys -> Slots \cup {None}] /\ call[t].pc # "idle"
  BY DEF Whole, Shape, Placed
<1>2. ASSUME NEW x \in Slots, own[x] \in Heads \/ own2[x] \in Heads
      PROVE  own2[x] = own[x] /\ pos2[x] = pos[x] /\ entry'[x] = entry[x]
  BY <1>2, OwnerFacts DEF ChangesOnly
<1>3. ASSUME NEW x \in Slots, NEW u \in Threads, u # t, own2[x] = InHand(u)
      PROVE  own[x] = InHand(u)
  BY <1>3, OwnerFacts DEF ChangesOnly
<1>4. \A u \in Threads : u # t => call'[u] = call[u]
  BY DEF Others
<1>5. Typed'
  BY <1>1 DEF Typed
<1>6. CallsApart'
  BY <1>1, <1>4 DEF CallsApart, HeadFor
<1>7. Chained(own2, pos2)'
  <2>. SUFFICES ASSUME NEW x \in Slots, own2[x] \in Heads
                PROVE  /\ entry'[x].next = 0 => Ends(own2, pos2, x)
                       /\ entry'[x].next # 0 =>
                            \/ Succ(own2, pos2, x, Tail(entry'[x].next))
                            \/ \E u \in Threads : call'[u].pc \in Setting /\ call'[u].at = x
    BY DEF Chained, Succ, Ends
  <2>1. own2[x] = own[x] /\ pos2[x] = pos[x] /\ entry'[x] = entry[x] /\ own[x] \in Heads
    BY <1>2
  <2>2. \A z \in Slots : own[z] = own[x] <=> own2[z] = own[x]
    BY <1>2, <2>1
  <2>3. Ends(own, pos, x) => Ends(own2, pos2, x)
    BY <1>2, <2>1, <2>2 DEF Ends
  <2>4. ASSUME entry[x].next # 0, Succ(own, pos, x, Tail(entry[x].next))
        PROVE  Succ(own2, pos2, x, Tail(entry[x].next))
    <3>1. Tail(entry[x].next) \in Slots
      BY <1>1, <2>4, SlotFacts, WordTyped DEF Slots
    <3>. QED BY <1>2, <2>1, <2>2, <2>4, <3>1 DEF Succ
  <2>5. ASSUME NEW u \in Threads, call[u].pc \in Setting, call[u].at = x
        PROVE  call'[u].pc \in Setting /\ call'[u].at = x
    BY <1>4, <2>5 DEF Filling
  <2>. QED BY <1>1, <2>1, <2>3, <2>4, <2>5 DEF Shape, Chained
<1>8. Tagged(own2)'
  <2>. SUFFICES ASSUME NEW x \in Slots, NEW y \in Slots, own2[x] \in Heads, own2[x] = own2[y], x # y,
                       entry'[x].tag = entry'[y].tag
                PROVE  \E u \in Threads : call'[u].pc = "settag" /\ call'[u].at \in {x, y}
    BY DEF Tagged
  <2>1. own[x] \in Heads /\ own[x] = own[y] /\ entry[x].tag = entry[y].tag
    BY <1>2
  <2>2. PICK u \in Threads : call[u].pc = "settag" /\ call[u].at \in {x, y}
    BY <1>1, <2>1 DEF Shape, Tagged
  <2>. QED BY <1>4, <2>2 DEF Filling, Setting
<1>9. Homed(own2, home)'
  <2>1. \A k \in Keys : home[k] # None => home[k] \in Slots /\ own[home[k]] \in Heads
    BY <1>1, SlotFacts, KeysAssumption DEF Homed
  <2>2. \A k \in Keys : home[k] # None => own2[home[k]] = own[home[k]]
    BY <1>2, <2>1
  <2>3. Homed(own, home)'
    BY <1>1, <1>2, <2>1, HomedKept
  <2>. QED BY <2>2, <2>3 DEF Homed
<1>10. Accounted(own2, home)'
  <2>1. ASSUME NEW x \in Slots, own2[x] \in Heads
        PROVE  \/ \E k \in Keys : home[k] = x
               \/ \E u \in Threads : call'[u].pc \in Filling \cup Unlinking /\ call'[u].at = x
               \/ x \in Heads /\ entry'[x].type = "free"
    <3>1. own[x] \in Heads /\ entry'[x] = entry[x]
      BY <1>2, <2>1
    <3>. QED BY <1>1, <1>4, <3>1 DEF Accounted
  <2>2. ASSUME NEW x \in Slots, NEW u \in Threads, own2[x] = InHand(u)
        PROVE  \/ call'[u].pc \in {"popped", "append"} /\ x = Tail(call'[u].tail)
               \/ call'[u].pc \in {"cut", "swap"} /\ x = call'[u].at
    BY <1>1, <1>3, <1>4, <2>2 DEF Accounted
  <2>. QED BY <2>1, <2>2 DEF Accounted
<1>11. JumpsOwned(home)'
  <2>1. \A k \in Keys : home[k] # None => entry'[home[k]] = entry[home[k]]
    BY <1>1, <1>2, SlotFacts, KeysAssumption DEF Homed
  <2>. QED BY <1>1, <2>1, JumpsKept DEF Shape
<1>12. \A u \in Threads : u # t => Knows(own2, pos2, home, u)'
  <2>1. ChangesOnly(own, pos, own2, pos2, {HeadFor(t), InHand(t), Pooled})
    BY DEF ChangesOnly
  <2>. QED BY <1>1, <2>1, OthersKnowPool
<1>13. Placed(own2, pos2, home, now2)'
  BY DEF Placed
<1>14. Shape(own2, pos2, home, now2)'
  BY <1>7, <1>8, <1>9, <1>10, <1>11, <1>12, <1>13 DEF Shape
<1>. QED BY <1>5, <1>6, <1>14 DEF TableInv, Whole

LEMMA CutNextInv ==
    ASSUME NEW own, NEW pos, NEW home, NEW now, NEW t \in Threads,
           Whole(own, pos, home, now), SetNext(t), call[t].pc = "cut"
    PROVE  TableInv'
<1>. DEFINE c == call[t]
            e == call[t].at
<1>1. /\ c.pc # "idle" /\ c.loaded /\ Typed /\ CallsApart /\ Shape(own, pos, home, now)
      /\ Placed(own, pos, home, now) /\ Accounted(own, home) /\ Knows(own, pos, home, t)
      /\ c \in Calls /\ c.key \in Keys
  BY CallFacts DEF SetNext, Whole, Shape
<1>2. c.tail # 0 /\ e = Tail(c.tail) /\ own[e] = InHand(t) /\ c.seen = entry[e].next
  BY <1>1 DEF Knows, Pushes
<1>3. e \in Slots
  BY <1>1, <1>2, SlotFacts DEF Calls, Slots
<1>4. Link(c) = e /\ NewLink(c) = 0
  BY DEF Link, NewLink, NULL_INDEX
<1>5. entry' = [entry EXCEPT ![e].next = 0]
  BY <1>2, <1>4 DEF SetNext, CasNext
<1>6. /\ entry' \in [Slots -> Entries] /\ \A x \in Slots : x # e => entry'[x] = entry[x]
      /\ entry'[e].next = 0
  BY <1>1, <1>3, <1>5, NextSet, ZeroIsIndex
<1>7. Goto(t, "swap")
  BY DEF SetNext
<1>8. /\ call' \in [Threads -> Calls] /\ Others(t) /\ call'[t].pc = "swap"
      /\ call'[t].key = c.key /\ call'[t].at = c.at /\ call'[t].loaded = FALSE
      /\ call'[t].tail = c.tail
  BY <1>1, <1>7, Goes DEF Stages
<1>9. UNCHANGED <<pool, jumps, slot>> /\ faults \subseteq faults'
  BY DEF SetNext, history
<1>10. \A x \in Slots : entry'[x] = entry[x] \/ own[x] = InHand(t)
  BY <1>2, <1>6
<1>11. Queued(own, pos)'
  <2>1. \A x \in Slots : own[x] = Pooled => entry'[x].next = entry[x].next
    BY <1>10, OwnerFacts
  <2>. QED BY <1>1, <1>8, <1>9, <2>1, QueuedKept DEF Shape, pool
<1>12. Counted(own)'
  BY <1>1, <1>8, <1>9, CountedKept DEF Shape, pool
<1>13. Knows(own, pos, home, t)'
  BY <1>1, <1>2, <1>6, <1>8 DEF Knows, Walks, Pops, Fills, Seeks, Pushes, Walking, Popping, Filling,
     Setting, Seeking, Unlinking
<1>14. ASSUME NEW u \in Threads, u # t PROVE Pushes(own, pos, u)'
  <2>1. call'[u] = call[u] /\ Pushes(own, pos, u)
    BY <1>1, <1>8, <1>14 DEF Others, Shape, Knows
  <2>2. \A x \in Slots : own[x] \in {Pooled, InHand(u)} => entry'[x] = entry[x]
    BY <1>10, <1>14, OwnerFacts
  <2>. QED BY <1>1, <2>1, <2>2, PushesKept
<1>15. \A x \in Slots : own[x] = InHand(t) => x = e
  BY <1>1 DEF Accounted
<1>16. /\ c.pc \notin {"idle", "jumps"} \cup Filling \cup Seeking \cup Unlinking
       /\ call'[t].pc \notin Filling \cup Seeking \cup Unlinking \cup {"jumps", "push"}
  BY <1>8 DEF Filling, Setting, Seeking, Unlinking
<1>17. tail_first' \in Indices \ {0} /\ tail_last' \in Indices \ {0} /\ tail_avail' \in Nat
  BY <1>1, <1>9 DEF Typed, pool
<1>18. ChangesOnly(own, pos, own, pos, {InHand(t), Pooled})
  BY <1>10 DEF ChangesOnly
<1>. QED BY <1>1, <1>6, <1>8, <1>9, <1>11, <1>12, <1>13, <1>14, <1>15, <1>16, <1>17, <1>18, PoolStep

LEMMA PushNextInv ==
    ASSUME NEW own, NEW pos, NEW home, NEW now, NEW t \in Threads,
           Whole(own, pos, home, now), SetNext(t), call[t].pc = "push"
    PROVE  TableInv'
<1>. DEFINE c == call[t]
            e == Tail(call[t].want)
<1>1. /\ c.pc # "idle" /\ c.loaded /\ Typed /\ CallsApart /\ Shape(own, pos, home, now)
      /\ Placed(own, pos, home, now) /\ Accounted(own, home) /\ Knows(own, pos, home, t)
      /\ c \in Calls /\ c.key \in Keys /\ Queued(own, pos)
  BY CallFacts DEF SetNext, Whole, Shape
<1>2. /\ c.tail # 0 /\ c.at = Tail(c.tail) /\ c.want # 0 /\ own[c.at] = Pooled
      /\ Succ(own, pos, e, c.at) /\ entry[e].next = 0 /\ c.seen = 0
  BY <1>1 DEF Knows, Pushes
<1>3. e \in Slots /\ c.at \in Slots /\ c.tail \in Indices /\ own[e] = Pooled
  BY <1>1, <1>2, SlotFacts DEF Calls, Slots, Succ
<1>4. Link(c) = e /\ NewLink(c) = c.tail
  BY DEF Link, NewLink
<1>5. entry' = [entry EXCEPT ![e].next = c.tail]
  BY <1>2, <1>4 DEF SetNext, CasNext
<1>6. /\ entry' \in [Slots -> Entries] /\ \A x \in Slots : x # e => entry'[x] = entry[x]
      /\ entry'[e].next = c.tail
  BY <1>1, <1>3, <1>5, NextSet
<1>7. Goto(t, "pushed")
  BY DEF SetNext
<1>8. /\ call' \in [Threads -> Calls] /\ Others(t) /\ call'[t].pc = "pushed"
      /\ call'[t].key = c.key
  BY <1>1, <1>7, Goes DEF Stages
<1>9. UNCHANGED <<pool, jumps, slot>> /\ faults \subseteq faults'
  BY DEF SetNext, history
<1>10. Queued(own, pos)'
  <2>1. ASSUME NEW x \in Slots, own[x] = Pooled
        PROVE  /\ entry'[x].next = 0 =>
                     \/ Ends(own, pos, x)
                     \/ \E u \in Threads : call'[u].pc = "push" /\ Tail(call'[u].want) = x
               /\ entry'[x].next # 0 => Succ(own, pos, x, Tail(entry'[x].next))
    <3>1. CASE x = e
      BY <1>2, <1>6, <3>1
    <3>2. CASE x # e
      <4>1. entry'[x] = entry[x]
        BY <1>6, <3>2
      <4>2. ASSUME NEW u \in Threads, call[u].pc = "push", Tail(call[u].want) = x
            PROVE  call'[u].pc = "push" /\ Tail(call'[u].want) = x
        BY <1>8, <3>2, <4>2 DEF Others
      <4>. QED BY <1>1, <2>1, <4>1, <4>2 DEF Queued
    <3>. QED BY <3>1, <3>2
  <2>. QED BY <1>1, <1>9, <2>1 DEF Queued, Succ, Ends, pool
<1>11. Counted(own)'
  BY <1>1, <1>8, <1>9, CountedKept DEF Shape, pool
<1>12. Knows(own, pos, home, t)'
  BY <1>1, <1>8 DEF Knows, Walks, Pops, Fills, Seeks, Pushes, Walking, Popping, Filling,
     Setting, Seeking, Unlinking
<1>13. ASSUME NEW u \in Threads, u # t PROVE Pushes(own, pos, u)'
  <2>1. call'[u] = call[u] /\ Pushes(own, pos, u) /\ call[u] \in Calls
    BY <1>1, <1>8, <1>13 DEF Others, Shape, Knows, Typed
  <2>2. ASSUME call[u].pc = "push"
        PROVE  Tail(call[u].want) # e /\ Tail(call[u].want) \in Slots
    <3>1. /\ Succ(own, pos, Tail(call[u].want), call[u].at) /\ own[call[u].at] = Pooled
          /\ call[u].at = Tail(call[u].tail) /\ call[u].tail # 0 /\ call[u].want # 0
      BY <2>1, <2>2 DEF Pushes
    <3>2. call[u].at \in Slots /\ Tail(call[u].want) \in Slots
      BY <2>1, <3>1, SlotFacts DEF Calls, Slots
    <3>3. call[u].at # c.at
      BY <1>1, <1>13, <2>2 DEF CallsApart
    <3>4. ASSUME Tail(call[u].want) = e PROVE FALSE
      <4>1. pos[c.at] <= pos[call[u].at] /\ pos[call[u].at] <= pos[c.at]
        BY <1>2, <1>3, <3>1, <3>2, <3>4 DEF Succ
      <4>. QED BY <1>2, <1>3, <3>1, <3>2, <3>3, <4>1, OrderFacts
    <3>. QED BY <3>2, <3>4
  <2>3. ASSUME call[u].pc \in {"cut", "swap"}
        PROVE  entry'[call[u].at] = entry[call[u].at]
    <3>1. own[call[u].at] = InHand(u) /\ call[u].at = Tail(call[u].tail) /\ call[u].tail # 0
      BY <2>1, <2>3 DEF Pushes
    <3>2. call[u].at \in Slots
      BY <2>1, <3>1, SlotFacts DEF Calls, Slots
    <3>. QED BY <1>3, <1>6, <3>1, <3>2, OwnerFacts
  <2>. QED BY <1>6, <2>1, <2>2, <2>3 DEF Pushes, Succ
<1>14. \A x \in Slots : own[x] # InHand(t)
  BY <1>1 DEF Accounted
<1>15. /\ c.pc \notin {"idle", "jumps"} \cup Filling \cup Seeking \cup Unlinking
       /\ call'[t].pc \notin Filling \cup Seeking \cup Unlinking \cup {"jumps", "push"}
  BY <1>8 DEF Filling, Setting, Seeking, Unlinking
<1>16. tail_first' \in Indices \ {0} /\ tail_last' \in Indices \ {0} /\ tail_avail' \in Nat
  BY <1>1, <1>9 DEF Typed, pool
<1>17. ChangesOnly(own, pos, own, pos, {InHand(t), Pooled})
  BY <1>3, <1>6 DEF ChangesOnly
<1>. QED BY <1>1, <1>6, <1>8, <1>9, <1>10, <1>11, <1>12, <1>13, <1>14, <1>15, <1>16, <1>17, PoolStep

\* The tails that calls have taken and not counted yet are not in the pool.
LEMMA PoolFits ==
    ASSUME NEW own, NEW pos, NEW home, NEW now, Whole(own, pos, home, now)
    PROVE  /\ IsFiniteSet(Queue(own)) /\ IsFiniteSet(Taken) /\ IsFiniteSet(Given)
           /\ Cardinality(Queue(own)) \in Nat /\ Cardinality(Taken) \in Nat
           /\ Cardinality(Given) \in Nat
           /\ Cardinality(Queue(own)) + Cardinality(Taken) <= TailCapacity - 1
<1>. DEFINE Q == Queue(own)
            f == [t \in Taken |-> Tail(call[t].tail)]
            T == {Tail(call[t].tail) : t \in Taken}
<1>1. /\ Typed /\ Counted(own) /\ \A t \in Threads : Pops(own, pos, t)
  BY DEF Whole, Shape, Knows
<1>2. Q \subseteq Tails
  BY OrderFacts, OwnerFacts DEF Queue, Slots
<1>3. ASSUME NEW t \in Taken
      PROVE  t \in Threads /\ f[t] \in Tails /\ own[f[t]] = InHand(t)
  <2>1. t \in Threads /\ call[t].pc = "popped" /\ call[t] \in Calls
    BY <1>1 DEF Taken, Typed
  <2>2. call[t].tail # 0 /\ own[Tail(call[t].tail)] = InHand(t)
    BY <1>1, <2>1 DEF Pops
  <2>3. Tail(call[t].tail) \in Tails
    BY <2>1, <2>2, SlotFacts DEF Calls
  <2>. QED BY <2>1, <2>2, <2>3
<1>4. T \subseteq Tails
  BY <1>3
<1>5. Q \cap T = {}
  BY <1>3, OwnerFacts DEF Queue
<1>6. f \in Bijection(Taken, T)
  <2>1. f \in [Taken -> T]
    OBVIOUS
  <2>2. \A t, u \in Taken : f[t] = f[u] => t = u
    BY <1>3, OwnerFacts
  <2>3. \A x \in T : \E t \in Taken : f[t] = x
    OBVIOUS
  <2>. HIDE DEF f, T
  <2>. QED BY <2>1, <2>2, <2>3 DEF Bijection, Injection, Surjection, IsInjective
<1>7. ExistsBijection(Taken, T)
  BY <1>6 DEF ExistsBijection
<1>. HIDE DEF f, T
<1>8. IsFiniteSet(Taken) /\ IsFiniteSet(Given)
  <2>1. Taken \subseteq Busy /\ Given \subseteq Busy /\ IsFiniteSet(Busy)
    BY <1>1 DEF Busy, Taken, Given, Counted
  <2>. QED BY <2>1, FS_Subset
<1>9. IsFiniteSet(T) /\ Cardinality(T) = Cardinality(Taken)
  BY <1>7, <1>8, FS_Bijection
<1>10. IsFiniteSet(Q)
  BY <1>2, TailsCount, FS_Subset
<1>11. Cardinality(Q \cup T) = Cardinality(Q) + Cardinality(T)
  <2>1. Cardinality(Q \cup T) = Cardinality(Q) + Cardinality(T) - Cardinality(Q \cap T)
    BY <1>9, <1>10, FS_Union
  <2>2. Cardinality(Q \cap T) = 0
    BY <1>5, FS_EmptySet
  <2>3. Cardinality(Q) \in Nat /\ Cardinality(T) \in Nat
    BY <1>9, <1>10, FS_CardinalityType
  <2>. QED BY <2>1, <2>2, <2>3
<1>12. Cardinality(Q \cup T) <= TailCapacity - 1
  <2>1. Q \cup T \subseteq Tails
    BY <1>2, <1>4
  <2>2. Cardinality(Q \cup T) <= Cardinality(Tails)
    BY <2>1, TailsCount, FS_Subset
  <2>. QED BY <2>2, TailsCount
<1>13. /\ Cardinality(Q) \in Nat /\ Cardinality(Taken) \in Nat /\ Cardinality(Given) \in Nat
  BY <1>8, <1>10, FS_CardinalityType
<1>. QED BY <1>8, <1>9, <1>10, <1>11, <1>12, <1>13

\* A step that only counts.
LEMMA CountStep ==
    ASSUME NEW own, NEW pos, NEW home, NEW now, NEW t \in Threads,
           Whole(own, pos, home, now), Others(t), call' \in [Threads -> Calls],
           UNCHANGED <<entry, tail_first, tail_last, jumps, slot>>, faults \subseteq faults',
           call[t].pc \in {"popped", "pushed"},
           call'[t].pc # "idle" => call'[t].key = call[t].key,
           call'[t].pc \in {"idle", "append"},
           call[t].pc = "popped" => call'[t].pc = "append" /\ call'[t].tail = call[t].tail,
           tail_avail' \in Nat, Counted(own)', Knows(own, pos, home, t)'
    PROVE  TableInv'
<1>1. /\ Typed /\ Shape(own, pos, home, now) /\ Placed(own, pos, home, now) /\ Accounted(own, home)
  BY DEF Whole, Shape
<1>2. Queued(own, pos)'
  BY <1>1, QueuedKept DEF Shape
<1>3. ASSUME NEW u \in Threads, u # t PROVE Pushes(own, pos, u)'
  <2>1. call'[u] = call[u] /\ Pushes(own, pos, u)
    BY <1>1, <1>3 DEF Others, Shape, Knows
  <2>. QED BY <1>1, <2>1, PushesKept
<1>4. \A x \in Slots : own[x] = InHand(t) => call'[t].pc \in {"popped", "append"} /\ x = Tail(call'[t].tail)
  BY <1>1 DEF Accounted
<1>5. /\ call[t].pc \notin {"idle", "jumps"} \cup Filling \cup Seeking \cup Unlinking
      /\ call'[t].pc \notin Filling \cup Seeking \cup Unlinking \cup {"jumps", "push"}
  BY DEF Filling, Setting, Seeking, Unlinking
<1>6. /\ tail_first' \in Indices \ {0} /\ tail_last' \in Indices \ {0}
      /\ entry' \in [Slots -> Entries]
  BY <1>1 DEF Typed
<1>7. ChangesOnly(own, pos, own, pos, {InHand(t), Pooled})
  BY DEF ChangesOnly
<1>. QED BY <1>1, <1>2, <1>3, <1>4, <1>5, <1>6, <1>7, PoolStep

LEMMA PopAvailInv ==
    ASSUME NEW own, NEW pos, NEW home, NEW now, NEW t \in Threads,
           Whole(own, pos, home, now), PopAvail(t)
    PROVE  TableInv'
<1>. SUFFICES ASSUME Calm' PROVE TableInv'
  BY DEF TableInv
<1>. DEFINE c == call[t]
<1>1. c.pc = "popped" /\ c.pc # "idle" /\ Typed /\ Counted(own) /\ Knows(own, pos, home, t)
      /\ c.key \in Keys
  BY CallFacts DEF PopAvail, Whole, Shape
<1>2. /\ UNCHANGED <<entry, tail_first, tail_last, jumps, slot>> /\ faults \subseteq faults'
  BY DEF PopAvail
<1>3. tail_avail # 0 /\ Goto(t, "append") /\ tail_avail' = tail_avail - 1
  BY DEF PopAvail, Calm
<1>4. /\ call' \in [Threads -> Calls] /\ Others(t) /\ call'[t].pc = "append"
      /\ call'[t].key = c.key /\ call'[t].at = c.at /\ call'[t].tail = c.tail
      /\ call'[t].loaded = FALSE
  BY <1>1, <1>3, Goes DEF Stages, Popping
<1>5. tail_avail \in Nat /\ tail_avail' \in Nat
  BY <1>1, <1>3 DEF Typed
<1>6. Counted(own)'
  <2>1. t \in Taken /\ Taken' = Taken \ {t} /\ Given' = Given
    BY <1>1, <1>4 DEF Taken, Given, Others
  <2>2. IsFiniteSet(Busy')
    BY <1>1, <1>4, BusyFinite DEF Counted
  <2>3. IsFiniteSet(Taken) /\ Cardinality(Taken) \in Nat /\ Cardinality(Given) \in Nat
        /\ Cardinality(Queue(own)) \in Nat
    BY PoolFits
  <2>4. Cardinality(Taken') = Cardinality(Taken) - 1
    BY <2>1, <2>3, FS_RemoveElement
  <2>5. Queue(own)' = Queue(own)
    BY DEF Queue
  <2>6. tail_avail + Cardinality(Given) = Cardinality(Queue(own)) + Cardinality(Taken)
    BY <1>1 DEF Counted
  <2>7. tail_avail' + Cardinality(Given') = Cardinality(Queue(own)') + Cardinality(Taken')
    BY <1>3, <1>5, <2>1, <2>3, <2>4, <2>5, <2>6
  <2>. QED BY <2>2, <2>7 DEF Counted
<1>7. Knows(own, pos, home, t)'
  <2>1. HeadFor(t)' = HeadFor(t)
    BY <1>4 DEF HeadFor
  <2>. QED BY <1>1, <1>2, <1>4, <2>1 DEF Knows, Walks, Pops, Fills, Seeks, Pushes, Ends, Walking, Popping,
     Filling, Setting, Seeking, Unlinking
<1>. QED BY <1>1, <1>2, <1>4, <1>5, <1>6, <1>7, CountStep

LEMMA PushAvailInv ==
    ASSUME NEW own, NEW pos, NEW home, NEW now, NEW t \in Threads,
           Whole(own, pos, home, now), PushAvail(t)
    PROVE  TableInv'
<1>. DEFINE c == call[t]
<1>1. c.pc = "pushed" /\ c.pc # "idle" /\ Typed /\ Counted(own) /\ EndCall(t)
  BY DEF PushAvail, Whole, Shape
<1>2. /\ UNCHANGED <<entry, tail_first, tail_last, jumps, slot>> /\ faults \subseteq faults'
  BY DEF PushAvail, history
<1>3. call' \in [Threads -> Calls] /\ call'[t].pc = "idle" /\ Others(t)
  BY <1>1, Ended
<1>4. t \in Given /\ Given' = Given \ {t} /\ Taken' = Taken
  BY <1>1, <1>3 DEF Taken, Given, Others
<1>5. /\ IsFiniteSet(Given) /\ Cardinality(Taken) \in Nat /\ Cardinality(Given) \in Nat
      /\ Cardinality(Queue(own)) \in Nat
      /\ Cardinality(Queue(own)) + Cardinality(Taken) <= TailCapacity - 1
  BY PoolFits
<1>6. Cardinality(Given') = Cardinality(Given) - 1 /\ Cardinality(Given) # 0
  <2>1. Cardinality(Given') = Cardinality(Given) - 1
    BY <1>4, <1>5, FS_RemoveElement
  <2>2. Cardinality(Given) # 0
    BY <1>4, <1>5, FS_EmptySet
  <2>. QED BY <2>1, <2>2
<1>7. tail_avail + Cardinality(Given) = Cardinality(Queue(own)) + Cardinality(Taken) /\ tail_avail \in Nat
  BY <1>1 DEF Counted, Typed
<1>8. tail_avail + 1 < TailCapacity
  BY <1>5, <1>6, <1>7, TailCapacityAssumption
<1>9. tail_avail' = tail_avail + 1
  BY <1>7, <1>8, TailCapacityAssumption DEF PushAvail
<1>10. Counted(own)'
  <2>1. IsFiniteSet(Busy')
    BY <1>1, <1>3, BusyFinite DEF Counted
  <2>2. Queue(own)' = Queue(own)
    BY DEF Queue
  <2>3. tail_avail' + Cardinality(Given') = Cardinality(Queue(own)') + Cardinality(Taken')
    BY <1>4, <1>5, <1>6, <1>7, <1>9, <2>2
  <2>. QED BY <2>1, <2>3 DEF Counted
<1>11. tail_avail' \in Nat
  BY <1>7, <1>9
<1>. QED BY <1>1, <1>2, <1>3, <1>10, <1>11, IdleKnows, CountStep

LEMMA PopInv ==
    ASSUME NEW own, NEW pos, NEW home, NEW now, NEW t \in Threads,
           Whole(own, pos, home, now), Pop(t)
    PROVE  TableInv'
<1>. SUFFICES ASSUME Calm' PROVE TableInv'
  BY DEF TableInv
<1>. DEFINE c == call[t]
<1>. SUFFICES ASSUME NEW y, NEW m, NEW own2, y = Tail(tail_first), m = Tail(call[t].want),
                     own2 = [own EXCEPT ![y] = InHand(t)]
              PROVE  TableInv'
  OBVIOUS
<1>1. /\ c.pc = "pop" /\ c.pc # "idle" /\ Typed /\ CallsApart /\ Shape(own, pos, home, now)
      /\ Placed(own, pos, home, now) /\ Accounted(own, home) /\ Knows(own, pos, home, t)
      /\ Queued(own, pos) /\ Counted(own) /\ c \in Calls /\ c.key \in Keys
      /\ c.tail = tail_first
  BY CallFacts DEF Pop, Whole, Shape
<1>2. Popped(t) /\ UNCHANGED <<entry, tail_last, tail_avail, jumps, slot>> /\ tail_first' = c.want
      /\ faults \subseteq faults' /\ Goto(t, "popped")
  BY DEF Pop, Popped
<1>3. c.want # 0 /\ entry[y].next = c.want
  <2>1. PopFaults(c) \subseteq faults'
    BY <1>2 DEF Popped
  <2>. QED BY <1>1, <2>1 DEF PopFaults, Calm, NULL_INDEX
<1>4. y \in Slots /\ y \in Tails /\ c.want \in Indices \ {0} /\ m \in Slots /\ tail_first \in Indices \ {0}
  BY <1>1, <1>3, SlotFacts DEF Typed, Slots, Calls
<1>5. own[y] = Pooled /\ (\A x \in Slots : own[x] = Pooled => pos[y] <= pos[x]) /\ Succ(own, pos, y, m)
  BY <1>1, <1>3, <1>4 DEF Queued
<1>6. own[m] = Pooled /\ pos[y] < pos[m] /\ m # y
  BY <1>4, <1>5, OrderFacts DEF Succ
<1>7. /\ own2[y] = InHand(t) /\ \A x \in Slots : x # y => own2[x] = own[x]
  BY <1>4, OrderFacts
<1>8. /\ \A x \in Slots : own2[x] = Pooled <=> own[x] = Pooled /\ x # y
      /\ \A x \in Slots : own2[x] = InHand(t) => x = y
  BY <1>1, <1>7, OwnerFacts DEF Accounted
<1>9. /\ call' \in [Threads -> Calls] /\ Others(t) /\ call'[t].pc = "popped"
      /\ call'[t].key = c.key /\ call'[t].at = c.at /\ call'[t].tail = c.tail
  BY <1>1, <1>2, Goes DEF Stages, Popping
<1>10. Placed(own2, pos, home, now)
  <2>1. own2 \in [Slots -> Heads \cup {Pooled} \cup {InHand(u) : u \in Threads}]
    BY <1>4, OrderFacts
  <2>2. y \notin Heads
    BY <1>4, SlotFacts
  <2>3. \A x, z \in Slots : own2[x] = own2[z] /\ pos[x] = pos[z] => x = z
    BY <1>7, <1>8, OrderFacts
  <2>. QED BY <1>1, <1>7, <2>1, <2>2, <2>3, SlotFacts DEF Placed, Slots
<1>11. Succ(own, pos, y, m) /\ pos[y] \in Nat /\ pos[m] \in Nat
  BY <1>4, <1>5, OrderFacts
<1>12. Queued(own2, pos)'
  <2>1. \A x \in Slots : own2[x] = Pooled => pos[m] <= pos[x]
    <3>. SUFFICES ASSUME NEW x \in Slots, own2[x] = Pooled PROVE pos[m] <= pos[x]
      OBVIOUS
    <3>1. own[x] = Pooled /\ x # y
      BY <1>8
    <3>2. pos[y] < pos[x]
      BY <1>4, <1>5, <3>1, OrderFacts
    <3>. QED BY <1>5, <3>1, <3>2 DEF Succ
  <2>2. own2[m] = Pooled
    BY <1>4, <1>6, <1>8
  <2>3. Tail(tail_last) \in Slots /\ own[Tail(tail_last)] = Pooled /\ Ends(own, pos, Tail(tail_last))
    BY <1>1, SlotFacts DEF Typed, Queued, Slots
  <2>4. Tail(tail_last) # y
    BY <1>4, <1>6, <2>3, OrderFacts DEF Ends
  <2>5. own2[Tail(tail_last)] = Pooled /\ Ends(own2, pos, Tail(tail_last))
    BY <1>8, <2>3, <2>4 DEF Ends
  <2>6. ASSUME NEW x \in Slots, own2[x] = Pooled
        PROVE  /\ entry[x].next = 0 =>
                     \/ Ends(own2, pos, x)
                     \/ \E u \in Threads : call'[u].pc = "push" /\ Tail(call'[u].want) = x
               /\ entry[x].next # 0 => Succ(own2, pos, x, Tail(entry[x].next))
    <3>1. own[x] = Pooled /\ x # y
      BY <1>8, <2>6
    <3>2. Ends(own, pos, x) => Ends(own2, pos, x)
      BY <1>8, <2>6, <3>1 DEF Ends
    <3>3. ASSUME NEW u \in Threads, call[u].pc = "push", Tail(call[u].want) = x
          PROVE  call'[u].pc = "push" /\ Tail(call'[u].want) = x
      BY <1>1, <1>9, <3>3 DEF Others
    <3>4. ASSUME entry[x].next # 0
          PROVE  Succ(own2, pos, x, Tail(entry[x].next))
      <4>. DEFINE z == Tail(entry[x].next)
      <4>1. z \in Slots
        BY <1>1, <3>4, SlotFacts, WordTyped DEF Slots
      <4>2. Succ(own, pos, x, z)
        BY <1>1, <3>1, <3>4 DEF Queued
      <4>3. z # y
        BY <1>4, <1>5, <3>1, <4>1, <4>2, OrderFacts DEF Succ
      <4>. HIDE DEF z
      <4>4. own2[z] = Pooled
        BY <1>8, <3>1, <4>1, <4>2, <4>3 DEF Succ
      <4>5. Succ(own2, pos, x, z)
        BY <1>8, <2>6, <3>1, <4>1, <4>2, <4>4 DEF Succ
      <4>. QED BY <4>5 DEF z
    <3>. QED BY <1>1, <3>1, <3>2, <3>3, <3>4 DEF Queued
  <2>. QED BY <1>2, <2>1, <2>2, <2>5, <2>6 DEF Queued, Succ, Ends
<1>13. Counted(own2)'
  <2>1. t \notin Taken /\ Taken' = Taken \cup {t} /\ Given' = Given
    BY <1>1, <1>9 DEF Taken, Given, Others
  <2>2. IsFiniteSet(Busy')
    BY <1>1, <1>9, BusyFinite DEF Counted
  <2>3. IsFiniteSet(Taken) /\ IsFiniteSet(Queue(own)) /\ Cardinality(Taken) \in Nat
        /\ Cardinality(Given) \in Nat /\ Cardinality(Queue(own)) \in Nat
    BY PoolFits
  <2>4. Cardinality(Taken') = Cardinality(Taken) + 1
    BY <2>1, <2>3, FS_AddElement
  <2>5. y \in Queue(own) /\ Queue(own2) = Queue(own) \ {y}
    BY <1>4, <1>5, <1>8 DEF Queue
  <2>6. Cardinality(Queue(own2)) = Cardinality(Queue(own)) - 1
    BY <2>3, <2>5, FS_RemoveElement
  <2>7. tail_avail + Cardinality(Given) = Cardinality(Queue(own)) + Cardinality(Taken)
        /\ Queue(own2)' = Queue(own2)
    BY <1>1 DEF Counted, Queue
  <2>8. tail_avail' + Cardinality(Given') = Cardinality(Queue(own2)') + Cardinality(Taken')
    BY <1>2, <2>1, <2>3, <2>4, <2>6, <2>7
  <2>. QED BY <2>2, <2>8 DEF Counted
<1>14. ASSUME NEW u \in Threads, u # t PROVE Pushes(own2, pos, u)'
  <2>1. call'[u] = call[u] /\ Pushes(own, pos, u) /\ call[u] \in Calls /\ UNCHANGED entry
    BY <1>1, <1>2, <1>9, <1>14 DEF Others, Shape, Knows, Typed
  <2>2. ASSUME call[u].pc \in {"cut", "swap"}
        PROVE  own2[call[u].at] = InHand(u)
    <3>1. call[u].at \in Slots /\ own[call[u].at] = InHand(u)
      BY <2>1, <2>2, SlotFacts DEF Pushes, Calls, Slots
    <3>. QED BY <1>5, <1>7, <3>1, OwnerFacts
  <2>3. ASSUME call[u].pc = "push"
        PROVE  own2[call[u].at] = Pooled /\ Succ(own2, pos, Tail(call[u].want), call[u].at)
    <3>. DEFINE a == call[u].at
                w == Tail(call[u].want)
    <3>1. a \in Slots /\ w \in Slots
      BY <2>1, <2>3, SlotFacts DEF Pushes, Calls, Slots
    <3>2. own[a] = Pooled /\ Succ(own, pos, w, a) /\ entry[w].next = 0
      BY <2>1, <2>3 DEF Pushes
    <3>. HIDE DEF a, w
    <3>3. own[w] = Pooled /\ pos[w] < pos[a]
      BY <3>2 DEF Succ
    <3>4. w # y /\ a # y
      BY <1>3, <1>4, <1>5, <3>1, <3>2, <3>3, OrderFacts
    <3>5. own2[w] = Pooled /\ own2[a] = Pooled
      BY <1>8, <3>1, <3>2, <3>3, <3>4
    <3>6. Succ(own2, pos, w, a)
      BY <1>8, <3>1, <3>2, <3>3, <3>5 DEF Succ
    <3>. QED BY <3>5, <3>6 DEF a, w
  <2>. QED BY <2>1, <2>2, <2>3 DEF Pushes, Succ
<1>15. Knows(own2, pos, home, t)'
  <2>1. HeadFor(t)' = HeadFor(t) /\ HeadFor(t) \in Heads
    BY <1>1, <1>9, CallFacts DEF HeadFor
  <2>2. \A x \in Slots : own2[x] = HeadFor(t) <=> own[x] = HeadFor(t)
    BY <1>5, <1>7, <2>1, OwnerFacts
  <2>3. /\ c.at \in Slots /\ own[c.at] = HeadFor(t) /\ Ends(own, pos, c.at)
        /\ \A z \in Slots : own[z] = HeadFor(t) => entry[z].tag # TagOf(c.key)
        /\ c.tail # 0
    BY <1>1 DEF Knows, Pops, Popping
  <2>4. Ends(own2, pos, c.at)
    BY <2>2, <2>3 DEF Ends
  <2>5. own2[Tail(c.tail)] = InHand(t)
    BY <1>1, <1>7
  <2>. QED BY <1>1, <1>2, <1>9, <2>1, <2>2, <2>3, <2>4, <2>5
          DEF Knows, Walks, Pops, Fills, Seeks, Pushes, Ends, Walking, Popping,
              Filling, Setting, Seeking, Unlinking
<1>16. \A x \in Slots : own2[x] = InHand(t) => call'[t].pc \in {"popped", "append"} /\ x = Tail(call'[t].tail)
  BY <1>1, <1>8, <1>9
<1>17. /\ c.pc \notin {"idle", "jumps"} \cup Filling \cup Seeking \cup Unlinking
       /\ call'[t].pc \notin Filling \cup Seeking \cup Unlinking \cup {"jumps", "push"}
  BY <1>1, <1>9 DEF Filling, Setting, Seeking, Unlinking
<1>18. /\ tail_first' \in Indices \ {0} /\ tail_last' \in Indices \ {0} /\ tail_avail' \in Nat
       /\ entry' \in [Slots -> Entries]
  BY <1>1, <1>2, <1>4 DEF Typed
<1>19. ChangesOnly(own, pos, own2, pos, {InHand(t), Pooled})
  BY <1>2, <1>5, <1>7 DEF ChangesOnly
<1>. QED BY <1>2, <1>9, <1>10, <1>12, <1>13, <1>14, <1>15, <1>16, <1>17, <1>18, <1>19, PoolStep

LEMMA SwapLastInv ==
    ASSUME NEW own, NEW pos, NEW home, NEW now, NEW t \in Threads,
           Whole(own, pos, home, now), SwapLast(t)
    PROVE  TableInv'
<1>. DEFINE c == call[t]
            d == [c EXCEPT !.pc = "push", !.want = tail_last]
<1>. SUFFICES ASSUME NEW y, NEW z, NEW own2, NEW pos2, NEW now2, y = call[t].at, z = Tail(tail_last),
                     now2 = now + 1,
                     own2 = [own EXCEPT ![y] = Pooled], pos2 = [pos EXCEPT ![y] = now2]
              PROVE  TableInv'
  OBVIOUS
<1>1. /\ c.pc = "swap" /\ c.pc # "idle" /\ Typed /\ CallsApart /\ Shape(own, pos, home, now)
      /\ Placed(own, pos, home, now) /\ Accounted(own, home) /\ Knows(own, pos, home, t)
      /\ Queued(own, pos) /\ Counted(own) /\ c \in Calls /\ c.key \in Keys
  BY CallFacts DEF SwapLast, Whole, Shape
<1>2. /\ UNCHANGED <<entry, tail_first, tail_avail, jumps, slot>> /\ tail_last' = c.tail
      /\ faults \subseteq faults' /\ Become(t, d)
  BY DEF SwapLast, history
<1>3. c.tail # 0 /\ y = Tail(c.tail) /\ own[y] = InHand(t) /\ entry[y].next = 0 /\ ~c.loaded
  BY <1>1 DEF Knows, Pushes
<1>4. y \in Slots /\ y \in Tails /\ c.tail \in Indices \ {0} /\ z \in Slots /\ tail_last \in Indices \ {0}
  BY <1>1, <1>3, SlotFacts DEF Typed, Slots, Calls
<1>5. own[z] = Pooled /\ Ends(own, pos, z)
  BY <1>1 DEF Queued
<1>6. z # y /\ now2 \in Nat /\ now \in Nat
  BY <1>3, <1>5, OwnerFacts, OrderFacts
<1>7. /\ own2[y] = Pooled /\ pos2[y] = now2
      /\ \A x \in Slots : x # y => own2[x] = own[x] /\ pos2[x] = pos[x] /\ pos2[x] < now2
      /\ \A x \in Slots : pos2[x] \in Nat /\ pos2[x] <= now2
  <2>1. own2[y] = Pooled /\ pos2[y] = now2
    BY <1>1, <1>4 DEF Placed
  <2>2. \A x \in Slots : x # y => own2[x] = own[x] /\ pos2[x] = pos[x]
    BY <1>1, <1>4 DEF Placed
  <2>. QED BY <1>6, <2>1, <2>2, OrderFacts
<1>8. /\ \A x \in Slots : own2[x] = Pooled <=> own[x] = Pooled \/ x = y
      /\ \A x \in Slots : own2[x] # InHand(t)
  BY <1>1, <1>7, OwnerFacts DEF Accounted
<1>9. d \in Calls /\ d.pc = "push" /\ d.key = c.key /\ d.at = c.at /\ d.tail = c.tail
      /\ d.want = tail_last /\ d.loaded = c.loaded
  BY <1>1, <1>4 DEF Calls, Stages
<1>. HIDE DEF d
<1>10. call' \in [Threads -> Calls] /\ Others(t) /\ call'[t] = d
  BY <1>1, <1>2, <1>9, Becomes
<1>11. /\ call'[t].pc = "push" /\ call'[t].key = c.key /\ call'[t].at = y /\ call'[t].tail = c.tail
       /\ call'[t].want = tail_last /\ ~call'[t].loaded
  BY <1>3, <1>9, <1>10
<1>12. Placed(own2, pos2, home, now2)
  <2>1. own2 \in [Slots -> Heads \cup {Pooled} \cup {InHand(u) : u \in Threads}]
    BY <1>4, OrderFacts
  <2>2. pos2 \in [Slots -> 0 .. now2]
    <3>1. pos \in [Slots -> 0 .. now]
      BY <1>1 DEF Placed
    <3>2. \A x \in Slots : pos2[x] \in 0 .. now2
      BY <1>6, <1>7
    <3>3. pos2 = [x \in Slots |-> pos2[x]]
      BY <3>1
    <3>. QED BY <3>2, <3>3
  <2>3. y \notin Heads
    BY <1>4, SlotFacts
  <2>4. \A x, w \in Slots : own2[x] = own2[w] /\ pos2[x] = pos2[w] => x = w
    BY <1>7, OrderFacts
  <2>5. \A x \in Tails : pos2[x] > 0
    BY <1>6, <1>7, OrderFacts
  <2>. QED BY <1>1, <1>6, <1>7, <2>1, <2>2, <2>3, <2>4, <2>5, SlotFacts DEF Placed, Slots
<1>13. entry[z].next = 0
  <2>. SUFFICES ASSUME entry[z].next # 0 PROVE FALSE
    OBVIOUS
  <2>1. Succ(own, pos, z, Tail(entry[z].next)) /\ Tail(entry[z].next) \in Slots
    BY <1>1, <1>4, <1>5, SlotFacts, WordTyped DEF Queued, Slots
  <2>. QED BY <1>4, <1>5, <2>1, OrderFacts DEF Succ, Ends
<1>14. own2[z] = Pooled /\ Succ(own2, pos2, z, y)
  <2>1. own2[z] = Pooled /\ pos2[z] < pos2[y]
    BY <1>4, <1>5, <1>6, <1>7
  <2>2. ASSUME NEW x \in Slots, own2[x] = Pooled, pos2[z] < pos2[x] PROVE x = y
    BY <1>4, <1>5, <1>6, <1>7, <2>2, OrderFacts DEF Ends
  <2>. QED BY <1>7, <2>1, <2>2 DEF Succ
<1>15. Queued(own2, pos2)'
  <2>1. /\ own2[Tail(tail_first)] = Pooled
        /\ \A x \in Slots : own2[x] = Pooled => pos2[Tail(tail_first)] <= pos2[x]
    <3>1. /\ Tail(tail_first) \in Slots /\ own[Tail(tail_first)] = Pooled
          /\ \A x \in Slots : own[x] = Pooled => pos[Tail(tail_first)] <= pos[x]
      BY <1>1, SlotFacts DEF Queued, Typed, Slots
    <3>. QED BY <1>3, <1>7, <1>8, <3>1, OwnerFacts
  <2>2. Ends(own2, pos2, y)
    BY <1>7 DEF Ends
  <2>3. ASSUME NEW x \in Slots, own2[x] = Pooled
        PROVE  /\ entry[x].next = 0 =>
                     \/ Ends(own2, pos2, x)
                     \/ \E u \in Threads : call'[u].pc = "push" /\ Tail(call'[u].want) = x
               /\ entry[x].next # 0 => Succ(own2, pos2, x, Tail(entry[x].next))
    <3>1. CASE x = y
      BY <1>3, <2>2, <3>1
    <3>2. CASE x = z
      BY <1>11, <1>13, <3>2
    <3>3. CASE x # y /\ x # z
      <4>1. own[x] = Pooled /\ ~Ends(own, pos, x)
        BY <1>4, <1>5, <1>8, <2>3, <3>3, OrderFacts DEF Ends
      <4>2. ASSUME NEW u \in Threads, call[u].pc = "push", Tail(call[u].want) = x
            PROVE  call'[u].pc = "push" /\ Tail(call'[u].want) = x
        BY <1>1, <1>10, <4>2 DEF Others
      <4>3. ASSUME entry[x].next # 0
            PROVE  Succ(own2, pos2, x, Tail(entry[x].next))
        <5>. DEFINE w == Tail(entry[x].next)
        <5>1. w \in Slots
          BY <1>1, <4>3, SlotFacts, WordTyped DEF Slots
        <5>2. Succ(own, pos, x, w)
          BY <1>1, <4>1, <4>3 DEF Queued
        <5>. HIDE DEF w
        <5>3. own[w] = Pooled /\ w # y
          BY <1>3, <4>1, <5>2, OwnerFacts DEF Succ
        <5>4. ASSUME NEW v \in Slots, own2[v] = Pooled, pos2[x] < pos2[v] PROVE pos2[w] <= pos2[v]
          <6>1. CASE v = y
            BY <1>7, <5>1, <6>1
          <6>2. CASE v # y
            BY <1>7, <1>8, <3>3, <4>1, <5>1, <5>2, <5>3, <5>4, <6>2 DEF Succ
          <6>. QED BY <6>1, <6>2
        <5>5. own2[w] = own2[x] /\ pos2[x] < pos2[w]
          BY <1>7, <2>3, <3>3, <5>1, <5>2, <5>3 DEF Succ
        <5>6. Succ(own2, pos2, x, w)
          BY <2>3, <5>4, <5>5 DEF Succ
        <5>. QED BY <5>6 DEF w
      <4>. QED BY <1>1, <4>1, <4>2, <4>3 DEF Queued
    <3>. QED BY <3>1, <3>2, <3>3
  <2>. QED BY <1>2, <1>3, <1>7, <2>1, <2>2, <2>3 DEF Queued, Succ, Ends
<1>16. Counted(own2)'
  <2>1. t \notin Given /\ Given' = Given \cup {t} /\ Taken' = Taken
    BY <1>1, <1>10, <1>11 DEF Taken, Given, Others
  <2>2. IsFiniteSet(Busy')
    BY <1>1, <1>10, BusyFinite DEF Counted
  <2>3. IsFiniteSet(Given) /\ IsFiniteSet(Queue(own)) /\ Cardinality(Taken) \in Nat
        /\ Cardinality(Given) \in Nat /\ Cardinality(Queue(own)) \in Nat
    BY PoolFits
  <2>4. Cardinality(Given') = Cardinality(Given) + 1
    BY <2>1, <2>3, FS_AddElement
  <2>5. y \notin Queue(own) /\ Queue(own2) = Queue(own) \cup {y}
    BY <1>3, <1>4, <1>8, OwnerFacts DEF Queue
  <2>6. Cardinality(Queue(own2)) = Cardinality(Queue(own)) + 1
    BY <2>3, <2>5, FS_AddElement
  <2>7. tail_avail + Cardinality(Given) = Cardinality(Queue(own)) + Cardinality(Taken)
        /\ Queue(own2)' = Queue(own2) /\ tail_avail \in Nat
    BY <1>1 DEF Counted, Queue, Typed
  <2>8. tail_avail' + Cardinality(Given') = Cardinality(Queue(own2)') + Cardinality(Taken')
    BY <1>2, <2>1, <2>3, <2>4, <2>6, <2>7
  <2>. QED BY <2>2, <2>8 DEF Counted
<1>17. ASSUME NEW u \in Threads, u # t PROVE Pushes(own2, pos2, u)'
  <2>1. call'[u] = call[u] /\ Pushes(own, pos, u) /\ call[u] \in Calls /\ UNCHANGED entry
    BY <1>1, <1>2, <1>10, <1>17 DEF Others, Shape, Knows, Typed
  <2>2. ASSUME call[u].pc \in {"cut", "swap"}
        PROVE  own2[call[u].at] = InHand(u)
    <3>1. call[u].at \in Slots /\ own[call[u].at] = InHand(u)
      BY <2>1, <2>2, SlotFacts DEF Pushes, Calls, Slots
    <3>. QED BY <1>3, <1>7, <1>17, <3>1, OwnerFacts
  <2>3. ASSUME call[u].pc = "push"
        PROVE  own2[call[u].at] = Pooled /\ Succ(own2, pos2, Tail(call[u].want), call[u].at)
    <3>. DEFINE a == call[u].at
                w == Tail(call[u].want)
    <3>1. a \in Slots /\ w \in Slots
      BY <2>1, <2>3, SlotFacts DEF Pushes, Calls, Slots
    <3>2. own[a] = Pooled /\ Succ(own, pos, w, a)
      BY <2>1, <2>3 DEF Pushes
    <3>. HIDE DEF a, w
    <3>3. own[w] = Pooled /\ pos[w] < pos[a]
      BY <3>2 DEF Succ
    <3>4. w # y /\ a # y
      BY <1>3, <3>2, <3>3, OwnerFacts
    <3>5. own2[w] = Pooled /\ own2[a] = Pooled /\ pos2[w] = pos[w] /\ pos2[a] = pos[a]
      BY <1>7, <3>1, <3>2, <3>3, <3>4
    <3>6. ASSUME NEW x \in Slots, own2[x] = Pooled, pos2[w] < pos2[x] PROVE pos2[a] <= pos2[x]
      <4>1. CASE x = y
        BY <1>7, <3>1, <4>1
      <4>2. CASE x # y
        BY <1>7, <1>8, <3>2, <3>3, <3>5, <3>6, <4>2 DEF Succ
      <4>. QED BY <4>1, <4>2
    <3>7. Succ(own2, pos2, w, a)
      BY <3>3, <3>5, <3>6 DEF Succ
    <3>. QED BY <3>5, <3>7 DEF a, w
  <2>. QED BY <2>1, <2>2, <2>3 DEF Pushes, Succ
<1>18. Knows(own2, pos2, home, t)'
  BY <1>1, <1>2, <1>3, <1>4, <1>7, <1>11, <1>13, <1>14
     DEF Knows, Walks, Pops, Fills, Seeks, Pushes, Succ, Walking, Popping,
         Filling, Setting, Seeking, Unlinking
<1>19. /\ c.pc \notin {"idle", "jumps"} \cup Filling \cup Seeking \cup Unlinking
       /\ call'[t].pc \notin Filling \cup Seeking \cup Unlinking \cup {"jumps"}
  BY <1>1, <1>11 DEF Filling, Setting, Seeking, Unlinking
<1>20. \A u \in Threads : u # t /\ call[u].pc = "push" => call[u].at # call'[t].at
  BY <1>1, <1>3, <1>11, OwnerFacts DEF Shape, Knows, Pushes
<1>21. /\ tail_first' \in Indices \ {0} /\ tail_last' \in Indices \ {0} /\ tail_avail' \in Nat
       /\ entry' \in [Slots -> Entries]
  BY <1>1, <1>2, <1>4 DEF Typed
<1>22. ChangesOnly(own, pos, own2, pos2, {InHand(t), Pooled})
  BY <1>2, <1>3, <1>7 DEF ChangesOnly
<1>. QED BY <1>2, <1>8, <1>10, <1>11, <1>12, <1>15, <1>16, <1>17, <1>18, <1>19, <1>20, <1>21, <1>22, PoolStep

-----------------------------------------------------------------------------
(* Steps that move a tail between the hand of a call and its chain.        *)

LEMMA HandStep ==
    ASSUME NEW own, NEW pos, NEW home, NEW now, NEW own2, NEW pos2, NEW now2, NEW t \in Threads,
           Whole(own, pos, home, now), Others(t), call' \in [Threads -> Calls],
           {call[t].pc, call'[t].pc} \cap ({"idle", "popped", "push", "pushed", "jumps"} \cup Seeking) = {},
           call'[t].key = call[t].key, entry' \in [Slots -> Entries],
           \A x \in Slots : /\ entry'[x].type = entry[x].type /\ entry'[x].tag = entry[x].tag
                            /\ entry'[x].jump_head = entry[x].jump_head,
           UNCHANGED <<pool, jumps, slot>>, faults \subseteq faults',
           Placed(own2, pos2, home, now2),
           ChangesOnly(own, pos, own2, pos2, {HeadFor(t), InHand(t)}),
           \A k \in Keys : home[k] # None => own2[home[k]] = own[home[k]],
           call'[t].pc \in Filling \cup Unlinking => \A k \in Keys : home[k] # call'[t].at,
           Chained(own2, pos2)', Tagged(own2)', Accounted(own2, home)', Knows(own2, pos2, home, t)'
    PROVE  TableInv'
<1>1. /\ Typed /\ CallsApart /\ Shape(own, pos, home, now) /\ Homed(own, home)
      /\ home \in [Keys -> Slots \cup {None}] /\ call[t].pc # "idle" /\ HeadFor(t) \in Heads
      /\ Queued(own, pos) /\ Counted(own)
  BY CallFacts DEF Whole, Shape, Placed
<1>2. ASSUME NEW x \in Slots, own[x] = Pooled \/ own2[x] = Pooled
      PROVE  own2[x] = own[x] /\ pos2[x] = pos[x] /\ entry'[x] = entry[x]
  BY <1>1, <1>2, OwnerFacts DEF ChangesOnly
<1>3. Typed'
  BY <1>1 DEF Typed, pool
<1>4. CallsApart'
  BY <1>1, ApartKept
<1>5. Placed(own2, pos2, home, now2)'
  BY DEF Placed
<1>6. Queued(own2, pos2)'
  <2>1. Queued(own, pos)'
    <3>1. \A x \in Slots : own[x] = Pooled => entry'[x].next = entry[x].next
      BY <1>2
    <3>2. call[t].pc # "push" /\ UNCHANGED <<tail_first, tail_last>>
      BY DEF pool
    <3>. QED BY <1>1, <3>1, <3>2, QueuedKept
  <2>2. \A x \in Slots : own[x] = Pooled /\ Ends(own, pos, x) => Ends(own2, pos2, x)
    BY <1>2 DEF Ends
  <2>3. ASSUME NEW x \in Slots, own[x] = Pooled, entry'[x].next # 0,
               Succ(own, pos, x, Tail(entry'[x].next))
        PROVE  Succ(own2, pos2, x, Tail(entry'[x].next))
    <3>. DEFINE y == Tail(entry'[x].next)
    <3>1. entry'[x].next \in Indices
      <4>1. entry'[x] \in Entries
        OBVIOUS
      <4>. QED BY <4>1 DEF Entries
    <3>2. y \in Slots /\ Succ(own, pos, x, y)
      BY <2>3, <3>1, SlotFacts DEF Slots
    <3>. HIDE DEF y
    <3>3. own2[x] = Pooled /\ pos2[x] = pos[x] /\ own[y] = Pooled /\ pos2[y] = pos[y] /\ own2[y] = Pooled
      BY <1>2, <2>3, <3>2 DEF Succ
    <3>4. Succ(own2, pos2, x, y)
      BY <1>2, <2>3, <3>2, <3>3 DEF Succ
    <3>. QED BY <3>4 DEF y
  <2>4. /\ Tail(tail_first) \in Slots /\ Tail(tail_last) \in Slots
        /\ UNCHANGED <<tail_first, tail_last>>
    BY <1>1, SlotFacts DEF Typed, Slots, pool
  <2>. QED BY <1>2, <2>1, <2>2, <2>3, <2>4 DEF Queued, Succ, Ends
<1>7. Homed(own2, home)'
  <2>1. Homed(own, home)'
    <3>1. \A k \in Keys : home[k] # None => home[k] \in Slots
      BY <1>1
    <3>2. call[t].pc \notin Seeking \cup {"jumps"}
      OBVIOUS
    <3>. QED BY <1>1, <3>1, <3>2, HomedKept
  <2>. QED BY <2>1 DEF Homed
<1>8. JumpsOwned(home)'
  BY <1>1, JumpsKept DEF Shape
<1>9. Counted(own2)'
  <2>1. Counted(own)'
    BY <1>1, CountedKept DEF pool
  <2>2. Queue(own2)' = Queue(own)'
    BY <1>2 DEF Queue
  <2>. QED BY <2>1, <2>2 DEF Counted
<1>10. \A u \in Threads : u # t => Knows(own2, pos2, home, u)'
  BY <1>1, OthersKnowChain
<1>11. Shape(own2, pos2, home, now2)'
  BY <1>5, <1>6, <1>7, <1>8, <1>9, <1>10 DEF Shape
<1>. QED BY <1>3, <1>4, <1>11 DEF TableInv, Whole

LEMMA UnlinkNextInv ==
    ASSUME NEW own, NEW pos, NEW home, NEW now, NEW t \in Threads,
           Whole(own, pos, home, now), SetNext(t), call[t].pc = "unlink"
    PROVE  TableInv'
<1>. DEFINE c == call[t]
            H == HeadFor(t)
<1>. SUFFICES ASSUME NEW y, NEW p, NEW own2, y = call[t].at, p = call[t].prev,
                     own2 = [own EXCEPT ![y] = InHand(t)]
              PROVE  TableInv'
  OBVIOUS
<1>1. /\ c.pc = "unlink" /\ c.pc # "idle" /\ c.loaded /\ Typed /\ CallsApart
      /\ Shape(own, pos, home, now) /\ Placed(own, pos, home, now) /\ Accounted(own, home)
      /\ Homed(own, home) /\ Chained(own, pos) /\ Tagged(own)
      /\ Knows(own, pos, home, t) /\ c \in Calls /\ c.key \in Keys /\ H \in Heads
  BY CallFacts DEF SetNext, Whole, Shape
<1>2. /\ y \in Slots /\ own[y] = H /\ c.tail # 0 /\ y = Tail(c.tail) /\ p \in Slots
      /\ Succ(own, pos, p, y) /\ c.want = entry[y].next /\ c.seen = entry[p].next
  BY <1>1 DEF Knows, Seeks, Unlinking
<1>3. own[p] = H /\ p # y /\ pos[p] < pos[y] /\ y \in Tails
  BY <1>1, <1>2, OrderFacts, SlotFacts DEF Succ, Calls
<1>4. entry[y].next \in Indices
  BY <1>1, <1>2, WordTyped
<1>5. Link(c) = p /\ NewLink(c) = c.want
  BY <1>1 DEF Link, NewLink
<1>6. entry' = [entry EXCEPT ![p].next = entry[y].next]
  BY <1>2, <1>5 DEF SetNext, CasNext
<1>7. /\ entry' \in [Slots -> Entries] /\ \A x \in Slots : x # p => entry'[x] = entry[x]
      /\ entry'[p].type = entry[p].type /\ entry'[p].tag = entry[p].tag
      /\ entry'[p].next = entry[y].next /\ entry'[p].jump_head = entry[p].jump_head
  BY <1>1, <1>2, <1>4, <1>6, NextSet
<1>8. \A x \in Slots : /\ entry'[x].type = entry[x].type /\ entry'[x].tag = entry[x].tag
                       /\ entry'[x].jump_head = entry[x].jump_head
  BY <1>7
<1>9. Goto(t, "cut")
  BY <1>1 DEF SetNext
<1>10. /\ call' \in [Threads -> Calls] /\ Others(t) /\ call'[t].pc = "cut"
       /\ call'[t].key = c.key /\ call'[t].at = y /\ call'[t].tail = c.tail
       /\ call'[t].loaded = FALSE
  BY <1>1, <1>9, Goes DEF Stages
<1>11. UNCHANGED <<pool, jumps, slot>> /\ faults \subseteq faults'
  BY DEF SetNext, history
<1>12. own2[y] = InHand(t) /\ \A x \in Slots : x # y => own2[x] = own[x]
  BY <1>2, OrderFacts
<1>13. /\ \A x \in Slots : own2[x] = InHand(t) => x = y
       /\ \A x \in Slots : own2[x] \in Heads => x # y /\ own2[x] = own[x]
       /\ \A x \in Slots : own2[x] = H <=> own[x] = H /\ x # y
  BY <1>1, <1>2, <1>12, OwnerFacts DEF Accounted
<1>14. Placed(own2, pos, home, now)
  <2>1. own2 \in [Slots -> Heads \cup {Pooled} \cup {InHand(u) : u \in Threads}]
    BY <1>2, OrderFacts
  <2>2. y \notin Heads
    BY <1>3, SlotFacts
  <2>3. \A x, z \in Slots : own2[x] = own2[z] /\ pos[x] = pos[z] => x = z
    BY <1>12, <1>13, OrderFacts
  <2>. QED BY <1>1, <1>12, <2>1, <2>2, <2>3, OrderFacts DEF Placed
<1>15. Chained(own2, pos)'
  <2>. SUFFICES ASSUME NEW x \in Slots, own2[x] \in Heads
                PROVE  /\ entry'[x].next = 0 => Ends(own2, pos, x)
                       /\ entry'[x].next # 0 =>
                            \/ Succ(own2, pos, x, Tail(entry'[x].next))
                            \/ \E u \in Threads : call'[u].pc \in Setting /\ call'[u].at = x
    BY DEF Chained, Succ, Ends
  <2>1. x # y /\ own2[x] = own[x]
    BY <1>13
  <2>2. \A z \in Slots : own2[z] = own2[x] => own[z] = own[x] /\ z # y
    BY <1>13, <2>1
  <2>3. CASE x = p
    <3>1. entry'[x].next = entry[y].next
      BY <1>7, <2>3
    <3>2. \A z \in Slots : own[z] = H /\ pos[p] < pos[z] /\ z # y => pos[y] < pos[z]
      BY <1>2, <1>3, OrderFacts DEF Succ
    <3>3. ASSUME entry[y].next = 0 PROVE Ends(own2, pos, p)
      <4>1. Ends(own, pos, y)
        BY <1>1, <1>2, <3>3, ChainLink DEF Setting
      <4>2. ASSUME NEW z \in Slots, own2[z] = own2[p], ~(pos[z] <= pos[p]) PROVE FALSE
        <5>1. own[z] = H /\ z # y
          BY <1>3, <2>2, <2>3, <4>2
        <5>2. pos[p] < pos[z]
          BY <1>2, <4>2, OrderFacts
        <5>3. pos[y] < pos[z] /\ pos[z] <= pos[y]
          BY <1>2, <3>2, <4>1, <5>1, <5>2 DEF Ends
        <5>. QED BY <1>2, <5>3, OrderFacts
      <4>. QED BY <4>2 DEF Ends
    <3>4. ASSUME entry[y].next # 0 PROVE Succ(own2, pos, p, Tail(entry[y].next))
      <4>. DEFINE n == Tail(entry[y].next)
      <4>1. Succ(own, pos, y, n) /\ n \in Slots
        BY <1>1, <1>2, <3>4, ChainLink DEF Setting
      <4>. HIDE DEF n
      <4>2. own[n] = H /\ pos[y] < pos[n] /\ n # y /\ pos[p] < pos[n]
        BY <1>2, <1>3, <4>1, OrderFacts DEF Succ
      <4>3. ASSUME NEW z \in Slots, own2[z] = own2[p], pos[p] < pos[z] PROVE pos[n] <= pos[z]
        BY <1>2, <1>3, <2>2, <2>3, <3>2, <4>1, <4>3 DEF Succ
      <4>4. own2[p] = own2[n]
        BY <1>3, <1>12, <1>2, <4>1, <4>2
      <4>5. Succ(own2, pos, p, n)
        BY <4>2, <4>3, <4>4 DEF Succ
      <4>. QED BY <4>5 DEF n
    <3>. QED BY <2>3, <3>1, <3>3, <3>4
  <2>4. CASE x # p
    <3>1. entry'[x] = entry[x] /\ own[x] \in Heads
      BY <1>7, <2>1, <2>4
    <3>2. Ends(own, pos, x) => Ends(own2, pos, x)
      BY <2>2 DEF Ends
    <3>3. ASSUME entry[x].next # 0, Succ(own, pos, x, Tail(entry[x].next))
          PROVE  Succ(own2, pos, x, Tail(entry[x].next))
      <4>. DEFINE n == Tail(entry[x].next)
      <4>1. n \in Slots /\ Succ(own, pos, x, n)
        BY <1>1, <3>3, SlotFacts, WordTyped DEF Slots
      <4>. HIDE DEF n
      <4>2. ASSUME n = y PROVE FALSE
        <5>1. own[x] = H /\ pos[x] < pos[y]
          BY <1>2, <4>1, <4>2 DEF Succ
        <5>2. ~(pos[x] < pos[p])
          BY <1>2, <1>3, <4>1, <4>2, <5>1, OrderFacts DEF Succ
        <5>3. ~(pos[p] < pos[x])
          BY <1>2, <5>1, OrderFacts DEF Succ
        <5>. QED BY <1>2, <1>3, <2>4, <5>1, <5>2, <5>3, OrderFacts
      <4>3. own2[n] = own2[x]
        BY <1>12, <2>1, <4>1, <4>2 DEF Succ
      <4>4. Succ(own2, pos, x, n)
        BY <2>2, <4>1, <4>3 DEF Succ
      <4>. QED BY <4>4 DEF n
    <3>4. ASSUME NEW u \in Threads, call[u].pc \in Setting, call[u].at = x
          PROVE  call'[u].pc \in Setting /\ call'[u].at = x
      BY <1>1, <1>10, <3>4 DEF Others, Setting
    <3>. QED BY <1>1, <3>1, <3>2, <3>3, <3>4 DEF Chained
  <2>. QED BY <2>3, <2>4
<1>16. Tagged(own2)'
  <2>1. Tagged(own)'
    BY <1>1, <1>8, <1>10, TaggedKept
  <2>. SUFFICES ASSUME NEW x \in Slots, NEW z \in Slots, own2[x] \in Heads, own2[x] = own2[z], x # z,
                       entry'[x].tag = entry'[z].tag
                PROVE  \E u \in Threads : call'[u].pc = "settag" /\ call'[u].at \in {x, z}
    BY DEF Tagged
  <2>2. own[x] \in Heads /\ own[x] = own[z]
    BY <1>13
  <2>. QED BY <2>1, <2>2 DEF Tagged
<1>17. \A k \in Keys : home[k] # y
  BY <1>1 DEF Homed, Unlinking
<1>18. Accounted(own2, home)'
  <2>1. ASSUME NEW x \in Slots, own2[x] \in Heads
        PROVE  \/ \E k \in Keys : home[k] = x
               \/ \E u \in Threads : call'[u].pc \in Filling \cup Unlinking /\ call'[u].at = x
               \/ x \in Heads /\ entry'[x].type = "free"
    <3>1. x # y /\ own[x] \in Heads /\ entry'[x].type = entry[x].type
      BY <1>8, <1>13, <2>1
    <3>2. ASSUME NEW u \in Threads, call[u].pc \in Filling \cup Unlinking, call[u].at = x
          PROVE  call'[u].pc \in Filling \cup Unlinking /\ call'[u].at = x
      BY <1>10, <3>1, <3>2 DEF Others
    <3>. QED BY <1>1, <3>1, <3>2 DEF Accounted
  <2>2. ASSUME NEW x \in Slots, NEW u \in Threads, own2[x] = InHand(u)
        PROVE  \/ call'[u].pc \in {"popped", "append"} /\ x = Tail(call'[u].tail)
               \/ call'[u].pc \in {"cut", "swap"} /\ x = call'[u].at
    <3>1. CASE u = t
      BY <1>10, <1>13, <2>2, <3>1
    <3>2. CASE u # t
      <4>1. own[x] = InHand(u) /\ call'[u] = call[u]
        BY <1>10, <1>12, <2>2, <3>2, OwnerFacts DEF Others
      <4>. QED BY <1>1, <4>1 DEF Accounted
    <3>. QED BY <3>1, <3>2
  <2>. QED BY <2>1, <2>2 DEF Accounted
<1>19. Knows(own2, pos, home, t)'
  BY <1>1, <1>2, <1>10, <1>12 DEF Knows, Walks, Pops, Fills, Seeks, Pushes, Walking, Popping,
     Filling, Setting, Seeking, Unlinking
<1>20. ChangesOnly(own, pos, own2, pos, {HeadFor(t), InHand(t)})
  BY <1>2, <1>3, <1>7, <1>12 DEF ChangesOnly
<1>21. \A k \in Keys : home[k] # None => own2[home[k]] = own[home[k]]
  BY <1>1, <1>12, <1>17 DEF Placed
<1>22. call'[t].pc \notin Filling \cup Unlinking
  BY <1>10 DEF Filling, Setting, Unlinking
<1>23. {call[t].pc, call'[t].pc} \cap ({"idle", "popped", "push", "pushed", "jumps"} \cup Seeking) = {}
  BY <1>1, <1>10 DEF Seeking
<1>. QED BY <1>7, <1>8, <1>10, <1>11, <1>14, <1>15, <1>16, <1>18, <1>19, <1>20, <1>21, <1>22, <1>23, HandStep

LEMMA AppendInv ==
    ASSUME NEW own, NEW pos, NEW home, NEW now, NEW t \in Threads,
           Whole(own, pos, home, now), Append(t)
    PROVE  TableInv'
<1>. DEFINE c == call[t]
            H == HeadFor(t)
            d == [c EXCEPT !.pc = "settag", !.loaded = FALSE, !.at = Tail(c.tail)]
<1>. SUFFICES ASSUME NEW y, NEW e, NEW own2, NEW pos2, NEW now2, y = Tail(call[t].tail), e = call[t].at,
                     now2 = now + 1,
                     own2 = [own EXCEPT ![y] = HeadFor(t)], pos2 = [pos EXCEPT ![y] = now2]
              PROVE  TableInv'
  OBVIOUS
<1>1. /\ c.pc = "append" /\ c.pc # "idle" /\ c.loaded /\ Typed /\ CallsApart
      /\ Shape(own, pos, home, now) /\ Placed(own, pos, home, now) /\ Accounted(own, home)
      /\ Homed(own, home) /\ Chained(own, pos) /\ Tagged(own)
      /\ Knows(own, pos, home, t) /\ c \in Calls /\ c.key \in Keys /\ H \in Heads
      /\ H = HeadOf(c.key)
  BY CallFacts DEF Append, Loaded, Whole, Shape, HeadFor
<1>2. /\ e \in Slots /\ own[e] = H /\ Ends(own, pos, e) /\ c.tail # 0 /\ own[y] = InHand(t)
      /\ c.seen = entry[e].next
      /\ \A x \in Slots : own[x] = H => entry[x].tag # TagOf(c.key)
  BY <1>1 DEF Knows, Pops, Popping
<1>3. y \in Slots /\ y \in Tails /\ y # e /\ c.tail \in Indices /\ now \in Nat /\ now2 \in Nat
  BY <1>1, <1>2, SlotFacts, OwnerFacts, OrderFacts DEF Calls, Slots
<1>4. entry' = [entry EXCEPT ![e].next = c.tail] /\ Become(t, d)
  BY <1>2 DEF Append, CasNext
<1>5. /\ entry' \in [Slots -> Entries] /\ \A x \in Slots : x # e => entry'[x] = entry[x]
      /\ entry'[e].type = entry[e].type /\ entry'[e].tag = entry[e].tag
      /\ entry'[e].next = c.tail /\ entry'[e].jump_head = entry[e].jump_head
  BY <1>1, <1>2, <1>3, <1>4, NextSet
<1>6. \A x \in Slots : /\ entry'[x].type = entry[x].type /\ entry'[x].tag = entry[x].tag
                       /\ entry'[x].jump_head = entry[x].jump_head
  BY <1>5
<1>7. d \in Calls /\ d.pc = "settag" /\ d.key = c.key /\ d.at = y /\ d.loaded = FALSE
  BY <1>1, <1>3 DEF Calls, Stages, Filling, Setting
<1>. HIDE DEF d
<1>8. call' \in [Threads -> Calls] /\ Others(t) /\ call'[t] = d
  BY <1>1, <1>4, <1>7, Becomes
<1>9. /\ call'[t].pc = "settag" /\ call'[t].key = c.key /\ call'[t].at = y
      /\ call'[t].loaded = FALSE
  BY <1>7, <1>8
<1>10. UNCHANGED <<pool, jumps, slot>> /\ faults \subseteq faults'
  BY DEF Append, history
<1>11. /\ own2[y] = H /\ pos2[y] = now2
       /\ \A x \in Slots : x # y => own2[x] = own[x] /\ pos2[x] = pos[x] /\ pos2[x] < now2
       /\ \A x \in Slots : pos2[x] \in Nat /\ pos2[x] <= now2
  <2>1. own2[y] = H /\ pos2[y] = now2
    BY <1>1, <1>3 DEF Placed
  <2>2. \A x \in Slots : x # y => own2[x] = own[x] /\ pos2[x] = pos[x]
    BY <1>1, <1>3 DEF Placed
  <2>. QED BY <1>3, <2>1, <2>2, OrderFacts
<1>12. /\ \A x \in Slots : own2[x] # InHand(t)
       /\ \A x \in Slots : own2[x] = H <=> own[x] = H \/ x = y
  BY <1>1, <1>11, OwnerFacts DEF Accounted
<1>13. Placed(own2, pos2, home, now2)
  <2>1. own2 \in [Slots -> Heads \cup {Pooled} \cup {InHand(u) : u \in Threads}]
    BY <1>1, <1>3, OrderFacts
  <2>2. pos2 \in [Slots -> 0 .. now2]
    <3>1. pos \in [Slots -> 0 .. now]
      BY <1>1 DEF Placed
    <3>2. \A x \in Slots : pos2[x] \in 0 .. now2
      BY <1>3, <1>11
    <3>3. pos2 = [x \in Slots |-> pos2[x]]
      BY <3>1
    <3>. QED BY <3>2, <3>3
  <2>3. y \notin Heads
    BY <1>3, SlotFacts
  <2>4. \A x, w \in Slots : own2[x] = own2[w] /\ pos2[x] = pos2[w] => x = w
    BY <1>11, OrderFacts
  <2>5. \A x \in Tails : pos2[x] > 0
    BY <1>3, <1>11, OrderFacts
  <2>. QED BY <1>1, <1>3, <1>11, <2>1, <2>2, <2>3, <2>4, <2>5, OrderFacts DEF Placed
<1>14. Ends(own2, pos2, y)
  BY <1>11 DEF Ends
<1>15. Chained(own2, pos2)'
  <2>. SUFFICES ASSUME NEW x \in Slots, own2[x] \in Heads
                PROVE  /\ entry'[x].next = 0 => Ends(own2, pos2, x)
                       /\ entry'[x].next # 0 =>
                            \/ Succ(own2, pos2, x, Tail(entry'[x].next))
                            \/ \E u \in Threads : call'[u].pc \in Setting /\ call'[u].at = x
    BY DEF Chained, Succ, Ends
  <2>1. CASE x = y
    BY <1>9, <1>14, <2>1 DEF Setting
  <2>2. CASE x = e
    <3>1. entry'[x].next = c.tail /\ own2[e] = own2[y] /\ pos2[e] < pos2[y]
      BY <1>2, <1>3, <1>5, <1>11, <2>2
    <3>2. ASSUME NEW z \in Slots, own2[z] = own2[e], pos2[e] < pos2[z] PROVE z = y
      BY <1>2, <1>3, <1>11, <3>2, OrderFacts DEF Ends
    <3>3. Succ(own2, pos2, e, y)
      BY <1>11, <3>1, <3>2 DEF Succ
    <3>. QED BY <1>2, <2>2, <3>1, <3>3
  <2>3. CASE x # y /\ x # e
    <3>1. /\ entry'[x] = entry[x] /\ own2[x] = own[x] /\ pos2[x] = pos[x] /\ own[x] \in Heads
      BY <1>5, <1>11, <2>3
    <3>2. own[x] = H => ~Ends(own, pos, x)
      BY <1>2, <2>3, OrderFacts DEF Ends
    <3>3. own[x] # H /\ Ends(own, pos, x) => Ends(own2, pos2, x)
      BY <1>11, <3>1 DEF Ends
    <3>4. ASSUME entry[x].next # 0, Succ(own, pos, x, Tail(entry[x].next))
          PROVE  Succ(own2, pos2, x, Tail(entry[x].next))
      <4>. DEFINE n == Tail(entry[x].next)
      <4>1. n \in Slots /\ Succ(own, pos, x, n)
        BY <1>1, <3>4, SlotFacts, WordTyped DEF Slots
      <4>. HIDE DEF n
      <4>2. n # y
        BY <1>2, <3>1, <4>1, OwnerFacts DEF Succ
      <4>3. own2[n] = own[n] /\ pos2[n] = pos[n] /\ pos2[n] < now2
        BY <1>11, <4>1, <4>2
      <4>4. ASSUME NEW z \in Slots, own2[z] = own2[x], pos2[x] < pos2[z] PROVE pos2[n] <= pos2[z]
        <5>1. CASE z = y
          BY <1>11, <4>1, <5>1
        <5>2. CASE z # y
          BY <1>11, <3>1, <4>1, <4>3, <4>4, <5>2 DEF Succ
        <5>. QED BY <5>1, <5>2
      <4>5. Succ(own2, pos2, x, n)
        BY <3>1, <4>1, <4>3, <4>4 DEF Succ
      <4>. QED BY <4>5 DEF n
    <3>5. ASSUME NEW u \in Threads, call[u].pc \in Setting, call[u].at = x
          PROVE  call'[u].pc \in Setting /\ call'[u].at = x
      BY <1>1, <1>8, <3>5 DEF Others, Setting
    <3>6. entry[x].next = 0 => Ends(own, pos, x)
      BY <1>1, <3>1 DEF Chained
    <3>. QED BY <1>1, <3>1, <3>2, <3>3, <3>4, <3>5, <3>6 DEF Chained
  <2>. QED BY <2>1, <2>2, <2>3
<1>16. Tagged(own2)'
  <2>. SUFFICES ASSUME NEW x \in Slots, NEW z \in Slots, own2[x] \in Heads, own2[x] = own2[z], x # z,
                       entry'[x].tag = entry'[z].tag
                PROVE  \E u \in Threads : call'[u].pc = "settag" /\ call'[u].at \in {x, z}
    BY DEF Tagged
  <2>1. CASE y \in {x, z}
    BY <1>9, <2>1
  <2>2. CASE y \notin {x, z}
    <3>1. own[x] \in Heads /\ own[x] = own[z] /\ entry[x].tag = entry[z].tag
      BY <1>6, <1>11, <2>2
    <3>2. PICK u \in Threads : call[u].pc = "settag" /\ call[u].at \in {x, z}
      BY <1>1, <3>1 DEF Tagged
    <3>3. call'[u] = call[u]
      BY <1>1, <1>8, <3>2 DEF Others
    <3>. QED BY <3>2, <3>3
  <2>. QED BY <2>1, <2>2
<1>17. \A k \in Keys : home[k] # None => home[k] \in Slots /\ home[k] # y
  BY <1>1, <1>2, OwnerFacts, SlotFacts, KeysAssumption DEF Homed, Placed
<1>18. home[c.key] = None
  <2>. SUFFICES ASSUME home[c.key] # None PROVE FALSE
    OBVIOUS
  <2>1. own[home[c.key]] = H /\ entry[home[c.key]].tag = TagOf(c.key)
    BY <1>1 DEF Homed
  <2>. QED BY <1>1, <1>2, <1>17, <2>1
<1>19. Accounted(own2, home)'
  <2>1. ASSUME NEW x \in Slots, own2[x] \in Heads
        PROVE  \/ \E k \in Keys : home[k] = x
               \/ \E u \in Threads : call'[u].pc \in Filling \cup Unlinking /\ call'[u].at = x
               \/ x \in Heads /\ entry'[x].type = "free"
    <3>1. CASE x = y
      BY <1>9, <3>1 DEF Filling, Setting
    <3>2. CASE x # y
      <4>1. own[x] \in Heads /\ entry'[x].type = entry[x].type
        BY <1>6, <1>11, <2>1, <3>2
      <4>2. ASSUME NEW u \in Threads, call[u].pc \in Filling \cup Unlinking, call[u].at = x
            PROVE  call'[u].pc \in Filling \cup Unlinking /\ call'[u].at = x
        BY <1>1, <1>8, <4>2 DEF Others, Filling, Setting, Unlinking
      <4>. QED BY <1>1, <4>1, <4>2 DEF Accounted
    <3>. QED BY <3>1, <3>2
  <2>2. ASSUME NEW x \in Slots, NEW u \in Threads, own2[x] = InHand(u)
        PROVE  \/ call'[u].pc \in {"popped", "append"} /\ x = Tail(call'[u].tail)
               \/ call'[u].pc \in {"cut", "swap"} /\ x = call'[u].at
    <3>1. u # t /\ x # y
      BY <1>1, <1>11, <1>12, <2>2, OwnerFacts
    <3>2. own[x] = InHand(u) /\ call'[u] = call[u]
      BY <1>8, <1>11, <2>2, <3>1 DEF Others
    <3>. QED BY <1>1, <3>2 DEF Accounted
  <2>. QED BY <2>1, <2>2 DEF Accounted
<1>20. Knows(own2, pos2, home, t)'
  <2>1. HeadFor(t)' = H
    BY <1>1, <1>9 DEF HeadFor
  <2>2. \A x \in Slots : own2[x] = H /\ x # y => entry'[x].tag # TagOf(c.key)
    BY <1>2, <1>6, <1>11
  <2>. QED BY <1>1, <1>3, <1>9, <1>11, <1>14, <1>18, <2>1, <2>2
          DEF Knows, Walks, Pops, Fills, Seeks, Pushes, Ends, Walking, Popping,
              Filling, Setting, Seeking, Unlinking
<1>21. ChangesOnly(own, pos, own2, pos2, {HeadFor(t), InHand(t)})
  BY <1>2, <1>5, <1>11 DEF ChangesOnly
<1>22. \A k \in Keys : home[k] # None => own2[home[k]] = own[home[k]]
  BY <1>11, <1>17
<1>23. \A k \in Keys : home[k] # call'[t].at
  BY <1>3, <1>9, <1>17, SlotFacts
<1>24. {call[t].pc, call'[t].pc} \cap ({"idle", "popped", "push", "pushed", "jumps"} \cup Seeking) = {}
  BY <1>1, <1>9 DEF Seeking
<1>. QED BY <1>5, <1>6, <1>8, <1>9, <1>10, <1>13, <1>15, <1>16, <1>19, <1>20, <1>21, <1>22, <1>23, <1>24, HandStep

-----------------------------------------------------------------------------
LEMMA FaultsStay ==
    ASSUME Next
    PROVE  faults \subseteq faults' /\ ghosts \subseteq ghosts'
<1>. PICK t \in Threads : Reserve(t) \/ Free(t)
  BY DEF Next
<1>1. ASSUME Reserve(t) PROVE faults \subseteq faults' /\ ghosts \subseteq ghosts'
  <2>1. CASE \E k \in Keys : ReserveEntry(t, k)
    BY <2>1 DEF ReserveEntry
  <2>2. CASE LoadWord(t) \/ LoadNext(t) \/ SetNext(t) \/ AcquireFail(t) \/ CheckTag(t)
    BY <2>2 DEF LoadWord, LoadNext, SetNext, AcquireFail, CheckTag, history
  <2>3. CASE Acquire(t) \/ AtTail(t) \/ PopAvail(t)
    BY <2>3 DEF Acquire, AtTail, PopAvail
  <2>4. CASE Step(t) \/ LoadSecond(t)
    BY <2>4 DEF Step, LoadSecond, Crash, history
  <2>5. CASE Avail(t) \/ LoadFirst(t) \/ PopRetry(t) \/ Append(t) \/ SetTag(t) \/ SetType(t)
    BY <2>5 DEF Avail, LoadFirst, PopRetry, Append, SetTag, SetType, history
  <2>6. CASE Pop(t)
    BY <2>6 DEF Pop, Popped
  <2>7. CASE KeepJumps(t) \/ WriteName(t) \/ WriteJumps(t) \/ JumpsThrow(t)
    BY <2>7 DEF KeepJumps, WriteName, WriteJumps, JumpsThrow
  <2>. QED BY <1>1, <2>1, <2>2, <2>3, <2>4, <2>5, <2>6, <2>7 DEF Reserve
<1>2. ASSUME Free(t) PROVE faults \subseteq faults' /\ ghosts \subseteq ghosts'
  <2>1. CASE \E k \in Keys : FreeEntry(t, k)
    BY <2>1 DEF FreeEntry
  <2>2. CASE HeadIsFree(t) \/ ChainIsEmpty(t) \/ Match(t) \/ Follow(t) \/ Last(t)
    BY <2>2 DEF HeadIsFree, ChainIsEmpty, Match, Follow, Last, history
  <2>3. CASE FreeJumps(t) \/ FreeType(t) \/ ReadNext(t) \/ SwapLast(t) \/ PushAvail(t)
    BY <2>3 DEF FreeJumps, FreeType, ReadNext, SwapLast, PushAvail, history
  <2>. QED BY <1>2, <2>1, <2>2, <2>3 DEF Free
<1>. QED BY <1>1, <1>2

LEMMA NextInv == Orderly /\ TableInv /\ [Next]_vars => TableInv'
<1>. SUFFICES ASSUME Orderly, TableInv, [Next]_vars, Calm'
              PROVE  TableInv'
  BY DEF TableInv
<1>1. CASE UNCHANGED vars
  <2>1. UNCHANGED <<entry, tail_first, tail_last, tail_avail, jumps, slot, ghosts, faults, call>>
    BY <1>1 DEF vars, table, history, pool
  <2>2. PICK own, pos, home, now : Whole(own, pos, home, now)
    BY <2>1 DEF TableInv, Calm
  <2>3. Typed' /\ CallsApart'
    BY <2>1, <2>2 DEF Whole, Typed, CallsApart, HeadFor
  <2>4. Placed(own, pos, home, now)' /\ Chained(own, pos)' /\ Queued(own, pos)' /\ Tagged(own)'
    BY <2>1, <2>2 DEF Whole, Shape, Placed, Chained, Queued, Tagged, Succ, Ends
  <2>5. Homed(own, home)' /\ Accounted(own, home)'
    BY <2>1, <2>2 DEF Whole, Shape, Homed, Accounted
  <2>6. JumpsOwned(home)'
    BY <2>1, <2>2 DEF Whole, Shape, JumpsOwned, Holds
  <2>7. Counted(own)'
    <3>1. Busy' = Busy /\ Taken' = Taken /\ Given' = Given /\ Queue(own)' = Queue(own)
      BY <2>1 DEF Busy, Taken, Given, Queue
    <3>. QED BY <2>1, <2>2, <3>1 DEF Whole, Shape, Counted
  <2>8. ASSUME NEW u \in Threads PROVE Knows(own, pos, home, u)'
    <3>1. Knows(own, pos, home, u)
      BY <2>2 DEF Whole, Shape
    <3>2. HeadFor(u)' = HeadFor(u) /\ \A x \in Slots : Word(x)' = Word(x)
      BY <2>1 DEF HeadFor, Word
    <3>3. Walks(own, pos, u)' /\ Pops(own, pos, u)'
      BY <2>1, <3>1, <3>2 DEF Knows, Walks, Pops, Ends
    <3>4. Fills(own, pos, home, u)'
      BY <2>1, <3>1, <3>2 DEF Knows, Fills, Ends, Filling, Setting
    <3>5. Seeks(own, pos, home, u)' /\ Pushes(own, pos, u)'
      BY <2>1, <3>1, <3>2 DEF Knows, Seeks, Pushes, Succ, Seeking, Unlinking
    <3>. QED BY <3>3, <3>4, <3>5 DEF Knows
  <2>9. Shape(own, pos, home, now)'
    BY <2>4, <2>5, <2>6, <2>7, <2>8 DEF Shape
  <2>. QED BY <2>3, <2>9 DEF TableInv, Whole
<1>2. CASE Next
  <2>1. Calm
    BY <1>2, FaultsStay DEF Calm
  <2>2. PICK own, pos, home, now : Whole(own, pos, home, now)
    BY <2>1 DEF TableInv
  <2>3. PICK t \in Threads : Reserve(t) \/ Free(t)
    BY <1>2 DEF Next
  <2>4. CASE Reserve(t)
    <3>1. ASSUME NEW k \in Keys, ReserveEntry(t, k) PROVE TableInv'
      BY <2>2, <3>1, ReserveEntryInv
    <3>2. CASE LoadWord(t)
      BY <2>2, <3>2, LoadWordInv
    <3>3. CASE LoadNext(t)
      BY <2>2, <3>3, LoadNextInv
    <3>4. CASE SetNext(t)
      <4>1. call[t].pc \in {"clear", "unlink", "cut", "push"}
        BY <3>4 DEF SetNext, Setters
      <4>. QED BY <2>2, <3>4, <4>1, ClearNextInv, UnlinkNextInv, CutNextInv, PushNextInv
    <3>5. CASE Acquire(t)
      BY <2>2, <3>5, AcquireInv
    <3>6. CASE AcquireFail(t)
      BY <2>2, <3>6, AcquireFailInv
    <3>7. CASE CheckTag(t)
      BY <2>2, <3>7, CheckTagInv
    <3>8. CASE AtTail(t)
      BY <2>2, <3>8, AtTailInv
    <3>9. CASE Step(t)
      BY <2>2, <3>9, StepInv
    <3>10. CASE Avail(t)
      BY <2>2, <3>10, AvailInv
    <3>11. CASE LoadFirst(t) \/ LoadSecond(t)
      BY <2>2, <3>11, LoadFirstInv
    <3>12. CASE Pop(t)
      BY <2>2, <3>12, PopInv
    <3>13. CASE PopRetry(t)
      BY <2>2, <3>13, PopRetryInv
    <3>14. CASE PopAvail(t)
      BY <2>2, <3>14, PopAvailInv
    <3>15. CASE Append(t)
      BY <2>2, <3>15, AppendInv
    <3>16. CASE SetTag(t)
      BY <2>2, <3>16, SetTagInv
    <3>17. CASE SetType(t)
      BY <2>2, <3>17, SetTypeInv
    <3>18. CASE KeepJumps(t) \/ WriteName(t) \/ WriteJumps(t)
      BY <2>2, <3>18, DataInv
    <3>19. CASE JumpsThrow(t)
      BY <3>19, JumpsThrowInv
    <3>. QED BY <2>4, <3>1, <3>2, <3>3, <3>4, <3>5, <3>6, <3>7, <3>8, <3>9, <3>10, <3>11, <3>12,
                <3>13, <3>14, <3>15, <3>16, <3>17, <3>18, <3>19 DEF Reserve
  <2>5. CASE Free(t)
    <3>1. ASSUME NEW k \in Keys, FreeEntry(t, k) PROVE TableInv'
      BY <2>2, <3>1, FreeEntryInv
    <3>2. CASE HeadIsFree(t) \/ ChainIsEmpty(t) \/ Match(t) \/ Last(t)
      BY <2>2, <3>2, SeekInv
    <3>3. CASE Follow(t)
      BY <2>2, <3>3, FollowInv
    <3>4. CASE FreeJumps(t)
      BY <2>2, <3>4, FreeJumpsInv
    <3>5. CASE FreeType(t)
      BY <2>2, <3>5, FreeTypeInv
    <3>6. CASE ReadNext(t)
      BY <2>2, <3>6, ReadNextInv
    <3>7. CASE SwapLast(t)
      BY <2>2, <3>7, SwapLastInv
    <3>8. CASE PushAvail(t)
      BY <2>2, <3>8, PushAvailInv
    <3>. QED BY <2>5, <3>1, <3>2, <3>3, <3>4, <3>5, <3>6, <3>7, <3>8 DEF Free
  <2>. QED BY <2>3, <2>4, <2>5
<1>. QED BY <1>1, <1>2

\* In a table that nothing has upset, the entries have owners and an order:
\* every chain, the pool and every tail in the hand of a call is whole, in
\* whatever order the steps of any number of calls happen.
THEOREM TableInvHolds == ASSUME Orderly PROVE Spec => []TableInv
<1>1. Init => TableInv
  BY InitShape
<1>2. TableInv /\ [Next]_vars => TableInv'
  BY NextInv
<1>. QED BY <1>1, <1>2, PTL DEF Spec

-----------------------------------------------------------------------------
(* The links, followed from an entry.                                      *)

After(x) == IF x = None \/ entry[x].next = 0 THEN None ELSE Tail(entry[x].next)

\* A set of natural numbers has a least member: the walks below are followed
\* to the first place at which something changes.
LEMMA LeastNumber ==
    ASSUME NEW S \in SUBSET Nat, S # {}
    PROVE  \E m \in S : \A n \in S : m <= n
<1>. DEFINE R == OpToRel(<, Nat)
<1>1. IsWellFoundedOn(R, Nat)
  BY NatLessThanWellFounded
<1>2. \A x, y \in Nat : y < x => <<y, x>> \in R
  BY DEF OpToRel
<1>. HIDE DEF R
<1>3. PICK m \in S : \A n \in S : ~(<<n, m>> \in R)
  BY <1>1, WFMin
<1>4. \A n \in S : ~(n < m)
  BY <1>2, <1>3
<1>5. m \in Nat /\ \A n \in S : n \in Nat
  OBVIOUS
<1>. QED BY <1>4, <1>5

LEMMA AfterTyped ==
    ASSUME Typed, NEW x \in Slots \cup {None}
    PROVE  After(x) \in Slots \cup {None}
<1>1. ASSUME x # None, entry[x].next # 0 PROVE Tail(entry[x].next) \in Slots
  <2>1. entry[x] \in Entries
    BY <1>1 DEF Typed
  <2>2. entry[x].next \in Indices \ {0}
    BY <2>1, <1>1 DEF Entries
  <2>. QED BY <2>2, SlotFacts DEF Slots
<1>. QED BY <1>1 DEF After

\* The recursive definition of Walk has a solution.
LEMMA WalkDef ==
    ASSUME Typed, NEW e \in Slots \cup {None}
    PROVE  /\ \A n \in 0 .. TailCapacity : Walk(e)[n] \in Slots \cup {None}
           /\ Walk(e)[0] = e
           /\ \A n \in 1 .. TailCapacity : Walk(e)[n] = After(Walk(e)[n - 1])
<1>. DEFINE D == 0 .. TailCapacity
            V == Slots \cup {None}
            Fits(f, m) == f[0] = e /\ \A n \in 1 .. m : f[n] = After(f[n - 1])
            Bad == {m \in D : ~ \E f \in [D -> V] : Fits(f, m)}
<1>1. D \subseteq Nat /\ 0 \in D /\ TailCapacity \in D /\ Bad \subseteq Nat
  BY TailCapacityAssumption
<1>2. Bad = {}
  <2>1. SUFFICES ASSUME Bad # {} PROVE FALSE
    OBVIOUS
  <2>2. PICK m \in Bad : \A n \in Bad : m <= n
    BY <1>1, <2>1, LeastNumber
  <2>3. m # 0
    <3>1. [n \in D |-> e] \in [D -> V] /\ Fits([n \in D |-> e], 0)
      BY <1>1
    <3>. QED BY <3>1
  <2>4. m \in D /\ m - 1 \in D /\ m - 1 \notin Bad
    <3>1. m \in D /\ \A n \in Bad : m <= n
      BY <2>2
    <3>. HIDE DEF Bad
    <3>2. m - 1 \in D /\ ~(m <= m - 1)
      BY <3>1, <2>3, TailCapacityAssumption
    <3>. HIDE DEF D
    <3>. QED BY <3>1, <3>2
  <2>5. PICK f \in [D -> V] : Fits(f, m - 1)
    BY <2>4
  <2>. DEFINE g == [f EXCEPT ![m] = After(f[m - 1])]
  <2>6. After(f[m - 1]) \in V
    BY <2>4, <2>5, AfterTyped
  <2>7. g \in [D -> V]
    BY <2>4, <2>6
  <2>8. /\ g[m] = After(f[m - 1])
        /\ \A n \in D : n # m => g[n] = f[n]
    BY <2>4
  <2>. HIDE DEF g
  <2>9. g[0] = e
    BY <1>1, <2>3, <2>5, <2>8
  <2>10. ASSUME NEW n \in 1 .. m PROVE g[n] = After(g[n - 1])
    <3>1. n \in D /\ n - 1 \in D /\ n - 1 # m
      BY <2>4, TailCapacityAssumption
    <3>2. g[n - 1] = f[n - 1]
      BY <3>1, <2>8
    <3>3. CASE n = m
      BY <3>2, <3>3, <2>8
    <3>4. CASE n # m
      <4>1. n \in 1 .. m - 1
        BY <3>4, <2>4
      <4>. QED BY <4>1, <3>1, <3>2, <3>4, <2>5, <2>8
    <3>. QED BY <3>3, <3>4
  <2>. QED BY <2>2, <2>7, <2>9, <2>10
<1>3. PICK f \in [D -> V] : Fits(f, TailCapacity)
  BY <1>1, <1>2
<1>. DEFINE Body(w, n) ==
              IF n = 0 THEN e
              ELSE IF w[n - 1] = None \/ entry[w[n - 1]].next = NULL_INDEX THEN None
              ELSE Tail(entry[w[n - 1]].next)
<1>4. \A n \in D : f[n] = Body(f, n)
  <2>1. ASSUME NEW n \in D, n # 0 PROVE n \in 1 .. TailCapacity
    BY <2>1, TailCapacityAssumption
  <2>. QED BY <1>3, <2>1 DEF After, NULL_INDEX
<1>. DEFINE Solves(w) == w = [n \in D |-> Body(w, n)]
<1>5. Solves(f)
  BY <1>3, <1>4
<1>6. Walk(e) = CHOOSE w : Solves(w)
  BY DEF Walk
<1>. HIDE DEF Solves
<1>7. Solves(Walk(e))
  BY <1>5, <1>6
<1>. USE DEF Solves
<1>8. \A n \in D : Walk(e)[n] = Body(Walk(e), n)
  BY <1>7
<1>9. Walk(e)[0] = e
  BY <1>1, <1>8
<1>10. ASSUME NEW n \in 1 .. TailCapacity PROVE Walk(e)[n] = After(Walk(e)[n - 1])
  <2>1. n \in D /\ n # 0
    BY TailCapacityAssumption
  <2>. QED BY <2>1, <1>8 DEF After, NULL_INDEX
<1>. DEFINE Strays == {n \in D : Walk(e)[n] \notin V}
<1>11. Strays = {}
  <2>1. SUFFICES ASSUME Strays # {} PROVE FALSE
    OBVIOUS
  <2>2. Strays \subseteq Nat
    BY <1>1
  <2>3. PICK m \in Strays : \A n \in Strays : m <= n
    BY <2>1, <2>2, LeastNumber
  <2>4. m # 0
    BY <1>9, <2>3
  <2>5. m \in 1 .. TailCapacity /\ m - 1 \in D /\ m - 1 \notin Strays
    BY <2>3, <2>4, TailCapacityAssumption
  <2>6. After(Walk(e)[m - 1]) \in V
    BY <2>5, AfterTyped
  <2>. QED BY <2>3, <2>5, <2>6, <1>10
<1>. QED BY <1>9, <1>10, <1>11

\* The link of x, if any, is to the entry that comes next.
Clean(own, pos, x) == entry[x].next # 0 => Succ(own, pos, x, Tail(entry[x].next))

\* A chain with its head, and the pool, has at most TailCapacity entries.
LEMMA ChainBounded ==
    ASSUME NEW own, NEW pos, NEW home, NEW now, Placed(own, pos, home, now), NEW e \in Slots
    PROVE  LET C == {y \in Slots : own[y] = own[e]} IN
           IsFiniteSet(C) /\ Cardinality(C) < Cardinality(0 .. TailCapacity)
<1>. DEFINE C == {y \in Slots : own[y] = own[e]}
            D == Tails \cup {own[e]}
<1>1. C \in SUBSET D
  BY DEF Placed, Slots
<1>2. IsFiniteSet(Tails) /\ Cardinality(Tails) = TailCapacity - 1
  BY TailsCount
<1>3. IsFiniteSet(D) /\ Cardinality(D) <= TailCapacity
  <2>1. IsFiniteSet(D) /\ Cardinality(D) = IF own[e] \in Tails THEN Cardinality(Tails)
                                            ELSE Cardinality(Tails) + 1
    BY <1>2, FS_AddElement
  <2>. QED BY <2>1, <1>2, TailCapacityAssumption
<1>. HIDE DEF C, D
<1>4. IsFiniteSet(C) /\ Cardinality(C) <= Cardinality(D)
  BY <1>1, <1>3, FS_Subset
<1>5. Cardinality(C) \in Nat /\ Cardinality(D) \in Nat
  BY <1>3, <1>4, FS_CardinalityType
<1>6. Cardinality(0 .. TailCapacity) = TailCapacity + 1
  <2>1. 0 \in Int /\ TailCapacity \in Int /\ ~(0 > TailCapacity) /\ TailCapacity - 0 + 1 = TailCapacity + 1
    BY TailCapacityAssumption
  <2>. QED BY <2>1, FS_Interval
<1>7. Cardinality(C) < Cardinality(0 .. TailCapacity)
  BY <1>3, <1>4, <1>5, <1>6, TailCapacityAssumption
<1>. QED BY <1>4, <1>7 DEF C

\* Along links to the next entry a walk stays with one owner and goes upwards.
LEMMA WalkStays ==
    ASSUME Typed, NEW own, NEW pos, NEW home, NEW now, Placed(own, pos, home, now),
           NEW e \in Slots, \A y \in Slots : own[y] = own[e] => Clean(own, pos, y),
           NEW n \in 0 .. TailCapacity, Walk(e)[n] # None
    PROVE  Walk(e)[n] \in Slots /\ own[Walk(e)[n]] = own[e] /\ pos[e] <= pos[Walk(e)[n]]
<1>. DEFINE w == Walk(e)
            D == 0 .. TailCapacity
            Good(m) == w[m] # None => w[m] \in Slots /\ own[w[m]] = own[e] /\ pos[e] <= pos[w[m]]
            Bad == {m \in D : ~Good(m)}
<1>1. /\ \A m \in D : w[m] \in Slots \cup {None}
      /\ w[0] = e
      /\ \A m \in 1 .. TailCapacity : w[m] = After(w[m - 1])
  BY WalkDef
<1>. HIDE DEF w
<1>2. \A y \in Slots : pos[y] \in Int
  BY DEF Placed
<1>3. Bad = {}
  <2>1. SUFFICES ASSUME Bad # {} PROVE FALSE
    OBVIOUS
  <2>2. Bad \subseteq Nat
    OBVIOUS
  <2>3. PICK m \in Bad : \A i \in Bad : m <= i
    BY <2>1, <2>2, LeastNumber
  <2>4. m # 0
    BY <1>1, <1>2, <2>3
  <2>5. m \in 1 .. TailCapacity /\ m - 1 \in D /\ m - 1 \notin Bad
    BY <2>3, <2>4, TailCapacityAssumption
  <2>6. w[m] # None /\ w[m] = After(w[m - 1])
    BY <1>1, <2>3, <2>5
  <2>7. /\ w[m - 1] # None /\ entry[w[m - 1]].next # 0
        /\ w[m] = Tail(entry[w[m - 1]].next)
    BY <2>6 DEF After
  <2>8. w[m - 1] \in Slots /\ own[w[m - 1]] = own[e] /\ pos[e] <= pos[w[m - 1]]
    BY <2>5, <2>7
  <2>9. Succ(own, pos, w[m - 1], w[m])
    BY <2>7, <2>8 DEF Clean
  <2>10. w[m] \in Slots
    BY <1>1, <2>3, <2>6
  <2>11. own[w[m]] = own[e] /\ pos[w[m - 1]] < pos[w[m]]
    BY <2>8, <2>9 DEF Succ
  <2>12. pos[e] <= pos[w[m]]
    BY <1>2, <2>8, <2>10, <2>11
  <2>. QED BY <2>3, <2>10, <2>11, <2>12
<1>. QED BY <1>3 DEF w

\* A walk from e reaches every later entry x of the owner of e, through
\* entries before x only, if the links before x are to the next entry.
LEMMA WalkReaches ==
    ASSUME Typed, NEW own, NEW pos, NEW home, NEW now, Placed(own, pos, home, now),
           NEW e \in Slots, NEW x \in Slots, own[x] = own[e], pos[e] <= pos[x],
           \A y \in Slots : own[y] = own[e] /\ pos[y] < pos[x] =>
             entry[y].next # 0 /\ Clean(own, pos, y)
    PROVE  \E n \in 0 .. TailCapacity :
             /\ Walk(e)[n] = x
             /\ \A m \in 0 .. n - 1 : /\ Walk(e)[m] \in Slots /\ own[Walk(e)[m]] = own[e]
                                      /\ pos[Walk(e)[m]] < pos[x]
<1>. DEFINE w == Walk(e)
            D == 0 .. TailCapacity
            C == {y \in Slots : own[y] = own[e]}
            Good(m) == /\ w[m] \in Slots /\ own[w[m]] = own[e] /\ pos[w[m]] < pos[x]
                       /\ \A i \in 0 .. m - 1 : w[i] \in Slots => pos[w[i]] < pos[w[m]]
            Bad == {m \in D : ~Good(m)}
<1>1. /\ \A m \in D : w[m] \in Slots \cup {None}
      /\ w[0] = e
      /\ \A m \in 1 .. TailCapacity : w[m] = After(w[m - 1])
  BY WalkDef
<1>2. IsFiniteSet(C) /\ Cardinality(C) < Cardinality(D)
  BY ChainBounded
<1>. HIDE DEF w
<1>3. \A y \in Slots : pos[y] \in Int
  BY DEF Placed
<1>4. Bad # {}
  <2>1. SUFFICES ASSUME \A m \in D : Good(m) PROVE FALSE
    OBVIOUS
  <2>. DEFINE f == [m \in D |-> w[m]]
  <2>2. f \in [D -> C]
    BY <2>1
  <2>3. IsFiniteSet(D)
    BY FS_Interval, TailCapacityAssumption
  <2>. HIDE DEF D, C, f
  <2>4. PICK i, j \in D : i # j /\ f[i] = f[j]
    BY <1>2, <2>2, <2>3, FS_PigeonHole
  <2>. USE DEF D
  <2>5. w[i] = w[j]
    BY <2>4 DEF f
  <2>. HIDE DEF Good
  <2>6. \A a, b \in D : a < b => pos[w[a]] < pos[w[b]] /\ w[a] \in Slots
    BY <2>1 DEF Good
  <2>7. i < j \/ j < i
    BY <2>4
  <2>8. w[i] \in Slots
    BY <2>1, <2>4 DEF Good
  <2>. QED BY <1>3, <2>4, <2>5, <2>6, <2>7, <2>8
<1>5. Bad \subseteq Nat
  OBVIOUS
<1>6. PICK n \in Bad : \A m \in Bad : n <= m
  BY <1>4, <1>5, LeastNumber
<1>7. n \in D /\ \A m \in 0 .. n - 1 : m \in D /\ m \notin Bad
  BY <1>6, TailCapacityAssumption
<1>8. \A m \in 0 .. n - 1 : Good(m)
  BY <1>7
<1>9. w[n] = x
  <2>1. CASE n = 0
    <3>1. w[n] = e /\ ~(pos[e] < pos[x])
      BY <1>1, <1>6, <2>1
    <3>. QED BY <3>1, <1>3 DEF Placed
  <2>2. CASE n # 0
    <3>1. n \in 1 .. TailCapacity /\ n - 1 \in 0 .. n - 1
      BY <1>7, <2>2, TailCapacityAssumption
    <3>2. Good(n - 1)
      BY <1>8, <3>1
    <3>3. entry[w[n - 1]].next # 0 /\ Succ(own, pos, w[n - 1], Tail(entry[w[n - 1]].next))
      BY <3>2 DEF Clean
    <3>4. w[n - 1] # None
      BY <3>2, SlotFacts
    <3>5. w[n] = Tail(entry[w[n - 1]].next)
      BY <1>1, <3>1, <3>3, <3>4 DEF After
    <3>6. w[n] \in Slots
      <4>1. w[n] # None
        BY <3>5 DEF Tail, None
      <4>. QED BY <4>1, <1>1, <1>7
    <3>7. own[w[n]] = own[e] /\ pos[w[n - 1]] < pos[w[n]] /\ pos[w[n]] <= pos[x]
      BY <3>2, <3>3, <3>5 DEF Succ
    <3>8. ASSUME NEW i \in 0 .. n - 1, w[i] \in Slots PROVE pos[w[i]] < pos[w[n]]
      <4>1. CASE i = n - 1
        BY <4>1, <3>7
      <4>2. CASE i # n - 1
        <5>1. i \in 0 .. (n - 1) - 1
          BY <4>2, <1>7
        <5>2. pos[w[i]] < pos[w[n - 1]]
          BY <5>1, <3>2, <3>8
        <5>. QED BY <5>2, <3>2, <3>6, <3>7, <3>8, <1>3
      <4>. QED BY <4>1, <4>2
    <3>9. ~(pos[w[n]] < pos[x])
      BY <1>6, <3>6, <3>7, <3>8
    <3>10. pos[w[n]] = pos[x]
      BY <1>3, <3>6, <3>7, <3>9
    <3>. QED BY <3>6, <3>7, <3>10 DEF Placed
  <2>. QED BY <2>1, <2>2
<1>10. \A m \in 0 .. n - 1 : w[m] \in Slots /\ own[w[m]] = own[e] /\ pos[w[m]] < pos[x]
  BY <1>8
<1>. QED BY <1>7, <1>9, <1>10 DEF w

-----------------------------------------------------------------------------
(* What the owners and the order say of the table.                         *)

\* A reserved key is where its entry is.
LEMMA ReservedHome ==
    ASSUME NEW own, NEW pos, NEW home, NEW now, Whole(own, pos, home, now),
           NEW k \in Keys, slot[k] # None
    PROVE  /\ home[k] = slot[k] /\ slot[k] \in Slots /\ own[slot[k]] = HeadOf(k)
           /\ HeadOf(k) \in Heads
<1>1. Typed /\ Homed(own, home)
  BY DEF Whole, Shape
<1>2. home[k] = slot[k]
  BY <1>1 DEF Homed
<1>3. slot[k] \in Slots
  BY <1>1 DEF Typed
<1>4. HeadOf(k) \in Heads
  BY SlotFacts, KeysAssumption
<1>. QED BY <1>1, <1>2, <1>3, <1>4 DEF Homed

\* What a call holds belongs to its chain or to itself, unless it just gave a
\* tail to the pool and has not linked it yet.
LEMMA HandOwner ==
    ASSUME NEW own, NEW pos, NEW home, NEW now, Whole(own, pos, home, now),
           NEW t \in Threads, NEW x \in Hand(t)
    PROVE  /\ call[t].pc # "idle" /\ x \in Slots /\ HeadFor(t) \in Heads
           /\ \/ own[x] = HeadFor(t) /\ x = call[t].at
                   /\ call[t].pc \in Filling \cup Unlinking \cup {"jumps"}
              \/ own[x] = InHand(t)
              \/ own[x] = Pooled /\ call[t].pc = "push" /\ x = call[t].at
<1>1. Typed /\ Knows(own, pos, home, t)
  BY DEF Whole, Shape
<1>2. \/ call[t].pc \in {"settag", "settype", "clear", "data", "jumps", "free",
                         "next", "unlink", "cut", "swap", "push"} /\ x = call[t].at
      \/ call[t].pc \in {"popped", "append"} /\ x = Tail(call[t].tail)
  BY DEF Hand
<1>3. call[t].pc # "idle"
  BY DEF Hand
<1>4. HeadFor(t) \in Heads
  BY <1>1, <1>3, SlotFacts, KeysAssumption DEF Knows, Walks, HeadFor
<1>5. call[t] \in Calls
  BY <1>1 DEF Typed
<1>6. call[t].tail \in Indices /\ call[t].at \in Slots \cup {None}
  BY <1>5 DEF Calls
<1>7. \A i \in Indices \ {0} : Tail(i) \in Slots
  BY SlotFacts DEF Slots
<1>8. CASE call[t].pc \in Filling
  BY <1>1, <1>2, <1>3, <1>4, <1>8 DEF Knows, Fills, Filling, Setting
<1>9. CASE call[t].pc \in Unlinking \cup {"jumps"}
  BY <1>1, <1>2, <1>3, <1>4, <1>9 DEF Knows, Seeks, Unlinking
<1>10. CASE call[t].pc \in {"cut", "swap", "push"}
  <2>1. call[t].tail # 0 /\ x = Tail(call[t].tail) /\ x = call[t].at
    BY <1>1, <1>2, <1>10 DEF Knows, Pushes
  <2>2. own[x] = InHand(t) \/ (own[x] = Pooled /\ call[t].pc = "push")
    BY <1>1, <1>10, <2>1 DEF Knows, Pushes
  <2>. QED BY <1>3, <1>4, <1>6, <1>7, <2>1, <2>2
<1>11. CASE call[t].pc \in {"popped", "append"}
  <2>1. call[t].tail # 0 /\ own[Tail(call[t].tail)] = InHand(t)
    BY <1>1, <1>11 DEF Knows, Pops
  <2>2. x = Tail(call[t].tail)
    BY <1>2, <1>11
  <2>. QED BY <1>3, <1>4, <1>6, <1>7, <2>1, <2>2
<1>. QED BY <1>2, <1>8, <1>9, <1>10, <1>11 DEF Filling, Setting, Unlinking

\* The pool is the walk from tail_first; it stays with the tails the pool
\* owns, and does not come to one that is about to be linked.
LEMMA PoolOwned ==
    ASSUME NEW own, NEW pos, NEW home, NEW now, Whole(own, pos, home, now)
    PROVE  /\ Pool \subseteq Queue(own)
           /\ \A t \in Threads : call[t].pc = "push" => call[t].at \notin Pool
<1>1. Typed /\ Placed(own, pos, home, now) /\ Queued(own, pos)
  BY DEF Whole, Shape
<1>. DEFINE e == Tail(tail_first)
            w == Walk(e)
<1>2. tail_first \in Indices \ {0} /\ e \in Slots
  BY <1>1, SlotFacts DEF Typed, Slots
<1>3. Pool = {w[n] : n \in 0 .. TailCapacity} \ {None}
  BY <1>2 DEF Pool, Reachable, NULL_INDEX
<1>4. own[e] = Pooled /\ \A y \in Slots : own[y] = Pooled => pos[e] <= pos[y]
  BY <1>1 DEF Queued
<1>5. \A y \in Slots : own[y] = own[e] => Clean(own, pos, y)
  BY <1>1, <1>4 DEF Queued, Clean
<1>6. ASSUME NEW n \in 0 .. TailCapacity, w[n] # None
      PROVE  w[n] \in Slots /\ own[w[n]] = Pooled /\ pos[e] <= pos[w[n]]
  BY <1>1, <1>2, <1>4, <1>5, <1>6, WalkStays
<1>7. /\ w[0] = e
      /\ \A n \in 1 .. TailCapacity : w[n] = After(w[n - 1])
  BY <1>1, <1>2, WalkDef
<1>. HIDE DEF w, e
<1>8. ASSUME NEW t \in Threads, call[t].pc = "push",
             NEW n \in 0 .. TailCapacity, w[n] # None, w[n] = call[t].at
      PROVE  FALSE
  <2>. DEFINE x == call[t].at
              v == Tail(call[t].want)
  <2>1. Succ(own, pos, v, x) /\ entry[v].next = 0 /\ own[x] = Pooled /\ call[t].want # 0
    BY <1>8 DEF Whole, Shape, Knows, Pushes
  <2>2. call[t].want \in Indices
    <3>1. call[t] \in Calls
      BY <1>1 DEF Typed
    <3>. QED BY <3>1 DEF Calls
  <2>3. v \in Slots /\ x \in Slots
    BY <1>6, <1>8, <2>1, <2>2, SlotFacts DEF Slots
  <2>4. own[v] = Pooled /\ pos[v] < pos[x]
    BY <2>1 DEF Succ
  <2>5. \A y \in Slots : pos[y] \in Int
    BY <1>1 DEF Placed
  <2>. HIDE DEF v, x
  <2>6. n # 0
    <3>1. pos[e] <= pos[v]
      BY <1>4, <2>3, <2>4
    <3>2. x # e
      BY <1>2, <2>3, <2>4, <2>5, <3>1
    <3>. QED BY <1>7, <1>8, <3>2 DEF x
  <2>7. n \in 1 .. TailCapacity /\ n - 1 \in 0 .. TailCapacity
    BY <2>6, TailCapacityAssumption
  <2>. DEFINE y == w[n - 1]
  <2>8. y # None /\ entry[y].next # 0 /\ x = Tail(entry[y].next)
    BY <1>7, <1>8, <2>7 DEF After, x
  <2>9. y \in Slots /\ own[y] = Pooled
    BY <1>6, <2>7, <2>8
  <2>. HIDE DEF y
  <2>10. Succ(own, pos, y, x)
    BY <1>4, <1>5, <2>8, <2>9 DEF Clean
  <2>11. pos[y] < pos[x]
    BY <2>10 DEF Succ
  <2>12. pos[y] = pos[v]
    <3>1. ~(pos[y] < pos[v])
      <4>1. pos[y] < pos[v] => pos[x] <= pos[v]
        BY <2>3, <2>4, <2>9, <2>10 DEF Succ
      <4>. QED BY <4>1, <2>3, <2>4, <2>5
    <3>2. ~(pos[v] < pos[y])
      <4>1. pos[v] < pos[y] => pos[x] <= pos[y]
        BY <2>1, <2>4, <2>9 DEF Succ, v, x
      <4>. QED BY <4>1, <2>3, <2>5, <2>9, <2>11
    <3>. QED BY <3>1, <3>2, <2>3, <2>5, <2>9
  <2>13. y = v
    BY <1>1, <2>3, <2>4, <2>9, <2>12 DEF Placed
  <2>. QED BY <2>1, <2>8, <2>13 DEF v
<1>9. Pool \subseteq Queue(own)
  BY <1>3, <1>6 DEF Queue
<1>10. ASSUME NEW t \in Threads, call[t].pc = "push", call[t].at \in Pool PROVE FALSE
  BY <1>3, <1>8, <1>10
<1>. QED BY <1>9, <1>10

LEMMA ApartShape ==
    ASSUME NEW own, NEW pos, NEW home, NEW now, Whole(own, pos, home, now)
    PROVE  EntriesApart
<1>1. /\ Typed /\ CallsApart /\ Homed(own, home) /\ JumpsOwned(home)
      /\ \A t \in Threads : Knows(own, pos, home, t)
  BY DEF Whole, Shape
<1>2. \A k \in ReservedKeys : /\ k \in Keys /\ slot[k] # None
                              /\ home[k] = slot[k] /\ slot[k] \in Slots
                              /\ own[slot[k]] = HeadOf(k) /\ HeadOf(k) \in Heads
  BY ReservedHome DEF ReservedKeys
<1>3. ASSUME "stale" \notin faults, NEW j \in Owners, NEW k \in Owners
      PROVE  /\ entry[slot[k]].jump_head \notin jumps
             /\ entry[slot[j]].jump_head = entry[slot[k]].jump_head => j = k
  <2>1. \A i \in Owners : i \in Keys /\ Holds(home, i) /\ home[i] = slot[i]
    BY <1>2 DEF Owners, Holds, NULL_INDEX, ReservedKeys
  <2>. QED BY <1>1, <1>3, <2>1 DEF JumpsOwned
<1>4. \A j, k \in ReservedKeys : slot[j] = slot[k] => j = k
  BY <1>1, <1>2 DEF Homed
<1>5. ASSUME NEW t \in Threads, NEW u \in Threads, t # u,
             NEW x \in Hand(t), x \in Hand(u)
      PROVE  FALSE
  <2>1. call[t].pc # "idle" /\ call[u].pc # "idle" /\ HeadFor(t) # HeadFor(u)
    BY <1>1, <1>5, HandOwner DEF CallsApart
  <2>2. /\ HeadFor(t) \in Heads
        /\ \/ own[x] = HeadFor(t) \/ own[x] = InHand(t)
           \/ own[x] = Pooled /\ call[t].pc = "push" /\ x = call[t].at
    BY HandOwner
  <2>3. /\ HeadFor(u) \in Heads
        /\ \/ own[x] = HeadFor(u) \/ own[x] = InHand(u)
           \/ own[x] = Pooled /\ call[u].pc = "push" /\ x = call[u].at
    BY <1>5, HandOwner
  <2>4. ~(call[t].pc = "push" /\ call[u].pc = "push" /\ call[t].at = call[u].at)
    BY <1>1, <1>5 DEF CallsApart
  <2>. QED BY <1>5, <2>1, <2>2, <2>3, <2>4, OwnerFacts
<1>6. ASSUME NEW t \in Threads, NEW k \in ReservedKeys, slot[k] \in Hand(t) PROVE FALSE
  <2>1. /\ own[slot[k]] = HeadFor(t) /\ slot[k] = call[t].at
        /\ call[t].pc \in Filling \cup Unlinking \cup {"jumps"}
    BY <1>2, <1>6, HandOwner, OwnerFacts
  <2>2. ~(call[t].pc \in Filling \cup Unlinking)
    BY <1>1, <1>2, <2>1 DEF Homed
  <2>3. call[t].key \in Keys /\ slot[call[t].key] = None /\ home[call[t].key] = call[t].at
    BY <1>1, <2>1, <2>2 DEF Knows, Walks, Seeks
  <2>. QED BY <1>1, <1>2, <2>1, <2>3 DEF Homed
<1>7. \A k \in ReservedKeys : slot[k] \notin Pool
  BY <1>2, PoolOwned, OwnerFacts DEF Queue
<1>8. ASSUME NEW t \in Threads, NEW x \in Hand(t), x \in Pool PROVE FALSE
  <2>1. own[x] = Pooled
    BY <1>8, PoolOwned DEF Queue
  <2>2. call[t].pc = "push" /\ x = call[t].at
    BY <2>1, HandOwner, OwnerFacts
  <2>. QED BY <1>8, <2>2, PoolOwned
<1>. QED BY <1>3, <1>4, <1>5, <1>6, <1>7, <1>8 DEF EntriesApart

LEMMA WholeShape ==
    ASSUME NEW own, NEW pos, NEW home, NEW now, Whole(own, pos, home, now)
    PROVE  PoolWhole
<1>. SUFFICES ASSUME Running = {}
              PROVE  /\ Cardinality(Pool) = tail_avail
                     /\ tail_last \in {e[2] : e \in Pool}
                     /\ entry[Tail(tail_last)].next = NULL_INDEX
                     /\ tail_avail + Cardinality({slot[k] : k \in ReservedKeys} \cap Tails)
                          = TailCapacity - 1
  BY DEF PoolWhole
<1>. DEFINE used == {slot[k] : k \in ReservedKeys} \cap Tails
            e == Tail(tail_first)
            l == Tail(tail_last)
<1>1. /\ Typed /\ Placed(own, pos, home, now) /\ Queued(own, pos)
      /\ Homed(own, home) /\ Accounted(own, home) /\ Counted(own)
  BY DEF Whole, Shape
<1>2. \A t \in Threads : call[t].pc = "idle"
  BY DEF Running, Idle
<1>3. tail_first \in Indices \ {0} /\ tail_last \in Indices \ {0} /\ tail_avail \in Nat
  BY <1>1 DEF Typed
<1>4. e \in Slots /\ l \in Slots /\ l[2] = tail_last
  BY <1>3, SlotFacts DEF Slots
<1>5. /\ own[e] = Pooled /\ own[l] = Pooled /\ Ends(own, pos, l)
      /\ \A x \in Slots : own[x] = Pooled => pos[e] <= pos[x]
  BY <1>1 DEF Queued
<1>6. \A x \in Slots : own[x] = Pooled =>
        /\ entry[x].next = 0 => Ends(own, pos, x)
        /\ Clean(own, pos, x)
  BY <1>1, <1>2 DEF Queued, Clean
<1>7. \A x \in Slots : pos[x] \in Int
  BY <1>1 DEF Placed
<1>8. Pool = Queue(own)
  <2>1. Pool = {Walk(e)[n] : n \in 0 .. TailCapacity} \ {None}
    BY <1>3 DEF Pool, Reachable, NULL_INDEX
  <2>2. ASSUME NEW x \in Queue(own) PROVE x \in Pool
    <3>1. x \in Slots /\ own[x] = own[e] /\ pos[e] <= pos[x]
      BY <1>5, <2>2 DEF Queue
    <3>2. ASSUME NEW y \in Slots, own[y] = own[e], pos[y] < pos[x]
          PROVE  entry[y].next # 0 /\ Clean(own, pos, y)
      <4>1. ~Ends(own, pos, y)
        BY <1>7, <3>1, <3>2 DEF Ends
      <4>. QED BY <4>1, <1>5, <1>6, <3>2
    <3>3. \E n \in 0 .. TailCapacity : Walk(e)[n] = x
      BY <1>1, <1>4, <3>1, <3>2, WalkReaches
    <3>. QED BY <2>1, <3>1, <3>3, SlotFacts
  <2>. QED BY <2>2, PoolOwned
<1>9. Cardinality(Pool) = tail_avail
  <2>1. Taken = {} /\ Given = {}
    BY <1>2 DEF Taken, Given
  <2>2. Cardinality(Taken) = 0 /\ Cardinality(Given) = 0
    BY <2>1, FS_EmptySet
  <2>3. tail_avail + 0 = Cardinality(Queue(own)) + 0
    BY <1>1, <2>2 DEF Counted
  <2>4. Queue(own) \in SUBSET Tails
    BY <1>1, OwnerFacts DEF Queue, Placed, Slots
  <2>5. Cardinality(Queue(own)) \in Nat
    BY <2>4, TailsCount, FS_Subset, FS_CardinalityType
  <2>. QED BY <1>3, <1>8, <2>3, <2>5
<1>10. tail_last \in {x[2] : x \in Pool}
  BY <1>4, <1>5, <1>8 DEF Queue
<1>11. entry[l].next = 0
  <2>1. SUFFICES ASSUME entry[l].next # 0 PROVE FALSE
    OBVIOUS
  <2>. DEFINE y == Tail(entry[l].next)
  <2>2. Succ(own, pos, l, y)
    BY <1>4, <1>5, <1>6, <2>1 DEF Clean
  <2>3. y \in Slots
    <3>1. entry[l] \in Entries
      BY <1>1, <1>4 DEF Typed
    <3>2. entry[l].next \in Indices \ {0}
      BY <2>1, <3>1 DEF Entries
    <3>. QED BY <3>2, SlotFacts DEF Slots
  <2>. HIDE DEF y
  <2>4. own[y] = own[l] /\ pos[l] < pos[y]
    BY <2>2 DEF Succ
  <2>5. pos[y] <= pos[l]
    BY <1>5, <2>3, <2>4 DEF Ends
  <2>. QED BY <1>4, <1>7, <2>3, <2>4, <2>5
<1>12. Tails = Queue(own) \cup used /\ Queue(own) \cap used = {}
  <2>1. ASSUME NEW x \in used PROVE x \in Tails /\ own[x] \in Heads
    BY ReservedHome DEF ReservedKeys
  <2>2. ASSUME NEW x \in Tails, x \notin Queue(own) PROVE x \in used
    <3>1. x \in Slots /\ x \notin Heads
      BY SlotFacts DEF Slots
    <3>2. own[x] \in Heads
      <4>1. own[x] # Pooled
        BY <2>2, <3>1 DEF Queue
      <4>2. \A t \in Threads : own[x] # InHand(t)
        BY <1>1, <1>2, <3>1 DEF Accounted
      <4>. QED BY <1>1, <3>1, <4>1, <4>2 DEF Placed
    <3>3. PICK k \in Keys : home[k] = x
      BY <1>1, <1>2, <3>1, <3>2 DEF Accounted, Filling, Setting, Unlinking
    <3>4. slot[k] = home[k]
      BY <1>1, <1>2 DEF Homed, Seeking
    <3>. QED BY <2>2, <3>1, <3>3, <3>4, SlotFacts DEF ReservedKeys
  <2>3. Queue(own) \subseteq Tails
    BY <1>1, OwnerFacts DEF Queue, Placed, Slots
  <2>4. \A x \in Queue(own) : own[x] \notin Heads
    BY OwnerFacts DEF Queue
  <2>. QED BY <2>1, <2>2, <2>3, <2>4
<1>13. tail_avail + Cardinality(used) = TailCapacity - 1
  <2>1. Queue(own) \in SUBSET Tails /\ used \in SUBSET Tails
    BY <1>12
  <2>. HIDE DEF used
  <2>2. /\ IsFiniteSet(Queue(own)) /\ IsFiniteSet(used)
        /\ Cardinality(Queue(own)) \in Nat /\ Cardinality(used) \in Nat
    BY <2>1, TailsCount, FS_Subset, FS_CardinalityType
  <2>3. Cardinality(Queue(own) \cup used)
          = Cardinality(Queue(own)) + Cardinality(used) - Cardinality(Queue(own) \cap used)
    BY <2>2, FS_Union
  <2>4. Cardinality(Queue(own) \cap used) = 0
    BY <1>12, FS_EmptySet
  <2>. QED BY <1>8, <1>9, <1>12, <2>2, <2>3, <2>4, TailsCount
<1>. QED BY <1>9, <1>10, <1>11, <1>13 DEF NULL_INDEX

\* The least number of a set that has one.
LEMMA MinIs ==
    ASSUME NEW S \in SUBSET Nat, NEW n \in S, \A m \in S : n <= m
    PROVE  Min(S) = n
<1>1. \A m \in S : m \in Nat
  OBVIOUS
<1>2. \A m \in S : (\A i \in S : m =< i) => m = n
  BY <1>1
<1>. QED BY <1>2 DEF Min

\* get_entry follows the links up to the entry of a reserved key, and meets no
\* other with its tag on the way.
LEMMA FindsShape ==
    ASSUME NEW own, NEW pos, NEW home, NEW now, Whole(own, pos, home, now),
           NEW k \in ReservedKeys
    PROVE  GetEntry(k) = slot[k] /\ entry[slot[k]].type \in {"object", "name"}
<1>. DEFINE x == slot[k]
            h == HeadOf(k)
            start == IF entry[h].type # "free" THEN h
                     ELSE IF entry[h].next = NULL_INDEX THEN None
                     ELSE Tail(entry[h].next)
            w == Walk(start)
            hits == {n \in 0 .. TailCapacity : w[n] # None /\ entry[w[n]].tag = TagOf(k)}
<1>1. /\ Typed /\ Placed(own, pos, home, now) /\ Chained(own, pos) /\ Tagged(own)
      /\ Homed(own, home) /\ \A t \in Threads : Knows(own, pos, home, t)
  BY DEF Whole, Shape
<1>2. k \in Keys /\ x # None /\ home[k] = x /\ x \in Slots /\ own[x] = h /\ h \in Heads
  BY ReservedHome DEF ReservedKeys
<1>3. entry[x].tag = TagOf(k) /\ entry[x].type \in {"object", "name"}
  BY <1>1, <1>2 DEF Homed, TypeFor
<1>4. h \in Slots /\ own[h] = h /\ pos[h] = 0 /\ \A y \in Slots : pos[y] \in Nat
  BY <1>1, <1>2 DEF Placed, Slots
<1>. HIDE DEF x, h
<1>5. ASSUME NEW y \in Slots, own[y] = h, pos[y] < pos[x]
      PROVE  entry[y].next # 0 /\ Succ(own, pos, y, Tail(entry[y].next))
  <2>1. ~Ends(own, pos, y)
    BY <1>2, <1>4, <1>5 DEF Ends
  <2>2. ~ \E t \in Threads : call[t].pc \in Setting /\ call[t].at = y
    BY <1>1, <2>1 DEF Knows, Fills, Filling
  <2>. QED BY <1>1, <1>2, <1>5, <2>1, <2>2 DEF Chained
<1>6. start \in Slots /\ own[start] = h /\ pos[start] <= pos[x]
  <2>1. CASE entry[h].type # "free"
    BY <1>2, <1>4, <2>1
  <2>2. CASE entry[h].type = "free"
    <3>1. x # h
      BY <1>3, <2>2
    <3>2. pos[h] < pos[x]
      BY <1>1, <1>2, <1>4, <3>1 DEF Placed
    <3>3. entry[h].next # 0 /\ Succ(own, pos, h, Tail(entry[h].next))
      BY <1>4, <1>5, <3>2
    <3>4. start = Tail(entry[h].next)
      BY <2>2, <3>3 DEF NULL_INDEX
    <3>5. start \in Slots
      <4>1. entry[h] \in Entries
        BY <1>1, <1>4 DEF Typed
      <4>2. entry[h].next \in Indices \ {0}
        BY <3>3, <4>1 DEF Entries
      <4>. QED BY <3>4, <4>2, SlotFacts DEF Slots
    <3>. QED BY <1>2, <1>4, <3>2, <3>3, <3>4, <3>5 DEF Succ
  <2>. QED BY <2>1, <2>2
<1>7. GetEntry(k) = IF hits = {} THEN None ELSE w[Min(hits)]
  BY DEF GetEntry, h
<1>. HIDE DEF start
<1>8. \E n \in 0 .. TailCapacity :
        /\ w[n] = x
        /\ \A m \in 0 .. n - 1 : w[m] \in Slots /\ own[w[m]] = own[start] /\ pos[w[m]] < pos[x]
  <2>1. \A y \in Slots : own[y] = own[start] /\ pos[y] < pos[x] =>
          entry[y].next # 0 /\ Clean(own, pos, y)
    BY <1>5, <1>6 DEF Clean
  <2>. QED BY <1>1, <1>2, <1>6, <2>1, WalkReaches
<1>9. PICK n \in 0 .. TailCapacity :
        /\ w[n] = x
        /\ \A m \in 0 .. n - 1 : w[m] \in Slots /\ own[w[m]] = h /\ pos[w[m]] < pos[x]
  BY <1>6, <1>8
<1>. HIDE DEF w
<1>10. n \in hits
  BY <1>2, <1>3, <1>9
<1>11. ASSUME NEW m \in 0 .. n - 1, m \in hits PROVE FALSE
  <2>. DEFINE y == w[m]
  <2>1. y \in Slots /\ own[y] = own[x] /\ own[x] \in Heads /\ pos[y] < pos[x]
        /\ entry[y].tag = entry[x].tag
    BY <1>2, <1>3, <1>9, <1>11
  <2>. HIDE DEF y
  <2>2. x # y
    BY <1>4, <1>2, <2>1
  <2>3. PICK t \in Threads : call[t].pc = "settag" /\ call[t].at \in {x, y}
    BY <1>1, <1>2, <2>1, <2>2 DEF Tagged
  <2>4. call[t].at # x
    BY <1>1, <1>2, <2>3 DEF Homed, Filling, Setting
  <2>5. Ends(own, pos, y)
    BY <1>1, <2>3, <2>4 DEF Knows, Fills, Filling, Setting
  <2>. QED BY <1>2, <1>4, <2>1, <2>5 DEF Ends
<1>12. \A m \in hits : n <= m
  BY <1>9, <1>11
<1>13. hits \in SUBSET Nat
  OBVIOUS
<1>. HIDE DEF hits
<1>14. Min(hits) = n
  BY <1>10, <1>12, <1>13, MinIs
<1>. QED BY <1>3, <1>7, <1>9, <1>10, <1>14 DEF x

\* The keys of one head can be told apart by their tags: a table entry keeps
\* no more than the tag of its key.
TagsApart == \A j, k \in Keys : HeadOf(j) = HeadOf(k) /\ TagOf(j) = TagOf(k) => j = k

LEMMA ElseShape ==
    ASSUME TagsApart, NEW own, NEW pos, NEW home, NEW now, Whole(own, pos, home, now),
           NEW k \in Keys \ ReservedKeys, \A t \in Running : HeadOf(call[t].key) # HeadOf(k)
    PROVE  GetEntry(k) = None
<1>. DEFINE h == HeadOf(k)
            start == IF entry[h].type # "free" THEN h
                     ELSE IF entry[h].next = NULL_INDEX THEN None
                     ELSE Tail(entry[h].next)
            w == Walk(start)
            hits == {n \in 0 .. TailCapacity : w[n] # None /\ entry[w[n]].tag = TagOf(k)}
<1>1. /\ Typed /\ Placed(own, pos, home, now) /\ Chained(own, pos)
      /\ Homed(own, home) /\ Accounted(own, home)
      /\ \A t \in Threads : Knows(own, pos, home, t)
  BY DEF Whole, Shape
<1>2. h \in Heads
  BY SlotFacts, KeysAssumption
<1>3. h \in Slots /\ own[h] = h /\ pos[h] = 0 /\ \A y \in Slots : pos[y] \in Nat
  BY <1>1, <1>2 DEF Placed, Slots
<1>4. \A t \in Threads : call[t].pc # "idle" => HeadFor(t) # h
  BY DEF Running, Idle, HeadFor
<1>5. GetEntry(k) = IF hits = {} THEN None ELSE w[Min(hits)]
  BY DEF GetEntry
<1>. HIDE DEF h
<1>6. ASSUME NEW t \in Threads, call[t].pc \in Filling \cup Unlinking \cup Seeking \cup {"jumps"},
             call[t].at \in Slots, own[call[t].at] = h
      PROVE  FALSE
  <2>1. own[call[t].at] = HeadFor(t)
    BY <1>1, <1>6 DEF Knows, Fills, Seeks
  <2>2. call[t].pc # "idle"
    BY <1>6 DEF Filling, Setting, Unlinking, Seeking
  <2>. QED BY <1>4, <1>6, <2>1, <2>2
<1>7. \A y \in Slots : own[y] = h => Clean(own, pos, y)
  <2>1. SUFFICES ASSUME NEW y \in Slots, own[y] = h, entry[y].next # 0,
                        NEW t \in Threads, call[t].pc \in Setting, call[t].at = y
                 PROVE  FALSE
    BY <1>1, <1>2 DEF Chained, Clean
  <2>. QED BY <1>6, <2>1 DEF Filling
<1>8. ASSUME start # None
      PROVE  start \in Slots /\ own[start] = h /\ (entry[h].type = "free" => 0 < pos[start])
  <2>1. CASE entry[h].type # "free"
    BY <1>3, <2>1
  <2>2. CASE entry[h].type = "free"
    <3>1. entry[h].next # 0 /\ start = Tail(entry[h].next)
      BY <1>8, <2>2 DEF NULL_INDEX
    <3>2. start \in Slots
      <4>1. entry[h] \in Entries
        BY <1>1, <1>3 DEF Typed
      <4>2. entry[h].next \in Indices \ {0}
        BY <3>1, <4>1 DEF Entries
      <4>. QED BY <3>1, <4>2, SlotFacts DEF Slots
    <3>3. Succ(own, pos, h, start)
      BY <1>3, <1>7, <3>1 DEF Clean
    <3>. QED BY <1>3, <3>2, <3>3 DEF Succ
  <2>. QED BY <2>1, <2>2
<1>9. start \in Slots \cup {None}
  BY <1>8
<1>. HIDE DEF start
<1>10. CASE start = None
  <2>1. /\ w[0] = None /\ \A n \in 1 .. TailCapacity : w[n] = After(w[n - 1])
    BY <1>1, <1>9, <1>10, WalkDef
  <2>. HIDE DEF w
  <2>2. \A n \in 0 .. TailCapacity : w[n] = None
    <3>1. ASSUME NEW n \in 1 .. TailCapacity, w[n] # None PROVE w[n - 1] # None
      BY <2>1, <3>1 DEF After
    <3>. DEFINE Some == {n \in 0 .. TailCapacity : w[n] # None}
    <3>2. Some \subseteq Nat
      OBVIOUS
    <3>3. SUFFICES ASSUME Some # {} PROVE FALSE
      OBVIOUS
    <3>4. PICK m \in Some : \A n \in Some : m <= n
      BY <3>2, <3>3, LeastNumber
    <3>5. m \in 1 .. TailCapacity /\ m - 1 \in 0 .. TailCapacity /\ ~(m <= m - 1)
      BY <2>1, <3>4, TailCapacityAssumption
    <3>. QED BY <3>1, <3>4, <3>5
  <2>. QED BY <1>5, <2>2
<1>11. CASE start # None
  <2>1. SUFFICES ASSUME NEW n \in 0 .. TailCapacity, w[n] # None,
                        entry[w[n]].tag = TagOf(k)
                 PROVE  FALSE
    BY <1>5
  <2>. DEFINE y == w[n]
  <2>2. \A z \in Slots : own[z] = own[start] => Clean(own, pos, z)
    BY <1>7, <1>8, <1>11
  <2>3. y \in Slots /\ own[y] = h /\ pos[start] <= pos[y]
    BY <1>1, <1>8, <1>11, <2>1, <2>2, WalkStays
  <2>. HIDE DEF w
  <2>4. ASSUME NEW j \in Keys, home[j] = y PROVE FALSE
    <3>1. home[j] # None
      BY <2>3, <2>4, SlotFacts
    <3>2. HeadOf(j) = h /\ TagOf(j) = TagOf(k)
      BY <1>1, <2>1, <2>3, <2>4, <3>1 DEF Homed
    <3>3. j = k
      BY <3>2 DEF TagsApart, h
    <3>4. slot[k] = None
      BY DEF ReservedKeys
    <3>5. PICK t \in Threads : call[t].pc \in Seeking \cup {"jumps"} /\ call[t].key = k
      BY <1>1, <3>1, <3>3, <3>4 DEF Homed
    <3>6. call[t].pc # "idle"
      BY <3>5 DEF Seeking
    <3>. QED BY <1>4, <3>5, <3>6 DEF HeadFor, h
  <2>5. ~ \E t \in Threads : call[t].pc \in Filling \cup Unlinking /\ call[t].at = y
    BY <1>6, <2>3
  <2>6. y \in Heads /\ entry[y].type = "free"
    BY <1>1, <1>2, <2>3, <2>4, <2>5 DEF Accounted
  <2>7. y = h
    BY <1>1, <2>3, <2>6 DEF Placed
  <2>8. 0 < pos[start]
    BY <1>8, <1>11, <2>6, <2>7
  <2>. QED BY <1>3, <1>8, <1>11, <2>3, <2>7, <2>8
<1>. QED BY <1>10, <1>11

-----------------------------------------------------------------------------
\* Whatever calls on other chains do meanwhile, no entry belongs to two keys,
\* to two calls, to a key and a call, or to one of them and the pool, and no
\* jump chain to two keys or to a key and the jump table.
THEOREM EntriesApartHolds == ASSUME Orderly PROVE Spec => []EntriesApart
<1>1. TableInv => EntriesApart
  <2>1. SUFFICES ASSUME TableInv, Calm PROVE EntriesApart
    BY DEF EntriesApart
  <2>2. PICK own, pos, home, now : Whole(own, pos, home, now)
    BY <2>1 DEF TableInv
  <2>. QED BY <2>2, ApartShape
<1>. QED BY <1>1, TableInvHolds, PTL

\* When the calls are over the pool is a list of tail_avail tails that ends
\* in tail_last, and the other tails are those of the reserved keys: no order
\* of the steps of the calls loses a tail.
THEOREM PoolWholeHolds == ASSUME Orderly PROVE Spec => []PoolWhole
<1>1. TableInv => PoolWhole
  <2>1. SUFFICES ASSUME TableInv, Calm PROVE PoolWhole
    BY DEF PoolWhole
  <2>2. PICK own, pos, home, now : Whole(own, pos, home, now)
    BY <2>1 DEF TableInv
  <2>. QED BY <2>2, WholeShape
<1>. QED BY <1>1, TableInvHolds, PTL

\* In every state get_entry finds the entry of every reserved key, whatever is
\* being appended, filled in, unlinked or moved to the pool.
THEOREM FindsReservedHolds == ASSUME Orderly PROVE Spec => []FindsReserved
<1>1. TableInv => FindsReserved
  <2>1. SUFFICES ASSUME TableInv, Calm PROVE FindsReserved
    BY DEF FindsReserved
  <2>2. PICK own, pos, home, now : Whole(own, pos, home, now)
    BY <2>1 DEF TableInv
  <2>. QED BY <2>2, FindsShape DEF FindsReserved
<1>. QED BY <1>1, TableInvHolds, PTL

\* get_entry finds no key that is not reserved once the calls on its chain are
\* over, if no other key of the chain has its tag.
THEOREM FindsNothingElseHolds ==
    ASSUME Orderly, TagsApart PROVE Spec => []FindsNothingElse
<1>1. TableInv => FindsNothingElse
  <2>1. SUFFICES ASSUME TableInv, Calm PROVE FindsNothingElse
    BY DEF FindsNothingElse
  <2>2. PICK own, pos, home, now : Whole(own, pos, home, now)
    BY <2>1 DEF TableInv
  <2>. QED BY <2>2, ElseShape DEF FindsNothingElse
<1>. QED BY <1>1, TableInvHolds, PTL

=============================================================================
