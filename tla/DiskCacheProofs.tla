--------------------------- MODULE DiskCacheProofs ---------------------------
(***************************************************************************)
(* What DiskCache.tla guarantees, for any sessions, resources and          *)
(* capacities.                                                             *)
(*                                                                         *)
(* Eviction (CacheInv, Evictable).  write_entry lists one key more and     *)
(* free_entry takes the oldest only, wherever the ring has wrapped         *)
(* (WriteLists, FreeUnlists); so the key of a session that is about to     *)
(* enter it stays listed, or is overtaken (EntersListed), and so does that *)
(* of an entry, until it is the victim of the eviction that forgets it     *)
(* (CanEvict).                                                             *)
(*                                                                         *)
(* Fragments (RegionInv).  The counter of a region says what may be        *)
(* promised, its bitmap what is reserved, and the two move in different    *)
(* steps.  The units that sessions were promised or hold are counted:      *)
(* with the counter they make the capacity (RegionOK), so that a session   *)
(* that was promised a fragment finds a free one (FindsFree), and the      *)
(* bitmap is always an initial segment of the region.  No two sessions     *)
(* hold one fragment (Apart), and the file holds what a session has        *)
(* written while it is alone in its region (BodyOK).                       *)
(*                                                                         *)
(* Jumps (ChainInv).  Until an eviction gives back jumps of another        *)
(* object, each object with jumps has a chain: entries of the jump table   *)
(* that are in use, linked from its head, holding its jumps, and disjoint  *)
(* from the chain of any other object.  A chain is walked by a function    *)
(* defined on the number of entries left; that the walk ends where the     *)
(* links do is shown by the least counterexample, as is every other fact   *)
(* here that an induction would show.                                      *)
(*                                                                         *)
(* From the two follow EntryFollowsReservation, by reading the chain back  *)
(* as the fragments that were reserved (Describes), and FetchFirst, by     *)
(* reading those fragments in the file.  Both have the numbers of the code *)
(* in between, which wrap and are rounded: a chain that is as long as its  *)
(* loop needs has a count that has not wrapped (CountFits), and a quotient *)
(* of two integers below Precision lies between the same integers as its   *)
(* float (QuotientIsExact).                                                *)
(***************************************************************************)
EXTENDS DiskCache, FiniteSetTheorems, SequenceTheorems, WellFoundedInduction, TLAPS

\* The remainders of numbers near the capacity.
LEMMA Wraps ==
  ASSUME NEW c \in Nat \ {0}, NEW i \in Int
  PROVE  /\ i \in 0..(c - 1) => (i % c) = i
         /\ i \in c..(2 * c - 1) => (i % c) = i - c
         /\ i \in (-c)..(-1) => (i % c) = i + c
OBVIOUS

\* The live places of a ring, oldest or not.
InRing(first, last, capacity) ==
    {i \in 0..(capacity - 1) : IF first <= last THEN first <= i /\ i < last ELSE first <= i \/ i < last}

LEMMA LiveIsInRing ==
  ASSUME NEW c \in Nat \ {0}, NEW first \in 0..(c - 1), NEW last \in 0..(c - 1)
  PROVE  ToSet(Live(first, last, c)) = InRing(first, last, c)
<1> DEFINE d == last - first
<1>1. LiveCount(first, last, c) = IF first <= last THEN last - first ELSE last - first + c
  <2>1. LiveCount(first, last, c) = d % c
    BY DEF LiveCount
  <2>2. d \in Int /\ (IF first <= last THEN d \in 0..(c - 1) ELSE d \in (-c)..(-1))
    OBVIOUS
  <2> HIDE DEF d
  <2>3. (d % c) = IF first <= last THEN d ELSE d + c
    BY <2>2, Wraps
  <2> QED
    BY <2>1, <2>3 DEF d
<1>2. ASSUME NEW n \in 1..LiveCount(first, last, c)
      PROVE  Live(first, last, c)[n] = IF first + n - 1 < c THEN first + n - 1 ELSE first + n - 1 - c
  <2> DEFINE i == first + n - 1
  <2>1. Live(first, last, c)[n] = i % c
    BY DEF Live
  <2>2. i \in 0..(c - 1) \/ i \in c..(2 * c - 1)
    BY <1>1
  <2>3. i \in Int
    BY <1>1
  <2> HIDE DEF i
  <2>4. i \in 0..(c - 1) => (i % c) = i
    BY <2>3, Wraps
  <2>5. i \in c..(2 * c - 1) => (i % c) = i - c
    BY <2>3, Wraps
  <2> QED
    BY <2>1, <2>2, <2>4, <2>5 DEF i
<1>3. DOMAIN Live(first, last, c) = 1..LiveCount(first, last, c)
  BY DEF Live
<1>4. ASSUME NEW n \in 1..LiveCount(first, last, c)
      PROVE  Live(first, last, c)[n] \in InRing(first, last, c)
  BY <1>1, <1>2 DEF InRing
<1>5. ASSUME NEW i \in InRing(first, last, c)
      PROVE  \E n \in 1..LiveCount(first, last, c) : Live(first, last, c)[n] = i
  <2>1. CASE first <= i
    <3>1. i - first + 1 \in 1..LiveCount(first, last, c)
      BY <1>1, <2>1 DEF InRing
    <3> QED
      BY <1>2, <2>1, <3>1 DEF InRing
  <2>2. CASE i < first
    <3>1. i - first + c + 1 \in 1..LiveCount(first, last, c)
      BY <1>1, <2>2 DEF InRing
    <3> QED
      BY <1>2, <2>2, <3>1 DEF InRing
  <2> QED
    BY <2>1, <2>2 DEF InRing
<1> QED
  BY <1>3, <1>4, <1>5 DEF ToSet

-----------------------------------------------------------------------------
(* The time tables.                                                        *)

Places(t) == 0..(Capacity[t] - 1)
TimeTables(t) == [first : Places(t), last : Places(t), slots : [Places(t) -> Keys \cup {NoKey}]]

TimesOK == DOMAIN times = Types /\ \A t \in Types : times[t] \in TimeTables(t)

LEMMA LiveOf ==
  ASSUME NEW t \in Types, NEW r \in TimeTables(t)
  PROVE  ToSet(Live(r.first, r.last, Capacity[t])) = InRing(r.first, r.last, Capacity[t])
<1>1. Capacity[t] \in Nat \ {0} /\ r.first \in Places(t) /\ r.last \in Places(t)
  BY CacheShape DEF TimeTables
<1> QED
  BY <1>1, LiveIsInRing DEF Places

\* Advancing an index.
LEMMA NextIs ==
  ASSUME NEW c \in Nat \ {0}, NEW i \in 0..(c - 1)
  PROVE  /\ NextSlot(i, c) = IF i = c - 1 THEN 0 ELSE i + 1
         /\ NextSlot(i, c) \in 0..(c - 1)
<1> DEFINE n == i + 1
<1>1. n \in Int /\ (i = c - 1 => n = c) /\ (i # c - 1 => n \in 0..(c - 1)) /\ c \in c..(2 * c - 1)
  OBVIOUS
<1> HIDE DEF n
<1>2. n \in 0..(c - 1) => (n % c) = n
  BY <1>1, Wraps
<1>3. n = c => (n % c) = 0
  BY <1>1, Wraps
<1>4. NextSlot(i, c) = n % c
  BY DEF NextSlot, n
<1> QED
  BY <1>1, <1>2, <1>3, <1>4 DEF n

\* write_entry lists one key more.
LEMMA WriteLists ==
  ASSUME TimesOK, NEW t \in Types, NEW k \in Keys, ~IsFull(times[t].first, times[t].last, Capacity[t]),
         times' = [times EXCEPT ![t].slots[times[t].last] = k, ![t].last = NextSlot(@, Capacity[t])]
  PROVE  /\ TimesOK'
         /\ \A u \in Types : Listed(u) \subseteq Listed(u)'
         /\ k \in Listed(t)'
<1> DEFINE first == times[t].first
           last == times[t].last
           slots == times[t].slots
           c == Capacity[t]
           next == NextSlot(last, c)
<1>1. c \in Nat \ {0} /\ first \in 0..(c - 1) /\ last \in 0..(c - 1) /\ slots \in [0..(c - 1) -> Keys \cup {NoKey}]
  BY CacheShape DEF TimesOK, TimeTables, Places
<1>2. next = (IF last = c - 1 THEN 0 ELSE last + 1) /\ next \in 0..(c - 1) /\ next # first
  BY <1>1, NextIs DEF IsFull
<1>3. times[t] = [first |-> first, last |-> last, slots |-> slots] /\ DOMAIN times = Types
  BY DEF TimesOK, TimeTables
<1>4. /\ times'[t].first = first /\ times'[t].last = next /\ times'[t].slots = [slots EXCEPT ![last] = k]
      /\ times'[t] = [first |-> first, last |-> next, slots |-> [slots EXCEPT ![last] = k]]
      /\ DOMAIN times' = Types /\ \A u \in Types \ {t} : times'[u] = times[u]
  BY <1>3
<1>5. TimesOK'
  <2>1. times'[t].slots \in [0..(c - 1) -> Keys \cup {NoKey}]
    BY <1>1, <1>4
  <2>2. times'[t] = [first |-> times'[t].first, last |-> times'[t].last, slots |-> times'[t].slots]
    BY <1>4
  <2>3. times'[t] \in TimeTables(t)
    BY <1>1, <1>2, <1>4, <2>1, <2>2 DEF TimeTables, Places
  <2> QED
    BY <1>4, <2>3 DEF TimesOK
<1> HIDE DEF first, last, slots, c, next
<1>6. InRing(first, next, c) = InRing(first, last, c) \cup {last} /\ last \notin InRing(first, last, c)
  BY <1>1, <1>2 DEF InRing
<1>7. Listed(t) = {slots[i] : i \in InRing(first, last, c)}
  <2>1. times[t] \in TimeTables(t)
    BY DEF TimesOK
  <2>2. ToSet(Live(times[t].first, times[t].last, Capacity[t])) = InRing(first, last, c)
    BY <2>1, LiveOf DEF first, last, c
  <2> QED
    BY <2>2 DEF Listed, slots
<1>8. Listed(t)' = {[slots EXCEPT ![last] = k][i] : i \in InRing(first, next, c)}
  <2>1. times'[t] \in TimeTables(t)
    BY <1>5 DEF TimesOK
  <2>2. ToSet(Live(times'[t].first, times'[t].last, Capacity[t])) = InRing(first, next, c)
    BY <1>4, <2>1, LiveOf DEF c
  <2>3. Listed(t)' = {times'[t].slots[i] : i \in ToSet(Live(times'[t].first, times'[t].last, Capacity[t]))}
    BY DEF Listed
  <2>4. Listed(t)' = {times'[t].slots[i] : i \in InRing(first, next, c)}
    BY ONLY <2>2, <2>3
  <2> QED
    BY ONLY <1>4, <2>4
<1>9. Listed(t) \subseteq Listed(t)' /\ k \in Listed(t)'
  BY <1>1, <1>6, <1>7, <1>8 DEF InRing
<1>10. ASSUME NEW u \in Types, u # t PROVE Listed(u)' = Listed(u)
  BY <1>4, <1>10 DEF Listed
<1> QED
  BY <1>5, <1>9, <1>10

\* free_entry takes the oldest key only.
LEMMA FreeUnlists ==
  ASSUME TimesOK, NEW t \in Types, ~FreeRefused(times[t].first, times[t].last, Capacity[t]),
         times' = [times EXCEPT ![t].first = NextSlot(@, Capacity[t])]
  PROVE  /\ TimesOK'
         /\ \A u \in Types : Listed(u) \subseteq Listed(u)' \cup {times[t].slots[times[t].first]}
<1> DEFINE first == times[t].first
           last == times[t].last
           slots == times[t].slots
           c == Capacity[t]
           next == NextSlot(first, c)
<1>1. c \in Nat \ {0} /\ first \in 0..(c - 1) /\ last \in 0..(c - 1) /\ slots \in [0..(c - 1) -> Keys \cup {NoKey}]
  BY CacheShape DEF TimesOK, TimeTables, Places
<1>2. next = (IF first = c - 1 THEN 0 ELSE first + 1) /\ next \in 0..(c - 1) /\ next <= last
  BY <1>1, NextIs DEF FreeRefused
<1>3. times[t] = [first |-> first, last |-> last, slots |-> slots] /\ DOMAIN times = Types
  BY DEF TimesOK, TimeTables
<1>4. /\ times'[t].first = next /\ times'[t].last = last /\ times'[t].slots = slots
      /\ times'[t] = [first |-> next, last |-> last, slots |-> slots]
      /\ DOMAIN times' = Types /\ \A u \in Types \ {t} : times'[u] = times[u]
  BY <1>3
<1>5. TimesOK'
  <2>1. times'[t].slots \in [0..(c - 1) -> Keys \cup {NoKey}]
    BY <1>1, <1>4
  <2>2. times'[t] = [first |-> times'[t].first, last |-> times'[t].last, slots |-> times'[t].slots]
    BY <1>4
  <2>3. times'[t] \in TimeTables(t)
    BY <1>1, <1>2, <1>4, <2>1, <2>2 DEF TimeTables, Places
  <2> QED
    BY <1>4, <2>3 DEF TimesOK
<1> HIDE DEF first, last, slots, c, next
<1>6. InRing(first, last, c) \subseteq InRing(next, last, c) \cup {first}
  BY <1>1, <1>2 DEF InRing
<1>7. Listed(t) = {slots[i] : i \in InRing(first, last, c)}
  <2>1. times[t] \in TimeTables(t)
    BY DEF TimesOK
  <2>2. ToSet(Live(times[t].first, times[t].last, Capacity[t])) = InRing(first, last, c)
    BY <2>1, LiveOf DEF first, last, c
  <2> QED
    BY <2>2 DEF Listed, slots
<1>8. Listed(t)' = {slots[i] : i \in InRing(next, last, c)}
  <2>1. times'[t] \in TimeTables(t)
    BY <1>5 DEF TimesOK
  <2>2. ToSet(Live(times'[t].first, times'[t].last, Capacity[t])) = InRing(next, last, c)
    BY <1>4, <2>1, LiveOf DEF c
  <2> QED
    BY <1>4, <2>2 DEF Listed
<1>9. Listed(t) \subseteq Listed(t)' \cup {slots[first]}
  BY <1>6, <1>7, <1>8
<1>10. ASSUME NEW u \in Types, u # t PROVE Listed(u)' = Listed(u)
  BY <1>4, <1>10 DEF Listed
<1> QED
  BY <1>5, <1>9, <1>10 DEF slots, first

-----------------------------------------------------------------------------
(* The sessions.                                                           *)

Deciding == {"debit", "acquire", "enter", "free", "evict"}
Stages == Deciding \cup {"new", "stored", "unheard", "started", "ended", "cancelled", "crashed"}

CacheTypes ==
    /\ resource \in Stores
    /\ pc \in [Sessions -> Stages]
    /\ type \in [Sessions -> Types \cup {FragmentDynamic}]
    /\ victim \in [Sessions -> Keys \cup {NoKey}]
    /\ \A s \in Sessions : pc[s] \in Deciding => type[s] \in Types
    /\ \A k \in DOMAIN table : table[k].type \in Types

\* A session that has written its time entry finds its key listed, or overtaken.
EntersListed == \A s \in Sessions : pc[s] = "enter" => resource[s].key \in Listed(type[s]) \cup overtaken

\* Evictable, of one key.
CanEvict(k) ==
    \/ k \in Listed(table[k].type)
    \/ \E s \in Sessions : pc[s] = "evict" /\ victim[s] = k
    \/ k \in overtaken

CacheInv == TimesOK /\ CacheTypes /\ EntersListed /\ \A k \in DOMAIN table : CanEvict(k)

LEMMA KeyOf == ASSUME CacheTypes, NEW s \in Sessions PROVE resource[s].key \in Keys
BY DEF CacheTypes, Keys

\* Init: nothing is listed and nothing is stored.
LEMMA CacheInit == Init => CacheInv
<1> SUFFICES ASSUME Init PROVE CacheInv
  OBVIOUS
<1>1. TimesOK
  <2>1. \A t \in Types : Capacity[t] \in Nat \ {0}
    BY CacheShape
  <2>2. ASSUME NEW t \in Types PROVE times[t] \in TimeTables(t)
    BY <2>1, <2>2 DEF Init, TimeTables, Places
  <2> QED
    BY <2>2 DEF Init, TimesOK
<1>2. CacheTypes
  BY DEF Init, CacheTypes, Deciding, Stages
<1>3. EntersListed /\ \A k \in DOMAIN table : CanEvict(k)
  BY DEF Init, EntersListed
<1> QED
  BY <1>1, <1>2, <1>3 DEF CacheInv

\* A step that leaves the time tables and the table alone, and takes no session into "enter" or out of "evict".
LEMMA Aside ==
  ASSUME CacheInv, UNCHANGED <<times, table, resource, victim, overtaken>>, CacheTypes',
         \A s \in Sessions : /\ pc'[s] = "enter" => pc[s] = "enter" /\ type'[s] = type[s]
                             /\ pc[s] = "evict" => pc'[s] = "evict"
  PROVE  CacheInv'
<1>1. TimesOK' /\ \A t \in Types : Listed(t)' = Listed(t)
  BY DEF CacheInv, TimesOK, Listed, TimeTables, Places
<1>2. EntersListed'
  BY <1>1 DEF CacheInv, EntersListed, CacheTypes, Deciding
<1>3. ASSUME NEW k \in DOMAIN table' PROVE CanEvict(k)'
  <2>1. k \in DOMAIN table /\ CanEvict(k) /\ table[k].type \in Types
    BY <1>3 DEF CacheInv, CacheTypes
  <2> QED
    BY <1>1, <2>1 DEF CanEvict
<1> QED
  BY <1>1, <1>2, <1>3 DEF CacheInv

\* A session that goes from one place to another that is neither "enter" nor "evict", and writes nothing
\* but what the invariant does not speak of.
LEMMA Moves ==
  ASSUME CacheInv, NEW s \in Sessions, NEW from, NEW to, Goto(s, from, to), from # "evict", to # "enter",
         to \in Stages, to \in Deciding => from \in Deciding,
         UNCHANGED <<times, table, resource, type, victim, overtaken>>
  PROVE  CacheInv'
<1>1. pc' = [pc EXCEPT ![s] = to] /\ pc[s] = from /\ pc \in [Sessions -> Stages]
  BY DEF Goto, CacheInv, CacheTypes
<1>2. CacheTypes'
  <2>1. pc' \in [Sessions -> Stages]
    BY <1>1
  <2> QED
    BY <1>1, <2>1 DEF CacheInv, CacheTypes
<1> QED
  BY <1>1, <1>2, Aside

\* A step that writes neither a place nor a table.
LEMMA Stays ==
  ASSUME CacheInv, UNCHANGED <<times, table, resource, pc, type, victim, overtaken>>
  PROVE  CacheInv'
<1>1. CacheTypes'
  BY DEF CacheInv, CacheTypes
<1> QED
  BY <1>1, Aside

LEMMA QueryRegionInv == ASSUME CacheInv, NEW s \in Sessions, QueryRegion(s) PROVE CacheInv'
<1>1. PICK t \in Chosen(s) : type' = [type EXCEPT ![s] = t]
  BY DEF QueryRegion
<1>2. resource[s].type \in Types \cup {FragmentDynamic}
  BY StoresAssumption DEF CacheInv, CacheTypes
<1>3. t \in Types
  BY <1>1, <1>2 DEF Chosen, GuessType
<1>4. /\ pc' = [pc EXCEPT ![s] = "debit"] /\ pc[s] = "stored" /\ pc \in [Sessions -> Stages]
      /\ UNCHANGED <<times, table, resource, victim, overtaken>>
  BY DEF QueryRegion, Goto, CacheInv, CacheTypes, regions, entries
<1>5. CacheTypes'
  <2>1. pc' \in [Sessions -> Stages]
    BY <1>4 DEF Stages, Deciding
  <2>2. type' \in [Sessions -> Types \cup {FragmentDynamic}]
    BY <1>1, <1>3 DEF CacheInv, CacheTypes
  <2>3. ASSUME NEW r \in Sessions, pc'[r] \in Deciding PROVE type'[r] \in Types
    BY <1>1, <1>3, <1>4, <2>3 DEF CacheInv, CacheTypes
  <2> QED
    BY <1>4, <2>1, <2>2, <2>3 DEF CacheInv, CacheTypes
<1>6. \A r \in Sessions : /\ pc'[r] = "enter" => pc[r] = "enter" /\ type'[r] = type[r]
                          /\ pc[r] = "evict" => pc'[r] = "evict"
  BY <1>1, <1>4 DEF CacheInv, CacheTypes
<1> QED
  BY <1>4, <1>5, <1>6, Aside

LEMMA WriteTimeInv == ASSUME CacheInv, NEW s \in Sessions, WriteTime(s) PROVE CacheInv'
<1> DEFINE t == type[s]
           k == resource[s].key
<1>1. /\ pc[s] = "acquire" /\ pc' = [pc EXCEPT ![s] = "enter"]
      /\ ~IsFull(times[t].first, times[t].last, Capacity[t])
      /\ times' = [times EXCEPT ![t].slots[times[t].last] = k, ![t].last = NextSlot(@, Capacity[t])]
      /\ UNCHANGED <<table, resource, type, victim, overtaken>>
  BY DEF WriteTime, Goto, entries
<1>2. t \in Types /\ k \in Keys
  BY <1>1, KeyOf DEF CacheInv, CacheTypes, Deciding
<1>3. TimesOK' /\ (\A u \in Types : Listed(u) \subseteq Listed(u)') /\ \A u \in Types : u = t => k \in Listed(u)'
  <2> HIDE DEF t, k
  <2> QED
    BY <1>1, <1>2, WriteLists DEF CacheInv
<1>4. CacheTypes'
  <2>1. pc' \in [Sessions -> Stages]
    BY <1>1 DEF CacheInv, CacheTypes, Stages, Deciding
  <2> QED
    BY <1>1, <1>2, <2>1 DEF CacheInv, CacheTypes
<1>5. EntersListed'
  <2> SUFFICES ASSUME NEW r \in Sessions, pc'[r] = "enter"
               PROVE  resource'[r].key \in Listed(type[r])' \cup overtaken'
    BY <1>1 DEF EntersListed
  <2>1. CASE r = s
    BY <1>1, <1>2, <1>3, <2>1
  <2>2. CASE r # s
    <3>1. pc[r] = "enter" /\ type[r] \in Types
      BY <1>1, <2>2 DEF CacheInv, CacheTypes, Deciding
    <3> QED
      BY <1>1, <1>3, <3>1 DEF CacheInv, EntersListed
  <2> QED
    BY <2>1, <2>2
<1>6. ASSUME NEW l \in DOMAIN table' PROVE CanEvict(l)'
  <2>1. l \in DOMAIN table /\ CanEvict(l) /\ table[l].type \in Types
    BY <1>1, <1>6 DEF CacheInv, CacheTypes
  <2>2. \A r \in Sessions : pc[r] = "evict" => pc'[r] = "evict"
    BY <1>1 DEF CacheInv, CacheTypes
  <2> QED
    BY <1>1, <1>3, <2>1, <2>2 DEF CanEvict
<1> QED
  BY <1>3, <1>4, <1>5, <1>6 DEF CacheInv

\* The entry is new, and its key listed or overtaken.
LEMMA EntersInv ==
  ASSUME CacheInv, NEW s \in Sessions, NEW to \in {"started", "free"}, Goto(s, "enter", to), Entered(s),
         UNCHANGED <<times, resource, type, victim, overtaken>>
  PROVE  CacheInv'
<1> DEFINE t == type[s]
           k == resource[s].key
<1>1. pc[s] = "enter" /\ pc' = [pc EXCEPT ![s] = to] /\ pc \in [Sessions -> Stages] /\ to \in Stages
  BY DEF Goto, CacheInv, CacheTypes, Stages, Deciding
<1>2. t \in Types /\ k \in Listed(t) \cup overtaken
  BY <1>1 DEF CacheInv, CacheTypes, Deciding, EntersListed
<1>3. /\ DOMAIN table' = DOMAIN table \cup {k} /\ table'[k].type = t
      /\ \A l \in DOMAIN table : l # k => table'[l] = table[l]
  BY DEF Entered
<1>4. TimesOK' /\ \A u \in Types : Listed(u)' = Listed(u)
  BY DEF CacheInv, TimesOK, Listed, TimeTables, Places
<1> HIDE DEF t, k
<1>5. CacheTypes'
  <2>1. pc' \in [Sessions -> Stages]
    BY <1>1
  <2>2. \A l \in DOMAIN table' : table'[l].type \in Types
    BY <1>2, <1>3 DEF CacheInv, CacheTypes
  <2>3. \A r \in Sessions : pc'[r] \in Deciding => type'[r] \in Types
    BY <1>1 DEF CacheInv, CacheTypes, Deciding, Stages
  <2> QED
    BY <2>1, <2>2, <2>3 DEF CacheInv, CacheTypes
<1>6. EntersListed'
  <2> SUFFICES ASSUME NEW r \in Sessions, pc'[r] = "enter"
               PROVE  resource[r].key \in Listed(type[r])' \cup overtaken
    BY DEF EntersListed
  <2>1. pc[r] = "enter" /\ type[r] \in Types
    BY <1>1 DEF CacheInv, CacheTypes, Deciding, Stages
  <2> QED
    BY <1>4, <2>1 DEF CacheInv, EntersListed
<1>7. ASSUME NEW l \in DOMAIN table' PROVE CanEvict(l)'
  <2>1. CASE l = k
    BY <1>2, <1>3, <1>4, <2>1 DEF CanEvict
  <2>2. CASE l # k
    <3>1. l \in DOMAIN table /\ CanEvict(l) /\ table[l].type \in Types /\ table'[l] = table[l]
      BY <1>3, <1>7, <2>2 DEF CacheInv, CacheTypes
    <3>2. \A r \in Sessions : pc[r] = "evict" => pc'[r] = "evict"
      BY <1>1
    <3> QED
      BY <1>4, <3>1, <3>2 DEF CanEvict
  <2> QED
    BY <2>1, <2>2
<1> QED
  BY <1>4, <1>5, <1>6, <1>7 DEF CacheInv

\* The key taken from the time table is the victim, and overtaken if it is about to be entered.
LEMMA FreeOldestInv == ASSUME CacheInv, NEW s \in Sessions, FreeOldest(s) PROVE CacheInv'
<1> DEFINE t == type[s]
           k == times[t].slots[times[t].first]
<1>1. /\ pc[s] = "free" /\ pc' = [pc EXCEPT ![s] = "evict"]
      /\ ~FreeRefused(times[t].first, times[t].last, Capacity[t])
      /\ times' = [times EXCEPT ![t].first = NextSlot(@, Capacity[t])]
      /\ victim' = [victim EXCEPT ![s] = k]
      /\ overtaken' = overtaken \cup {l \in {k} : \E r \in Sessions : resource[r].key = l /\ pc[r] = "enter"}
      /\ UNCHANGED <<table, resource, type>>
  BY DEF FreeOldest, Goto, entries
<1>2. t \in Types
  BY <1>1 DEF CacheInv, CacheTypes, Deciding
<1>3. TimesOK' /\ \A u \in Types : Listed(u) \subseteq Listed(u)' \cup {k}
  <2> HIDE DEF t
  <2> QED
    BY <1>1, <1>2, FreeUnlists DEF CacheInv
<1>4. k \in Keys \cup {NoKey}
  <2>1. Capacity[t] \in Nat \ {0} /\ times[t] \in TimeTables(t)
    BY <1>2, CacheShape DEF CacheInv, TimesOK
  <2> HIDE DEF t
  <2> QED
    BY <2>1 DEF TimeTables, Places
<1> HIDE DEF k
<1>5. CacheTypes'
  <2>1. pc' \in [Sessions -> Stages] /\ victim' \in [Sessions -> Keys \cup {NoKey}]
    BY <1>1, <1>4 DEF CacheInv, CacheTypes, Stages, Deciding
  <2>2. \A r \in Sessions : pc'[r] \in Deciding => type'[r] \in Types
    BY <1>1, <1>2 DEF CacheInv, CacheTypes
  <2> QED
    BY <1>1, <2>1, <2>2 DEF CacheInv, CacheTypes
<1>6. EntersListed'
  <2> SUFFICES ASSUME NEW r \in Sessions, pc'[r] = "enter"
               PROVE  resource[r].key \in Listed(type[r])' \cup overtaken'
    BY <1>1 DEF EntersListed
  <2>1. pc[r] = "enter" /\ type[r] \in Types
    BY <1>1 DEF CacheInv, CacheTypes, Deciding, Stages
  <2>2. resource[r].key = k => k \in overtaken'
    BY <1>1, <2>1
  <2> QED
    BY <1>1, <1>3, <2>1, <2>2 DEF CacheInv, EntersListed
<1>7. ASSUME NEW l \in DOMAIN table' PROVE CanEvict(l)'
  <2>1. l \in DOMAIN table /\ CanEvict(l) /\ table[l].type \in Types /\ table'[l] = table[l]
    BY <1>1, <1>7 DEF CacheInv, CacheTypes
  <2>2. pc'[s] = "evict" /\ victim'[s] = k
    BY <1>1 DEF CacheInv, CacheTypes
  <2>3. ASSUME NEW r \in Sessions, pc[r] = "evict" PROVE pc'[r] = "evict" /\ victim'[r] = victim[r]
    BY <1>1, <2>3 DEF CacheInv, CacheTypes
  <2> QED
    BY <1>1, <1>3, <2>1, <2>2, <2>3 DEF CanEvict
<1> QED
  BY <1>3, <1>5, <1>6, <1>7 DEF CacheInv

LEMMA EvictInv == ASSUME CacheInv, NEW s \in Sessions, Evict(s) PROVE CacheInv'
<1>1. /\ pc[s] = "evict" /\ pc' = [pc EXCEPT ![s] = "cancelled"]
      /\ table' = [k \in DOMAIN table \ {victim[s]} |-> table[k]]
      /\ UNCHANGED <<times, resource, type, victim, overtaken>>
  BY DEF Evict, Goto, Freed, regions
<1>2. TimesOK' /\ \A u \in Types : Listed(u)' = Listed(u)
  BY <1>1 DEF CacheInv, TimesOK, Listed, TimeTables, Places
<1>3. CacheTypes'
  <2>1. pc' \in [Sessions -> Stages]
    BY <1>1 DEF CacheInv, CacheTypes, Stages, Deciding
  <2>2. \A r \in Sessions : pc'[r] \in Deciding => type'[r] \in Types
    BY <1>1 DEF CacheInv, CacheTypes, Deciding, Stages
  <2> QED
    BY <1>1, <2>1, <2>2 DEF CacheInv, CacheTypes
<1>4. EntersListed'
  <2> SUFFICES ASSUME NEW r \in Sessions, pc'[r] = "enter"
               PROVE  resource[r].key \in Listed(type[r])' \cup overtaken
    BY <1>1 DEF EntersListed
  <2>1. pc[r] = "enter" /\ type[r] \in Types
    BY <1>1 DEF CacheInv, CacheTypes, Deciding, Stages
  <2> QED
    BY <1>1, <1>2, <2>1 DEF CacheInv, EntersListed
<1>5. ASSUME NEW l \in DOMAIN table' PROVE CanEvict(l)'
  <2>1. l \in DOMAIN table /\ l # victim[s] /\ table'[l] = table[l]
    BY <1>1, <1>5
  <2>2. CanEvict(l) /\ table[l].type \in Types
    BY <2>1 DEF CacheInv, CacheTypes
  <2>3. ASSUME NEW r \in Sessions, pc[r] = "evict", victim[r] = l PROVE pc'[r] = "evict" /\ victim'[r] = l
    BY <1>1, <2>1, <2>3 DEF CacheInv, CacheTypes
  <2> QED
    BY <1>1, <1>2, <2>1, <2>2, <2>3 DEF CanEvict
<1> QED
  BY <1>2, <1>3, <1>4, <1>5 DEF CacheInv

-----------------------------------------------------------------------------

\* What the time tables list, what the table holds, and where the sessions stand, fit together.
THEOREM CacheInvHolds == Spec => []CacheInv
<1>1. CacheInv /\ [Next]_vars => CacheInv'
  <2> SUFFICES ASSUME CacheInv, [Next]_vars PROVE CacheInv'
    OBVIOUS
  <2>1. CASE UNCHANGED vars
    BY <2>1, Stays DEF vars, regions, entries
  <2> SUFFICES ASSUME NEW s \in Sessions, Register(s) \/ InitUnheard(s) \/ InitStep(s) \/ Data(s) \/ End(s)
               PROVE  CacheInv'
    BY <2>1 DEF Next
  <2> USE DEF regions, entries, jumpVars
  <2>2. CASE Register(s)
    BY <2>2, Moves DEF Register, Deciding, Stages
  <2>3. CASE InitUnheard(s)
    BY <2>3, Moves DEF InitUnheard, Deciding, Stages
  <2>4. CASE QueryRegion(s)
    BY <2>4, QueryRegionInv
  <2>5. CASE NoSuitableType(s)
    BY <2>5, Moves DEF NoSuitableType, Deciding, Stages
  <2>6. CASE Debit(s)
    BY <2>6, Moves DEF Debit, Deciding, Stages
  <2>7. CASE NotAvailable(s)
    BY <2>7, Moves DEF NotAvailable, Deciding, Stages
  <2>8. CASE Acquire(s)
    BY <2>8, Stays DEF Acquire
  <2>9. CASE WriteTime(s)
    BY <2>9, WriteTimeInv
  <2>10. CASE TimesFull(s)
    BY <2>10, Moves DEF TimesFull, Deciding, Stages
  <2>11. CASE Enter(s)
    BY <2>11, EntersInv DEF Enter
  <2>12. CASE EnterHalf(s)
    BY <2>12, EntersInv DEF EnterHalf
  <2>13. CASE EnterRefused(s)
    BY <2>13, Moves DEF EnterRefused, Deciding, Stages
  <2>14. CASE FreeNone(s)
    BY <2>14, Moves DEF FreeNone, Deciding, Stages
  <2>15. CASE NothingOldest(s)
    BY <2>15, Moves DEF NothingOldest, Deciding, Stages
  <2>16. CASE FreeOldest(s)
    BY <2>16, FreeOldestInv
  <2>17. CASE Evict(s)
    BY <2>17, EvictInv
  <2>18. CASE Data(s)
    BY <2>18, Stays DEF Data
  <2>19. CASE End(s)
    BY <2>19, Moves DEF End, Deciding, Stages
  <2>20. CASE EnterCrashes(s)
    BY <2>20, Moves DEF EnterCrashes, Deciding, Stages
  <2> QED
    BY <2>2, <2>3, <2>4, <2>5, <2>6, <2>7, <2>8, <2>9, <2>10, <2>11, <2>12, <2>13, <2>14, <2>15, <2>16, <2>17,
       <2>18, <2>19, <2>20 DEF InitStep, Decide
<1> QED
  BY <1>1, CacheInit, PTL DEF Spec

\* DiskCache.h:112-149, 212-215: for all sets of sessions and resources, any capacities and any order of the
\* sessions, an object in the table can be evicted: its key is listed, is the victim of an eviction that runs, or was
\* taken from the time table between its reservation and its entry.
THEOREM EvictableHolds == Spec => []Evictable
<1>1. CacheInv => Evictable
  <2> SUFFICES ASSUME CacheInv, NEW k \in DOMAIN table
               PROVE  k \in Listed(table[k].type)
                              \cup {victim[s] : s \in {s \in Sessions : pc[s] = "evict"}} \cup overtaken
    BY DEF Evictable
  <2>1. CanEvict(k)
    BY DEF CacheInv
  <2> QED
    BY <2>1 DEF CanEvict
<1> QED
  BY <1>1, CacheInvHolds, PTL

-----------------------------------------------------------------------------
(* Recursion.                                                              *)

\* A set of natural numbers has a least member: the inductions below are about the least
\* counterexample.
LEMMA LeastNumber ==
  ASSUME NEW T \in SUBSET Nat, T # {}
  PROVE  \E m \in T : \A n \in T : m <= n
<1> DEFINE R == OpToRel(<, Nat)
<1>1. IsWellFoundedOn(R, Nat)
  BY NatLessThanWellFounded
<1>2. \A x, y \in Nat : y < x => <<y, x>> \in R
  BY DEF OpToRel
<1> HIDE DEF R
<1>3. PICK m \in T : \A n \in T : ~(<<n, m>> \in R)
  BY <1>1, WFMin
<1>4. \A n \in T : ~(n < m)
  BY <1>2, <1>3
<1>5. m \in Nat /\ \A n \in T : n \in Nat
  OBVIOUS
<1>6. \A n \in T : m <= n
  BY <1>4, <1>5
<1> QED
  BY <1>6

\* A set of numbers from 0 to N that has 0, and every successor of its members, is all of them.
LEMMA AllUpTo ==
  ASSUME NEW N \in Nat, NEW Good, 0 \in Good, \A n \in 1..N : n - 1 \in Good => n \in Good
  PROVE  \A n \in 0..N : n \in Good
<1> DEFINE Bad == {n \in 0..N : n \notin Good}
<1>1. SUFFICES ASSUME Bad # {} PROVE FALSE
  OBVIOUS
<1>2. PICK m \in Bad : \A n \in Bad : m <= n
  <2>1. Bad \in SUBSET Nat
    OBVIOUS
  <2> HIDE DEF Bad
  <2> QED
    BY <1>1, <2>1, LeastNumber
<1>3. m \in 1..N /\ m - 1 \in 0..N /\ ~(m <= m - 1)
  OBVIOUS
<1> QED
  BY <1>2, <1>3

\* The states that a recursive definition over 0..N passes through: Run holds of them as far as m.
Steps(N, S) == [(1..N) \X S -> S]
Run(w, m, N, S, start, step) ==
    w \in [0..N -> S] /\ w[0] = start /\ \A n \in 1..m : w[n] = step[<<n, w[n - 1]>>]

\* What a recursive definition needs: a solution exists.
LEMMA Recursion ==
  ASSUME NEW N \in Nat, NEW S, NEW start \in S, NEW step \in Steps(N, S)
  PROVE  \E w : Run(w, N, N, S, start, step)
<1> DEFINE Good == {m \in 0..N : \E w : Run(w, m, N, S, start, step)}
<1>1. 0 \in Good
  <2>1. PICK w \in [0..N -> S] : w = [n \in 0..N |-> start]
    OBVIOUS
  <2>2. 0 \in 0..N /\ Run(w, 0, N, S, start, step)
    BY <2>1 DEF Run
  <2> QED
    BY <2>2
<1>2. ASSUME NEW m \in 1..N, m - 1 \in Good PROVE m \in Good
  <2>1. PICK w : Run(w, m - 1, N, S, start, step)
    BY <1>2
  <2> DEFINE u == [n \in 0..N |-> IF n = m THEN step[<<m, w[m - 1]>>] ELSE w[n]]
  <2>2. w \in [0..N -> S] /\ w[0] = start /\ \A n \in 1..(m - 1) : w[n] = step[<<n, w[n - 1]>>]
    BY <2>1 DEF Run
  <2>3. m - 1 \in 0..N /\ w[m - 1] \in S /\ <<m, w[m - 1]>> \in (1..N) \X S
    BY <2>2
  <2>4. step[<<m, w[m - 1]>>] \in S
    BY <2>3 DEF Steps
  <2>5. /\ u \in [0..N -> S] /\ u[m] = step[<<m, w[m - 1]>>]
        /\ \A n \in 0..N : n # m => u[n] = w[n]
    BY <2>2, <2>4
  <2> HIDE DEF u
  <2>6. u[0] = start
    BY <2>2, <2>5
  <2>7. ASSUME NEW n \in 1..m PROVE u[n] = step[<<n, u[n - 1]>>]
    <3>1. n - 1 \in 0..N /\ n - 1 # m /\ n \in 0..N
      OBVIOUS
    <3>2. u[n - 1] = w[n - 1]
      BY <2>5, <3>1
    <3>3. CASE n = m
      BY <2>5, <3>2, <3>3
    <3>4. CASE n # m
      <4>1. n \in 1..(m - 1)
        BY <3>4
      <4> QED
        BY <2>2, <2>5, <3>1, <3>2, <3>4, <4>1
    <3> QED
      BY <3>3, <3>4
  <2>8. Run(u, m, N, S, start, step) /\ m \in 0..N
    BY <2>5, <2>6, <2>7 DEF Run
  <2> QED
    BY <2>8
<1> HIDE DEF Good
<1>3. N \in Good
  BY <1>1, <1>2, AllUpTo
<1> QED
  BY <1>3 DEF Good

-----------------------------------------------------------------------------
(* The entries of the jump table.                                          *)

Entries == 1..(JumpCapacity - 1)
Links == 0..(JumpCapacity - 1)

\* An entry that the scan of reserve_entries finds is free, and none is found twice.
LEMMA FoundFacts ==
  ASSUME NEW count \in Nat
  PROVE  LET chain == Found(count) IN
         /\ chain \in Seq(Entries) /\ Len(chain) <= count /\ Len(chain) <= JumpCapacity - 1
         /\ \A n \in 1..Len(chain) : chain[n] \notin taken
         /\ \A m, n \in 1..Len(chain) : m # n => chain[m] # chain[n]
<1> DEFINE N == JumpCapacity - 1
           Skips(e, before) == e < last_free \/ e \in taken \/ Len(before) = count
           Step(e, before) == IF Skips(e, before) THEN before ELSE Append(before, e)
           step == [p \in (1..N) \X Seq(Entries) |-> Step(p[1], p[2])]
           Body(w, e) == IF e = 0 THEN <<>> ELSE Step(e, w[e - 1])
           Solves(w) == w = [e \in 0..N |-> Body(w, e)]
<1>1. N \in Nat /\ Entries = 1..N
  BY ChainShape DEF Entries
<1>2. \E w : Solves(w)
  <2>1. step \in Steps(N, Seq(Entries))
    <3>1. ASSUME NEW e \in 1..N, NEW before \in Seq(Entries) PROVE Step(e, before) \in Seq(Entries)
      <4>1. e \in Entries /\ Append(before, e) \in Seq(Entries)
        BY <1>1
      <4> QED
        BY <4>1
    <3> HIDE DEF Step
    <3> QED
      BY <3>1 DEF Steps
  <2>2. PICK start \in Seq(Entries) : start = <<>>
    <3>1. <<>> \in Seq(Entries)
      OBVIOUS
    <3> QED
      BY <3>1
  <2> HIDE DEF step, N
  <2>3. PICK w : Run(w, N, N, Seq(Entries), start, step)
    BY <1>1, <2>1, Recursion
  <2>4. ASSUME NEW e \in 0..N PROVE w[e] = Body(w, e)
    <3>1. CASE e = 0
      BY <2>2, <2>3, <3>1 DEF Run
    <3>2. CASE e # 0
      <4>1. e \in 1..N /\ e - 1 \in 0..N /\ <<e, w[e - 1]>> \in (1..N) \X Seq(Entries)
        BY <1>1, <2>3, <3>2 DEF Run
      <4>2. step[<<e, w[e - 1]>>] = Step(e, w[e - 1])
        <5> HIDE DEF Step
        <5> QED
          BY <4>1 DEF step
      <4> QED
        BY <2>3, <3>2, <4>1, <4>2 DEF Run
    <3> QED
      BY <3>1, <3>2
  <2>5. w = [e \in 0..N |-> w[e]]
    BY <2>3 DEF Run
  <2> HIDE DEF Body
  <2>6. Solves(w)
    BY <2>4, <2>5
  <2> HIDE DEF Solves
  <2> QED
    BY <2>6
<1>3. Found(count) = (CHOOSE w : Solves(w))[N]
  BY DEF Found
<1>4. PICK w : w = CHOOSE x : Solves(x)
  OBVIOUS
<1> HIDE DEF Solves
<1>5. Solves(w)
  BY <1>2, <1>4
<1> USE DEF Solves
<1>6. \A e \in 0..N : w[e] = Body(w, e)
  BY <1>5
<1> HIDE DEF Solves
<1> DEFINE Fine(chain, e) ==
             /\ chain \in Seq(1..e) /\ Len(chain) <= count /\ Len(chain) <= e
             /\ \A n \in 1..Len(chain) : chain[n] \notin taken
             /\ \A m, n \in 1..Len(chain) : m < n => chain[m] < chain[n]
           Good == {e \in 0..N : Fine(w[e], e)}
<1>7. 0 \in Good
  <2>1. w[0] = <<>>
    BY <1>1, <1>6
  <2>2. 0 \in 0..N /\ <<>> \in Seq(1..0) /\ Len(<<>>) = 0
    BY <1>1
  <2>3. Fine(<<>>, 0)
    BY <2>2
  <2> QED
    BY <2>1, <2>2, <2>3
<1>8. ASSUME NEW e \in 1..N, e - 1 \in Good PROVE e \in Good
  <2> DEFINE before == w[e - 1]
  <2>1. w[e] = Step(e, before) /\ Fine(before, e - 1) /\ e \in 0..N
    BY <1>1, <1>6, <1>8
  <2> HIDE DEF before
  <2>2. /\ before \in Seq(1..e) /\ Len(before) \in Nat
        /\ \A n \in 1..Len(before) : before[n] \in 1..(e - 1) /\ before[n] < e
    <3>1. before \in Seq(1..(e - 1))
      BY <2>1
    <3> QED
      BY <3>1
  <2>3. CASE Skips(e, before)
    BY <2>1, <2>2, <2>3
  <2>4. CASE ~Skips(e, before)
    <3> DEFINE after == Append(before, e)
    <3>1. /\ w[e] = after /\ after \in Seq(1..e) /\ Len(after) = Len(before) + 1
          /\ \A n \in 1..Len(before) : after[n] = before[n]
          /\ after[Len(before) + 1] = e
      BY <2>1, <2>2, <2>4
    <3> HIDE DEF after
    <3>2. Len(after) <= count /\ Len(after) <= e
      BY <2>1, <2>2, <2>4, <3>1
    <3>3. \A n \in 1..Len(after) : n \in 1..Len(before) \/ n = Len(before) + 1
      BY <2>2, <3>1
    <3>4. \A n \in 1..Len(after) : after[n] \notin taken
      BY <2>1, <2>4, <3>1, <3>3
    <3>5. ASSUME NEW m \in 1..Len(after), NEW n \in 1..Len(after), m < n PROVE after[m] < after[n]
      <4>1. m \in 1..Len(before)
        BY <2>2, <3>1, <3>5
      <4> QED
        BY <2>1, <2>2, <3>1, <3>3, <3>5, <4>1
    <3> QED
      BY <2>1, <3>1, <3>2, <3>4, <3>5
  <2> QED
    BY <2>3, <2>4
<1>9. N \in Good
  <2> HIDE DEF Good
  <2> QED
    BY SMTT(30), <1>1, <1>7, <1>8, AllUpTo
<1>10. Fine(Found(count), N)
  BY <1>3, <1>4, <1>9
<1> HIDE DEF N
<1>11. ASSUME NEW chain, Fine(chain, N), NEW m \in 1..Len(chain), NEW n \in 1..Len(chain), m # n
       PROVE  chain[m] # chain[n]
  <2>1. chain \in Seq(1..N) /\ Len(chain) \in Nat /\ N \in Nat
    BY <1>1, <1>11
  <2>2. chain[m] \in 1..N /\ chain[n] \in 1..N /\ (m < n \/ n < m)
    BY <1>11, <2>1
  <2> QED
    BY <1>11, <2>2
<1> USE DEF N
<1> QED
  BY <1>1, <1>10, <1>11

\* The links that Chain follows from a head, until there is none.
Walks(w, head) ==
    /\ w \in [0..JumpCapacity -> Links] /\ w[0] = head
    /\ \A n \in 1..JumpCapacity :
        w[n] = IF w[n - 1] = NULL_INDEX THEN NULL_INDEX ELSE next_jump[w[n - 1]]

LEMMA ChainWalks ==
  ASSUME NEW head \in Links, next_jump \in [Entries -> Links]
  PROVE  \E w : Walks(w, head) /\ Chain(head) = [n \in {n \in 1..JumpCapacity : w[n - 1] # NULL_INDEX} |-> w[n - 1]]
<1> DEFINE N == JumpCapacity
           Step(e) == IF e = NULL_INDEX THEN NULL_INDEX ELSE next_jump[e]
           step == [p \in (1..N) \X Links |-> Step(p[2])]
           Body(w, n) == IF n = 0 THEN head ELSE Step(w[n - 1])
           Solves(w) == w = [n \in 0..N |-> Body(w, n)]
<1>1. N \in Nat /\ Links = Entries \cup {NULL_INDEX} /\ NULL_INDEX \in Links
  BY ChainShape DEF Entries, Links, NULL_INDEX
<1>2. \E w : Solves(w)
  <2>1. \A e \in Links : Step(e) \in Links
    BY <1>1
  <2> HIDE DEF Step
  <2>2. step \in Steps(N, Links)
    BY <2>1 DEF Steps
  <2> HIDE DEF step, N
  <2>3. PICK w : Run(w, N, N, Links, head, step)
    BY <1>1, <2>2, Recursion
  <2>4. ASSUME NEW n \in 0..N PROVE w[n] = Body(w, n)
    <3>1. CASE n = 0
      BY <2>3, <3>1 DEF Run
    <3>2. CASE n # 0
      <4>1. n \in 1..N /\ n - 1 \in 0..N
        BY <1>1, <3>2
      <4>2. w[n - 1] \in Links /\ w[n] = step[<<n, w[n - 1]>>]
        BY <2>3, <4>1 DEF Run
      <4>3. step[<<n, w[n - 1]>>] = Step(w[n - 1])
        BY <4>1, <4>2 DEF step
      <4> QED
        BY <3>2, <4>2, <4>3
    <3> QED
      BY <3>1, <3>2
  <2>5. w = [n \in 0..N |-> w[n]]
    BY <2>3 DEF Run
  <2> HIDE DEF Body
  <2>6. Solves(w)
    BY <2>4, <2>5
  <2> HIDE DEF Solves
  <2> QED
    BY <2>6
<1> DEFINE u == CHOOSE x : Solves(x)
<1>3. Chain(head) = [n \in {n \in 1..JumpCapacity : u[n - 1] # NULL_INDEX} |-> u[n - 1]]
  BY DEF Chain
<1> HIDE DEF u
<1>4. PICK w : w = u
  OBVIOUS
<1> HIDE DEF Solves
<1>5. Solves(w)
  BY <1>2, <1>4 DEF u
<1> USE DEF Solves
<1>6. w = [n \in 0..N |-> w[n]] /\ \A n \in 0..N : w[n] = Body(w, n)
  <2> HIDE DEF Body
  <2> QED
    BY <1>5
<1> HIDE DEF Solves
<1>7. \A n \in 1..N : w[n] = Step(w[n - 1])
  <2>1. \A n \in 1..N : n \in 0..N /\ n # 0
    BY <1>1
  <2> QED
    BY <1>6, <2>1
<1>8. w[0] = head
  BY <1>1, <1>6
<1>9. \A n \in 0..N : w[n] \in Links
  <2> DEFINE Good == {n \in 0..N : w[n] \in Links}
  <2>1. 0 \in Good
    BY <1>1, <1>8
  <2>2. ASSUME NEW n \in 1..N, n - 1 \in Good PROVE n \in Good
    <3>1. n \in 0..N /\ w[n - 1] \in Links
      BY <2>2
    <3> QED
      BY <1>1, <1>7, <3>1
  <2> HIDE DEF Good
  <2>3. \A n \in 0..N : n \in Good
    BY <1>1, <2>1, <2>2, AllUpTo
  <2> QED
    BY <2>3 DEF Good
<1>10. Walks(w, head)
  BY <1>6, <1>7, <1>8, <1>9 DEF Walks
<1> QED
  BY <1>3, <1>4, <1>10

\* Chain is a sequence of entries, whatever the links.
LEMMA ChainIsSeq ==
  ASSUME NEW head \in Links, next_jump \in [Entries -> Links]
  PROVE  /\ Chain(head) \in Seq(Entries)
         /\ head = NULL_INDEX => Chain(head) = <<>>
<1> DEFINE N == JumpCapacity
<1>1. PICK w : Walks(w, head) /\ Chain(head) = [n \in {n \in 1..JumpCapacity : w[n - 1] # NULL_INDEX} |-> w[n - 1]]
  BY ChainWalks
<1>2. N \in Nat /\ \A e \in Links : e \in Entries \/ e = NULL_INDEX
  BY ChainShape DEF Entries, Links, NULL_INDEX
<1> DEFINE Ends == {n \in 0..N : w[n] = NULL_INDEX}
<1>3. \A n \in 1..N : n - 1 \in Ends => n \in Ends
  BY <1>1, <1>2 DEF Walks
<1>4. ASSUME NEW m \in 0..N, {n \in 1..N : w[n - 1] # NULL_INDEX} = 1..m
      PROVE  Chain(head) \in Seq(Entries) /\ Len(Chain(head)) = m
  <2>1. ASSUME NEW n \in 1..m PROVE w[n - 1] # NULL_INDEX /\ w[n - 1] \in Links
    <3>1. n \in {i \in 1..N : w[i - 1] # NULL_INDEX}
      BY <1>4
    <3>2. n \in 1..N /\ w[n - 1] # NULL_INDEX
      BY <3>1
    <3>3. n - 1 \in 0..N
      BY <1>2, <3>2
    <3> QED
      BY <1>1, <3>2, <3>3 DEF Walks
  <2>2. \A n \in 1..m : w[n - 1] \in Entries
    BY <1>2, <2>1
  <2>3. Chain(head) = [n \in 1..m |-> w[n - 1]]
    BY <1>1, <1>4
  <2>4. Chain(head) \in [1..m -> Entries]
    BY <2>2, <2>3
  <2> QED
    BY <2>4
<1>5. CASE Ends = {}
  <2>1. {n \in 1..N : w[n - 1] # NULL_INDEX} = 1..N /\ N \in 0..N
    BY <1>2, <1>5
  <2>2. head # NULL_INDEX
    BY <1>1, <1>2, <1>5 DEF Walks
  <2> QED
    BY <1>4, <2>1, <2>2
<1>6. CASE Ends # {}
  <2>1. PICK m \in Ends : \A n \in Ends : m <= n
    <3>1. Ends \in SUBSET Nat
      OBVIOUS
    <3> HIDE DEF Ends
    <3> QED
      BY <1>6, <3>1, LeastNumber
  <2>2. ASSUME NEW n \in 1..N, w[n - 1] # NULL_INDEX PROVE n <= m
    <3> DEFINE Good == {i \in 0..(N - m) : m + i \in Ends}
    <3>1. m \in 0..N /\ m + 0 = m
      BY <2>1
    <3>2. 0 \in Good
      BY <1>2, <2>1, <3>1
    <3>3. \A i \in 1..(N - m) : i - 1 \in Good => i \in Good
      <4> SUFFICES ASSUME NEW i \in 1..(N - m), i - 1 \in Good PROVE i \in Good
        OBVIOUS
      <4>1. m + (i - 1) \in Ends /\ m + i \in 1..N /\ (m + i) - 1 = m + (i - 1)
        BY <1>2, <3>1
      <4>2. m + i \in Ends
        <5> HIDE DEF Ends
        <5> QED
          BY <1>3, <4>1
      <4> QED
        BY <4>2
    <3> HIDE DEF Good
    <3>4. \A i \in 0..(N - m) : i \in Good
      <4>1. N - m \in Nat
        BY <1>2, <3>1
      <4> QED
        BY <3>2, <3>3, <4>1, AllUpTo
    <3>5. SUFFICES ASSUME ~(n <= m) PROVE FALSE
      OBVIOUS
    <3>6. (n - 1) - m \in 0..(N - m) /\ m + ((n - 1) - m) = n - 1
      BY <1>2, <3>1, <3>5
    <3>7. (n - 1) - m \in Good
      BY <3>4, <3>6
    <3> QED
      BY <2>2, <3>6, <3>7 DEF Good
  <2>3. ASSUME NEW n \in 1..N, n <= m PROVE w[n - 1] # NULL_INDEX
    BY <1>2, <2>1, <2>3
  <2>4. {n \in 1..N : w[n - 1] # NULL_INDEX} = 1..m /\ m \in 0..N
    BY <1>2, <2>1, <2>2, <2>3
  <2>5. Chain(head) \in Seq(Entries) /\ Len(Chain(head)) = m
    BY <1>4, <2>4
  <2>6. head = NULL_INDEX => m = 0
    BY <1>1, <1>2, <2>1 DEF Walks
  <2> QED
    BY <2>5, <2>6
<1> QED
  BY <1>5, <1>6

\* The links lead from head through the sequence.
Linked(c, head, next) ==
    /\ c \in Seq(Entries) /\ Len(c) <= JumpCapacity - 1
    /\ head = IF c = <<>> THEN NULL_INDEX ELSE c[1]
    /\ \A n \in 1..Len(c) : next[c[n]] = IF n = Len(c) THEN NULL_INDEX ELSE c[n + 1]

LEMMA LinkedIsChain ==
  ASSUME NEW head \in Links, next_jump \in [Entries -> Links], NEW c, Linked(c, head, next_jump)
  PROVE  Chain(head) = c
<1> DEFINE N == JumpCapacity
           L == Len(c)
<1>1. PICK w : Walks(w, head) /\ Chain(head) = [n \in {n \in 1..JumpCapacity : w[n - 1] # NULL_INDEX} |-> w[n - 1]]
  BY ChainWalks
<1>2. N \in Nat /\ L \in 0..(N - 1) /\ c \in [1..L -> Entries] /\ \A e \in Entries : e # NULL_INDEX
  <2>1. c \in Seq(Entries) /\ L <= N - 1
    BY DEF Linked
  <2>2. L \in Nat /\ c \in [1..L -> Entries]
    BY <2>1
  <2>3. N \in Nat /\ \A e \in Entries : e # NULL_INDEX
    BY ChainShape DEF Entries, NULL_INDEX
  <2> HIDE DEF L, N
  <2> QED
    BY <2>1, <2>2, <2>3
<1>3. \A n \in 1..L : w[n - 1] = c[n]
  <2> DEFINE Good == {n \in 0..L : n < L => w[n] = c[n + 1]}
  <2>1. 0 \in Good
    <3>1. w[0] = head /\ 0 \in 0..L /\ 0 + 1 = 1
      BY <1>1, <1>2 DEF Walks
    <3>2. 0 < L => head = c[1]
      BY DEF Linked
    <3> QED
      BY <3>1, <3>2
  <2>2. ASSUME NEW n \in 1..L, n - 1 \in Good PROVE n \in Good
    <3>1. w[n - 1] = c[n]
      BY <1>2, <2>2
    <3>2. n \in 1..N /\ c[n] # NULL_INDEX /\ n \in 0..L
      BY <1>2
    <3>3. w[n] = next_jump[c[n]]
      BY <1>1, <3>1, <3>2 DEF Walks
    <3> QED
      BY <3>2, <3>3 DEF Linked
  <2> HIDE DEF Good
  <2>3. \A n \in 0..L : n \in Good
    <3>1. L \in Nat
      BY <1>2
    <3> HIDE DEF L
    <3> QED
      BY <2>1, <2>2, <3>1, AllUpTo
  <2>4. ASSUME NEW n \in 1..L PROVE w[n - 1] = c[n]
    <3>1. n - 1 \in 0..L /\ n - 1 < L /\ (n - 1) + 1 = n
      BY <1>2
    <3> QED
      BY <2>3, <3>1 DEF Good
  <2> QED
    BY <2>4
<1>4. w[L] = NULL_INDEX
  <2>1. CASE L = 0
    BY <1>1, <1>2, <2>1 DEF Walks, Linked
  <2>2. CASE L # 0
    <3>1. L \in 1..L /\ L \in 1..N
      BY <1>2, <2>2
    <3>2. w[L - 1] = c[L] /\ c[L] # NULL_INDEX
      BY <1>2, <1>3, <3>1
    <3>3. w[L] = next_jump[c[L]]
      BY <1>1, <3>1, <3>2 DEF Walks
    <3> QED
      BY <3>1, <3>3 DEF Linked
  <2> QED
    BY <2>1, <2>2
<1>5. \A n \in 0..(N - L) : w[L + n] = NULL_INDEX
  <2> DEFINE Good == {n \in 0..(N - L) : w[L + n] = NULL_INDEX}
  <2>1. 0 \in Good
    <3>1. L + 0 = L /\ 0 \in 0..(N - L)
      BY <1>2
    <3> QED
      BY <1>4, <3>1
  <2>2. ASSUME NEW n \in 1..(N - L), n - 1 \in Good PROVE n \in Good
    <3>1. L + n \in 1..N /\ (L + n) - 1 = L + (n - 1) /\ n \in 0..(N - L)
      BY <1>2
    <3>2. w[(L + n) - 1] = NULL_INDEX
      BY <2>2, <3>1
    <3>3. w[L + n] = NULL_INDEX
      BY <1>1, <3>1, <3>2 DEF Walks
    <3> QED
      BY <3>1, <3>3
  <2> HIDE DEF Good
  <2>3. \A n \in 0..(N - L) : n \in Good
    <3>1. N - L \in Nat
      BY <1>2
    <3> QED
      BY <2>1, <2>2, <3>1, AllUpTo
  <2> QED
    BY <2>3 DEF Good
<1>6. ASSUME NEW n \in 1..N, n \notin 1..L PROVE w[n - 1] = NULL_INDEX
  <2>1. (n - 1) - L \in 0..(N - L) /\ L + ((n - 1) - L) = n - 1
    BY <1>2, <1>6
  <2> QED
    BY <1>5, <2>1
<1>7. {n \in 1..N : w[n - 1] # NULL_INDEX} = 1..L
  BY <1>2, <1>3, <1>6
<1>8. Chain(head) = [n \in 1..L |-> w[n - 1]]
  BY <1>1, <1>7
<1> QED
  BY <1>2, <1>3, <1>8

-----------------------------------------------------------------------------
(* Division.                                                               *)

LEMMA Division ==
  ASSUME NEW n \in Nat, NEW s \in Nat \ {0}
  PROVE  n \div s \in Nat /\ n % s \in 0..(s - 1) /\ n = s * (n \div s) + (n % s)
BY SMT

LEMMA DivisionIsUnique ==
  ASSUME NEW s \in Nat \ {0}, NEW q \in Nat, NEW r \in 0..(s - 1)
  PROVE  (s * q + r) \div s = q /\ (s * q + r) % s = r
<1>1. s * q \in Nat
  BY SMT
<1>2. PICK n \in Nat : n = s * q + r
  BY <1>1
<1>3. PICK p \in Nat : p = n \div s
  BY Division
<1>4. PICK t \in 0..(s - 1) : t = n % s
  BY Division
<1>5. s * q + r = s * p + t
  BY <1>2, <1>3, <1>4, Division
<1>6. ASSUME NEW a \in Nat, NEW b \in Nat, NEW c \in 0..(s - 1), NEW d \in 0..(s - 1), s * a + c = s * b + d
      PROVE  ~(a < b)
  <2> SUFFICES ASSUME a < b PROVE FALSE
    OBVIOUS
  <2>1. PICK e \in Nat : b = a + 1 + e
    BY SMT
  <2>2. s * b = s * a + s + s * e
    BY <2>1, SMT
  <2>3. s * e >= 0 /\ s * e \in Nat /\ s * a \in Nat
    BY SMT
  <2> QED
    BY <2>2, <2>3, <1>6
<1>7. p = q
  BY <1>5, <1>6
<1> QED
  BY <1>1, <1>2, <1>3, <1>4, <1>5, <1>7

-----------------------------------------------------------------------------
(* Fragments, counted with floats.                                         *)

\* A quotient rounded up.
LEMMA CeilDivIs ==
  ASSUME NEW d \in Nat \ {0}, NEW q \in Nat, NEW r \in 0..(d - 1)
  PROVE  CeilDiv(d * q + r, d) = IF r = 0 THEN q ELSE q + 1
<1>1. PICK y \in Nat : y = d * q
  BY SMT
<1>2. CASE r = 0
  <2>1. d - 1 \in 0..(d - 1) /\ d * q + r + d - 1 = y + (d - 1)
    BY <1>1, <1>2
  <2>2. (d * q + (d - 1)) \div d = q
    BY <2>1, DivisionIsUnique
  <2> QED
    BY <1>1, <1>2, <2>1, <2>2 DEF CeilDiv
<1>3. CASE r # 0
  <2>1. r - 1 \in 0..(d - 1) /\ q + 1 \in Nat
    BY <1>3
  <2>2. d * (q + 1) = y + d
    BY <1>1, SMT
  <2>3. (d * (q + 1) + (r - 1)) \div d = q + 1
    BY <2>1, DivisionIsUnique
  <2>4. d * q + r + d - 1 = (y + d) + (r - 1)
    BY <1>1
  <2> QED
    BY <1>3, <2>2, <2>3, <2>4 DEF CeilDiv
<1> QED
  BY <1>2, <1>3

LEMMA CeilDivOf ==
  ASSUME NEW n \in Nat, NEW d \in Nat \ {0}
  PROVE  CeilDiv(n, d) \in Nat /\ CeilDiv(n, d) = IF n % d = 0 THEN n \div d ELSE n \div d + 1
<1>1. PICK q \in Nat, r \in 0..(d - 1) : q = n \div d /\ r = n % d /\ n = d * q + r
  BY Division
<1>2. CeilDiv(d * q + r, d) = IF r = 0 THEN q ELSE q + 1
  BY CeilDivIs
<1>3. CeilDiv(n, d) = CeilDiv(d * q + r, d)
  BY <1>1, Zenon
<1>4. CeilDiv(n, d) = IF r = 0 THEN q ELSE q + 1
  BY <1>2, <1>3
<1> QED
  BY <1>1, <1>4

\* The rounding is off by half of b at most.
LEMMA NearestIs ==
  ASSUME NEW n \in Nat, NEW b \in Nat \ {0}
  PROVE  \E N \in Nat, y \in Nat :
           N = Nearest(n, b) /\ y = b * N /\ 2 * n - b <= 2 * y /\ 2 * y <= 2 * n + b
<1>1. PICK q \in Nat, r \in 0..(b - 1) : q = n \div b /\ r = n % b /\ n = b * q + r
  BY Division
<1>2. PICK y \in Nat : y = b * q
  BY SMT
<1>3. b * (q + 1) = y + b
  BY <1>2, SMT
<1>4. Nearest(n, b) = IF 2 * r > b \/ (2 * r = b /\ q % 2 = 1) THEN q + 1 ELSE q
  BY <1>1 DEF Nearest
<1>5. CASE 2 * r > b \/ (2 * r = b /\ q % 2 = 1)
  <2>1. Nearest(n, b) = q + 1 /\ q + 1 \in Nat /\ y + b \in Nat
    BY <1>4, <1>5
  <2>2. 2 * n - b <= 2 * (y + b) /\ 2 * (y + b) <= 2 * n + b
    BY <1>1, <1>2, <1>5
  <2> QED
    BY <1>3, <2>1, <2>2
<1>6. CASE ~(2 * r > b \/ (2 * r = b /\ q % 2 = 1))
  <2>1. Nearest(n, b) = q
    BY <1>4, <1>6
  <2>2. 2 * r <= b
    <3>1. q % 2 \in 0..1
      BY SMT
    <3>2. 2 * r = b => q % 2 = 0
      BY <1>6, <3>1
    <3> QED
      BY <1>6
  <2>3. 2 * n - b <= 2 * y /\ 2 * y <= 2 * n + b
    BY <1>1, <1>2, <2>2
  <2> QED
    BY <1>2, <2>1, <2>3
<1> QED
  BY <1>5, <1>6

\* The least scale of a set is 1, or twice one that the set has not.
LEMMA LeastScale ==
  ASSUME NEW T \in SUBSET Scales, T # {}
  PROVE  \E m \in T : m = 1 \/ \E h \in Scales \ T : m = 2 * h
<1>1. T \in SUBSET Nat /\ Scales \subseteq Nat \ {0}
  BY FloatShape
<1>2. PICK m \in T : \A n \in T : m <= n
  BY <1>1, LeastNumber
<1>3. CASE m # 1
  <2>1. PICK h \in Scales : m = 2 * h
    BY <1>3, FloatShape
  <2>2. h \in Nat \ {0} /\ ~(m <= h)
    BY <1>1, <2>1
  <2> QED
    BY <1>2, <2>1, <2>2
<1> QED
  BY <1>3

LEMMA FinerScale ==
  ASSUME NEW a \in Nat \ {0}, NEW b \in Nat \ {0}, b < Precision
  PROVE  \E S \in Scales : 2 * a * S >= b * Precision /\ (S = 1 \/ a * S < b * Precision)
<1> DEFINE T == {S \in Scales : 2 * a * S >= b * Precision}
<1>1. PICK P \in Nat : P = Precision /\ P > 1
  BY FloatShape
<1>2. PICK S \in Scales : S >= P * P /\ S \in Nat
  BY <1>1, FloatShape
<1>3. S \in T
  <2>1. PICK p \in Nat : p = P * P
    BY SMT
  <2>2. PICK e \in Nat : P = b + e
    BY <1>1
  <2>3. PICK f \in Nat : f = e * P
    BY SMT
  <2>4. PICK bp \in Nat : bp = b * P
    BY SMT
  <2>5. p = bp + f
    BY <2>1, <2>2, <2>3, <2>4, SMT
  <2>6. PICK g \in Nat : a = 1 + g
    BY SMT
  <2>7. PICK gs \in Nat : gs = 2 * g * S
    BY <1>2, SMT
  <2>8. 2 * a * S = 2 * S + gs
    BY <1>2, <2>6, <2>7, SMT
  <2> QED
    BY <1>1, <1>2, <2>1, <2>4, <2>5, <2>7, <2>8
<1> HIDE DEF T
<1>4. PICK m \in T : m = 1 \/ \E h \in Scales \ T : m = 2 * h
  <2>1. T \in SUBSET Scales
    BY DEF T
  <2> QED
    BY <1>3, <2>1, LeastScale
<1>5. m \in Scales /\ 2 * a * m >= b * Precision
  BY DEF T
<1>6. CASE m # 1
  <2>1. PICK h \in Scales \ T : m = 2 * h
    BY <1>4, <1>6
  <2>2. h \in Nat /\ ~(2 * a * h >= b * Precision)
    BY <2>1, FloatShape DEF T
  <2>3. PICK bp \in Nat : bp = b * Precision
    BY <1>1, SMT
  <2>4. PICK ah \in Nat : ah = 2 * a * h
    BY <2>2, SMT
  <2>5. a * m = ah
    BY <2>1, <2>2, <2>4, SMT
  <2> QED
    BY <1>5, <2>2, <2>3, <2>4, <2>5
<1> QED
  BY <1>5, <1>6

LEMMA CoarserScale ==
  ASSUME NEW a \in Nat, NEW b \in Nat \ {0}, NEW L \in Scales, a < L
  PROVE  \E S \in Scales : a < b * Precision * S /\ (S = 1 \/ 2 * a >= b * Precision * S)
<1> DEFINE T == {S \in Scales : a < b * Precision * S}
<1>1. PICK P \in Nat : P = Precision /\ P > 1
  BY FloatShape
<1>2. PICK d \in Nat : d = b * P
  BY SMT
<1>3. L \in T
  <2>1. L \in Nat
    BY FloatShape
  <2>2. d > 0
    BY <1>1, <1>2, SMT
  <2>3. PICK g \in Nat : d = 1 + g
    <3>1. d - 1 \in Nat /\ d = 1 + (d - 1)
      BY <2>2
    <3> QED
      BY <3>1
  <2>4. PICK f \in Nat : f = g * L
    BY <2>1, SMT
  <2>5. d * L = L + f
    BY <2>1, <2>3, <2>4, SMT
  <2> QED
    BY <1>1, <1>2, <2>1, <2>4, <2>5
<1> HIDE DEF T
<1>4. PICK m \in T : m = 1 \/ \E h \in Scales \ T : m = 2 * h
  <2>1. T \in SUBSET Scales
    BY DEF T
  <2> QED
    BY <1>3, <2>1, LeastScale
<1>5. m \in Scales /\ a < b * Precision * m
  BY DEF T
<1>6. CASE m # 1
  <2>1. PICK h \in Scales \ T : m = 2 * h
    BY <1>4, <1>6
  <2>2. h \in Nat /\ ~(a < b * Precision * h)
    BY <2>1, FloatShape DEF T
  <2>3. PICK dh \in Nat : dh = d * h
    BY <2>2, SMT
  <2>4. d * m = 2 * dh
    BY <2>1, <2>2, <2>3, SMT
  <2> QED
    BY <1>1, <1>2, <1>5, <2>2, <2>3, <2>4
<1> QED
  BY <1>5, <1>6

\* Rounding gives a number, unless there is no scale for it.
LEMMA RoundedIsNat ==
  ASSUME NEW a \in Nat, NEW b \in Nat \ {0}, b < Precision, NEW L \in Scales, a < L
  PROVE  Rounded(a, b)[1] \in Nat /\ Rounded(a, b)[2] \in Nat \ {0}
<1> DEFINE finer == CHOOSE S \in Scales : 2 * a * S >= b * Precision /\ (S = 1 \/ a * S < b * Precision)
           coarser == CHOOSE S \in Scales : a < b * Precision * S /\ (S = 1 \/ 2 * a >= b * Precision * S)
<1>1. Rounded(a, b) = IF a = 0 THEN <<0, 1>>
                      ELSE IF a < b * Precision THEN <<Nearest(a * finer, b), finer>>
                      ELSE <<Nearest(a, b * coarser) * coarser, 1>>
  BY DEF Rounded
<1>2. CASE a = 0
  BY <1>1, <1>2
<1>3. CASE a # 0 /\ a < b * Precision
  <2>1. finer \in Scales
    BY <1>3, FinerScale
  <2> HIDE DEF finer, coarser
  <2>2. finer \in Nat \ {0}
    BY <2>1, FloatShape
  <2>3. a * finer \in Nat
    BY <2>2, SMT
  <2>4. Nearest(a * finer, b) \in Nat
    BY <2>3, NearestIs
  <2> QED
    BY <1>1, <1>3, <2>2, <2>4
<1>4. CASE a # 0 /\ ~(a < b * Precision)
  <2>1. coarser \in Scales
    BY CoarserScale
  <2> HIDE DEF finer, coarser
  <2>2. coarser \in Nat \ {0}
    BY <2>1, FloatShape
  <2>3. b * coarser \in Nat \ {0}
    BY <2>2, SMT
  <2>4. PICK N \in Nat : N = Nearest(a, b * coarser)
    BY <2>3, NearestIs
  <2>5. N * coarser \in Nat
    BY <2>2, SMT
  <2> QED
    BY <1>1, <1>4, <2>4, <2>5
<1> QED
  BY <1>2, <1>3, <1>4

\* An integer at most doubles when it becomes a float.
LEMMA FloatIs ==
  ASSUME NEW n \in Nat, NEW L \in Scales, n < L
  PROVE  Float(n) \in Nat /\ Float(n) <= 2 * n
<1>1. PICK P \in Nat : P = Precision /\ P > 1
  BY FloatShape
<1>2. CASE n < P
  BY <1>1, <1>2 DEF Float
<1>3. CASE ~(n < P)
  <2> DEFINE coarser == CHOOSE S \in Scales : n < 1 * Precision * S /\ (S = 1 \/ 2 * n >= 1 * Precision * S)
  <2>1. coarser \in Scales /\ (coarser = 1 \/ 2 * n >= 1 * Precision * coarser)
    BY CoarserScale
  <2>2. Float(n) = Nearest(n, 1 * coarser) * coarser
    BY <1>1, <1>3 DEF Float, Rounded
  <2> HIDE DEF coarser
  <2>3. PICK c \in Nat \ {0} : c = coarser /\ c = 1 * coarser
    BY <2>1, FloatShape
  <2>4. c <= n
    <3>1. CASE c = 1
      BY <1>1, <1>3, <3>1
    <3>2. CASE c # 1
      <4>1. 2 * n >= P * c
        BY <1>1, <2>1, <2>3, <3>2
      <4>2. PICK e \in Nat : P = 2 + e
        BY <1>1
      <4>3. PICK f \in Nat : f = e * c
        BY SMT
      <4>4. P * c = 2 * c + f
        BY <4>2, <4>3, SMT
      <4> QED
        BY <4>1, <4>4
    <3> QED
      BY <3>1, <3>2
  <2>5. PICK N \in Nat, y \in Nat : N = Nearest(n, c) /\ y = c * N /\ 2 * y <= 2 * n + c
    BY NearestIs
  <2>6. N * c = y
    BY <2>5, SMT
  <2>7. Float(n) = y
    BY <2>2, <2>3, <2>5, <2>6
  <2> QED
    BY <2>4, <2>5, <2>7
<1> QED
  BY <1>2, <1>3

\* Below Precision, what is computed with a float is exact.
LEMMA QuotientIsExact ==
  ASSUME NEW a \in Nat, NEW b \in Nat \ {0}, a < Precision, b < Precision
  PROVE  Ceil(Quotient(a, b)) = CeilDiv(a, b) /\ Floor(Quotient(a, b)) = a \div b
<1>1. Quotient(a, b) = Rounded(a, b)
  BY DEF Quotient, Float
<1>2. PICK P \in Nat : P = Precision /\ P > 1 /\ a < P /\ b < P
  BY FloatShape
<1>3. PICK q \in Nat, r \in 0..(b - 1) : q = a \div b /\ a = b * q + r
  BY Division
<1>4. CeilDiv(a, b) = IF r = 0 THEN q ELSE q + 1
  <2>1. CeilDiv(b * q + r, b) = IF r = 0 THEN q ELSE q + 1
    BY CeilDivIs
  <2> QED
    BY <1>3, <2>1, Zenon
<1>5. CASE a = 0
  <2>1. q = 0 /\ r = 0
    <3>1. (b * 0 + 0) \div b = 0 /\ b * 0 + 0 = 0
      BY DivisionIsUnique, SMT
    <3>2. q = 0
      BY <1>3, <1>5, <3>1
    <3>3. PICK y \in Nat : y = b * q
      BY SMT
    <3>4. a = y + r
      BY <1>3, <3>3, Zenon
    <3>5. r = 0
      BY <1>5, <3>4
    <3> QED
      BY <3>2, <3>5
  <2>2. Rounded(a, b) = <<0, 1>>
    BY <1>5 DEF Rounded
  <2>3. CeilDiv(0, 1) = 0 /\ 0 \div 1 = 0
    BY DEF CeilDiv
  <2> QED
    BY <1>1, <1>3, <1>4, <2>1, <2>2, <2>3 DEF Ceil, Floor
<1>6. CASE a # 0
  <2> DEFINE finer == CHOOSE S \in Scales : 2 * a * S >= b * Precision /\ (S = 1 \/ a * S < b * Precision)
  <2>1. finer \in Scales /\ 2 * a * finer >= b * Precision
    BY <1>2, <1>6, FinerScale
  <2>2. a < b * Precision
    <3>1. PICK e \in Nat : b = 1 + e
      <4>1. b - 1 \in Nat /\ b = 1 + (b - 1)
        OBVIOUS
      <4> QED
        BY <4>1
    <3>2. PICK f \in Nat : f = e * P
      BY SMT
    <3>3. b * P = P + f
      BY <3>1, <3>2, SMT
    <3> QED
      BY <1>2, <3>2, <3>3
  <2>3. Rounded(a, b) = <<Nearest(a * finer, b), finer>>
    BY <1>6, <2>2 DEF Rounded
  <2> HIDE DEF finer
  <2>4. PICK S \in Nat \ {0} : S = finer
    BY <2>1, FloatShape
  <2>5. PICK n \in Nat : n = a * S
    BY SMT
  <2>6. PICK N \in Nat, y \in Nat : N = Nearest(n, b) /\ y = b * N /\ 2 * n - b <= 2 * y /\ 2 * y <= 2 * n + b
    BY NearestIs
  <2>7. Ceil(Rounded(a, b)) = CeilDiv(N, S) /\ Floor(Rounded(a, b)) = N \div S
    BY <2>3, <2>4, <2>5, <2>6 DEF Ceil, Floor
  <2>8. b < 2 * S
    <3>1. SUFFICES ASSUME 2 * S <= b PROVE FALSE
      OBVIOUS
    <3>2. PICK e \in Nat : b = 2 * S + e
      BY <3>1
    <3>3. PICK f \in Nat : f = a * e
      BY SMT
    <3>4. PICK g \in Nat : P = a + 1 + g
      <4>1. P - a - 1 \in Nat /\ P = a + 1 + (P - a - 1)
        BY <1>2
      <4> QED
        BY <4>1
    <3>5. PICK h \in Nat : h = b * g
      BY SMT
    <3>6. PICK ab \in Nat : ab = a * b
      BY SMT
    <3>7. b * P = ab + b + h
      BY <3>4, <3>5, <3>6, SMT
    <3>8. ab = 2 * a * S + f
      BY <3>2, <3>3, <3>6, SMT
    <3>9. PICK as \in Nat : as = 2 * a * S
      BY SMT
    <3> QED
      BY <1>2, <2>1, <2>4, <3>7, <3>8, <3>9
  <2>9. PICK z \in Nat : z = S * q
    BY SMT
  <2>10. PICK bz \in Nat, rs \in Nat : bz = b * z /\ rs = r * S
    <3>1. b * z \in Nat /\ r * S \in Nat
      BY SMT
    <3> QED
      BY <3>1
  <2>11. n = bz + rs
    BY <1>3, <2>5, <2>9, <2>10, SMT
  <2>12. CASE r = 0
    <3>1. rs = 0
      BY <2>10, <2>12, SMT
    <3>2. N = z
      <4>1. ASSUME N < z PROVE FALSE
        <5>1. PICK e \in Nat : z = N + 1 + e
          <6>1. z - N - 1 \in Nat /\ z = N + 1 + (z - N - 1)
            BY <4>1
          <6> QED
            BY <6>1
        <5>2. PICK f \in Nat : f = b * e
          BY SMT
        <5>3. bz = y + b + f
          BY <2>6, <2>10, <5>1, <5>2, SMT
        <5> QED
          BY <2>6, <2>11, <3>1, <5>3
      <4>2. ASSUME z < N PROVE FALSE
        <5>1. PICK e \in Nat : N = z + 1 + e
          <6>1. N - z - 1 \in Nat /\ N = z + 1 + (N - z - 1)
            BY <4>2
          <6> QED
            BY <6>1
        <5>2. PICK f \in Nat : f = b * e
          BY SMT
        <5>3. y = bz + b + f
          BY <2>6, <2>10, <5>1, <5>2, SMT
        <5> QED
          BY <2>6, <2>11, <3>1, <5>3
      <4> QED
        BY <4>1, <4>2
    <3>3. 0 \in 0..(S - 1) /\ S * q + 0 = N
      BY <2>9, <3>2
    <3>4. CeilDiv(S * q + 0, S) = q
      BY <3>3, CeilDivIs
    <3>5. (S * q + 0) \div S = q
      BY <3>3, DivisionIsUnique
    <3> QED
      BY <1>1, <1>3, <1>4, <2>7, <2>12, <3>3, <3>4, <3>5
  <2>13. CASE r # 0
    <3>1. rs >= S /\ rs <= b * S - S /\ b * S \in Nat
      <4>1. PICK e \in Nat : r = 1 + e
        <5>1. r - 1 \in Nat /\ r = 1 + (r - 1)
          BY <2>13
        <5> QED
          BY <5>1
      <4>2. PICK f \in Nat : f = e * S
        BY SMT
      <4>3. rs = S + f
        BY <2>10, <4>1, <4>2, SMT
      <4>4. PICK g \in Nat : b = r + 1 + g
        <5>1. b - r - 1 \in Nat /\ b = r + 1 + (b - r - 1)
          OBVIOUS
        <5> QED
          BY <5>1
      <4>5. PICK h \in Nat : h = g * S
        BY SMT
      <4>6. b * S = rs + S + h
        BY <2>10, <4>4, <4>5, SMT
      <4> QED
        BY <4>2, <4>3, <4>5, <4>6
    <3>2. PICK bs \in Nat : bs = b * S
      BY <3>1
    <3>3. z < N
      <4>1. SUFFICES ASSUME N <= z PROVE FALSE
        OBVIOUS
      <4>2. PICK e \in Nat : z = N + e
        BY <4>1
      <4>3. PICK f \in Nat : f = b * e
        BY SMT
      <4>4. bz = y + f
        BY <2>6, <2>10, <4>2, <4>3, SMT
      <4> QED
        BY <2>6, <2>8, <2>11, <3>1, <4>4
    <3>4. N < z + S
      <4>1. SUFFICES ASSUME z + S <= N PROVE FALSE
        OBVIOUS
      <4>2. PICK e \in Nat : N = z + S + e
        <5>1. N - z - S \in Nat /\ N = z + S + (N - z - S)
          BY <4>1
        <5> QED
          BY <5>1
      <4>3. PICK f \in Nat : f = b * e
        BY SMT
      <4>4. y = bz + bs + f
        BY <2>6, <2>10, <3>2, <4>2, <4>3, SMT
      <4> QED
        BY <2>6, <2>8, <2>11, <3>1, <3>2, <4>4
    <3>5. PICK e \in 0..(S - 1) : N = z + e /\ e # 0
      <4>1. N - z \in 0..(S - 1) /\ N = z + (N - z) /\ N - z # 0
        BY <3>3, <3>4
      <4> QED
        BY <4>1
    <3>6. N = S * q + e
      BY <2>9, <3>5
    <3>7. CeilDiv(S * q + e, S) = q + 1
      BY <3>5, CeilDivIs
    <3>8. (S * q + e) \div S = q
      BY <3>5, DivisionIsUnique
    <3> QED
      BY <1>1, <1>3, <1>4, <2>7, <2>13, <3>6, <3>7, <3>8
  <2> QED
    BY <2>12, <2>13
<1> QED
  BY <1>5, <1>6

\* The fragments of an object: a number, and below Precision the one that it needs.
LEMMA CountIsNat ==
  ASSUME resource \in Stores, NEW s \in Sessions, NEW t \in Types
  PROVE  LET size == resource[s].size
             d == DataCapacity(t) IN
         /\ size \in Nat /\ d \in Nat \ {0} /\ d < Precision
         /\ fragments_num[size][t] \in Nat
         /\ size < Precision => fragments_num[size][t] = CeilDiv(size, d)
<1>1. PICK size \in Nat : size = resource[s].size
  BY StoresAssumption
<1>2. PICK d \in Nat \ {0} : d = DataCapacity(t) /\ d < Precision
  <2>1. FragmentSize[t] \in Nat /\ Header \in Nat /\ FragmentSize[t] > Header /\ FragmentSize[t] < Precision
    BY CacheShape
  <2>2. Precision \in Nat
    BY FloatShape
  <2> QED
    BY <2>1, <2>2 DEF DataCapacity
<1>3. fragments_num[size][t] = Ceil(Quotient(size, d))
  <2>1. size \in Sizes
    BY <1>1 DEF Sizes
  <2> QED
    BY <1>2, <2>1 DEF fragments_num
<1>4. Ceil(Quotient(size, d)) \in Nat
  <2>1. PICK L \in Scales : 2 * size < L /\ L \in Nat
    BY <1>1, StoresAssumption, FloatShape
  <2>2. PICK n \in Nat : n = Float(size) /\ n <= 2 * size
    <3>1. size < L
      BY <2>1
    <3> QED
      BY <3>1, FloatIs
  <2>3. n < L
    BY <2>1, <2>2
  <2>4. Rounded(n, d)[1] \in Nat /\ Rounded(n, d)[2] \in Nat \ {0}
    BY <1>2, <2>3, RoundedIsNat
  <2>5. CeilDiv(Rounded(n, d)[1], Rounded(n, d)[2]) \in Nat
    BY <2>4, CeilDivOf
  <2> QED
    BY <2>2, <2>5 DEF Quotient, Ceil
<1>5. size < Precision => Ceil(Quotient(size, d)) = CeilDiv(size, d)
  BY <1>2, QuotientIsExact
<1> QED
  BY <1>1, <1>2, <1>3, <1>4, <1>5

-----------------------------------------------------------------------------
(* The blocks of a chain.                                                  *)

\* How many entries an object of L jumps writes, and how many it takes.
LEMMA BlocksOf ==
  ASSUME NEW jumps, Len(jumps) \in Nat \ {0}, jumps # <<>>
  PROVE  \E q \in Nat, r \in 0..(JumpsPerEntry - 1) :
           /\ Len(jumps) = JumpsPerEntry * q + r /\ Len(jumps) % JumpsPerEntry = r
           /\ Written(jumps) = (IF r = 0 THEN q ELSE q + 1)
           /\ ChainLength(jumps) = (q + 1) % CountSize
<1> DEFINE J == JumpsPerEntry
           L == Len(jumps)
<1>1. J \in Nat \ {0} /\ L \in Nat
  BY ChainShape
<1>2. PICK q \in Nat : q = L \div J
  BY <1>1, Division
<1>3. PICK r \in 0..(J - 1) : r = L % J
  BY <1>1, Division
<1>4. L = J * q + r
  BY <1>1, <1>2, <1>3, Division
<1>5. ChainLength(jumps) = (q + 1) % CountSize
  BY <1>2 DEF ChainLength
<1>6. Written(jumps) = (L + J - 1) \div J
  BY DEF Written
<1> HIDE DEF J, L
<1>7. CASE r = 0
  <2>1. J * q \in Nat
    BY <1>1, SMT
  <2>2. L + J - 1 = J * q + (J - 1) /\ J - 1 \in 0..(J - 1)
    BY <1>1, <1>4, <1>7, <2>1
  <2>3. (L + J - 1) \div J = q
    BY <1>1, <2>2, DivisionIsUnique
  <2> QED
    BY <1>3, <1>4, <1>5, <1>6, <1>7, <2>3 DEF J, L
<1>8. CASE r # 0
  <2>1. J * q \in Nat
    BY <1>1, SMT
  <2>2. J * (q + 1) = J * q + J
    BY <1>1, SMT
  <2>3. L + J - 1 = J * (q + 1) + (r - 1) /\ r - 1 \in 0..(J - 1) /\ q + 1 \in Nat
    BY <1>1, <1>4, <1>8, <2>1, <2>2
  <2>4. (L + J - 1) \div J = q + 1
    BY <1>1, <2>3, DivisionIsUnique
  <2> QED
    BY <1>3, <1>4, <1>5, <1>6, <1>8, <2>4 DEF J, L
<1> QED
  BY <1>7, <1>8

\* Where the jumps of the nth entry begin, and how many jumps the first n hold.
Begin(n) == (n - 1) * JumpsPerEntry
Reach(n, L) == IF n * JumpsPerEntry <= L THEN n * JumpsPerEntry ELSE L
Inside(n, L) == IF Begin(n) + JumpsPerEntry <= L THEN JumpsPerEntry ELSE L - Begin(n)

LEMMA ReachFacts ==
  ASSUME NEW jumps, Len(jumps) \in Nat \ {0}, jumps # <<>>, NEW n \in 1..Written(jumps)
  PROVE  /\ Begin(n) \in Nat /\ Begin(n) < Len(jumps)
         /\ Reach(n - 1, Len(jumps)) = Begin(n)
         /\ Inside(n, Len(jumps)) \in 1..JumpsPerEntry
         /\ Reach(n, Len(jumps)) = Begin(n) + Inside(n, Len(jumps))
         /\ Inside(n, Len(jumps)) < JumpsPerEntry => Begin(n) + Inside(n, Len(jumps)) = Len(jumps)
<1>1. PICK q \in Nat, r \in 0..(JumpsPerEntry - 1) :
           /\ Len(jumps) = JumpsPerEntry * q + r
           /\ Written(jumps) = (IF r = 0 THEN q ELSE q + 1)
  BY BlocksOf
<1>2. PICK L \in Nat \ {0} : L = Len(jumps)
  OBVIOUS
<1>3. PICK J \in Nat \ {0} : J = JumpsPerEntry
  BY ChainShape
<1>4. n \in Nat /\ n >= 1 /\ n - 1 \in Nat /\ n - 1 <= q /\ (r = 0 => n - 1 < q)
  BY <1>1
<1>5. PICK a \in Nat : a = (n - 1) * J
  BY <1>4, SMT
<1>6. n * J = a + J
  BY <1>4, <1>5, SMT
<1>7. PICK m \in Nat : m = J * q
  BY SMT
<1>8. a < L
  <2>1. CASE r = 0
    <3>1. PICK e \in Nat : q = (n - 1) + 1 + e
      BY <1>4, <2>1
    <3>2. PICK f \in Nat : f = J * e
      BY SMT
    <3>3. m = a + J + f
      BY <1>4, <1>5, <1>7, <3>1, <3>2, SMT
    <3> QED
      BY <1>1, <1>2, <1>3, <1>7, <2>1, <3>3
  <2>2. CASE r # 0
    <3>1. PICK e \in Nat : q = (n - 1) + e
      BY <1>4
    <3>2. PICK f \in Nat : f = J * e
      BY SMT
    <3>3. m = a + f
      BY <1>4, <1>5, <1>7, <3>1, <3>2, SMT
    <3> QED
      BY <1>1, <1>2, <1>3, <1>7, <2>2, <3>3
  <2> QED
    BY <2>1, <2>2
<1>9. Begin(n) = a /\ n * JumpsPerEntry = a + J /\ (n - 1) * JumpsPerEntry = a
  BY <1>3, <1>5, <1>6 DEF Begin
<1>10. Inside(n, L) = IF a + J <= L THEN J ELSE L - a
  BY <1>3, <1>9 DEF Inside
<1>11. Reach(n - 1, L) = a /\ Reach(n, L) = IF a + J <= L THEN a + J ELSE L
  BY <1>8, <1>9 DEF Reach
<1> QED
  BY <1>2, <1>3, <1>8, <1>9, <1>10, <1>11

\* The entries that are written hold all the jumps.
LEMMA ReachesAll ==
  ASSUME NEW jumps, Len(jumps) \in Nat \ {0}, jumps # <<>>
  PROVE  /\ Written(jumps) \in Nat \ {0} /\ Reach(Written(jumps), Len(jumps)) = Len(jumps) /\ Reach(0, Len(jumps)) = 0
         /\ ChainLength(jumps) \in Nat
<1>1. PICK q \in Nat, r \in 0..(JumpsPerEntry - 1) :
           /\ Len(jumps) = JumpsPerEntry * q + r
           /\ Written(jumps) = (IF r = 0 THEN q ELSE q + 1)
           /\ ChainLength(jumps) = (q + 1) % CountSize
  BY BlocksOf
<1>2. PICK J \in Nat \ {0} : J = JumpsPerEntry
  BY ChainShape
<1>3. PICK m \in Nat : m = J * q
  BY SMT
<1>4. q * J = m /\ (q + 1) * J = m + J /\ (q = 0 => m = 0) /\ 0 * J = 0
  BY <1>3, SMT
<1>5. Len(jumps) = m + r
  BY <1>1, <1>2, <1>3
<1>6. Reach(0, Len(jumps)) = 0
  BY <1>2, <1>4 DEF Reach
<1>7. Reach(Written(jumps), Len(jumps)) = Len(jumps)
  <2>1. CASE r = 0
    BY <1>1, <1>2, <1>4, <1>5, <2>1 DEF Reach
  <2>2. CASE r # 0
    BY <1>1, <1>2, <1>4, <1>5, <2>2 DEF Reach
  <2> QED
    BY <2>1, <2>2
<1>8. ChainLength(jumps) \in Nat
  <2>1. q + 1 \in Nat /\ CountSize \in Nat \ {0}
    BY ChainShape
  <2> QED
    BY <1>1, <2>1, Division
<1> QED
  BY <1>1, <1>2, <1>4, <1>5, <1>6, <1>7, <1>8

\* A chain that is long enough has a count that has not wrapped.
LEMMA CountFits ==
  ASSUME NEW jumps, Len(jumps) \in Nat \ {0}, jumps # <<>>, NEW N \in Nat,
         Written(jumps) <= N, N <= ChainLength(jumps)
  PROVE  N = Written(jumps) \/ (N = Written(jumps) + 1 /\ Len(jumps) % JumpsPerEntry = 0)
<1>1. PICK q \in Nat, r \in 0..(JumpsPerEntry - 1) :
           /\ Len(jumps) % JumpsPerEntry = r
           /\ Written(jumps) = (IF r = 0 THEN q ELSE q + 1)
           /\ ChainLength(jumps) = (q + 1) % CountSize
  BY BlocksOf
<1>2. PICK C \in Nat \ {0} : C = CountSize /\ C > 1
  BY ChainShape
<1>3. PICK m \in Nat : m = q + 1
  OBVIOUS
<1>4. PICK k \in Nat : k = m \div C
  BY Division
<1>5. PICK count \in 0..(C - 1) : count = m % C
  BY Division
<1>6. m = C * k + count
  BY <1>4, <1>5, Division
<1>7. count = m
  <2>1. CASE k = 0
    <3>1. C * 0 = 0
      BY SMT
    <3> QED
      BY <1>6, <2>1, <3>1
  <2>2. CASE k # 0
    <3>1. PICK e \in Nat : k = 1 + e
      <4>1. k - 1 \in Nat /\ k = 1 + (k - 1)
        BY <2>2
      <4> QED
        BY <4>1
    <3>2. PICK f \in Nat : f = C * e
      BY SMT
    <3>3. C * k = C + f
      BY <3>1, <3>2, SMT
    <3>4. count <= q - 1
      BY <1>2, <1>3, <1>6, <3>2, <3>3
    <3>5. q <= N /\ N <= count
      BY <1>1, <1>2, <1>3, <1>5
    <3> QED
      BY <3>4, <3>5
  <2> QED
    BY <2>1, <2>2
<1> QED
  BY <1>1, <1>2, <1>3, <1>5, <1>7

BlockPlaces == [1..JumpsPerEntry -> Nat]

\* Filled stops before the first 0.
LEMMA FilledTo ==
  ASSUME NEW places \in BlockPlaces, NEW m \in 0..JumpsPerEntry, \A i \in 1..m : places[i] # 0,
         m < JumpsPerEntry => places[m + 1] = 0
  PROVE  Filled(places) = [i \in 1..m |-> places[i]]
<1>1. JumpsPerEntry \in Nat /\ m \in Nat
  BY ChainShape
<1>2. ASSUME NEW i \in 1..JumpsPerEntry, \A j \in 1..i : places[j] # 0 PROVE i <= m
  <2>1. SUFFICES ASSUME m < i PROVE FALSE
    BY <1>1
  <2>2. m + 1 \in 1..i /\ m < JumpsPerEntry
    BY <1>1, <2>1
  <2> QED
    BY <1>2, <2>2
<1>3. {i \in 1..JumpsPerEntry : \A j \in 1..i : places[j] # 0} = 1..m
  BY <1>1, <1>2
<1> QED
  BY <1>3 DEF Filled

LEMMA FilledIsSeq ==
  ASSUME NEW places \in BlockPlaces
  PROVE  Filled(places) \in Seq(Nat)
<1> DEFINE Zeroes == {m \in 0..(JumpsPerEntry - 1) : places[m + 1] = 0}
<1>1. JumpsPerEntry \in Nat
  BY ChainShape
<1>2. ASSUME NEW m \in 0..JumpsPerEntry, Filled(places) = [i \in 1..m |-> places[i]]
      PROVE  Filled(places) \in Seq(Nat)
  <2>1. m \in Nat /\ \A i \in 1..m : places[i] \in Nat
    BY <1>1 DEF BlockPlaces
  <2> QED
    BY <1>2, <2>1
<1>3. CASE Zeroes = {}
  <2>1. ASSUME NEW i \in 1..JumpsPerEntry PROVE places[i] # 0
    <3>1. i - 1 \in 0..(JumpsPerEntry - 1) /\ (i - 1) + 1 = i
      BY <1>1
    <3> QED
      BY <1>3, <3>1
  <2>2. PICK m \in 0..JumpsPerEntry : m = JumpsPerEntry
    BY <1>1
  <2>3. Filled(places) = [i \in 1..m |-> places[i]]
    BY <2>1, <2>2, FilledTo
  <2> QED
    BY <1>2, <2>3
<1>4. CASE Zeroes # {}
  <2>1. PICK m \in Zeroes : \A n \in Zeroes : m <= n
    <3>1. Zeroes \in SUBSET Nat
      OBVIOUS
    <3> HIDE DEF Zeroes
    <3> QED
      BY <1>4, <3>1, LeastNumber
  <2>2. m \in 0..JumpsPerEntry /\ places[m + 1] = 0
    BY <1>1
  <2>3. ASSUME NEW i \in 1..m PROVE places[i] # 0
    <3>1. i - 1 \in 0..(JumpsPerEntry - 1) /\ (i - 1) + 1 = i /\ ~(m <= i - 1)
      BY <1>1, <2>2
    <3>2. i - 1 \notin Zeroes
      BY <2>1, <3>1
    <3> QED
      BY <3>1, <3>2
  <2>4. Filled(places) = [i \in 1..m |-> places[i]]
    BY <2>2, <2>3, FilledTo
  <2> QED
    BY <1>2, <2>2, <2>4
<1> QED
  BY <1>3, <1>4

\* An entry that is written holds its jumps.
LEMMA BlockFilled ==
  ASSUME NEW jumps \in Seq(Nat \ {0}), jumps # <<>>, NEW n \in 1..Written(jumps)
  PROVE  /\ Block(jumps, n) \in BlockPlaces
         /\ Filled(Block(jumps, n)) = [i \in 1..Inside(n, Len(jumps)) |-> jumps[Begin(n) + i]]
<1>1. PICK L \in Nat \ {0} : L = Len(jumps)
  OBVIOUS
<1>2. PICK J \in Nat \ {0} : J = JumpsPerEntry
  BY ChainShape
<1>3. /\ Begin(n) \in Nat /\ Begin(n) < L /\ Inside(n, L) \in 1..J
      /\ Inside(n, L) < J => Begin(n) + Inside(n, L) = L
      /\ Inside(n, L) = IF Begin(n) + J <= L THEN J ELSE L - Begin(n)
  BY <1>1, <1>2, ReachFacts DEF Inside
<1>4. PICK a \in Nat : a = Begin(n)
  BY <1>3
<1>5. PICK m \in 1..J : m = Inside(n, L)
  BY <1>3
<1>6. jumps \in [1..L -> Nat \ {0}]
  BY <1>1
<1>7. Block(jumps, n) = [i \in 1..J |-> IF a + i <= L THEN jumps[a + i] ELSE 0]
  BY <1>1, <1>2, <1>4 DEF Block, Begin
<1>8. ASSUME NEW i \in 1..J PROVE a + i <= L => a + i \in 1..L /\ jumps[a + i] \in Nat \ {0}
  BY <1>6
<1>9. Block(jumps, n) \in BlockPlaces
  <2> DEFINE at(i) == IF a + i <= L THEN jumps[a + i] ELSE 0
  <2>1. \A i \in 1..J : at(i) \in Nat
    BY <1>8
  <2>2. Block(jumps, n) = [i \in 1..J |-> at(i)]
    BY <1>7, Zenon
  <2> HIDE DEF at
  <2>3. [i \in 1..J |-> at(i)] \in [1..J -> Nat]
    BY <2>1
  <2> QED
    BY <1>2, <2>2, <2>3, Zenon DEF BlockPlaces
<1>10. \A i \in 1..m : i \in 1..J /\ a + i <= L /\ Block(jumps, n)[i] = jumps[a + i]
  BY <1>3, <1>4, <1>5, <1>7
<1>11. \A i \in 1..m : Block(jumps, n)[i] # 0
  BY <1>8, <1>10
<1>12. m < J => Block(jumps, n)[m + 1] = 0
  <2> SUFFICES ASSUME m < J PROVE Block(jumps, n)[m + 1] = 0
    OBVIOUS
  <2>1. a + m = L
    BY <1>3, <1>4, <1>5
  <2>2. m + 1 \in 1..J /\ ~(a + (m + 1) <= L)
    BY <2>1
  <2> QED
    BY <1>7, <2>2
<1>13. Filled(Block(jumps, n)) = [i \in 1..m |-> Block(jumps, n)[i]]
  BY <1>2, <1>5, <1>9, <1>11, <1>12, FilledTo
<1>14. Filled(Block(jumps, n)) = [i \in 1..m |-> jumps[a + i]]
  BY <1>10, <1>13
<1> QED
  BY <1>1, <1>4, <1>5, <1>9, <1>14

LEMMA PrefixGrows ==
  ASSUME NEW S, NEW jumps \in Seq(S), NEW a \in Nat, NEW m \in Nat, a + m <= Len(jumps)
  PROVE  SubSeq(jumps, 1, a) \o [i \in 1..m |-> jumps[a + i]] = SubSeq(jumps, 1, a + m)
<1>1. PICK L \in Nat : L = Len(jumps) /\ jumps \in [1..L -> S]
  OBVIOUS
<1>2. PICK p : p = SubSeq(jumps, 1, a)
  OBVIOUS
<1>3. PICK q : q = [i \in 1..m |-> jumps[a + i]]
  OBVIOUS
<1>4. p \in Seq(S) /\ Len(p) = a /\ \A i \in 1..a : p[i] = jumps[i]
  BY <1>1, <1>2
<1>5. q \in Seq(S) /\ Len(q) = m /\ \A i \in 1..m : q[i] = jumps[a + i]
  <2>1. \A i \in 1..m : a + i \in 1..L
    BY <1>1
  <2> QED
    BY <1>1, <1>3, <2>1
<1>6. PICK t : t = SubSeq(jumps, 1, a + m)
  OBVIOUS
<1>7. t \in Seq(S) /\ Len(t) = a + m /\ \A i \in 1..(a + m) : t[i] = jumps[i]
  BY <1>1, <1>6
<1>8. /\ p \o q \in Seq(S) /\ Len(p \o q) = Len(p) + Len(q)
      /\ \A i \in 1..(Len(p) + Len(q)) : (p \o q)[i] = IF i <= Len(p) THEN p[i] ELSE q[i - Len(p)]
  BY <1>4, <1>5, ConcatProperties
<1>9. ASSUME NEW i \in 1..(a + m) PROVE (p \o q)[i] = t[i]
  <2>1. (p \o q)[i] = IF i <= a THEN p[i] ELSE q[i - a]
    BY <1>4, <1>5, <1>8
  <2>2. CASE i <= a
    BY <1>4, <1>7, <2>1, <2>2
  <2>3. CASE ~(i <= a)
    <3>1. i - a \in 1..m /\ a + (i - a) = i
      BY <2>3
    <3> QED
      BY <1>5, <1>7, <2>1, <2>3, <3>1
  <2> QED
    BY <2>2, <2>3
<1>10. p \o q = t
  <2>1. Len(p \o q) = Len(t) /\ Len(t) = a + m
    BY <1>4, <1>5, <1>7, <1>8
  <2> QED
    BY <1>7, <1>8, <1>9, <2>1, SeqEqual
<1> QED
  BY <1>2, <1>3, <1>6, <1>10

-----------------------------------------------------------------------------
(* What get_jumps and get_fragment_indices make of a chain.                *)

\* The jumps of the first entries of a chain.
Gathers(w, c) ==
    /\ w \in [0..Len(c) -> Seq(Nat)] /\ w[0] = <<>>
    /\ \A n \in 1..Len(c) : w[n] = w[n - 1] \o Filled(jump_data[c[n]])

JumpsTypes == next_jump \in [Entries -> Links] /\ jump_data \in [Entries -> BlockPlaces]

LEMMA JumpsGathered ==
  ASSUME NEW head \in Links, JumpsTypes
  PROVE  \E w : Gathers(w, Chain(head)) /\ get_jumps(head) = w[Len(Chain(head))]
<1> DEFINE c == Chain(head)
           N == Len(c)
           Step(n, before) == before \o Filled(jump_data[c[n]])
           step == [p \in (1..N) \X Seq(Nat) |-> Step(p[1], p[2])]
           Body(w, n) == IF n = 0 THEN <<>> ELSE Step(n, w[n - 1])
           Solves(w) == w = [n \in 0..N |-> Body(w, n)]
<1>1. get_jumps(head) = (CHOOSE w : Solves(w))[N]
  BY DEF get_jumps
<1>2. c \in Seq(Entries)
  BY ChainIsSeq DEF JumpsTypes
<1> HIDE DEF c
<1>3. N \in Nat /\ \A n \in 1..N : c[n] \in Entries
  BY <1>2
<1> HIDE DEF N
<1>4. ASSUME NEW n \in 1..N, NEW before \in Seq(Nat) PROVE Step(n, before) \in Seq(Nat)
  <2>1. jump_data[c[n]] \in BlockPlaces
    BY <1>3 DEF JumpsTypes
  <2>2. Filled(jump_data[c[n]]) \in Seq(Nat)
    BY <2>1, FilledIsSeq
  <2> QED
    BY <2>2
<1> HIDE DEF Step
<1>5. \E w : Solves(w)
  <2>1. step \in Steps(N, Seq(Nat))
    BY <1>4 DEF Steps
  <2> HIDE DEF step
  <2>2. PICK start \in Seq(Nat) : start = <<>>
    <3>1. <<>> \in Seq(Nat)
      OBVIOUS
    <3> QED
      BY <3>1
  <2>3. PICK w : Run(w, N, N, Seq(Nat), start, step)
    BY <1>3, <2>1, Recursion
  <2>4. ASSUME NEW n \in 0..N PROVE w[n] = Body(w, n)
    <3>1. CASE n = 0
      BY <2>2, <2>3, <3>1 DEF Run
    <3>2. CASE n # 0
      <4>1. n \in 1..N /\ n - 1 \in 0..N
        BY <1>3, <3>2
      <4>2. w[n - 1] \in Seq(Nat) /\ w[n] = step[<<n, w[n - 1]>>]
        BY <2>3, <4>1 DEF Run
      <4>3. step[<<n, w[n - 1]>>] = Step(n, w[n - 1])
        BY <4>1, <4>2 DEF step
      <4> QED
        BY <3>2, <4>2, <4>3
    <3> QED
      BY <3>1, <3>2
  <2>5. w = [n \in 0..N |-> w[n]]
    BY <2>3 DEF Run
  <2> HIDE DEF Body
  <2>6. Solves(w)
    BY <2>4, <2>5
  <2> HIDE DEF Solves
  <2> QED
    BY <2>6
<1>6. PICK w : w = CHOOSE x : Solves(x)
  OBVIOUS
<1> HIDE DEF Solves
<1>7. Solves(w)
  BY <1>5, <1>6
<1> USE DEF Solves
<1>8. w = [n \in 0..N |-> w[n]] /\ \A n \in 0..N : w[n] = Body(w, n)
  <2> HIDE DEF Body
  <2> QED
    BY <1>7
<1> HIDE DEF Solves
<1>9. \A n \in 1..N : w[n] = Step(n, w[n - 1])
  <2>1. \A n \in 1..N : n \in 0..N /\ n # 0
    BY <1>3
  <2> QED
    BY <1>8, <2>1
<1>10. w[0] = <<>>
  BY <1>3, <1>8
<1>11. \A n \in 0..N : w[n] \in Seq(Nat)
  <2> DEFINE Good == {n \in 0..N : w[n] \in Seq(Nat)}
  <2>1. 0 \in Good
    <3>1. <<>> \in Seq(Nat) /\ 0 \in 0..N
      BY <1>3
    <3> QED
      BY <1>10, <3>1
  <2>2. ASSUME NEW n \in 1..N, n - 1 \in Good PROVE n \in Good
    <3>1. n \in 0..N /\ w[n - 1] \in Seq(Nat)
      BY <2>2
    <3> QED
      BY <1>4, <1>9, <3>1
  <2> HIDE DEF Good
  <2>3. \A n \in 0..N : n \in Good
    BY <1>3, <2>1, <2>2, AllUpTo
  <2> QED
    BY <2>3 DEF Good
<1>12. w \in [0..N -> Seq(Nat)]
  BY <1>8, <1>11
<1>13. Gathers(w, c)
  BY <1>9, <1>10, <1>12 DEF Gathers, Step, N
<1>14. get_jumps(head) = w[N]
  BY <1>1, <1>6
<1> QED
  BY <1>13, <1>14 DEF N, c

LEMMA JumpsAreSeq ==
  ASSUME NEW head \in Links, JumpsTypes
  PROVE  /\ get_jumps(head) \in Seq(Nat)
         /\ head = NULL_INDEX => get_jumps(head) = <<>>
<1>1. PICK w : Gathers(w, Chain(head)) /\ get_jumps(head) = w[Len(Chain(head))]
  BY JumpsGathered
<1>2. Chain(head) \in Seq(Entries) /\ (head = NULL_INDEX => Chain(head) = <<>>)
  BY ChainIsSeq DEF JumpsTypes
<1>3. Len(Chain(head)) \in 0..Len(Chain(head)) /\ Len(<<>>) = 0
  BY <1>2
<1> QED
  BY <1>1, <1>2, <1>3 DEF Gathers

\* The entries of a chain hold the jumps of an object: all that are written, and at most one more.
Holds(c, jumps, data) ==
    /\ Written(jumps) <= Len(c) /\ Len(c) <= ChainLength(jumps)
    /\ \A n \in 1..Written(jumps) : data[c[n]] = Block(jumps, n)

\* The spare entry of a chain has no jump.
Cleared(c, jumps, data) == Len(c) > Written(jumps) => data[c[Len(c)]] = NullJumps

\* get_jumps returns the jumps of the object, and those in a spare entry that was not cleared.
LEMMA JumpsReturned ==
  ASSUME NEW head \in Links, JumpsTypes, NEW c, c = Chain(head),
         NEW jumps \in Seq(Nat \ {0}), jumps # <<>>, Holds(c, jumps, jump_data)
  PROVE  /\ Len(get_jumps(head)) >= Len(jumps)
         /\ \A i \in 1..Len(jumps) : get_jumps(head)[i] = jumps[i]
         /\ Len(get_jumps(head)) > Len(jumps) => Len(jumps) % JumpsPerEntry = 0 /\ ~Cleared(c, jumps, jump_data)
<1>1. PICK w : Gathers(w, c) /\ get_jumps(head) = w[Len(c)]
  BY JumpsGathered
<1>2. c \in Seq(Entries)
  BY ChainIsSeq DEF JumpsTypes
<1>3. PICK L \in Nat \ {0} : L = Len(jumps)
  OBVIOUS
<1>4. PICK W \in Nat \ {0} : W = Written(jumps)
  BY <1>3, ReachesAll
<1>5. Reach(W, L) = L /\ Reach(0, L) = 0
  BY <1>3, <1>4, ReachesAll
<1>6. PICK N \in Nat : N = Len(c)
  BY <1>2
<1>7. N = W \/ (N = W + 1 /\ L % JumpsPerEntry = 0)
  BY <1>3, <1>4, <1>6, CountFits DEF Holds
<1>8. /\ w \in [0..N -> Seq(Nat)] /\ w[0] = <<>>
      /\ \A n \in 1..N : w[n] = w[n - 1] \o Filled(jump_data[c[n]])
  BY <1>1, <1>6 DEF Gathers
<1>9. w[W] = jumps
  <2> DEFINE Good == {n \in 0..W : w[n] = SubSeq(jumps, 1, Reach(n, L))}
  <2>1. 0 \in Good
    BY SMTT(30), <1>5, <1>8
  <2>2. ASSUME NEW n \in 1..W, n - 1 \in Good PROVE n \in Good
    <3>1. PICK a \in Nat : a = Begin(n)
      BY <1>3, <1>4, ReachFacts
    <3>2. PICK m \in Nat : m = Inside(n, L)
      <4>1. Inside(n, L) \in 1..JumpsPerEntry
        BY <1>3, <1>4, ReachFacts
      <4> QED
        BY <4>1
    <3>3. Reach(n - 1, L) = a /\ Reach(n, L) = a + m
      BY <1>3, <1>4, <3>1, <3>2, ReachFacts
    <3>4. a + m <= L
      <4>1. Reach(n, L) <= L
        <5>1. JumpsPerEntry \in Nat /\ n \in Nat /\ n * JumpsPerEntry \in Nat
          BY ChainShape, SMT
        <5> QED
          BY <5>1 DEF Reach
      <4> QED
        BY <3>3, <4>1
    <3>5. jump_data[c[n]] = Block(jumps, n)
      BY <1>4 DEF Holds
    <3>6. Filled(Block(jumps, n)) = [i \in 1..m |-> jumps[a + i]]
      BY <1>3, <1>4, <3>1, <3>2, BlockFilled
    <3>7. n \in 1..N /\ n \in 0..W
      BY <1>7
    <3>8. w[n] = w[n - 1] \o Filled(jump_data[c[n]])
      BY <1>8, <3>7
    <3>9. w[n - 1] = SubSeq(jumps, 1, a)
      BY <2>2, <3>3
    <3>10. SubSeq(jumps, 1, a) \o [i \in 1..m |-> jumps[a + i]] = SubSeq(jumps, 1, a + m)
      BY <1>3, <3>4, PrefixGrows
    <3>11. w[n] = SubSeq(jumps, 1, a) \o [i \in 1..m |-> jumps[a + i]]
      BY <3>5, <3>6, <3>8, <3>9
    <3> QED
      BY <3>3, <3>7, <3>10, <3>11
  <2> HIDE DEF Good
  <2>3. W \in Good
    <3>1. W \in Nat /\ W \in 0..W
      OBVIOUS
    <3>2. \A n \in 0..W : n \in Good
      BY <2>1, <2>2, <3>1, AllUpTo
    <3> QED
      BY <3>1, <3>2
  <2>4. SubSeq(jumps, 1, L) = jumps
    BY <1>3, SubSeqFull
  <2> QED
    BY <1>5, <2>3, <2>4 DEF Good
<1>10. CASE N = W
  BY <1>1, <1>3, <1>6, <1>9, <1>10
<1>11. CASE N = W + 1 /\ L % JumpsPerEntry = 0
  <2>1. PICK places : places = jump_data[c[N]]
    OBVIOUS
  <2>2. places \in BlockPlaces
    <3>1. c[N] \in Entries
      <4>1. N \in 1..Len(c)
        BY <1>6, <1>11
      <4> QED
        BY <1>2, <4>1, ElementOfSeq
    <3> QED
      BY <2>1, <3>1 DEF JumpsTypes
  <2>3. PICK extra \in Seq(Nat) : extra = Filled(places)
    BY <2>2, FilledIsSeq
  <2>4. get_jumps(head) = jumps \o extra
    <3>1. N \in 1..N /\ N - 1 = W
      BY <1>11
    <3> QED
      BY <1>1, <1>6, <1>8, <1>9, <2>1, <2>3, <3>1
  <2>5. jumps \in Seq(Nat)
    OBVIOUS
  <2>6. /\ Len(jumps \o extra) = Len(jumps) + Len(extra)
        /\ \A i \in 1..(Len(jumps) + Len(extra)) : 
              (jumps \o extra)[i] = IF i <= Len(jumps) THEN jumps[i] ELSE extra[i - Len(jumps)]
    BY <2>5, ConcatProperties
  <2>7. Cleared(c, jumps, jump_data) => Len(extra) = 0
    <3> SUFFICES ASSUME Cleared(c, jumps, jump_data) PROVE Len(extra) = 0
      OBVIOUS
    <3>1. places = NullJumps
      BY <1>4, <1>6, <1>11, <2>1 DEF Cleared
    <3>2. PICK m \in 0..JumpsPerEntry : m = 0
      BY ChainShape
    <3>3. \A i \in 1..m : places[i] # 0
      BY <3>2
    <3>4. places[m + 1] = 0
      BY <3>1, <3>2, ChainShape DEF NullJumps
    <3>5. Filled(places) = [i \in 1..m |-> places[i]]
      BY <2>2, <3>3, <3>4, FilledTo
    <3> QED
      BY <2>3, <3>2, <3>5
  <2>8. Len(extra) \in Nat
    BY <2>3
  <2> QED
    BY <1>3, <1>11, <2>4, <2>6, <2>7, <2>8
<1> QED
  BY <1>7, <1>10, <1>11

\* get_fragment_indices adds up the jumps.
LEMMA IndicesAdd ==
  ASSUME NEW head \in Links, JumpsTypes
  PROVE  LET indices == get_fragment_indices(0, head)
             jumps == get_jumps(head) IN
         /\ indices \in Seq(Nat) /\ Len(indices) = Len(jumps) + 1 /\ indices[1] = 0
         /\ \A i \in 1..Len(jumps) : indices[i + 1] = indices[i] + jumps[i]
<1> DEFINE jumps == get_jumps(head)
           N == Len(jumps)
           Body(w, i) == IF i = 1 THEN 0 ELSE w[i - 1] + jumps[i - 1]
           Solves(w) == w = [i \in 1..(N + 1) |-> Body(w, i)]
           Step(n, before) == before + jumps[n]
           step == [p \in (1..N) \X Nat |-> Step(p[1], p[2])]
<1>1. get_fragment_indices(0, head) = CHOOSE w : Solves(w)
  BY DEF get_fragment_indices
<1>2. jumps \in Seq(Nat)
  BY JumpsAreSeq
<1> HIDE DEF jumps
<1>3. N \in Nat /\ \A n \in 1..N : jumps[n] \in Nat
  BY <1>2
<1> HIDE DEF N
<1>4. \E w : Solves(w)
  <2>1. step \in Steps(N, Nat)
    BY <1>3 DEF Steps
  <2> HIDE DEF step
  <2>2. PICK start \in Nat : start = 0
    OBVIOUS
  <2>3. PICK w : Run(w, N, N, Nat, start, step)
    BY <1>3, <2>1, Recursion
  <2> DEFINE v == [i \in 1..(N + 1) |-> w[i - 1]]
  <2>4. ASSUME NEW i \in 1..(N + 1) PROVE v[i] = Body(v, i)
    <3>1. CASE i = 1
      BY <2>2, <2>3, <3>1 DEF Run
    <3>2. CASE i # 1
      <4>1. i - 1 \in 1..N /\ (i - 1) - 1 \in 0..N /\ i - 1 \in 1..(N + 1)
        BY <1>3, <3>2
      <4>2. w[(i - 1) - 1] \in Nat /\ w[i - 1] = step[<<i - 1, w[(i - 1) - 1]>>]
        BY <2>3, <4>1 DEF Run
      <4>3. step[<<i - 1, w[(i - 1) - 1]>>] = Step(i - 1, w[(i - 1) - 1])
        BY <4>1, <4>2 DEF step
      <4> QED
        BY <3>2, <4>1, <4>2, <4>3
    <3> QED
      BY <3>1, <3>2
  <2>5. v = [i \in 1..(N + 1) |-> v[i]]
    OBVIOUS
  <2> HIDE DEF Body, v
  <2>6. Solves(v)
    BY <2>4, <2>5
  <2> HIDE DEF Solves
  <2> QED
    BY <2>6
<1>5. PICK w : w = CHOOSE x : Solves(x)
  OBVIOUS
<1> HIDE DEF Solves
<1>6. Solves(w)
  BY <1>4, <1>5
<1> USE DEF Solves
<1>7. w = [i \in 1..(N + 1) |-> w[i]] /\ \A i \in 1..(N + 1) : w[i] = Body(w, i)
  <2> HIDE DEF Body
  <2> QED
    BY <1>6
<1> HIDE DEF Solves
<1>8. w[1] = 0
  <2>1. 1 \in 1..(N + 1)
    BY <1>3
  <2> QED
    BY <1>7, <2>1
<1>9. ASSUME NEW i \in 1..N PROVE w[i + 1] = w[i] + jumps[i]
  <2>1. i + 1 \in 1..(N + 1) /\ i + 1 # 1 /\ (i + 1) - 1 = i
    BY <1>3
  <2> QED
    BY <1>7, <2>1
<1>10. \A i \in 0..N : w[i + 1] \in Nat
  <2> DEFINE Good == {i \in 0..N : w[i + 1] \in Nat}
  <2>1. 0 \in Good
    BY <1>3, <1>8
  <2>2. ASSUME NEW i \in 1..N, i - 1 \in Good PROVE i \in Good
    <3>1. i \in 0..N /\ w[i] \in Nat
      <4>1. (i - 1) + 1 = i
        OBVIOUS
      <4> QED
        BY <2>2, <4>1
    <3> QED
      BY <1>3, <1>9, <3>1
  <2> HIDE DEF Good
  <2>3. \A i \in 0..N : i \in Good
    BY <1>3, <2>1, <2>2, AllUpTo
  <2> QED
    BY <2>3 DEF Good
<1>11. \A i \in 1..(N + 1) : w[i] \in Nat
  <2>1. \A i \in 1..(N + 1) : i - 1 \in 0..N /\ (i - 1) + 1 = i
    BY <1>3
  <2> QED
    BY <1>10, <2>1
<1>12. w \in [1..(N + 1) -> Nat]
  BY <1>7, <1>11
<1>13. w \in Seq(Nat) /\ Len(w) = N + 1
  BY <1>3, <1>12
<1> QED
  BY <1>1, <1>5, <1>8, <1>9, <1>13 DEF N, jumps

\* get_fragment_index adds up the places of the chain, which are the jumps.
LEMMA PlaceOfJump ==
  ASSUME NEW c, NEW jumps \in Seq(Nat \ {0}), jumps # <<>>, Holds(c, jumps, jump_data), NEW p \in 1..Len(jumps)
  PROVE  jump_data[c[((p - 1) \div JumpsPerEntry) + 1]][((p - 1) % JumpsPerEntry) + 1] = jumps[p]
<1>1. PICK J \in Nat \ {0} : J = JumpsPerEntry
  BY ChainShape
<1>2. PICK L \in Nat \ {0} : L = Len(jumps)
  OBVIOUS
<1>3. p - 1 \in Nat /\ p <= L
  BY <1>2
<1>4. PICK a \in Nat : a = (p - 1) \div J
  BY <1>3, Division
<1>5. PICK b \in 0..(J - 1) : b = (p - 1) % J
  BY <1>3, Division
<1>6. p - 1 = J * a + b
  BY <1>3, <1>4, <1>5, Division
<1>7. PICK m \in Nat : m = a * J
  BY SMT
<1>8. J * a = m /\ ((a + 1) - 1) * J = m
  BY <1>7, SMT
<1>9. PICK W \in Nat \ {0} : W = Written(jumps)
  BY <1>2, ReachesAll
<1>10. PICK z \in Nat : z = W * J
  BY SMT
<1>11. z >= L
  <2>1. Reach(W, L) = L
    BY <1>2, <1>9, ReachesAll
  <2> QED
    BY <1>1, <1>10, <2>1 DEF Reach
<1>12. a < W
  <2> SUFFICES ASSUME ~(a < W) PROVE FALSE
    OBVIOUS
  <2>1. PICK e \in Nat : a = W + e
    BY SMT
  <2>2. PICK f \in Nat : f = e * J
    BY SMT
  <2>3. m = z + f
    BY <1>7, <1>10, <2>1, <2>2, SMT
  <2> QED
    BY <1>3, <1>6, <1>8, <1>11, <2>3
<1>13. a + 1 \in 1..W /\ b + 1 \in 1..J /\ m + (b + 1) = p
  BY <1>3, <1>6, <1>8, <1>12
<1>14. jump_data[c[a + 1]] = Block(jumps, a + 1)
  BY <1>9, <1>13 DEF Holds
<1>15. Block(jumps, a + 1)[b + 1] = jumps[p]
  BY <1>1, <1>2, <1>3, <1>8, <1>13 DEF Block
<1> QED
  BY <1>1, <1>4, <1>5, <1>14, <1>15

LEMMA WalkedAdds ==
  ASSUME NEW head \in Links, NEW c, c = Chain(head), NEW jumps \in Seq(Nat \ {0}), jumps # <<>>,
         Holds(c, jumps, jump_data), NEW count \in 0..Len(jumps)
  PROVE  \E w : /\ Walked(head, count) = w[count] /\ w[0] = 0
                /\ \A p \in 1..count : w[p] = w[p - 1] + jumps[p]
<1> DEFINE At(p) == jump_data[c[((p - 1) \div JumpsPerEntry) + 1]][((p - 1) % JumpsPerEntry) + 1]
           Body(w, p) == IF p = 0 THEN 0 ELSE w[p - 1] + At(p)
           Solves(w) == w = [p \in 0..count |-> Body(w, p)]
           Step(p, before) == before + jumps[p]
           step == [p \in (1..count) \X Nat |-> Step(p[1], p[2])]
<1>1. Walked(head, count) = (CHOOSE w : Solves(w))[count]
  BY DEF Walked
<1>2. count \in Nat /\ \A p \in 1..count : p \in 1..Len(jumps) /\ jumps[p] \in Nat
  OBVIOUS
<1>3. \A p \in 1..count : At(p) = jumps[p]
  <2> HIDE DEF At
  <2>1. \A p \in 1..Len(jumps) : At(p) = jumps[p]
    BY PlaceOfJump DEF At
  <2> QED
    BY <1>2, <2>1
<1> HIDE DEF At
<1>4. \E w : Solves(w)
  <2>1. step \in Steps(count, Nat)
    BY <1>2 DEF Steps
  <2> HIDE DEF step
  <2>2. PICK start \in Nat : start = 0
    OBVIOUS
  <2>3. PICK w : Run(w, count, count, Nat, start, step)
    BY <1>2, <2>1, Recursion
  <2>4. ASSUME NEW p \in 0..count PROVE w[p] = Body(w, p)
    <3>1. CASE p = 0
      BY <2>2, <2>3, <3>1 DEF Run
    <3>2. CASE p # 0
      <4>1. p \in 1..count /\ p - 1 \in 0..count
        BY <1>2, <3>2
      <4>2. w[p - 1] \in Nat /\ w[p] = step[<<p, w[p - 1]>>]
        BY <2>3, <4>1 DEF Run
      <4>3. step[<<p, w[p - 1]>>] = Step(p, w[p - 1])
        BY <4>1, <4>2 DEF step
      <4> QED
        BY <1>3, <3>2, <4>1, <4>2, <4>3
    <3> QED
      BY <3>1, <3>2
  <2>5. w = [p \in 0..count |-> w[p]]
    BY <2>3 DEF Run
  <2> HIDE DEF Body
  <2>6. Solves(w)
    BY <2>4, <2>5
  <2> HIDE DEF Solves
  <2> QED
    BY <2>6
<1>5. PICK w : w = CHOOSE x : Solves(x)
  OBVIOUS
<1> HIDE DEF Solves
<1>6. Solves(w)
  BY <1>4, <1>5
<1> USE DEF Solves
<1>7. \A p \in 0..count : w[p] = Body(w, p)
  <2> HIDE DEF Body
  <2> QED
    BY <1>6
<1> HIDE DEF Solves
<1>8. w[0] = 0
  BY <1>2, <1>7
<1>9. ASSUME NEW p \in 1..count PROVE w[p] = w[p - 1] + jumps[p]
  <2>1. p \in 0..count /\ p # 0
    BY <1>2
  <2> QED
    BY <1>3, <1>7, <2>1
<1> QED
  BY <1>1, <1>5, <1>8, <1>9

-----------------------------------------------------------------------------
(* The fragments of an object, by their jumps.                             *)

Rising(g) == \A i \in 1..Len(g), j \in 1..Len(g) : i < j => g[i] < g[j]

LEMMA JumpsOfRising ==
  ASSUME NEW g \in Seq(Nat), Rising(g), NEW t
  PROVE  /\ Jumps(g, t) \in Seq(Nat \ {0})
         /\ Len(g) > 0 => Len(Jumps(g, t)) = Len(g) - 1
         /\ Len(g) = 0 => Jumps(g, t) = <<>>
         /\ \A i \in 1..(Len(g) - 1) : Jumps(g, t)[i] = g[i + 1] - g[i]
<1>1. PICK L \in Nat : L = Len(g)
  OBVIOUS
<1>2. ASSUME NEW i \in 1..(L - 1) PROVE g[i] \in Nat /\ g[i + 1] \in Nat /\ g[i + 1] > g[i]
  <2>1. i \in 1..L /\ i + 1 \in 1..L /\ i < i + 1
    BY <1>1
  <2> QED
    BY <1>1, <2>1 DEF Rising
<1>3. Jumps(g, t) = [i \in 1..(L - 1) |-> g[i + 1] - g[i]]
  BY <1>1, <1>2 DEF Jumps
<1>4. CASE L = 0
  BY <1>1, <1>3, <1>4
<1>5. CASE L > 0
  <2>1. PICK N \in Nat : N = L - 1
    BY <1>5
  <2>2. Jumps(g, t) \in [1..N -> Nat \ {0}]
    BY <1>2, <1>3, <2>1
  <2>3. Jumps(g, t) \in Seq(Nat \ {0}) /\ Len(Jumps(g, t)) = N
    BY <2>1, <2>2
  <2>4. \A i \in 1..(L - 1) : Jumps(g, t)[i] = g[i + 1] - g[i]
    BY <1>3
  <2> HIDE DEF Jumps
  <2> QED
    BY <1>1, <1>5, <2>1, <2>3, <2>4
<1> QED
  BY <1>4, <1>5

\* What the chain of an object says of its fragments.
LEMMA ChainDescribes ==
  ASSUME NEW head \in Links, JumpsTypes, NEW c, c = Chain(head),
         NEW g \in Seq(Nat), Rising(g), Len(g) > 1, NEW t, Holds(c, Jumps(g, t), jump_data)
  PROVE  LET indices == get_fragment_indices(0, head) IN
         /\ Len(indices) >= Len(g)
         /\ Len(indices) > Len(g) => (Len(g) - 1) % JumpsPerEntry = 0 /\ ~Cleared(c, Jumps(g, t), jump_data)
         /\ \A i \in 1..Len(g) :
             /\ g[i] = indices[i] + g[1]
             /\ i > 1 => get_fragment_index(0, head, i - 1) = indices[i]
<1>1. PICK jumps \in Seq(Nat \ {0}) : jumps = Jumps(g, t)
  BY JumpsOfRising
<1>2. PICK L \in Nat \ {0} : Len(g) = L + 1
  <2>1. PICK n \in Nat : n = Len(g)
    OBVIOUS
  <2>2. n - 1 \in Nat \ {0} /\ n = (n - 1) + 1
    BY <2>1
  <2> QED
    BY <2>1, <2>2
<1>3. Len(jumps) = L /\ jumps # <<>> /\ \A i \in 1..L : jumps[i] = g[i + 1] - g[i]
  <2>1. Len(g) > 0 /\ Len(g) - 1 = L
    BY <1>2
  <2>2. Len(jumps) = L /\ \A i \in 1..(Len(g) - 1) : jumps[i] = g[i + 1] - g[i]
    BY <1>1, <2>1, JumpsOfRising
  <2>3. Len(<<>>) = 0
    OBVIOUS
  <2> QED
    BY <2>1, <2>2, <2>3
<1>4. PICK all \in Seq(Nat) : all = get_jumps(head)
  BY JumpsAreSeq
<1>5. /\ Len(all) >= L /\ \A i \in 1..L : all[i] = jumps[i]
      /\ Len(all) > L => L % JumpsPerEntry = 0 /\ ~Cleared(c, jumps, jump_data)
  BY <1>1, <1>3, <1>4, JumpsReturned
<1>6. PICK indices \in Seq(Nat) : indices = get_fragment_indices(0, head)
  BY IndicesAdd
<1>7. /\ Len(indices) = Len(all) + 1 /\ indices[1] = 0
      /\ \A i \in 1..Len(all) : indices[i + 1] = indices[i] + all[i]
  BY <1>4, <1>6, IndicesAdd
<1>8. \A i \in 1..(L + 1) : g[i] \in Nat
  BY <1>2, ElementOfSeq
<1>9. ASSUME NEW i \in 1..L PROVE indices[i + 1] = indices[i] + (g[i + 1] - g[i])
  <2>1. Len(all) \in Nat
    OBVIOUS
  <2>2. i \in 1..Len(all)
    BY <1>5, <2>1
  <2>3. indices[i + 1] = indices[i] + all[i]
    BY <1>7, <2>2
  <2>4. all[i] = g[i + 1] - g[i]
    BY <1>3, <1>5
  <2> QED
    BY <2>3, <2>4
<1>10. \A i \in 1..(L + 1) : indices[i] = g[i] - g[1]
  <2> DEFINE Good == {i \in 0..L : indices[i + 1] = g[i + 1] - g[1]}
  <2>1. 0 \in Good
    BY <1>7, <1>8
  <2>2. ASSUME NEW i \in 1..L, i - 1 \in Good PROVE i \in Good
    <3>1. i \in 0..L /\ (i - 1) + 1 = i /\ i \in 1..(L + 1) /\ i + 1 \in 1..(L + 1) /\ 1 \in 1..(L + 1)
      OBVIOUS
    <3>2. indices[i] = g[i] - g[1]
      BY <2>2, <3>1
    <3>3. indices[i + 1] = indices[i] + (g[i + 1] - g[i])
      BY <1>9
    <3>4. g[i] \in Nat /\ g[i + 1] \in Nat /\ g[1] \in Nat
      BY <1>8, <3>1
    <3> QED
      BY SMTT(30), <3>1, <3>2, <3>3, <3>4
  <2> HIDE DEF Good
  <2>3. \A i \in 0..L : i \in Good
    BY <2>1, <2>2, AllUpTo
  <2>4. \A i \in 1..(L + 1) : i - 1 \in 0..L /\ (i - 1) + 1 = i
    OBVIOUS
  <2> QED
    BY <2>3, <2>4 DEF Good
<1>11. ASSUME NEW i \in 1..(L + 1), i > 1 PROVE get_fragment_index(0, head, i - 1) = indices[i]
  <2>1. PICK count \in 1..L : count = i - 1
    BY <1>11
  <2>2. count \in 0..Len(jumps)
    BY <1>3
  <2>3. PICK w : /\ Walked(head, count) = w[count] /\ w[0] = 0
                 /\ \A p \in 1..count : w[p] = w[p - 1] + jumps[p]
    BY <1>1, <1>3, <2>2, WalkedAdds
  <2> DEFINE Good == {p \in 0..count : w[p] = indices[p + 1]}
  <2>4. 0 \in Good
    BY <1>7, <2>1, <2>3
  <2>5. ASSUME NEW p \in 1..count, p - 1 \in Good PROVE p \in Good
    <3>1. p \in 0..count /\ p \in 1..L /\ (p - 1) + 1 = p
      BY <2>1
    <3>2. w[p - 1] = indices[p]
      BY <2>5, <3>1
    <3> QED
      BY <1>3, <1>9, <2>3, <3>1, <3>2
  <2> HIDE DEF Good
  <2>6. count \in Good
    <3>1. count \in Nat /\ count \in 0..count
      BY <2>1
    <3>2. \A p \in 0..count : p \in Good
      BY <2>4, <2>5, <3>1, AllUpTo
    <3> QED
      BY <3>1, <3>2
  <2>7. w[count] = indices[i] /\ i - 1 # 0
    BY <2>1, <2>6 DEF Good
  <2>8. get_fragment_index(0, head, i - 1) = 0 + Walked(head, count)
    BY <2>1, <2>7 DEF get_fragment_index
  <2>9. indices[i] \in Nat
    <3>1. i \in 1..Len(indices)
      BY <1>4, <1>5, <1>7
    <3> QED
      BY <3>1
  <2> QED
    BY <2>3, <2>7, <2>8, <2>9
<1>12. \A i \in 1..(L + 1) : g[i] = indices[i] + g[1]
  BY SMTT(30), <1>8, <1>10
<1>13. Len(indices) >= L + 1 /\ (Len(indices) > L + 1 => Len(all) > L) /\ (L + 1) - 1 = L
  BY <1>4, <1>5, <1>7
<1> QED
  BY <1>1, <1>2, <1>5, <1>6, <1>11, <1>12, <1>13

-----------------------------------------------------------------------------
(* The fragments of the sessions.                                          *)

Early == {"new", "stored", "unheard"}
Begun == {"started", "ended"}

\* What the counter of a region has given to the sessions, fragment by fragment.
UnitsOf(s) == {<<s, i>> : i \in 1..(IF pc[s] = "acquire" THEN FragmentsNum(s) ELSE Len(got[s]))}
Units(t) == UNION {UnitsOf(s) : s \in {s \in Sessions : type[s] = t}}

SessionOK(s) ==
    /\ pc[s] \in Early => type[s] = FragmentDynamic
    /\ pc[s] \in Early \cup {"debit"} => got[s] = <<>>
    /\ pc[s] \in Deciding \cup Begun => type[s] \in Types /\ Len(got[s]) <= FragmentsNum(s)
    /\ got[s] # <<>> => type[s] \in Types
    /\ pc[s] \in {"acquire", "enter"} \cup Begun => FragmentsNum(s) <= Capacity[type[s]]
    /\ pc[s] \in {"enter"} \cup Begun => Len(got[s]) = FragmentsNum(s)
    /\ \A i \in 1..Len(got[s]) : got[s][i] \in state[type[s]]
    /\ Rising(got[s])
    /\ received[s] # {} => pc[s] \in Begun /\ received[s] \subseteq Chunks(s)

\* The first fragments of a region are in use, each by a session.
RegionOK(t) ==
    /\ \E n \in 0..Capacity[t] : state[t] = 0..(n - 1)
    /\ \A i \in state[t] : \E s \in Sessions : type[s] = t /\ \E j \in 1..Len(got[s]) : got[s][j] = i
    /\ IsFiniteSet(Units(t)) /\ Cardinality(Units(t)) + avail[t] = Capacity[t]

RegionTypes ==
    /\ state \in [Types -> SUBSET Nat]
    /\ avail \in [Types -> Nat]
    /\ got \in [Sessions -> Seq(Nat)]
    /\ received = [s \in Sessions |-> received[s]]
    /\ body = [t \in Types |-> [i \in 0..Capacity[t] |-> body[t][i]]]

\* No two sessions have a fragment in common.
Apart ==
    \A s, r \in Sessions : s # r /\ type[s] = type[r] =>
        \A i \in 1..Len(got[s]), j \in 1..Len(got[r]) : got[s][i] # got[r][j]

\* The file holds what a session has written, if no other has written to the region, and a float what
\* it has computed.
BodyOK ==
    \A s \in Sessions :
        resource[s].size < Precision /\ (\A r \in Sessions \ {s} : type[r] = type[s] => received[r] = {})
            => \A c \in received[s] : body[type[s]][c] = <<s, c>>

RegionInv ==
    /\ RegionTypes
    /\ \A s \in Sessions : SessionOK(s)
    /\ \A t \in Types : RegionOK(t)
    /\ Apart
    /\ BodyOK

LEMMA FragmentsNumIsNat ==
  ASSUME CacheTypes, NEW s \in Sessions, type[s] \in Types
  PROVE  FragmentsNum(s) \in Nat /\ DataCapacity(type[s]) \in Nat \ {0} /\ resource[s].size \in Nat
BY CountIsNat DEF CacheTypes, FragmentsNum

\* Init: nothing is reserved.
LEMMA RegionInit == Init => RegionInv
<1> SUFFICES ASSUME Init PROVE RegionInv
  OBVIOUS
<1>1. /\ state = [t \in Types |-> {}] /\ avail = Capacity
      /\ body = [t \in Types |-> [i \in 0..Capacity[t] |-> Blank]]
      /\ pc = [s \in Sessions |-> "new"] /\ type = [s \in Sessions |-> FragmentDynamic]
      /\ got = [s \in Sessions |-> <<>>] /\ received = [s \in Sessions |-> {}]
  BY DEF Init
<1>2. \A t \in Types : Capacity[t] \in Nat /\ t # FragmentDynamic
  BY CacheShape
<1>3. Len(<<>>) = 0 /\ <<>> \in Seq(Nat)
  OBVIOUS
<1>4. RegionTypes
  <2>1. state \in [Types -> SUBSET Nat] /\ got \in [Sessions -> Seq(Nat)]
    BY <1>1, <1>3
  <2>2. avail \in [Types -> Nat]
    BY <1>1, CacheShape
  <2>3. received = [s \in Sessions |-> received[s]]
    BY <1>1
  <2>4. body = [t \in Types |-> [i \in 0..Capacity[t] |-> body[t][i]]]
    BY <1>1
  <2> QED
    BY <2>1, <2>2, <2>3, <2>4 DEF RegionTypes
<1>5. ASSUME NEW s \in Sessions PROVE SessionOK(s)
  BY <1>1, <1>3 DEF SessionOK, Early, Begun, Deciding, Rising
<1>6. ASSUME NEW t \in Types PROVE RegionOK(t)
  <2>1. Units(t) = {}
    BY <1>1, <1>2 DEF Units
  <2>2. IsFiniteSet({}) /\ Cardinality({}) = 0
    BY FS_EmptySet
  <2>3. 0 \in 0..Capacity[t] /\ state[t] = 0..(0 - 1)
    BY <1>1, <1>2
  <2>4. avail[t] = Capacity[t]
    BY <1>1
  <2> QED
    BY <1>1, <1>2, <2>1, <2>2, <2>3, <2>4 DEF RegionOK
<1>7. Apart /\ BodyOK
  BY <1>1, <1>3 DEF Apart, BodyOK
<1> QED
  BY <1>4, <1>5, <1>6, <1>7 DEF RegionInv

\* The two properties of a session that its place in the handler decides.
Moved(s, from, to) ==
    /\ to \in Early => from \in Early
    /\ to \in Early \cup {"debit"} => got[s] = <<>>
    /\ to \in Deciding \cup Begun => from \in Deciding \cup Begun
    /\ to \in {"acquire", "enter"} \cup Begun => from \in {"acquire", "enter"} \cup Begun
    /\ to \in {"enter"} \cup Begun => Len(got[s]) = FragmentsNum(s)
    /\ from \in Begun => to \in Begun
    /\ to # "acquire"
    /\ from = "acquire" => Len(got[s]) = FragmentsNum(s)

\* A session that goes from one place to another, and neither reserves nor writes.
LEMMA MovesRegion ==
  ASSUME CacheInv, RegionInv, NEW s \in Sessions, NEW from, NEW to, Goto(s, from, to), Moved(s, from, to),
         UNCHANGED <<state, avail, got, type, resource, received, body>>
  PROVE  RegionInv'
<1>1. pc[s] = from /\ pc \in [Sessions -> Stages] /\ pc' = [pc EXCEPT ![s] = to]
  BY DEF Goto, CacheInv, CacheTypes
<1>2. pc'[s] = to /\ \A r \in Sessions \ {s} : pc'[r] = pc[r]
  BY <1>1
<1>3. ASSUME NEW r \in Sessions PROVE FragmentsNum(r)' = FragmentsNum(r) /\ Chunks(r)' = Chunks(r)
  BY DEF FragmentsNum, Chunks
<1>4. RegionTypes'
  BY DEF RegionInv, RegionTypes
<1>5. ASSUME NEW r \in Sessions PROVE SessionOK(r)'
  <2>1. SessionOK(r)
    BY DEF RegionInv
  <2>2. Rising(got[r])'
    BY <2>1 DEF SessionOK, Rising
  <2>3. CASE r # s
    BY <1>2, <1>3, <2>1, <2>2, <2>3 DEF SessionOK
  <2>4. CASE r = s
    BY <1>1, <1>2, <1>3, <2>1, <2>2, <2>4 DEF SessionOK, Moved
  <2> QED
    BY <2>3, <2>4
<1>6. ASSUME NEW r \in Sessions PROVE UnitsOf(r)' = UnitsOf(r)
  <2>1. CASE r # s
    BY <1>2, <1>3, <2>1 DEF UnitsOf
  <2>2. CASE r = s
    BY <1>1, <1>2, <1>3, <2>2 DEF UnitsOf, Moved
  <2> QED
    BY <2>1, <2>2
<1>7. ASSUME NEW t \in Types PROVE RegionOK(t)'
  <2>1. Units(t)' = Units(t)
    BY <1>6 DEF Units
  <2> QED
    BY <2>1 DEF RegionInv, RegionOK
<1>8. Apart'
  BY DEF RegionInv, Apart
<1>9. BodyOK'
  BY DEF RegionInv, BodyOK
<1> QED
  BY <1>4, <1>5, <1>7, <1>8, <1>9 DEF RegionInv

LEMMA QueryRegionKeeps == ASSUME CacheInv, RegionInv, NEW s \in Sessions, QueryRegion(s) PROVE RegionInv'
<1>1. PICK t \in Chosen(s) : type' = [type EXCEPT ![s] = t]
  BY DEF QueryRegion
<1>2. resource[s].type \in Types \cup {FragmentDynamic}
  BY StoresAssumption DEF CacheInv, CacheTypes
<1>3. t \in Types
  BY <1>1, <1>2 DEF Chosen, GuessType
<1>4. /\ pc[s] = "stored" /\ pc' = [pc EXCEPT ![s] = "debit"]
      /\ UNCHANGED <<state, avail, got, resource, received, body>>
  BY DEF QueryRegion, Goto, regions
<1>5. /\ pc'[s] = "debit" /\ type'[s] = t
      /\ \A r \in Sessions \ {s} : pc'[r] = pc[r] /\ type'[r] = type[r]
  BY <1>1, <1>4 DEF CacheInv, CacheTypes
<1>6. SessionOK(s) /\ got[s] = <<>> /\ received[s] = {} /\ type[s] = FragmentDynamic /\ Len(got[s]) = 0
  <2>1. SessionOK(s) /\ Len(<<>>) = 0
    BY DEF RegionInv
  <2> QED
    BY <1>4, <2>1 DEF SessionOK, Early, Begun
<1>7. ASSUME NEW r \in Sessions \ {s} PROVE FragmentsNum(r)' = FragmentsNum(r) /\ Chunks(r)' = Chunks(r)
  BY <1>4, <1>5 DEF FragmentsNum, Chunks
<1>8. RegionTypes'
  BY <1>4 DEF RegionInv, RegionTypes
<1>9. ASSUME NEW r \in Sessions PROVE SessionOK(r)'
  <2>1. SessionOK(r)
    BY DEF RegionInv
  <2>2. Rising(got[r])'
    BY <1>4, <2>1 DEF SessionOK, Rising
  <2>3. CASE r # s
    BY <1>4, <1>5, <1>7, <2>1, <2>2, <2>3 DEF SessionOK
  <2>4. CASE r = s
    <3>1. FragmentsNum(s)' \in Nat
      <4>1. FragmentsNum(s)' = fragments_num[resource[s].size][t]
        BY <1>4, <1>5 DEF FragmentsNum
      <4> QED
        BY <1>3, <4>1, CountIsNat DEF CacheInv, CacheTypes
    <3> QED
      BY <1>3, <1>4, <1>5, <1>6, <2>2, <2>4, <3>1 DEF SessionOK, Early, Begun, Deciding
  <2> QED
    BY <2>3, <2>4
<1>10. ASSUME NEW u \in Types PROVE RegionOK(u)'
  <2>1. \A r \in Sessions \ {s} : UnitsOf(r)' = UnitsOf(r)
    BY <1>4, <1>5, <1>7 DEF UnitsOf
  <2>2. UnitsOf(s)' = {} /\ UnitsOf(s) = {}
    BY <1>4, <1>5, <1>6 DEF UnitsOf
  <2>3. Units(u)' = Units(u)
    BY <1>5, <2>1, <2>2 DEF Units
  <2>4. RegionOK(u)
    BY DEF RegionInv
  <2>5. ASSUME NEW i \in state[u] PROVE \E r \in Sessions : type'[r] = u /\ \E j \in 1..Len(got[r]) : got[r][j] = i
    <3>1. PICK r \in Sessions : type[r] = u /\ \E j \in 1..Len(got[r]) : got[r][j] = i
      BY <2>4 DEF RegionOK
    <3>2. r # s
      BY <1>6, <3>1
    <3> QED
      BY <1>5, <3>1, <3>2
  <2> QED
    BY <1>4, <2>3, <2>4, <2>5 DEF RegionOK
<1>11. Apart'
  BY <1>4, <1>5, <1>6 DEF RegionInv, Apart
<1>12. BodyOK'
  <2> SUFFICES ASSUME NEW r \in Sessions, \A q \in Sessions \ {r} : type'[q] = type'[r] => received[q] = {},
                      NEW c \in received[r], resource[r].size < Precision
               PROVE  body[type'[r]][c] = <<r, c>>
    BY <1>4 DEF BodyOK
  <2>1. r # s
    BY <1>6
  <2>2. \A q \in Sessions \ {r} : type[q] = type[r] => received[q] = {}
    BY <1>5, <1>6, <2>1
  <2> QED
    BY <1>5, <2>1, <2>2 DEF RegionInv, BodyOK
<1> QED
  BY <1>8, <1>9, <1>10, <1>11, <1>12 DEF RegionInv

LEMMA UnitsCounted ==
  ASSUME NEW s, NEW n \in Nat
  PROVE  LET given == {<<s, i>> : i \in 1..n} IN IsFiniteSet(given) /\ Cardinality(given) = n
<1> DEFINE given == {<<s, i>> : i \in 1..n}
           f == [i \in 1..n |-> <<s, i>>]
<1>1. f \in Surjection(1..n, given) /\ f \in Injection(1..n, given)
  BY DEF Surjection, Injection, IsInjective
<1>2. IsFiniteSet(1..n) /\ Cardinality(1..n) = n
  BY FS_Interval
<1> HIDE DEF given, f
<1>3. IsFiniteSet(given) /\ (Cardinality(given) = Cardinality(1..n) <=> f \in Injection(1..n, given))
  BY <1>1, <1>2, FS_Surjection
<1> QED
  BY <1>1, <1>2, <1>3 DEF given

\* The counter gives the fragments to the session before it has them.
LEMMA DebitKeeps == ASSUME CacheInv, RegionInv, NEW s \in Sessions, Debit(s) PROVE RegionInv'
<1> DEFINE t == type[s]
           F == FragmentsNum(s)
<1>1. /\ pc[s] = "debit" /\ pc' = [pc EXCEPT ![s] = "acquire"] /\ pc \in [Sessions -> Stages]
      /\ avail[t] >= F /\ avail' = [avail EXCEPT ![t] = @ - F] /\ got' = [got EXCEPT ![s] = <<>>]
      /\ UNCHANGED <<state, type, resource, received, body>>
  BY DEF Debit, Goto, CacheInv, CacheTypes
<1>2. t \in Types /\ F \in Nat
  <2>1. t \in Types /\ CacheTypes
    BY <1>1 DEF CacheInv, CacheTypes, Deciding
  <2> QED
    BY <2>1, FragmentsNumIsNat
<1>3. pc'[s] = "acquire" /\ \A r \in Sessions \ {s} : pc'[r] = pc[r]
  BY <1>1
<1>4. SessionOK(s) /\ got[s] = <<>> /\ Len(got[s]) = 0 /\ got \in [Sessions -> Seq(Nat)] /\ avail \in [Types -> Nat]
  <2>1. SessionOK(s) /\ Len(<<>>) = 0
    BY DEF RegionInv
  <2> QED
    BY <1>1, <2>1 DEF SessionOK, RegionInv, RegionTypes
<1>5. got' = got
  BY <1>1, <1>4
<1>6. ASSUME NEW r \in Sessions PROVE FragmentsNum(r)' = FragmentsNum(r) /\ Chunks(r)' = Chunks(r)
  BY <1>1 DEF FragmentsNum, Chunks
<1>7. avail'[t] = avail[t] - F /\ avail' \in [Types -> Nat] /\ \A u \in Types \ {t} : avail'[u] = avail[u]
  <2> HIDE DEF F, t
  <2> QED
    BY <1>1, <1>2, <1>4
<1>8. RegionTypes'
  BY <1>1, <1>5, <1>7 DEF RegionInv, RegionTypes
<1>9. UnitsOf(s) = {} /\ UnitsOf(s)' = {<<s, i>> : i \in 1..F} /\ \A r \in Sessions \ {s} : UnitsOf(r)' = UnitsOf(r)
  <2>1. \A r \in Sessions \ {s} : UnitsOf(r)' = UnitsOf(r)
    BY <1>3, <1>5, <1>6 DEF UnitsOf
  <2> QED
    BY <1>1, <1>3, <1>4, <1>6, <2>1 DEF UnitsOf
<1>10. F <= Capacity[t]
  <2>1. RegionOK(t) /\ Capacity[t] \in Nat
    BY <1>2, CacheShape DEF RegionInv
  <2>2. Cardinality(Units(t)) \in Nat /\ Cardinality(Units(t)) + avail[t] = Capacity[t]
    BY <2>1, FS_CardinalityType DEF RegionOK
  <2> QED
    BY <1>1, <1>2, <1>4, <2>1, <2>2
<1>11. ASSUME NEW r \in Sessions PROVE SessionOK(r)'
  <2>1. SessionOK(r)
    BY DEF RegionInv
  <2>2. Rising(got[r])'
    BY <1>5, <2>1 DEF SessionOK, Rising
  <2>3. CASE r # s
    BY <1>1, <1>3, <1>5, <1>6, <2>1, <2>2, <2>3 DEF SessionOK
  <2>4. CASE r = s
    BY <1>1, <1>2, <1>3, <1>4, <1>5, <1>6, <1>10, <2>2, <2>4 DEF SessionOK, Early, Begun, Deciding
  <2> QED
    BY <2>3, <2>4
<1>12. ASSUME NEW u \in Types PROVE RegionOK(u)'
  <2>1. RegionOK(u)
    BY DEF RegionInv
  <2>2. CASE u # t
    <3>1. Units(u)' = Units(u)
      BY <1>1, <1>9, <2>2 DEF Units
    <3> QED
      BY <1>1, <1>5, <1>7, <2>1, <2>2, <3>1 DEF RegionOK
  <2>3. CASE u = t
    <3> DEFINE given == {<<s, i>> : i \in 1..F}
    <3>1. Units(t)' = Units(t) \cup given
      BY <1>1, <1>9 DEF Units
    <3>2. Units(t) \cap given = {}
      BY <1>9 DEF Units, UnitsOf
    <3>3. IsFiniteSet(given) /\ Cardinality(given) = F
      BY <1>2, UnitsCounted
    <3> DEFINE before == Units(t)
    <3>4. IsFiniteSet(before) /\ Cardinality(before) + avail[t] = Capacity[t] /\ Capacity[t] \in Nat
      BY <1>2, <2>1, <2>3, CacheShape DEF RegionOK
    <3>5. Units(t)' = before \cup given /\ before \cap given = {}
      BY <3>1, <3>2
    <3> HIDE DEF given, before
    <3>6. IsFiniteSet(before \cup given) /\ Cardinality(before \cup given) = Cardinality(before) + Cardinality(given)
      <4>1. /\ IsFiniteSet(before \cup given)
            /\ Cardinality(before \cup given)
                 = Cardinality(before) + Cardinality(given) - Cardinality(before \cap given)
        BY <3>3, <3>4, FS_Union
      <4>2. Cardinality(before \cap given) = 0 /\ Cardinality(before) \in Nat
        BY <3>4, <3>5, FS_EmptySet, FS_CardinalityType
      <4> QED
        BY <1>2, <3>3, <4>1, <4>2
    <3>7. Cardinality(before) \in Nat
      BY <3>4, FS_CardinalityType
    <3>8. IsFiniteSet(Units(t)') /\ Cardinality(Units(t)') + avail'[t] = Capacity[t]
      <4>1. avail[t] \in Nat
        BY <1>2, <1>4
      <4> HIDE DEF F, t
      <4> QED
        BY <1>2, <1>7, <3>3, <3>4, <3>5, <3>6, <3>7, <4>1
    <3> QED
      BY <1>1, <1>5, <2>1, <2>3, <3>8 DEF RegionOK
  <2> QED
    BY <2>2, <2>3
<1>13. Apart'
  BY <1>1, <1>5 DEF RegionInv, Apart
<1>14. BodyOK'
  BY <1>1 DEF RegionInv, BodyOK
<1> QED
  BY <1>8, <1>11, <1>12, <1>13, <1>14 DEF RegionInv

\* A session that was promised a fragment finds a free one: the fragments that are in use are fewer than
\* those that were promised.
LEMMA FindsFree ==
  ASSUME CacheTypes, RegionInv, NEW s \in Sessions, NEW t \in Types, type[s] = t, pc[s] = "acquire",
         FragmentsNum(s) \in Nat, Len(got[s]) < FragmentsNum(s)
  PROVE  \E n \in 0..(Capacity[t] - 1) : state[t] = 0..(n - 1) /\ LowestFree(t) = n
<1>1. RegionOK(t) /\ Capacity[t] \in Nat /\ avail[t] \in Nat /\ got \in [Sessions -> Seq(Nat)]
  BY CacheShape DEF RegionInv, RegionTypes
<1>2. PICK n \in 0..Capacity[t] : state[t] = 0..(n - 1)
  BY <1>1 DEF RegionOK
<1> DEFINE F == FragmentsNum(s)
           units == Units(t)
           used == {u \in units : u[2] <= Len(got[u[1]])}
           f == [u \in used |-> got[u[1]][u[2]]]
<1>3. IsFiniteSet(units) /\ Cardinality(units) + avail[t] = Capacity[t]
  BY <1>1 DEF RegionOK
<1>4. \A u \in units : \E r \in Sessions :
        type[r] = t /\ \E i \in 1..(IF pc[r] = "acquire" THEN FragmentsNum(r) ELSE Len(got[r])) : u = <<r, i>>
  BY DEF Units, UnitsOf
<1>5. ASSUME NEW u \in used PROVE f[u] \in state[t]
  <2>1. PICK r \in Sessions :
          type[r] = t /\ \E i \in 1..(IF pc[r] = "acquire" THEN FragmentsNum(r) ELSE Len(got[r])) : u = <<r, i>>
    BY <1>4
  <2>2. PICK i \in 1..(IF pc[r] = "acquire" THEN FragmentsNum(r) ELSE Len(got[r])) : u = <<r, i>>
    BY <2>1
  <2>3. Len(got[r]) \in Nat /\ SessionOK(r)
    BY <1>1 DEF RegionInv
  <2>4. i \in 1..Len(got[r])
    BY <2>2, <2>3
  <2> QED
    BY <2>1, <2>2, <2>3, <2>4 DEF SessionOK
<1>6. ASSUME NEW i \in state[t] PROVE \E u \in used : f[u] = i
  <2>1. PICK r \in Sessions : type[r] = t /\ \E j \in 1..Len(got[r]) : got[r][j] = i
    BY <1>1 DEF RegionOK
  <2>2. PICK j \in 1..Len(got[r]) : got[r][j] = i
    BY <2>1
  <2>3. SessionOK(r) /\ Len(got[r]) \in Nat
    BY <1>1 DEF RegionInv
  <2>4. <<r, j>> \in UnitsOf(r)
    <3>1. CASE pc[r] # "acquire"
      BY <2>2, <3>1 DEF UnitsOf
    <3>2. CASE pc[r] = "acquire"
      <4>1. Len(got[r]) <= FragmentsNum(r) /\ FragmentsNum(r) \in Nat
        BY <2>1, <2>3, <3>2, FragmentsNumIsNat DEF SessionOK, Deciding
      <4> QED
        BY <2>2, <2>3, <3>2, <4>1 DEF UnitsOf
    <3> QED
      BY <3>1, <3>2
  <2>5. <<r, j>> \in used
    BY <2>1, <2>2, <2>3, <2>4 DEF Units
  <2> QED
    BY <2>2, <2>5
<1>7. f \in Surjection(used, state[t])
  BY <1>5, <1>6 DEF Surjection
<1>8. <<s, F>> \in units /\ <<s, F>> \notin used
  <2>1. Len(got[s]) \in Nat
    BY <1>1
  <2>2. F \in 1..F
    BY <2>1
  <2>3. <<s, F>> \in UnitsOf(s)
    BY <2>2 DEF UnitsOf
  <2> QED
    BY <2>1, <2>3 DEF Units
<1>9. used \in SUBSET units
  OBVIOUS
<1> HIDE DEF units, used, f, F
<1>10. /\ IsFiniteSet(used) /\ Cardinality(used) <= Cardinality(units)
       /\ Cardinality(units) = Cardinality(used) => units = used
  BY <1>3, <1>9, FS_Subset
<1>11. Cardinality(state[t]) <= Cardinality(used)
  BY <1>7, <1>10, FS_Surjection
<1>12. Cardinality(units) \in Nat /\ Cardinality(used) \in Nat
  BY <1>3, <1>10, FS_CardinalityType
<1>13. Cardinality(used) # Cardinality(units)
  BY <1>8, <1>10
<1>14. Cardinality(0..(n - 1)) = n
  BY FS_Interval
<1>15. n < Capacity[t]
  BY <1>1, <1>2, <1>3, <1>10, <1>11, <1>12, <1>13, <1>14
<1>16. LowestFree(t) = n
  <2> DEFINE Lowest(i) == i \notin state[t] /\ \A j \in 0..(i - 1) : j \in state[t]
  <2>1. n \in 0..(Capacity[t] - 1) /\ Lowest(n)
    BY <1>1, <1>2, <1>15
  <2>2. ASSUME NEW i \in 0..(Capacity[t] - 1), Lowest(i) PROVE i = n
    <3>1. i \notin 0..(n - 1)
      BY <1>2, <2>2
    <3>2. n \notin 0..(i - 1)
      <4>1. n \notin state[t]
        BY <1>2
      <4> QED
        BY <2>2, <4>1
    <3>3. i \in Nat /\ n \in Nat
      BY <1>1
    <3> QED
      BY <3>1, <3>2, <3>3
  <2>3. LowestFree(t) = CHOOSE i \in 0..(Capacity[t] - 1) : Lowest(i)
    BY DEF LowestFree
  <2> HIDE DEF Lowest
  <2> QED
    BY <2>1, <2>2, <2>3
<1> QED
  BY <1>1, <1>2, <1>15, <1>16

LEMMA AcquireKeeps == ASSUME CacheInv, RegionInv, NEW s \in Sessions, Acquire(s) PROVE RegionInv'
<1>1. PICK t \in Types : t = type[s]
  BY DEF Acquire, CacheInv, CacheTypes, Deciding
<1>2. FragmentsNum(s) \in Nat /\ Len(got[s]) < FragmentsNum(s) /\ pc[s] = "acquire"
  BY <1>1, FragmentsNumIsNat DEF Acquire, CacheInv
<1>3. PICK n \in 0..(Capacity[t] - 1) : state[t] = 0..(n - 1) /\ LowestFree(t) = n
  BY <1>1, <1>2, FindsFree DEF CacheInv
<1>4. Capacity[t] \in Nat
  BY CacheShape
<1>5. /\ state' = [state EXCEPT ![t] = @ \cup {n}] /\ got' = [got EXCEPT ![s] = Append(@, n)]
      /\ UNCHANGED <<avail, pc, type, resource, received, body>>
  BY <1>1, <1>3 DEF Acquire
<1>6. state \in [Types -> SUBSET Nat] /\ got \in [Sessions -> Seq(Nat)]
  BY DEF RegionInv, RegionTypes
<1>7. state' \in [Types -> SUBSET Nat] /\ state'[t] = 0..n /\ \A u \in Types \ {t} : state'[u] = state[u]
  BY <1>3, <1>4, <1>5, <1>6
<1>8. /\ got' \in [Sessions -> Seq(Nat)] /\ \A r \in Sessions \ {s} : got'[r] = got[r]
      /\ Len(got'[s]) = Len(got[s]) + 1 /\ got'[s][Len(got[s]) + 1] = n
      /\ \A i \in 1..Len(got[s]) : got'[s][i] = got[s][i]
  BY <1>3, <1>5, <1>6
<1>9. ASSUME NEW r \in Sessions PROVE FragmentsNum(r)' = FragmentsNum(r) /\ Chunks(r)' = Chunks(r)
  BY <1>5 DEF FragmentsNum, Chunks
<1>10. RegionTypes'
  BY <1>5, <1>7, <1>8 DEF RegionInv, RegionTypes
<1>11. \A r \in Sessions : SessionOK(r) /\ Len(got[r]) \in Nat
  BY <1>6 DEF RegionInv
<1>12. \A i \in 1..Len(got[s]) : got[s][i] \in 0..(n - 1)
  BY <1>1, <1>3, <1>11 DEF SessionOK
<1>13. \A i \in 1..Len(got'[s]) : i \in 1..Len(got[s]) \/ i = Len(got[s]) + 1
  BY <1>8, <1>11
<1>14. ASSUME NEW r \in Sessions PROVE SessionOK(r)'
  <2>1. CASE r # s
    <3>1. Rising(got[r])'
      BY <1>8, <1>11, <2>1 DEF SessionOK, Rising
    <3>2. \A i \in 1..Len(got[r]) : got[r][i] \in state'[type[r]]
      <4> SUFFICES ASSUME NEW i \in 1..Len(got[r]) PROVE got[r][i] \in state'[type[r]]
        OBVIOUS
      <4>1. got[r][i] \in state[type[r]] /\ got[r] # <<>>
        <5>1. Len(<<>>) = 0
          OBVIOUS
        <5> QED
          BY <1>11, <5>1 DEF SessionOK
      <4>2. type[r] \in Types
        BY <1>11, <4>1 DEF SessionOK
      <4> QED
        BY <1>3, <1>7, <4>1, <4>2
    <3> QED
      BY <1>5, <1>8, <1>9, <1>11, <2>1, <3>1, <3>2 DEF SessionOK
  <2>2. CASE r = s
    <3>1. Rising(got[s])'
      <4> SUFFICES ASSUME NEW i \in 1..Len(got'[s]), NEW j \in 1..Len(got'[s]), i < j
                   PROVE  got'[s][i] < got'[s][j]
        BY DEF Rising
      <4>1. i \in 1..Len(got[s])
        BY <1>8, <1>11
      <4>2. CASE j \in 1..Len(got[s])
        BY <1>8, <1>11, <4>1, <4>2 DEF SessionOK, Rising
      <4>3. CASE j = Len(got[s]) + 1
        <5>1. got'[s][i] = got[s][i] /\ got'[s][j] = n
          BY <1>8, <4>1, <4>3
        <5>2. got[s][i] \in 0..(n - 1)
          BY <1>3, <1>12, <4>1
        <5>3. \A m \in 0..(n - 1) : m < n
          BY <1>3, <1>4
        <5> QED
          BY <5>1, <5>2, <5>3, Zenon
      <4> QED
        BY <1>13, <4>2, <4>3
    <3>2. ASSUME NEW i \in 1..Len(got'[s]) PROVE got'[s][i] \in state'[t]
      <4>1. CASE i \in 1..Len(got[s])
        BY SMTT(30), <1>3, <1>7, <1>8, <1>12, <4>1
      <4>2. CASE i = Len(got[s]) + 1
        BY <1>3, <1>7, <1>8, <4>2
      <4> QED
        BY <1>13, <4>1, <4>2
    <3>3. Len(got'[s]) <= FragmentsNum(s) /\ got'[s] # <<>> /\ SessionOK(s)
      <4>1. Len(<<>>) = 0
        OBVIOUS
      <4> QED
        BY <1>2, <1>8, <1>11, <4>1
    <3> QED
      BY <1>1, <1>2, <1>5, <1>9, <2>2, <3>1, <3>2, <3>3 DEF SessionOK, Early, Begun, Deciding
  <2> QED
    BY <2>1, <2>2
<1>15. ASSUME NEW u \in Types PROVE RegionOK(u)'
  <2>1. \A r \in Sessions : UnitsOf(r)' = UnitsOf(r)
    BY <1>2, <1>5, <1>8, <1>9 DEF UnitsOf
  <2>2. Units(u)' = Units(u)
    BY <1>5, <2>1 DEF Units
  <2>3. RegionOK(u)
    BY DEF RegionInv
  <2>4. \E m \in 0..Capacity[u] : state'[u] = 0..(m - 1)
    <3>1. CASE u = t
      <4>1. n + 1 \in 0..Capacity[t] /\ state'[t] = 0..((n + 1) - 1)
        BY <1>3, <1>4, <1>7
      <4> QED
        BY <3>1, <4>1
    <3>2. CASE u # t
      BY <1>7, <2>3, <3>2 DEF RegionOK
    <3> QED
      BY <3>1, <3>2
  <2>5. ASSUME NEW i \in state'[u] PROVE \E r \in Sessions : type[r] = u /\ \E j \in 1..Len(got'[r]) : got'[r][j] = i
    <3>1. CASE u = t /\ i = n
      BY <1>1, <1>8, <1>11, <3>1
    <3>2. CASE i \in state[u]
      <4>1. PICK r \in Sessions : type[r] = u /\ \E j \in 1..Len(got[r]) : got[r][j] = i
        BY <2>3, <3>2 DEF RegionOK
      <4>2. PICK j \in 1..Len(got[r]) : got[r][j] = i
        BY <4>1
      <4>3. j \in 1..Len(got'[r]) /\ got'[r][j] = i
        BY SMTT(30), <1>8, <1>11, <4>2
      <4> QED
        BY <4>1, <4>3
    <3>3. (u = t /\ i = n) \/ i \in state[u]
      BY <1>3, <1>7, <2>5
    <3> QED
      BY <3>1, <3>2, <3>3
  <2> QED
    BY ZenonT(30), <1>5, <2>2, <2>3, <2>4, <2>5 DEF RegionOK
<1>16. Apart'
  <2> SUFFICES ASSUME NEW q \in Sessions, NEW r \in Sessions, q # r, type[q] = type[r],
                      NEW i \in 1..Len(got'[q]), NEW j \in 1..Len(got'[r])
               PROVE  got'[q][i] # got'[r][j]
    BY <1>5 DEF Apart
  <2>1. ASSUME NEW p \in Sessions \ {s}, type[p] = t, NEW m \in 1..Len(got'[p])
        PROVE  m \in 1..Len(got[p]) /\ got'[p][m] = got[p][m] /\ got[p][m] \in 0..(n - 1) /\ got[p][m] # n
    <3>1. got'[p] = got[p] /\ SessionOK(p)
      BY <1>8, <1>11
    <3>2. got[p][m] \in 0..(n - 1)
      BY <1>3, <2>1, <3>1 DEF SessionOK
    <3> QED
      BY <1>3, <1>4, <3>1, <3>2
  <2>2. \A m \in 1..Len(got[q]), l \in 1..Len(got[r]) : got[q][m] # got[r][l]
    <3>1. Apart
      BY DEF RegionInv
    <3> QED
      BY <3>1, Zenon DEF Apart
  <2>3. CASE q # s /\ r # s
    <3>1. got'[q] = got[q] /\ got'[r] = got[r]
      BY <1>8, <2>3
    <3> QED
      BY <2>2, <3>1, Zenon
  <2>4. CASE q = s
    <3>1. j \in 1..Len(got[r]) /\ got'[r][j] = got[r][j] /\ got[r][j] # n
      BY <1>1, <2>1, <2>4
    <3>2. CASE i \in 1..Len(got[s])
      BY <1>8, <2>2, <2>4, <3>1, <3>2
    <3>3. CASE i = Len(got[s]) + 1
      BY <1>8, <2>4, <3>1, <3>3
    <3> QED
      BY <1>13, <2>4, <3>2, <3>3
  <2>5. CASE r = s
    <3>1. i \in 1..Len(got[q]) /\ got'[q][i] = got[q][i] /\ got[q][i] # n
      BY <1>1, <2>1, <2>5
    <3>2. CASE j \in 1..Len(got[s])
      BY SMTT(30), <1>8, <2>2, <2>5, <3>1, <3>2
    <3>3. CASE j = Len(got[s]) + 1
      BY <1>8, <2>5, <3>1, <3>3
    <3> QED
      BY <1>13, <2>5, <3>2, <3>3
  <2> QED
    BY <2>3, <2>4, <2>5
<1>17. BodyOK'
  BY <1>5 DEF RegionInv, BodyOK
<1> QED
  BY <1>10, <1>14, <1>15, <1>16, <1>17 DEF RegionInv

\* A chunk of an object below Precision goes to the fragment of its number.
LEMMA ChunkGoes ==
  ASSUME CacheTypes, NEW s \in Sessions, type[s] \in Types, resource[s].size < Precision, NEW c \in Chunks(s)
  PROVE  FragmentIndex(c * DataCapacity(type[s]), type[s]) = c
<1>1. PICK d \in Nat \ {0}, size \in Nat :
        d = DataCapacity(type[s]) /\ size = resource[s].size /\ d < Precision /\ size < Precision
  BY CountIsNat DEF CacheTypes
<1>2. PICK q \in Nat, r \in 0..(d - 1) : size = d * q + r
  BY Division
<1>3. CeilDiv(size, d) = IF r = 0 THEN q ELSE q + 1
  BY <1>2, CeilDivIs
<1>4. c \in Nat /\ c <= q /\ (r = 0 => c < q)
  BY <1>1, <1>3 DEF Chunks
<1>5. PICK e \in Nat : q = c + e
  <2>1. q - c \in Nat /\ q = c + (q - c)
    BY <1>4
  <2> QED
    BY <2>1
<1>6. PICK y \in Nat, z \in Nat : y = d * c /\ z = d * e
  <2>1. d * c \in Nat /\ d * e \in Nat
    BY <1>4, SMT
  <2> QED
    BY <2>1
<1>7. d * q = y + z
  BY <1>4, <1>5, <1>6, SMT
<1>8. Precision \in Nat /\ y < Precision
  <2>1. Precision \in Nat
    BY FloatShape
  <2> QED
    BY <1>1, <1>2, <1>6, <1>7, <2>1
<1>9. c * d = y
  BY <1>4, <1>6, SMT
<1>10. Ceil(Quotient(y, d)) = CeilDiv(y, d)
  BY <1>1, <1>8, QuotientIsExact
<1>11. CeilDiv(d * c + 0, d) = c /\ d * c + 0 = y
  <2>1. 0 \in 0..(d - 1) /\ d * c + 0 = y
    BY <1>6
  <2> QED
    BY <1>4, <2>1, CeilDivIs
<1> QED
  BY <1>1, <1>9, <1>10, <1>11 DEF FragmentIndex

LEMMA DataKeeps == ASSUME CacheInv, RegionInv, NEW s \in Sessions, Data(s) PROVE RegionInv'
<1>1. PICK t \in Types : t = type[s]
  BY DEF Data, RegionInv, SessionOK, Begun
<1>2. FragmentsNum(s) \in Nat /\ pc[s] = "started" /\ FragmentsNum(s) <= Capacity[t] /\ Capacity[t] \in Nat
  <2>1. pc[s] = "started" /\ SessionOK(s)
    BY DEF Data, RegionInv
  <2> QED
    BY <1>1, <2>1, CacheShape, FragmentsNumIsNat DEF SessionOK, Begun, CacheInv
<1>3. PICK c \in Chunks(s) :
        /\ body' = [body EXCEPT ![t][FragmentIndex(c * DataCapacity(t), t)] = <<s, c>>]
        /\ received' = [received EXCEPT ![s] = @ \cup {c}]
        /\ FragmentIndex(c * DataCapacity(t), t) <= Capacity[t]
  BY <1>1 DEF Data
<1>4. PICK index : index = FragmentIndex(c * DataCapacity(t), t)
  OBVIOUS
<1>5. body' = [body EXCEPT ![t][index] = <<s, c>>]
  BY <1>3, <1>4
<1>6. UNCHANGED <<state, avail, got, pc, type, resource>>
  BY DEF Data, regions
<1>7. ASSUME NEW r \in Sessions PROVE FragmentsNum(r)' = FragmentsNum(r) /\ Chunks(r)' = Chunks(r)
  BY <1>6 DEF FragmentsNum, Chunks
<1>8. /\ received' = [r \in Sessions |-> received'[r]] /\ received'[s] = received[s] \cup {c}
      /\ \A r \in Sessions \ {s} : received'[r] = received[r]
  <2>1. received = [r \in Sessions |-> received[r]]
    BY DEF RegionInv, RegionTypes
  <2> QED
    BY <1>3, <2>1
<1>9. body = [u \in Types |-> [i \in 0..Capacity[u] |-> body[u][i]]]
  BY DEF RegionInv, RegionTypes
<1>10. DOMAIN body = Types /\ \A u \in Types : DOMAIN body[u] = 0..Capacity[u]
  <2>1. PICK old : old = [u \in Types |-> [i \in 0..Capacity[u] |-> body[u][i]]]
    OBVIOUS
  <2>2. body = old
    BY <1>9, <2>1
  <2>3. DOMAIN old = Types /\ \A u \in Types : old[u] = [i \in 0..Capacity[u] |-> body[u][i]]
    BY <2>1
  <2> QED
    BY <2>2, <2>3
<1>11. /\ DOMAIN body' = Types /\ (\A u \in Types \ {t} : body'[u] = body[u])
       /\ body'[t] = [body[t] EXCEPT ![index] = <<s, c>>]
  BY <1>5, <1>10
<1>12. /\ DOMAIN body'[t] = 0..Capacity[t] /\ (index \in 0..Capacity[t] => body'[t][index] = <<s, c>>)
       /\ \A i \in 0..Capacity[t] : i # index => body'[t][i] = body[t][i]
  BY <1>10, <1>11
<1>13. body' = [u \in Types |-> [i \in 0..Capacity[u] |-> body'[u][i]]]
  <2>1. ASSUME NEW u \in Types PROVE body'[u] = [i \in 0..Capacity[u] |-> body'[u][i]]
    <3>1. CASE u = t
      BY <1>11, <1>12, <3>1
    <3>2. CASE u # t
      BY <1>9, <1>11, <3>2
    <3> QED
      BY <3>1, <3>2
  <2>2. body' = [u \in Types |-> body'[u]]
    BY <1>5, <1>10
  <2> QED
    BY <2>1, <2>2
<1>14. RegionTypes'
  BY <1>6, <1>8, <1>13 DEF RegionInv, RegionTypes
<1>15. ASSUME NEW r \in Sessions PROVE SessionOK(r)'
  <2>1. SessionOK(r)
    BY DEF RegionInv
  <2>2. Rising(got[r])'
    BY <1>6, <2>1 DEF SessionOK, Rising
  <2>3. received'[r] # {} => pc[r] \in Begun /\ received'[r] \subseteq Chunks(r)
    <3>1. CASE r # s
      BY <1>8, <2>1, <3>1 DEF SessionOK
    <3>2. CASE r = s
      BY <1>2, <1>8, <2>1, <3>2 DEF SessionOK, Begun
    <3> QED
      BY <3>1, <3>2
  <2> QED
    BY <1>6, <1>7, <2>1, <2>2, <2>3 DEF SessionOK
<1>16. ASSUME NEW u \in Types PROVE RegionOK(u)'
  <2>1. \A r \in Sessions : UnitsOf(r)' = UnitsOf(r)
    BY <1>6, <1>7 DEF UnitsOf
  <2>2. Units(u)' = Units(u)
    BY <1>6, <2>1 DEF Units
  <2> QED
    BY <1>6, <2>2 DEF RegionInv, RegionOK
<1>17. Apart'
  BY <1>6 DEF RegionInv, Apart
<1>18. BodyOK'
  <2> SUFFICES ASSUME NEW q \in Sessions, \A r \in Sessions \ {q} : type[r] = type[q] => received'[r] = {},
                      NEW d \in received'[q], resource[q].size < Precision
               PROVE  body'[type[q]][d] = <<q, d>>
    BY <1>6 DEF BodyOK
  <2>1. \A r \in Sessions \ {q} : type[r] = type[q] => received[r] = {}
    BY <1>8
  <2>2. d \in received[q] => body[type[q]][d] = <<q, d>>
    BY <2>1 DEF RegionInv, BodyOK
  <2>3. CASE q = s
    <3>1. \A i \in Chunks(s) : i \in 0..Capacity[t]
      <4>1. PICK n \in Nat : n = FragmentsNum(s) /\ n = CeilDiv(resource[s].size, DataCapacity(t))
        BY <1>1, <1>2, <2>3, CountIsNat DEF FragmentsNum, CacheInv, CacheTypes
      <4> QED
        BY <1>1, <1>2, <4>1 DEF Chunks
    <3>2. index = c
      BY <1>1, <1>4, <2>3, ChunkGoes DEF CacheInv
    <3>3. CASE d = c
      BY <1>1, <1>12, <2>3, <3>1, <3>2, <3>3
    <3>4. CASE d # c
      <4>1. d \in received[s] /\ SessionOK(s)
        BY <1>8, <2>3, <3>4 DEF RegionInv
      <4>2. d \in 0..Capacity[t]
        BY <3>1, <4>1 DEF SessionOK
      <4> QED
        BY <1>1, <1>12, <2>2, <2>3, <3>2, <3>4, <4>1, <4>2
    <3> QED
      BY <3>3, <3>4
  <2>4. CASE q # s
    <3>1. d \in received[q] /\ received'[s] # {} /\ SessionOK(q)
      BY <1>8, <2>4 DEF RegionInv
    <3>2. type[q] # t /\ type[q] \in Types
      BY <1>1, <2>4, <3>1 DEF SessionOK, Begun
    <3> QED
      BY <1>11, <2>2, <3>1, <3>2
  <2> QED
    BY <2>3, <2>4
<1> QED
  BY <1>14, <1>15, <1>16, <1>17, <1>18 DEF RegionInv

\* The fragments of the sessions, in every state.
LEMMA RegionSteps == ASSUME CacheInv, RegionInv, [Next]_vars PROVE RegionInv'
<1> USE DEF regions
<1>1. CASE UNCHANGED vars
  <2>1. UNCHANGED <<state, avail, got, pc, type, resource, received, body>>
    BY <1>1 DEF vars
  <2>2. \A r \in Sessions : FragmentsNum(r)' = FragmentsNum(r) /\ Chunks(r)' = Chunks(r)
    BY <2>1 DEF FragmentsNum, Chunks
  <2>3. ASSUME NEW r \in Sessions PROVE SessionOK(r)' /\ UnitsOf(r)' = UnitsOf(r)
    <3>1. Rising(got[r])' <=> Rising(got[r])
      BY <2>1 DEF Rising
    <3> QED
      BY <2>1, <2>2, <3>1 DEF RegionInv, SessionOK, UnitsOf
  <2>4. ASSUME NEW u \in Types PROVE RegionOK(u)'
    <3>1. Units(u)' = Units(u)
      BY <2>1, <2>3 DEF Units
    <3> QED
      BY <2>1, <3>1 DEF RegionInv, RegionOK
  <2>5. RegionTypes'
    BY <2>1 DEF RegionInv, RegionTypes
  <2>6. Apart' /\ BodyOK'
    BY <2>1 DEF RegionInv, Apart, BodyOK
  <2> QED
    BY <2>3, <2>4, <2>5, <2>6 DEF RegionInv
<1> SUFFICES ASSUME NEW s \in Sessions, Register(s) \/ InitUnheard(s) \/ InitStep(s) \/ Data(s) \/ End(s)
             PROVE  RegionInv'
  BY <1>1 DEF Next
<1>2. SessionOK(s)
  BY DEF RegionInv
<1> USE DEF Moved, Early, Begun, Deciding
<1>3. CASE Register(s)
  <2>1. pc[s] = "new"
    BY <1>3 DEF Register, Goto
  <2> QED
    BY <1>2, <1>3, <2>1, MovesRegion DEF Register, SessionOK
<1>4. CASE InitUnheard(s)
  <2>1. pc[s] = "new"
    BY <1>4 DEF InitUnheard, Goto
  <2> QED
    BY <1>2, <1>4, <2>1, MovesRegion DEF InitUnheard, SessionOK
<1>5. CASE QueryRegion(s)
  BY <1>5, QueryRegionKeeps
<1>6. CASE NoSuitableType(s)
  BY <1>6, MovesRegion DEF NoSuitableType
<1>7. CASE Debit(s)
  BY <1>7, DebitKeeps
<1>8. CASE NotAvailable(s)
  BY <1>8, MovesRegion DEF NotAvailable
<1>9. CASE Acquire(s)
  BY <1>9, AcquireKeeps
<1>10. CASE WriteTime(s)
  BY <1>10, MovesRegion DEF WriteTime
<1>11. CASE TimesFull(s)
  BY <1>11, MovesRegion DEF TimesFull
<1>12. CASE Enter(s)
  <2>1. pc[s] = "enter"
    BY <1>12 DEF Enter, Goto
  <2>2. Len(got[s]) = FragmentsNum(s)
    BY <1>2, <2>1 DEF SessionOK
  <2> QED
    BY <1>12, <2>2, MovesRegion DEF Enter
<1>13. CASE EnterHalf(s)
  BY <1>13, MovesRegion DEF EnterHalf
<1>14. CASE EnterRefused(s)
  BY <1>14, MovesRegion DEF EnterRefused
<1>15. CASE FreeNone(s)
  <2>1. pc[s] = "free" /\ FragmentsNum(s) = 0
    BY <1>15 DEF FreeNone, Goto
  <2>2. got[s] = <<>>
    <3>1. Len(got[s]) <= 0 /\ got[s] \in Seq(Nat)
      BY <1>2, <2>1 DEF SessionOK, RegionInv, RegionTypes
    <3> QED
      BY <3>1
  <2> QED
    BY <1>15, <2>2, MovesRegion DEF FreeNone
<1>16. CASE NothingOldest(s)
  BY <1>16, MovesRegion DEF NothingOldest
<1>17. CASE FreeOldest(s)
  BY <1>17, MovesRegion DEF FreeOldest
<1>18. CASE Evict(s)
  BY <1>18, MovesRegion DEF Evict
<1>19. CASE Data(s)
  BY <1>19, DataKeeps
<1>20. CASE End(s)
  <2>1. pc[s] = "started"
    BY <1>20 DEF End, Goto
  <2>2. Len(got[s]) = FragmentsNum(s)
    BY <1>2, <2>1 DEF SessionOK
  <2> QED
    BY <1>20, <2>2, MovesRegion DEF End
<1>21. CASE EnterCrashes(s)
  BY <1>21, MovesRegion DEF EnterCrashes
<1> QED
  BY <1>3, <1>4, <1>5, <1>6, <1>7, <1>8, <1>9, <1>10, <1>11, <1>12, <1>13, <1>14, <1>15, <1>16, <1>17, <1>18,
     <1>19, <1>20, <1>21 DEF InitStep, Decide

\* DiskCache.h:104-170, 211-220, 239-266: in every state, no fragment is reserved twice, the counter of a region and
\* its bitmap agree once the reservations that have begun are added, and the file holds what a session has written
\* alone to a region.
THEOREM RegionInvHolds == Spec => []RegionInv
<1>1. CacheInv /\ RegionInv /\ [Next]_vars => RegionInv'
  BY RegionSteps
<1> QED
  BY <1>1, RegionInit, CacheInvHolds, PTL DEF Spec

-----------------------------------------------------------------------------
(* The chains of the objects.                                              *)

\* An entry is of a session that was to store its key.
TableOK ==
    \A k \in DOMAIN table :
        /\ k \in Keys /\ table[k].session \in Sessions
        /\ resource[table[k].session].key = k /\ type[table[k].session] = table[k].type

\* The objects that have jumps of their own.
Own == {k \in DOMAIN table : OwnJumps(k)}
JumpsOf(k) == Jumps(got[table[k].session], table[k].type)

ChainOK(k, c) ==
    /\ Linked(c, jump_head[k], next_jump)
    /\ \A n \in 1..Len(c) : c[n] \in taken
    /\ Holds(c, JumpsOf(k), jump_data)
    /\ evicted = 0 => Cleared(c, JumpsOf(k), jump_data)

Disjoint(c, d) == \A m \in 1..Len(c), n \in 1..Len(d) : c[m] # d[n]

\* As long as no foreign jumps were given back, every object with jumps has its chain, and no entry of it
\* is in another.
ChainsKept ==
    \E chains \in [Keys -> Seq(Entries)] :
        /\ \A k \in Own : ChainOK(k, chains[k])
        /\ \A k, l \in Own : k # l => Disjoint(chains[k], chains[l])

\* Before the first eviction, the entries that are not taken are cleared, and an object without jumps has none.
Fresh ==
    /\ \A e \in Entries \ taken : jump_data[e] = NullJumps
    /\ \A k \in Keys \ Own : jump_head[k] = NULL_INDEX

ChainTypes == JumpsTypes /\ jump_head \in [Keys -> Links] /\ taken \subseteq Entries /\ evicted \in Nat

ChainInv == TableOK /\ ChainTypes /\ (~misfreed => ChainsKept) /\ (evicted = 0 => Fresh)

LEMMA NullJumpsAreBlank == NullJumps \in BlockPlaces
BY ChainShape DEF NullJumps, BlockPlaces

LEMMA ChainInit == Init => ChainInv
<1> SUFFICES ASSUME Init PROVE ChainInv
  OBVIOUS
<1>1. /\ taken = {} /\ next_jump = [e \in Entries |-> NULL_INDEX] /\ jump_data = [e \in Entries |-> NullJumps]
      /\ jump_head = [k \in Keys |-> NULL_INDEX] /\ DOMAIN table = {} /\ evicted = 0
  BY DEF Init, JumpsInit, Entries
<1>2. NULL_INDEX \in Links
  BY ChainShape DEF NULL_INDEX, Links
<1>3. ChainTypes
  BY <1>1, <1>2, NullJumpsAreBlank DEF ChainTypes, JumpsTypes
<1>4. TableOK /\ Own = {}
  BY <1>1 DEF TableOK, Own
<1>5. ChainsKept
  <2>1. [k \in Keys |-> <<>>] \in [Keys -> Seq(Entries)]
    OBVIOUS
  <2> QED
    BY <1>4, <2>1 DEF ChainsKept
<1>6. Fresh
  BY <1>1 DEF Fresh
<1> QED
  BY <1>3, <1>4, <1>5, <1>6 DEF ChainInv

\* A step that leaves the table, the jumps and the sessions that have stored alone.
LEMMA ChainsStay ==
  ASSUME CacheInv, ChainInv,
         UNCHANGED <<table, jump_head, taken, next_jump, jump_data, resource, evicted, misfreed>>,
         \A s \in Sessions : /\ pc'[s] \in Begun <=> pc[s] \in Begun
                             /\ pc[s] \in Begun => got'[s] = got[s]
                             /\ type[s] \in Types => type'[s] = type[s]
  PROVE  ChainInv'
<1>1. TableOK'
  BY DEF ChainInv, TableOK, CacheInv, CacheTypes
<1>2. \A k \in DOMAIN table : table[k].session \in Sessions
  BY DEF ChainInv, TableOK
<1>3. Own' = Own
  <2>1. ASSUME NEW k \in DOMAIN table PROVE OwnJumps(k)' <=> OwnJumps(k)
    BY <1>2 DEF OwnJumps, Begun
  <2> QED
    BY <2>1 DEF Own
<1>4. ASSUME NEW k \in Own, NEW c, ChainOK(k, c) PROVE ChainOK(k, c)'
  <2>1. JumpsOf(k)' = JumpsOf(k)
    BY <1>2 DEF Own, OwnJumps, Begun, JumpsOf
  <2> QED
    BY <1>4, <2>1 DEF ChainOK
<1>5. ChainTypes'
  BY DEF ChainInv, ChainTypes, JumpsTypes
<1>6. ASSUME ChainsKept PROVE ChainsKept'
  <2>1. PICK chains \in [Keys -> Seq(Entries)] :
          /\ \A k \in Own : ChainOK(k, chains[k])
          /\ \A k, l \in Own : k # l => Disjoint(chains[k], chains[l])
    BY <1>6 DEF ChainsKept
  <2>2. \A k \in Own : ChainOK(k, chains[k])'
    BY <1>4, <2>1
  <2> QED
    BY <1>3, <2>1, <2>2 DEF ChainsKept
<1>7. Fresh => Fresh'
  BY <1>3 DEF Fresh
<1> QED
  BY <1>1, <1>5, <1>6, <1>7 DEF ChainInv

-----------------------------------------------------------------------------
(* store: the chain of an object with jumps.                               *)

\* StoreJumps links the entries that the scan found, fills those that the loop reaches, and leaves the others alone.
LEMMA ChainStored ==
  ASSUME ChainTypes, NEW jumps \in Seq(Nat \ {0}), jumps # <<>>, StoreJumps(jumps), ~TooShort(jumps)
  PROVE  LET chain == Found(ChainLength(jumps)) IN
         /\ chain \in Seq(Entries) /\ Len(chain) \in 1..(JumpCapacity - 1) /\ chain # <<>>
         /\ \A n \in 1..Len(chain) : chain[n] \notin taken
         /\ taken' = taken \cup {chain[n] : n \in 1..Len(chain)}
         /\ JumpsTypes'
         /\ Linked(chain, chain[1], next_jump')
         /\ Holds(chain, jumps, jump_data')
         /\ (\A e \in Entries \ taken : jump_data[e] = NullJumps) => Cleared(chain, jumps, jump_data')
         /\ \A e \in Entries : (\A n \in 1..Len(chain) : chain[n] # e)
                => next_jump'[e] = next_jump[e] /\ jump_data'[e] = jump_data[e]
<1> DEFINE count == ChainLength(jumps)
           chain == Found(count)
           W == Written(jumps)
           At(n, e) == n <= Len(chain) /\ chain[n] = e
<1>1. Len(jumps) \in Nat \ {0}
  OBVIOUS
<1>2. W \in Nat \ {0} /\ count \in Nat
  BY <1>1, ReachesAll
<1>3. /\ chain \in Seq(Entries) /\ Len(chain) <= count /\ Len(chain) <= JumpCapacity - 1
      /\ \A n \in 1..Len(chain) : chain[n] \notin taken
      /\ \A m, n \in 1..Len(chain) : m # n => chain[m] # chain[n]
  <2> HIDE DEF count
  <2> QED
    BY <1>2, FoundFacts
<1>4. Len(chain) >= W
  <2>1. ~(Len(chain) < W)
    BY DEF TooShort
  <2> HIDE DEF chain, W
  <2> QED
    BY <1>2, <1>3, <2>1
<1>5. Len(chain) \in Nat /\ Len(chain) >= 1 /\ chain # <<>>
  <2>1. Len(<<>>) = 0
    OBVIOUS
  <2> HIDE DEF chain, W
  <2> QED
    BY <1>4, <1>2, <1>3, <2>1
<1>6. ToSet(chain) = {chain[n] : n \in 1..Len(chain)} /\ Last(chain) = chain[Len(chain)]
  BY <1>3 DEF ToSet, Last
<1>7. DOMAIN next_jump = Entries /\ DOMAIN jump_data = Entries
  BY DEF ChainTypes, JumpsTypes
<1>8. /\ taken' = taken \cup ToSet(chain)
      /\ next_jump' = [e \in Entries |->
                        IF e \notin ToSet(chain) THEN next_jump[e]
                        ELSE IF e = Last(chain) THEN NULL_INDEX
                        ELSE CHOOSE f \in ToSet(chain) : \E n \in DOMAIN chain : At(n, e) /\ At(n + 1, f)]
      /\ jump_data' = [e \in Entries |->
                        IF \E n \in 1..W : At(n, e)
                        THEN Block(jumps, CHOOSE n \in 1..W : At(n, e))
                        ELSE jump_data[e]]
  <2>1. /\ taken' = taken \cup ToSet(chain)
        /\ next_jump' = [e \in DOMAIN next_jump |->
                        IF e \notin ToSet(chain) THEN next_jump[e]
                        ELSE IF e = Last(chain) THEN NULL_INDEX
                        ELSE CHOOSE f \in ToSet(chain) : \E n \in DOMAIN chain : At(n, e) /\ At(n + 1, f)]
        /\ jump_data' = [e \in DOMAIN jump_data |->
                        IF \E n \in 1..W : At(n, e)
                        THEN Block(jumps, CHOOSE n \in 1..W : At(n, e))
                        ELSE jump_data[e]]
    <3>1. StoreChain(jumps, chain)
      BY DEF StoreJumps
    <3> QED
      BY <3>1, Zenon DEF StoreChain
  <2> HIDE DEF chain, W, At
  <2> QED
    BY <1>7, <2>1, Zenon
<1>9. DOMAIN chain = 1..Len(chain)
  BY <1>3
<1> HIDE DEF At, W, chain, count
<1>10. ASSUME NEW n \in 1..Len(chain)
      PROVE  chain[n] \in Entries /\ next_jump'[chain[n]] = IF n = Len(chain) THEN NULL_INDEX ELSE chain[n + 1]
  <2>1. chain[n] \in Entries /\ chain[n] \in ToSet(chain)
    BY <1>3, <1>6
  <2>2. CASE n = Len(chain)
    BY <1>6, <1>8, <2>1, <2>2
  <2>3. CASE n # Len(chain)
    <3>1. n + 1 \in 1..Len(chain) /\ chain[n] # Last(chain) /\ chain[n + 1] \in ToSet(chain)
      BY <1>3, <1>5, <1>6, <2>3
    <3> DEFINE Next1(f) == \E m \in DOMAIN chain : At(m, chain[n]) /\ At(m + 1, f)
    <3>2. Next1(chain[n + 1])
      <4>1. n \in DOMAIN chain /\ At(n, chain[n]) /\ At(n + 1, chain[n + 1])
        BY <1>5, <1>9, <3>1 DEF At
      <4> QED
        BY <4>1
    <3>3. ASSUME NEW f \in ToSet(chain), Next1(f) PROVE f = chain[n + 1]
      <4>1. PICK m \in 1..Len(chain) : At(m, chain[n]) /\ At(m + 1, f)
        BY <1>9, <3>3
      <4>2. m = n
        BY <1>3, <4>1 DEF At
      <4> QED
        BY <4>1, <4>2 DEF At
    <3>4. next_jump'[chain[n]] = CHOOSE f \in ToSet(chain) : Next1(f)
      BY <1>8, <2>1, <3>1
    <3> HIDE DEF Next1
    <3> QED
      BY <2>3, <2>1, <3>1, <3>2, <3>3, <3>4
  <2> QED
    BY <2>1, <2>2, <2>3
<1>11. Linked(chain, chain[1], next_jump')
  BY <1>3, <1>5, <1>10 DEF Linked
<1>12. ASSUME NEW n \in 1..W PROVE n \in 1..Len(chain) /\ jump_data'[chain[n]] = Block(jumps, n)
  <2>1. n \in 1..Len(chain)
    BY <1>4, <1>2, <1>5
  <2>2. chain[n] \in Entries
    BY <1>10, <2>1
  <2>3. At(n, chain[n]) /\ \A m \in 1..W : At(m, chain[n]) => m = n
    <3>1. \A m \in 1..W : m \in 1..Len(chain)
      BY <1>4, <1>2, <1>5
    <3> QED
      BY <1>3, <2>1, <3>1 DEF At
  <2>4. (CHOOSE m \in 1..W : At(m, chain[n])) = n
    BY <2>3
  <2>5. jump_data'[chain[n]] = Block(jumps, CHOOSE m \in 1..W : At(m, chain[n]))
    BY <1>8, <2>2, <2>3
  <2> QED
    BY <2>1, <2>4, <2>5
<1>13. Holds(chain, jumps, jump_data')
  <2>1. W <= Len(chain) /\ Len(chain) <= count /\ \A n \in 1..W : jump_data'[chain[n]] = Block(jumps, n)
    BY <1>4, <1>3, <1>12
  <2> QED
    BY <2>1 DEF Holds, W, count
<1>14. ASSUME NEW e \in Entries, \A n \in 1..W : ~At(n, e) PROVE jump_data'[e] = jump_data[e]
  BY <1>8, <1>14
<1>15. ASSUME \A e \in Entries \ taken : jump_data[e] = NullJumps, Len(chain) > W
       PROVE  jump_data'[chain[Len(chain)]] = NullJumps
  <2> DEFINE last == chain[Len(chain)]
  <2>1. Len(chain) \in 1..Len(chain)
    BY <1>5
  <2>2. last \in Entries \ taken
    BY <1>3, <1>10, <2>1
  <2>3. ASSUME NEW n \in 1..W PROVE ~At(n, last)
    <3>1. n \in 1..Len(chain) /\ n # Len(chain)
      BY <1>2, <1>5, <1>15
    <3> QED
      BY <1>3, <2>1, <3>1 DEF At
  <2> HIDE DEF last
  <2>4. jump_data'[last] = jump_data[last]
    BY <1>14, <2>2, <2>3
  <2> QED
    BY <1>15, <2>2, <2>4 DEF last
<1>16. JumpsTypes'
  <2>1. ASSUME NEW e \in Entries PROVE next_jump'[e] \in Links
    <3>1. CASE e \notin ToSet(chain)
      BY <1>8, <3>1 DEF ChainTypes, JumpsTypes
    <3>2. CASE e \in ToSet(chain)
      <4>1. PICK n \in 1..Len(chain) : e = chain[n]
        BY <1>6, <3>2
      <4>2. NULL_INDEX \in Links /\ Entries \subseteq Links
        BY ChainShape DEF NULL_INDEX, Links, Entries
      <4>3. n # Len(chain) => n + 1 \in 1..Len(chain)
        BY <1>5
      <4> QED
        BY <1>10, <4>1, <4>2, <4>3
    <3> QED
      BY <3>1, <3>2
  <2>2. ASSUME NEW e \in Entries PROVE jump_data'[e] \in BlockPlaces
    <3>1. CASE \A n \in 1..W : ~At(n, e)
      BY <1>14, <3>1 DEF ChainTypes, JumpsTypes
    <3>2. CASE \E n \in 1..W : At(n, e)
      <4>1. PICK n \in 1..W : At(n, e)
        BY <3>2
      <4>2. Block(jumps, n) \in BlockPlaces
        BY BlockFilled DEF W
      <4> QED
        BY <1>12, <4>1, <4>2 DEF At
    <3> QED
      BY <3>1, <3>2
  <2>3. next_jump' \in [Entries -> Links]
    BY <1>8, <2>1
  <2>4. jump_data' \in [Entries -> BlockPlaces]
    BY <1>8, <2>2
  <2> QED
    BY <2>3, <2>4 DEF JumpsTypes
<1>17. ASSUME NEW e \in Entries, \A n \in 1..Len(chain) : chain[n] # e
       PROVE  next_jump'[e] = next_jump[e] /\ jump_data'[e] = jump_data[e]
  <2>1. e \notin ToSet(chain)
    BY <1>6, <1>17
  <2>2. \A n \in 1..W : ~At(n, e)
    BY <1>12, <1>17 DEF At
  <2> QED
    BY <1>8, <1>14, <2>1, <2>2
<1>18. Cleared(chain, jumps, jump_data') <=> (Len(chain) > W => jump_data'[chain[Len(chain)]] = NullJumps)
  BY DEF Cleared, W
<1>19. (\A e \in Entries \ taken : jump_data[e] = NullJumps) => Cleared(chain, jumps, jump_data')
  BY <1>15, <1>18
<1>20. Len(chain) \in 1..(JumpCapacity - 1)
  BY <1>3, <1>5
<1>21. taken' = taken \cup {chain[n] : n \in 1..Len(chain)}
  BY <1>6, <1>8
<1> QED
  BY <1>3, <1>5, <1>11, <1>13, <1>16, <1>17, <1>19, <1>20, <1>21, Zenon DEF chain, count

\* The entry of a session that has none yet.
LEMMA EntryAdded ==
  ASSUME CacheInv, TableOK, NEW s \in Sessions, type[s] \in Types, Entered(s), resource[s].key \notin DOMAIN table,
         UNCHANGED <<type, resource>>
  PROVE  /\ TableOK'
         /\ DOMAIN table' = DOMAIN table \cup {resource[s].key}
         /\ table'[resource[s].key] = [type |-> type[s], session |-> s]
         /\ \A k \in DOMAIN table : table'[k] = table[k] /\ table[k].session # s /\ k # resource[s].key
<1> DEFINE key == resource[s].key
<1>1. key \in Keys
  BY KeyOf DEF CacheInv
<1>2. table' = [k \in DOMAIN table \cup {key} |-> IF k = key THEN [type |-> type[s], session |-> s] ELSE table[k]]
  BY DEF Entered
<1>3. DOMAIN table' = DOMAIN table \cup {key} /\ table'[key] = [type |-> type[s], session |-> s]
  BY <1>2
<1>4. ASSUME NEW k \in DOMAIN table PROVE table'[k] = table[k] /\ table[k].session # s /\ k # key
  BY <1>2 DEF TableOK
<1>5. TableOK'
  <2> SUFFICES ASSUME NEW k \in DOMAIN table'
               PROVE  /\ k \in Keys /\ table'[k].session \in Sessions
                      /\ resource[table'[k].session].key = k /\ type[table'[k].session] = table'[k].type
    BY DEF TableOK
  <2>1. CASE k = key
    BY <1>1, <1>3, <2>1
  <2>2. CASE k \in DOMAIN table
    BY <1>4, <2>2 DEF TableOK
  <2> QED
    BY <1>3, <2>1, <2>2
<1> QED
  BY <1>3, <1>4, <1>5

\* An entry without jumps of its own changes no chain.
LEMMA EntersBare ==
  ASSUME CacheInv, ChainInv, NEW s \in Sessions, type[s] \in Types, Entered(s), resource[s].key \notin DOMAIN table,
         pc[s] \notin Begun, NEW to, pc' = [pc EXCEPT ![s] = to], to \in Begun => ~(Len(got[s]) > 1),
         UNCHANGED <<jump_head, taken, next_jump, jump_data, got, type, resource, evicted, misfreed>>
  PROVE  ChainInv'
<1> DEFINE key == resource[s].key
<1>1. TableOK
  BY DEF ChainInv
<1>2. /\ TableOK' /\ DOMAIN table' = DOMAIN table \cup {key} /\ table'[key] = [type |-> type[s], session |-> s]
      /\ \A k \in DOMAIN table : table'[k] = table[k] /\ table[k].session # s /\ k # key
  BY <1>1, EntryAdded
<1>3. pc'[s] = to /\ \A r \in Sessions \ {s} : pc'[r] = pc[r]
  BY DEF CacheInv, CacheTypes
<1>4. \A k \in DOMAIN table : table[k].session \in Sessions \ {s}
  BY <1>1, <1>2 DEF TableOK
<1>5. Own' = Own
  <2>1. ASSUME NEW k \in DOMAIN table PROVE OwnJumps(k)' <=> OwnJumps(k)
    BY <1>2, <1>3, <1>4 DEF OwnJumps
  <2>2. ~OwnJumps(key)'
    BY <1>2, <1>3 DEF OwnJumps, Begun
  <2>3. \A k \in DOMAIN table' : OwnJumps(k)' => k \in DOMAIN table
    BY <1>2, <2>2
  <2> QED
    BY <1>2, <2>1, <2>3 DEF Own
<1>6. ASSUME NEW k \in Own, NEW c, ChainOK(k, c) PROVE ChainOK(k, c)'
  <2>1. JumpsOf(k)' = JumpsOf(k)
    BY <1>2 DEF Own, JumpsOf
  <2> QED
    BY <1>6, <2>1 DEF ChainOK
<1>7. ChainTypes'
  BY DEF ChainInv, ChainTypes, JumpsTypes
<1>8. ASSUME ChainsKept PROVE ChainsKept'
  <2>1. PICK chains \in [Keys -> Seq(Entries)] :
          /\ \A k \in Own : ChainOK(k, chains[k])
          /\ \A k, l \in Own : k # l => Disjoint(chains[k], chains[l])
    BY <1>8 DEF ChainsKept
  <2>2. \A k \in Own : ChainOK(k, chains[k])'
    BY <1>6, <2>1
  <2> QED
    BY <1>5, <2>1, <2>2 DEF ChainsKept
<1>9. Fresh => Fresh'
  BY <1>5 DEF Fresh
<1> QED
  BY <1>2, <1>7, <1>8, <1>9 DEF ChainInv

\* No jumps: the stores of an object of one fragment.
LEMMA NothingStored ==
  ASSUME ChainTypes, StoreJumps(<<>>)
  PROVE  UNCHANGED <<taken, next_jump, jump_data>>
<1>1. Found(0) = <<>>
  <2>1. Found(0) \in Seq(Entries) /\ Len(Found(0)) <= 0
    BY FoundFacts
  <2> QED
    BY <2>1
<1>2. ChainLength(<<>>) = 0 /\ Len(<<>>) = 0
  BY DEF ChainLength
<1>3. 1..Written(<<>>) = {}
  <2>1. PICK n \in Nat : n = JumpsPerEntry - 1
    BY ChainShape
  <2>2. n \in 0..(JumpsPerEntry - 1) /\ n < JumpsPerEntry
    BY <2>1, ChainShape
  <2>3. PICK y \in Nat : y = JumpsPerEntry * 0
    BY ChainShape, SMT
  <2>4. y + n = n
    BY <2>3, ChainShape, SMT
  <2>5. (JumpsPerEntry * 0 + n) \div JumpsPerEntry = 0
    BY <2>2, ChainShape, DivisionIsUnique
  <2>6. n \div JumpsPerEntry = 0
    BY <2>3, <2>4, <2>5
  <2>7. Written(<<>>) = 0
    BY <1>2, <2>1, <2>6, ChainShape DEF Written
  <2> QED
    BY <2>7
<1>4. ToSet(<<>>) = {}
  BY DEF ToSet
<1>5. next_jump = [e \in DOMAIN next_jump |-> next_jump[e]] /\ jump_data = [e \in DOMAIN jump_data |-> jump_data[e]]
  BY DEF ChainTypes, JumpsTypes
<1>6. taken' = taken \cup ToSet(Found(ChainLength(<<>>)))
  BY Zenon DEF StoreJumps, StoreChain
<1>7. /\ DOMAIN next_jump' = DOMAIN next_jump
      /\ \A e \in DOMAIN next_jump : e \notin ToSet(Found(ChainLength(<<>>))) => next_jump'[e] = next_jump[e]
      /\ next_jump' = [e \in DOMAIN next_jump |-> next_jump'[e]]
  BY DEF StoreJumps, StoreChain
<1>8. /\ DOMAIN jump_data' = DOMAIN jump_data /\ jump_data' = [e \in DOMAIN jump_data |-> jump_data'[e]]
      /\ \A e \in DOMAIN jump_data : 1..Written(<<>>) = {} => jump_data'[e] = jump_data[e]
  BY DEF StoreJumps, StoreChain
<1>9. \A e \in DOMAIN next_jump : next_jump'[e] = next_jump[e]
  BY <1>1, <1>2, <1>4, <1>7
<1>10. \A e \in DOMAIN jump_data : jump_data'[e] = jump_data[e]
  BY <1>3, <1>8
<1> QED
  BY <1>1, <1>2, <1>4, <1>5, <1>6, <1>7, <1>8, <1>9, <1>10

\* The new chain has entries of no other.
LEMMA EnterKeeps == ASSUME CacheInv, RegionInv, ChainInv, NEW s \in Sessions, Enter(s) PROVE ChainInv'
<1> DEFINE key == resource[s].key
           jumps == Jumps(got[s], type[s])
           chain == Found(ChainLength(jumps))
<1>1. /\ pc[s] = "enter" /\ pc' = [pc EXCEPT ![s] = "started"] /\ key \notin DOMAIN table
      /\ ~TooShort(jumps) /\ StoreJumps(jumps) /\ Entered(s)
      /\ jump_head' = IF jumps = <<>> THEN jump_head ELSE [jump_head EXCEPT ![key] = JumpHead(jumps)]
      /\ UNCHANGED <<got, type, resource, evicted, misfreed>>
  BY DEF Enter, Goto, HasPlace
<1>2. /\ type[s] \in Types /\ key \in Keys /\ TableOK /\ ChainTypes /\ pc[s] \notin Begun
      /\ got[s] \in Seq(Nat) /\ Rising(got[s])
  BY <1>1, KeyOf DEF CacheInv, CacheTypes, Deciding, ChainInv, RegionInv, RegionTypes, SessionOK, Begun
<1>3. /\ jumps \in Seq(Nat \ {0}) /\ (Len(got[s]) > 0 => Len(jumps) = Len(got[s]) - 1)
      /\ (Len(got[s]) = 0 => jumps = <<>>)
  BY <1>2, JumpsOfRising
<1>4. jumps = <<>> <=> ~(Len(got[s]) > 1)
  <2>1. Len(got[s]) \in Nat
    BY <1>2
  <2>2. jumps = <<>> <=> Len(jumps) = 0
    BY <1>3
  <2> HIDE DEF jumps
  <2> QED
    BY <1>3, <2>1, <2>2
<1>5. CASE jumps = <<>>
  <2>1. jump_head' = jump_head /\ UNCHANGED <<taken, next_jump, jump_data>>
    BY <1>1, <1>2, <1>5, NothingStored
  <2> QED
    BY <1>1, <1>2, <1>4, <1>5, <2>1, EntersBare
<1>6. CASE jumps # <<>>
  <2>1. /\ TableOK' /\ DOMAIN table' = DOMAIN table \cup {key} /\ table'[key] = [type |-> type[s], session |-> s]
        /\ \A k \in DOMAIN table : table'[k] = table[k] /\ table[k].session # s /\ k # key
    BY <1>1, <1>2, EntryAdded
  <2>2. pc'[s] = "started" /\ \A r \in Sessions \ {s} : pc'[r] = pc[r]
    BY <1>1 DEF CacheInv, CacheTypes
  <2>3. \A k \in DOMAIN table : table[k].session \in Sessions \ {s}
    BY <1>2, <2>1 DEF TableOK
  <2>4. Own' = Own \cup {key} /\ key \notin Own
    <3>1. ASSUME NEW k \in DOMAIN table PROVE OwnJumps(k)' <=> OwnJumps(k)
      BY <1>1, <2>1, <2>2, <2>3 DEF OwnJumps
    <3>2. OwnJumps(key)'
      BY <1>1, <1>4, <1>6, <2>1, <2>2 DEF OwnJumps
    <3> QED
      BY <1>1, <2>1, <3>1, <3>2 DEF Own
  <2>5. /\ chain \in Seq(Entries) /\ Len(chain) \in 1..(JumpCapacity - 1) /\ chain # <<>>
        /\ \A n \in 1..Len(chain) : chain[n] \notin taken
        /\ taken' = taken \cup {chain[n] : n \in 1..Len(chain)}
        /\ JumpsTypes'
        /\ Linked(chain, chain[1], next_jump')
        /\ Holds(chain, jumps, jump_data')
        /\ (\A e \in Entries \ taken : jump_data[e] = NullJumps) => Cleared(chain, jumps, jump_data')
        /\ \A e \in Entries : (\A n \in 1..Len(chain) : chain[n] # e)
                => next_jump'[e] = next_jump[e] /\ jump_data'[e] = jump_data[e]
    <3> HIDE DEF jumps
    <3> QED
      BY <1>1, <1>2, <1>3, <1>6, ChainStored DEF chain
  <2>6. JumpHead(jumps) = chain[1]
    BY <1>6 DEF JumpHead
  <2>7. PICK k0, c0, j0 : k0 = key /\ c0 = chain /\ j0 = jumps
    OBVIOUS
  <2>8. /\ c0 \in Seq(Entries) /\ Len(c0) \in 1..(JumpCapacity - 1) /\ c0 # <<>>
        /\ \A n \in 1..Len(c0) : c0[n] \notin taken
        /\ taken' = taken \cup {c0[n] : n \in 1..Len(c0)}
        /\ JumpsTypes'
        /\ Linked(c0, c0[1], next_jump')
        /\ Holds(c0, j0, jump_data')
        /\ (\A e \in Entries \ taken : jump_data[e] = NullJumps) => Cleared(c0, j0, jump_data')
        /\ \A e \in Entries : (\A n \in 1..Len(c0) : c0[n] # e)
               => next_jump'[e] = next_jump[e] /\ jump_data'[e] = jump_data[e]
    <3> HIDE DEF jumps, chain
    <3> QED
      BY <2>5, <2>7
  <2>9. /\ DOMAIN table' = DOMAIN table \cup {k0} /\ table'[k0] = [type |-> type[s], session |-> s]
        /\ \A k \in DOMAIN table : table'[k] = table[k] /\ table[k].session # s /\ k # k0
    BY <2>1, <2>7
  <2>10. Own' = Own \cup {k0} /\ k0 \notin Own /\ k0 \in Keys
    BY <1>2, <2>4, <2>7
  <2>11. jump_head' = [jump_head EXCEPT ![k0] = c0[1]]
    BY <1>1, <1>6, <2>6, <2>7
  <2>12. JumpsOf(k0)' = j0
    BY <1>1, <2>7, <2>9 DEF JumpsOf
  <2> HIDE DEF jumps, chain, key
  <2>13. \A n \in 1..Len(c0) : c0[n] \in Entries
    BY <2>8
  <2>14. c0[1] \in Links
    <3>1. c0[1] \in Entries /\ Entries \subseteq Links
      BY <2>8, <2>13, ChainShape DEF Entries, Links
    <3> QED
      BY <3>1
  <2>15. /\ jump_head' \in [Keys -> Links] /\ jump_head'[k0] = c0[1]
         /\ \A k \in Keys \ {k0} : jump_head'[k] = jump_head[k]
    BY <1>2, <2>14, <2>10, <2>11 DEF ChainTypes
  <2>16. ChainTypes'
    <3>1. taken' \subseteq Entries
      BY <1>2, <2>8, <2>13 DEF ChainTypes
    <3> QED
      BY <1>1, <1>2, <2>8, <2>15, <3>1 DEF ChainTypes
  <2>17. \A k \in Own : k \in Keys \ {k0} /\ k \in DOMAIN table
    BY <1>2, <2>10 DEF Own, TableOK
  <2>18. ASSUME NEW k \in Own, NEW c \in Seq(Entries), ChainOK(k, c)
         PROVE  ChainOK(k, c)' /\ Disjoint(c, c0) /\ Disjoint(c0, c)
    <3>1. \A n \in 1..Len(c) : c[n] \in taken /\ c[n] \in Entries
      BY <2>18 DEF ChainOK
    <3>2. Disjoint(c, c0) /\ Disjoint(c0, c)
      BY <2>8, <3>1 DEF Disjoint
    <3>3. \A n \in 1..Len(c) :
            next_jump'[c[n]] = next_jump[c[n]] /\ jump_data'[c[n]] = jump_data[c[n]] /\ c[n] \in taken'
      BY <2>8, <3>1
    <3>4. JumpsOf(k)' = JumpsOf(k) /\ jump_head'[k] = jump_head[k]
      BY <1>1, <2>9, <2>15, <2>17 DEF JumpsOf
    <3>5. Linked(c, jump_head'[k], next_jump')
      BY <2>18, <3>3, <3>4 DEF ChainOK, Linked
    <3>6. ASSUME NEW j, Holds(c, j, jump_data), Written(j) \in Nat, Len(c) > 0
          PROVE  Holds(c, j, jump_data') /\ (Cleared(c, j, jump_data) => Cleared(c, j, jump_data'))
      <4>1. Len(c) \in Nat /\ Written(j) <= Len(c)
        BY <3>6 DEF Holds
      <4>2. \A n \in 1..Written(j) : n \in 1..Len(c)
        BY <3>6, <4>1
      <4>3. Len(c) \in 1..Len(c)
        BY <3>6, <4>1
      <4> QED
        BY <3>3, <3>6, <4>2, <4>3 DEF Holds, Cleared
    <3>7. Holds(c, JumpsOf(k), jump_data) /\ (evicted = 0 => Cleared(c, JumpsOf(k), jump_data))
      BY <2>18 DEF ChainOK
    <3>8. Written(JumpsOf(k)) \in Nat /\ Len(c) > 0
      <4>1. PICK r \in Sessions : r = table[k].session
        BY <1>2, <2>17 DEF TableOK
      <4>2. got[r] \in Seq(Nat) /\ Rising(got[r]) /\ Len(got[r]) > 1
        BY <4>1 DEF Own, OwnJumps, RegionInv, RegionTypes, SessionOK
      <4>3. PICK j : j = JumpsOf(k)
        OBVIOUS
      <4>4. PICK g \in Seq(Nat), t \in {table[k].type} : g = got[r]
        BY <4>2
      <4>5. j = Jumps(g, t)
        BY <4>1, <4>3, <4>4 DEF JumpsOf
      <4>6. Rising(g) /\ Len(g) > 0
        BY <4>2, <4>4
      <4>7. j \in Seq(Nat \ {0}) /\ Len(j) = Len(got[r]) - 1
        BY <4>4, <4>5, <4>6, JumpsOfRising
      <4>8. Len(j) \in Nat \ {0} /\ j # <<>>
        <5>1. Len(<<>>) = 0
          OBVIOUS
        <5>2. Len(got[r]) \in Nat
          BY <4>2
        <5>3. \A m, n : n \in Nat /\ n > 1 /\ m = n - 1 => m \in Nat \ {0}
          OBVIOUS
        <5>4. Len(j) \in Nat \ {0}
          BY <4>2, <4>7, <5>2, <5>3, Zenon
        <5> QED
          BY <5>1, <5>4
      <4>9. Written(j) \in Nat \ {0}
        BY <4>8, ReachesAll
      <4>10. Written(j) <= Len(c) /\ Len(c) \in Nat
        BY <3>7, <4>3 DEF Holds
      <4> QED
        BY <4>3, <4>9, <4>10
    <3>9. Holds(c, JumpsOf(k), jump_data') /\ (evicted = 0 => Cleared(c, JumpsOf(k), jump_data'))
      BY <3>6, <3>7, <3>8
    <3> QED
      BY <1>1, <3>2, <3>3, <3>4, <3>5, <3>9 DEF ChainOK
  <2>19. ASSUME evicted = 0 => Fresh PROVE ChainOK(k0, c0)'
    <3>1. \A n \in 1..Len(c0) : c0[n] \in taken'
      BY <2>8
    <3>2. evicted = 0 => Cleared(c0, j0, jump_data')
      BY <2>8, <2>19 DEF Fresh
    <3>3. evicted' = evicted
      BY <1>1
    <3>4. Linked(c0, jump_head'[k0], next_jump')
      BY <2>15, <2>8
    <3>5. Holds(c0, JumpsOf(k0)', jump_data')
      BY <2>12, <2>8
    <3>6. evicted' = 0 => Cleared(c0, JumpsOf(k0)', jump_data')
      BY <2>12, <3>2, <3>3
    <3> QED
      BY <3>1, <3>4, <3>5, <3>6 DEF ChainOK
  <2>20. evicted = 0 => Fresh
    BY DEF ChainInv
  <2>21. ASSUME ChainsKept PROVE ChainsKept'
    <3>1. PICK chains \in [Keys -> Seq(Entries)] :
            /\ \A k \in Own : ChainOK(k, chains[k])
            /\ \A k, l \in Own : k # l => Disjoint(chains[k], chains[l])
      BY <2>21 DEF ChainsKept
    <3>2. PICK more : more = [chains EXCEPT ![k0] = c0]
      OBVIOUS
    <3>3. more \in [Keys -> Seq(Entries)] /\ more[k0] = c0 /\ \A k \in Keys \ {k0} : more[k] = chains[k]
      BY <2>8, <2>10, <3>2
    <3>4. ASSUME NEW k \in Own
          PROVE  more[k] = chains[k] /\ ChainOK(k, more[k])' /\ Disjoint(more[k], c0) /\ Disjoint(c0, more[k])
      <4>1. k \in Keys \ {k0} /\ chains[k] \in Seq(Entries) /\ ChainOK(k, chains[k])
        BY <2>17, <3>1
      <4>2. PICK c \in Seq(Entries) : c = chains[k]
        BY <4>1
      <4>3. ChainOK(k, c) /\ more[k] = c
        BY <3>3, <4>1, <4>2
      <4>4. ChainOK(k, c)' /\ Disjoint(c, c0) /\ Disjoint(c0, c)
        BY <2>18, <4>3
      <4>5. ChainOK(k, more[k])'
        BY <4>3, <4>4 DEF ChainOK
      <4> QED
        BY <4>2, <4>3, <4>4, <4>5
    <3>5. ASSUME NEW k \in Own' PROVE ChainOK(k, more[k])'
      <4>1. CASE k \in Own
        BY <3>4, <4>1
      <4>2. CASE k = k0
        <5>1. ChainOK(k0, c0)'
          BY <2>19, <2>20
        <5>2. more[k] = c0
          BY <3>3, <4>2
        <5> QED
          BY <4>2, <5>1, <5>2 DEF ChainOK
      <4> QED
        BY <2>10, <4>1, <4>2
    <3>6. \A k, l \in Own' : k # l => Disjoint(more[k], more[l])
      BY <2>10, <3>1, <3>3, <3>4
    <3> QED
      BY <3>3, <3>5, <3>6 DEF ChainsKept
  <2>22. ASSUME Fresh PROVE Fresh'
    <3>1. ASSUME NEW e \in Entries \ taken' PROVE jump_data'[e] = NullJumps
      <4>1. e \in Entries \ taken /\ \A n \in 1..Len(c0) : c0[n] # e
        BY <2>8, <3>1
      <4> QED
        BY <2>8, <2>22, <4>1 DEF Fresh
    <3>2. ASSUME NEW k \in Keys \ Own' PROVE jump_head'[k] = NULL_INDEX
      BY <2>10, <2>15, <2>22, <3>2 DEF Fresh
    <3> QED
      BY <3>1, <3>2 DEF Fresh
  <2> QED
    BY <1>1, <2>1, <2>16, <2>21, <2>22 DEF ChainInv
<1> QED
  BY <1>5, <1>6

-----------------------------------------------------------------------------
(* _free_fragments: an eviction gives a chain back.                        *)

LEMMA EvictKeeps == ASSUME CacheInv, RegionInv, ChainInv, NEW s \in Sessions, Evict(s) PROVE ChainInv'
<1> DEFINE v == victim[s]
           head == IF v \in DOMAIN table THEN jump_head[v] ELSE NULL_INDEX
           back == Chain(head)
<1>1. /\ pc[s] = "evict" /\ pc' = [pc EXCEPT ![s] = "cancelled"]
      /\ table' = [k \in DOMAIN table \ {v} |-> table[k]]
      /\ taken' = taken \ ToSet(back)
      /\ evicted' = evicted + Cardinality(DOMAIN table \cap {v})
      /\ UNCHANGED <<next_jump, jump_data, jump_head, got, type, resource>>
  BY DEF Evict, Goto, Freed, FreeJumps
<1>2. ~misfreed' => ~misfreed /\ ~(v \in DOMAIN table /\ jump_head[v] # NULL_INDEX /\ ~OwnJumps(v))
  <2>1. misfreed' = (misfreed \/ \E k \in DOMAIN table \cap {v} : jump_head[k] # NULL_INDEX /\ ~OwnJumps(k))
    BY DEF Evict
  <2> QED
    BY <2>1, Zenon
<1>3. TableOK /\ ChainTypes
  BY DEF ChainInv
<1>4. /\ DOMAIN table' = DOMAIN table \ {v} /\ \A k \in DOMAIN table \ {v} : table'[k] = table[k]
  BY <1>1
<1>5. \A r \in Sessions : (pc'[r] \in Begun <=> pc[r] \in Begun)
  BY <1>1 DEF CacheInv, CacheTypes, Begun
<1>6. TableOK'
  BY <1>1, <1>3, <1>4 DEF TableOK
<1>7. Own' = Own \ {v}
  <2>1. ASSUME NEW k \in DOMAIN table \ {v} PROVE OwnJumps(k)' <=> OwnJumps(k)
    <3>1. table[k].session \in Sessions
      BY <1>3 DEF TableOK
    <3> QED
      BY <1>1, <1>4, <1>5, <3>1 DEF OwnJumps, Begun
  <2> QED
    BY <1>4, <2>1 DEF Own
<1>8. /\ Cardinality(DOMAIN table \cap {v}) \in Nat
      /\ v \in DOMAIN table => Cardinality(DOMAIN table \cap {v}) = 1
      /\ v \notin DOMAIN table => Cardinality(DOMAIN table \cap {v}) = 0
  <2>1. v \in DOMAIN table => DOMAIN table \cap {v} = {v}
    OBVIOUS
  <2>2. v \notin DOMAIN table => DOMAIN table \cap {v} = {}
    OBVIOUS
  <2>3. IsFiniteSet({}) /\ Cardinality({}) = 0
    BY FS_EmptySet
  <2>4. Cardinality({v}) = 1
    BY FS_Singleton
  <2> QED
    BY <2>1, <2>2, <2>3, <2>4
<1>9. evicted' \in Nat /\ (evicted' = 0 => evicted = 0 /\ v \notin DOMAIN table)
  BY <1>1, <1>3, <1>8 DEF ChainTypes
<1>10. ChainTypes'
  BY <1>1, <1>3, <1>9 DEF ChainTypes, JumpsTypes
<1>11. head = NULL_INDEX => taken' = taken
  <2>1. head = NULL_INDEX => back = <<>>
    <3>1. NULL_INDEX \in Links /\ next_jump \in [Entries -> Links]
      BY <1>3, ChainShape DEF NULL_INDEX, Links, ChainTypes, JumpsTypes
    <3>2. Chain(NULL_INDEX) = <<>>
      BY <3>1, ChainIsSeq
    <3> QED
      BY <3>2
  <2>2. ToSet(<<>>) = {}
    BY DEF ToSet
  <2> HIDE DEF back, head
  <2> QED
    BY <1>1, <2>1, <2>2
<1>12. ASSUME Fresh, evicted' = 0 PROVE Fresh'
  <2>1. v \notin DOMAIN table /\ taken' = taken
    BY <1>9, <1>11, <1>12
  <2>2. Own' = Own
    BY <1>7, <2>1 DEF Own
  <2> QED
    BY <1>1, <1>12, <2>1, <2>2 DEF Fresh
<1>13. ASSUME ChainsKept, ~misfreed' PROVE ChainsKept'
  <2>1. PICK chains \in [Keys -> Seq(Entries)] :
          /\ \A k \in Own : ChainOK(k, chains[k])
          /\ \A k, l \in Own : k # l => Disjoint(chains[k], chains[l])
    BY <1>13 DEF ChainsKept
  <2>2. ASSUME NEW k \in Own \ {v}, NEW n \in 1..Len(chains[k]) PROVE chains[k][n] \in taken'
    <3>1. chains[k][n] \in taken
      BY <2>1 DEF ChainOK
    <3>2. CASE head = NULL_INDEX
      BY <1>11, <3>1, <3>2
    <3>3. CASE head # NULL_INDEX
      <4>1. v \in Own /\ head = jump_head[v]
        BY <1>2, <1>13, <3>3 DEF Own
      <4>2. v \in Keys /\ head \in Links /\ next_jump \in [Entries -> Links]
        BY <1>3, <4>1 DEF Own, TableOK, ChainTypes, JumpsTypes
      <4>3. Linked(chains[v], head, next_jump)
        BY <2>1, <4>1 DEF ChainOK
      <4>4. back = chains[v] /\ chains[v] \in Seq(Entries)
        BY <2>1, <4>2, <4>3, LinkedIsChain
      <4>5. ToSet(back) = {chains[v][m] : m \in 1..Len(chains[v])}
        BY <4>4 DEF ToSet
      <4>6. Disjoint(chains[k], chains[v])
        BY <2>1, <4>1
      <4>7. chains[k][n] \notin ToSet(back)
        BY <4>5, <4>6 DEF Disjoint
      <4> QED
        BY <1>1, <3>1, <4>7
    <3> QED
      BY <3>2, <3>3
  <2>3. ASSUME NEW k \in Own \ {v} PROVE ChainOK(k, chains[k])'
    <3>1. ChainOK(k, chains[k]) /\ k \in DOMAIN table
      BY <2>1 DEF Own
    <3>2. JumpsOf(k)' = JumpsOf(k)
      BY <1>1, <1>4, <3>1 DEF JumpsOf
    <3>3. evicted' = 0 => evicted = 0
      BY <1>9
    <3> QED
      BY <1>1, <2>2, <3>1, <3>2, <3>3 DEF ChainOK
  <2>4. \A k \in Own' : ChainOK(k, chains[k])'
    BY <1>7, <2>3
  <2>5. \A k, l \in Own' : k # l => Disjoint(chains[k], chains[l])
    BY <1>7, <2>1
  <2> QED
    BY <2>1, <2>4, <2>5 DEF ChainsKept
<1>14. ~misfreed' => ChainsKept'
  <2>1. ~misfreed => ChainsKept
    BY DEF ChainInv
  <2> QED
    BY <1>2, <1>13, <2>1
<1>15. evicted' = 0 => Fresh'
  <2>1. evicted = 0 => Fresh
    BY DEF ChainInv
  <2> QED
    BY <1>9, <1>12, <2>1
<1> QED
  BY <1>6, <1>10, <1>14, <1>15 DEF ChainInv

-----------------------------------------------------------------------------

LEMMA ChainSteps == ASSUME CacheInv, RegionInv, ChainInv, [Next]_vars PROVE ChainInv'
<1> USE DEF regions, entries, jumpVars
<1>1. CASE UNCHANGED vars
  BY <1>1, ChainsStay DEF vars
<1> SUFFICES ASSUME NEW s \in Sessions, Register(s) \/ InitUnheard(s) \/ InitStep(s) \/ Data(s) \/ End(s)
             PROVE  ChainInv'
  BY <1>1 DEF Next
<1>2. /\ pc \in [Sessions -> Stages] /\ type \in [Sessions -> Types \cup {FragmentDynamic}]
      /\ got \in [Sessions -> Seq(Nat)] /\ SessionOK(s)
  BY DEF CacheInv, CacheTypes, RegionInv, RegionTypes
<1> USE DEF Goto, Begun
<1>3. CASE Register(s)
  BY <1>2, <1>3, ChainsStay DEF Register
<1>4. CASE InitUnheard(s)
  BY <1>2, <1>4, ChainsStay DEF InitUnheard
<1>5. CASE QueryRegion(s)
  <2>1. type[s] \notin Types /\ \A r \in Sessions \ {s} : type'[r] = type[r]
    BY <1>2, <1>5, CacheShape DEF QueryRegion, SessionOK, Early
  <2> QED
    BY <1>2, <1>5, <2>1, ChainsStay DEF QueryRegion
<1>6. CASE NoSuitableType(s)
  BY <1>2, <1>6, ChainsStay DEF NoSuitableType
<1>7. CASE Debit(s)
  BY <1>2, <1>7, ChainsStay DEF Debit
<1>8. CASE NotAvailable(s)
  BY <1>2, <1>8, ChainsStay DEF NotAvailable
<1>9. CASE Acquire(s)
  BY <1>2, <1>9, ChainsStay DEF Acquire
<1>10. CASE WriteTime(s)
  BY <1>2, <1>10, ChainsStay DEF WriteTime
<1>11. CASE TimesFull(s)
  BY <1>2, <1>11, ChainsStay DEF TimesFull
<1>12. CASE Enter(s)
  BY <1>12, EnterKeeps
<1>13. CASE EnterHalf(s)
  <2>1. type[s] \in Types
    BY <1>2, <1>13 DEF EnterHalf, SessionOK, Deciding
  <2> QED
    BY <1>13, <2>1, EntersBare DEF EnterHalf, HasPlace
<1>14. CASE EnterRefused(s)
  BY <1>2, <1>14, ChainsStay DEF EnterRefused
<1>15. CASE FreeNone(s)
  BY <1>2, <1>15, ChainsStay DEF FreeNone
<1>16. CASE NothingOldest(s)
  BY <1>2, <1>16, ChainsStay DEF NothingOldest
<1>17. CASE FreeOldest(s)
  BY <1>2, <1>17, ChainsStay DEF FreeOldest
<1>18. CASE Evict(s)
  BY <1>18, EvictKeeps
<1>19. CASE Data(s)
  BY <1>2, <1>19, ChainsStay DEF Data
<1>20. CASE End(s)
  BY <1>2, <1>20, ChainsStay DEF End
<1>21. CASE EnterCrashes(s)
  BY <1>2, <1>21, ChainsStay DEF EnterCrashes
<1> QED
  BY <1>3, <1>4, <1>5, <1>6, <1>7, <1>8, <1>9, <1>10, <1>11, <1>12, <1>13, <1>14, <1>15, <1>16, <1>17, <1>18,
     <1>19, <1>20, <1>21 DEF InitStep, Decide

\* FragmentTable.h:789-866, 868-913: in every state until an eviction has given foreign jumps back, the links of the
\* jump table lead from the head of every object with jumps through entries that hold its jumps, and no entry is
\* in two chains.
THEOREM ChainInvHolds == Spec => []ChainInv
<1>1. CacheInv /\ RegionInv /\ ChainInv /\ [Next]_vars => ChainInv'
  BY ChainSteps
<1> QED
  BY <1>1, ChainInit, CacheInvHolds, RegionInvHolds, PTL DEF Spec

-----------------------------------------------------------------------------
(* fetch                                                                   *)

\* The entry of a session that was started describes its fragments.
LEMMA Describes ==
  ASSUME CacheInv, RegionInv, ChainInv, NEW k \in DOMAIN table, NEW s, s = table[k].session,
         ~misfreed, pc[s] \in Begun, got[s] # <<>>
  PROVE  /\ Indices(k) \in Seq(Nat) /\ Len(Indices(k)) >= Len(got[s])
         /\ Len(Indices(k)) > Len(got[s]) => (Len(got[s]) - 1) % JumpsPerEntry = 0 /\ evicted > 0
         /\ \A i \in DOMAIN got[s] :
             /\ got[s][i] = Indices(k)[i] + got[s][1]
             /\ i > 1 => get_fragment_index(0, jump_head[k], i - 1) = Indices(k)[i]
<1> DEFINE head == jump_head[k]
           g == got[s]
           t == table[k].type
<1>1. k \in Keys /\ s \in Sessions /\ ChainTypes /\ evicted \in Nat /\ head \in Links /\ JumpsTypes
  BY DEF ChainInv, TableOK, ChainTypes
<1>2. g \in Seq(Nat) /\ Rising(g) /\ Len(g) \in Nat \ {0} /\ DOMAIN g = 1..Len(g)
  BY <1>1 DEF RegionInv, RegionTypes, SessionOK
<1>3. Indices(k) = get_fragment_indices(0, head)
  BY DEF Indices
<1> HIDE DEF g, t, head
<1>4. Indices(k) \in Seq(Nat) /\ Len(Indices(k)) = Len(get_jumps(head)) + 1 /\ Indices(k)[1] = 0
  BY <1>1, <1>3, IndicesAdd
<1> DEFINE Described ==
        /\ Len(Indices(k)) >= Len(g)
        /\ Len(Indices(k)) > Len(g) => (Len(g) - 1) % JumpsPerEntry = 0 /\ evicted > 0
        /\ \A i \in 1..Len(g) :
             /\ g[i] = Indices(k)[i] + g[1]
             /\ i > 1 => get_fragment_index(0, head, i - 1) = Indices(k)[i]
<1>5. ASSUME Len(g) > 1 PROVE Described
  <2>1. k \in Own /\ JumpsOf(k) = Jumps(g, t)
    BY <1>5 DEF Own, OwnJumps, Begun, JumpsOf, g, t
  <2>2. PICK c \in Seq(Entries) : ChainOK(k, c)
    BY <1>1, <2>1 DEF ChainInv, ChainsKept
  <2>3. /\ Linked(c, head, next_jump) /\ Holds(c, Jumps(g, t), jump_data)
        /\ evicted = 0 => Cleared(c, Jumps(g, t), jump_data)
    BY <2>1, <2>2 DEF ChainOK, head
  <2>4. c = Chain(head)
    BY <1>1, <2>3, LinkedIsChain DEF JumpsTypes
  <2>5. /\ Len(Indices(k)) >= Len(g)
        /\ Len(Indices(k)) > Len(g) => (Len(g) - 1) % JumpsPerEntry = 0 /\ ~Cleared(c, Jumps(g, t), jump_data)
        /\ \A i \in 1..Len(g) :
             /\ g[i] = Indices(k)[i] + g[1]
             /\ i > 1 => get_fragment_index(0, head, i - 1) = Indices(k)[i]
    BY <1>1, <1>2, <1>3, <1>5, <2>3, <2>4, ChainDescribes
  <2>6. Len(Indices(k)) > Len(g) => evicted > 0
    BY <1>1, <2>3, <2>5
  <2> QED
    BY <2>5, <2>6
<1>6. ASSUME Len(g) = 1 PROVE Described
  <2>1. k \in Keys \ Own
    <3>1. ~(Len(got[s]) > 1)
      BY <1>6 DEF g
    <3> QED
      BY <1>1, <3>1 DEF Own, OwnJumps
  <2>2. evicted = 0 => head = NULL_INDEX
    BY <2>1 DEF ChainInv, Fresh, head
  <2>3. evicted = 0 => Len(Indices(k)) = 1
    <3>1. head = NULL_INDEX => get_jumps(head) = <<>>
      BY <1>1, JumpsAreSeq
    <3>2. Len(<<>>) = 0
      OBVIOUS
    <3> QED
      BY <1>4, <2>2, <3>1, <3>2
  <2>4. get_jumps(head) \in Seq(Nat)
    BY <1>1, JumpsAreSeq
  <2>5. Len(Indices(k)) \in Nat /\ Len(Indices(k)) >= 1
    BY <1>4, <2>4
  <2>6. (Len(g) - 1) % JumpsPerEntry = 0
    <3>1. JumpsPerEntry \in Nat \ {0}
      BY ChainShape
    <3>2. PICK n \in Int : n = 0
      OBVIOUS
    <3>3. n \in 0..(JumpsPerEntry - 1)
      BY <3>1, <3>2
    <3>4. (n % JumpsPerEntry) = n
      BY <3>1, <3>3, Wraps
    <3>5. Len(g) - 1 = n
      BY <1>6, <3>2
    <3>6. (Len(g) - 1) % JumpsPerEntry = n % JumpsPerEntry
      BY ONLY <3>5, Zenon
    <3> QED
      BY ONLY <3>2, <3>4, <3>6, Zenon
  <2>7. Len(Indices(k)) > Len(g) => evicted > 0
    <3> SUFFICES ASSUME Len(Indices(k)) > Len(g) PROVE evicted > 0
      OBVIOUS
    <3>1. Len(Indices(k)) # 1
      <4>1. \A m, n : m \in Nat /\ n = 1 /\ m > n => m # 1
        OBVIOUS
      <4> QED
        BY <1>6, <2>5, <4>1, Zenon
    <3>2. evicted # 0
      BY <2>3, <3>1
    <3> QED
      BY <1>1, <3>2
  <2>8. \A i \in DOMAIN g : i = 1
    BY <1>2, <1>6
  <2>9. g[1] \in Nat
    <3>1. 1 \in 1..Len(g)
      BY <1>6
    <3> QED
      BY <1>2, <3>1, ElementOfSeq
  <2>10. g[1] = Indices(k)[1] + g[1]
    BY <1>4, <2>9
  <2>11. \A i \in DOMAIN g : g[i] = Indices(k)[i] + g[1] /\ ~(i > 1)
    BY <2>8, <2>10
  <2>12. Len(Indices(k)) >= Len(g)
    BY <1>6, <2>5
  <2>13. \A i \in 1..Len(g) : i \in DOMAIN g
    BY <1>2
  <2> QED
    BY <2>6, <2>7, <2>11, <2>12, <2>13
<1>7. Len(g) > 1 \/ Len(g) = 1 => Described
  BY <1>5, <1>6
<1>8. Len(g) > 1 \/ Len(g) = 1
  BY <1>2
<1> QED
  BY <1>2, <1>4, <1>7, <1>8 DEF g, head

\* DiskCache.h:211-220, Region::get_jumps, FragmentTable::get_fragment_indices: for all sessions, resources and
\* capacities, the entry of a session that was started describes the fragments that it reserved, and no other
\* session has one of them; it lists more only after an eviction.
THEOREM EntryFollowsReservationHolds == Spec => []EntryFollowsReservation
<1>1. CacheInv /\ RegionInv /\ ChainInv => EntryFollowsReservation
  <2> SUFFICES ASSUME CacheInv, RegionInv, ChainInv, NEW k \in DOMAIN table, NEW s, s = table[k].session,
                      ~misfreed, pc[s] \in {"started", "ended"}, got[s] # <<>>
               PROVE  LET indices == Indices(k) IN
                      /\ Len(indices) >= Len(got[s])
                      /\ Len(indices) > Len(got[s]) => (Len(got[s]) - 1) % JumpsPerEntry = 0 /\ evicted > 0
                      /\ \A i \in DOMAIN got[s] :
                          /\ got[s][i] = indices[i] + got[s][1]
                          /\ i > 1 => get_fragment_index(0, jump_head[k], i - 1) = indices[i]
                      /\ \A r \in Sessions \ {s} : type[r] = type[s] => ToSet(got[r]) \cap ToSet(got[s]) = {}
    BY DEF EntryFollowsReservation
  <2>1. /\ Len(Indices(k)) >= Len(got[s])
        /\ Len(Indices(k)) > Len(got[s]) => (Len(got[s]) - 1) % JumpsPerEntry = 0 /\ evicted > 0
        /\ \A i \in DOMAIN got[s] :
             /\ got[s][i] = Indices(k)[i] + got[s][1]
             /\ i > 1 => get_fragment_index(0, jump_head[k], i - 1) = Indices(k)[i]
    BY Describes DEF Begun
  <2>2. ASSUME NEW r \in Sessions \ {s}, type[r] = type[s] PROVE ToSet(got[r]) \cap ToSet(got[s]) = {}
    <3>1. s \in Sessions /\ got \in [Sessions -> Seq(Nat)]
      BY DEF ChainInv, TableOK, RegionInv, RegionTypes
    <3>2. \A i \in 1..Len(got[r]), j \in 1..Len(got[s]) : got[r][i] # got[s][j]
      BY <2>2, <3>1 DEF RegionInv, Apart
    <3>3. DOMAIN got[r] = 1..Len(got[r]) /\ DOMAIN got[s] = 1..Len(got[s])
      BY <3>1
    <3> QED
      BY <3>2, <3>3 DEF ToSet
  <2> QED
    BY <2>1, <2>2
<1> QED
  BY <1>1, CacheInvHolds, RegionInvHolds, ChainInvHolds, PTL

LEMMA DivMonotone ==
  ASSUME NEW a \in Nat, NEW b \in Nat, a <= b, NEW d \in Nat \ {0}
  PROVE  a \div d <= b \div d
<1>1. PICK p \in Nat, x \in 0..(d - 1) : p = a \div d /\ a = d * p + x
  BY Division
<1>2. PICK q \in Nat, y \in 0..(d - 1) : q = b \div d /\ b = d * q + y
  BY Division
<1>3. ASSUME p > q PROVE FALSE
  <2>1. PICK m \in Nat : p = q + 1 + m
    <3>1. p - q - 1 \in Nat /\ p = q + 1 + (p - q - 1)
      BY <1>3
    <3> QED
      BY <3>1
  <2>2. PICK z \in Nat : z = d * q
    BY SMT
  <2>3. PICK w \in Nat : w = d * m
    BY SMT
  <2>4. d * (q + 1 + m) = z + d + w
    BY <2>2, <2>3, SMT
  <2>5. a = z + d + w + x /\ b = z + y
    BY <1>1, <1>2, <2>1, <2>2, <2>4
  <2> QED
    BY <2>5
<1> QED
  BY <1>1, <1>2, <1>3

\* DiskCache.h:239-266, 288-347: for all sessions, resources and capacities, an object whose fragments are the first
\* of its region is fetched as it was received while no other session has written to the region, if it is smaller
\* than Precision bytes; of a range, the fragments that hold it are fetched, with one more unless the range ends with
\* the first byte of a fragment, and none if there is no such fragment.
THEOREM FetchFirstHolds == Spec => []FetchFirst
<1>1. CacheInv /\ RegionInv /\ ChainInv => FetchFirst
  <2> SUFFICES ASSUME CacheInv, RegionInv, ChainInv, NEW k \in DOMAIN table, NEW s, s = table[k].session,
                      ~misfreed, Complete(s), resource[s].size < Precision, Len(Indices(k)) = Len(got[s]),
                      \A i \in 1..Len(got[s]) : got[s][i] = i - 1,
                      \A r \in Sessions \ {s} : type[r] = type[s] => received[r] = {}
               PROVE  /\ Fetch(k) = Stored(s)
                      /\ \A from, to \in 0..(resource[s].size - 1) :
                          from <= to => FetchRange(k, from, to) = Ranged(s, from, to)
    BY DEF FetchFirst
  <2> DEFINE F == FragmentsNum(s)
             D == DataCapacity(type[s])
             size == resource[s].size
  <2>1. /\ s \in Sessions /\ type[s] = table[k].type /\ type[s] \in Types /\ pc[s] = "ended"
        /\ received[s] = Chunks(s) /\ Chunks(s) # {} /\ Len(got[s]) = F /\ got[s] \in Seq(Nat) /\ CacheTypes
    BY DEF ChainInv, TableOK, CacheInv, CacheTypes, Complete, RegionInv, RegionTypes, SessionOK, Begun
  <2>2. F \in Nat /\ D \in Nat \ {0} /\ D < Precision /\ size \in Nat /\ size < Precision /\ F = CeilDiv(size, D)
    BY <2>1, CountIsNat DEF FragmentsNum, CacheTypes
  <2>3. Chunks(s) = 0..(F - 1) /\ F # 0
    <3>1. Chunks(s) = 0..(F - 1)
      BY <2>2 DEF Chunks
    <3> HIDE DEF F
    <3> QED
      BY <2>1, <2>2, <3>1
  <2>4. got[s] # <<>> /\ DOMAIN got[s] = 1..F
    <3>1. Len(<<>>) = 0
      OBVIOUS
    <3> QED
      BY <2>1, <2>2, <2>3, <3>1
  <2>5. Indices(k) \in Seq(Nat) /\ \A i \in DOMAIN got[s] : got[s][i] = Indices(k)[i] + got[s][1]
    BY <2>1, <2>4, Describes DEF Begun
  <2>6. Len(Indices(k)) = F /\ DOMAIN Indices(k) = 1..F
    BY <2>1, <2>5
  <2> HIDE DEF F, D, size
  <2>7. ASSUME NEW i \in 1..F PROVE Indices(k)[i] = i - 1
    <3>1. 1 \in 1..Len(got[s]) /\ i \in 1..Len(got[s]) /\ i \in DOMAIN got[s] /\ i \in DOMAIN Indices(k)
      BY <2>1, <2>2, <2>4, <2>6
    <3>2. got[s][1] = 0 /\ got[s][i] = i - 1
      BY <3>1
    <3>3. got[s][i] = Indices(k)[i] + got[s][1]
      BY <2>5, <3>1
    <3>4. Indices(k)[i] \in Nat
      BY <2>5, <2>6, ElementOfSeq
    <3> QED
      BY <3>2, <3>3, <3>4
  <2>8. ASSUME NEW i \in 1..F PROVE body[type[s]][i - 1] = <<s, i - 1>>
    <3>1. i - 1 \in received[s]
      BY <2>1, <2>2, <2>3
    <3> QED
      BY <2>1, <2>2, <3>1 DEF RegionInv, BodyOK, size
  <2>9. Fetch(k) = [i \in 1..F |-> <<s, i - 1>>]
    <3>1. Fetch(k) = [i \in 1..F |-> body[type[s]][Indices(k)[i]]]
      BY <2>1, <2>6 DEF Fetch, ReadFragment
    <3>2. \A i \in 1..F : body[type[s]][Indices(k)[i]] = <<s, i - 1>>
      BY <2>7, <2>8
    <3> QED
      BY <3>1, <3>2
  <2>10. Fetch(k) = Stored(s) /\ Len(Stored(s)) = F
    <3>1. Cardinality(0..(F - 1)) = F
      <4>1. F - 1 \in Int /\ F - 1 >= 0
        BY <2>2, <2>3
      <4>2. Cardinality(0..(F - 1)) = (F - 1) - 0 + 1
        BY <4>1, FS_Interval
      <4> QED
        BY <2>2, <4>2
    <3>2. Stored(s) = [i \in 1..F |-> <<s, i - 1>>]
      BY <2>3, <3>1 DEF Stored
    <3> QED
      BY <2>2, <2>9, <3>2
  <2>11. ASSUME NEW from \in 0..(resource[s].size - 1), NEW to \in 0..(resource[s].size - 1), from <= to
         PROVE  FetchRange(k, from, to) = Ranged(s, from, to)
    <3>1. from \in Nat /\ to \in Nat /\ from < Precision /\ to < Precision
      BY <2>2, FloatShape DEF size
    <3>2. PICK first \in Nat : first = from \div D
      BY <2>2, <3>1, Division
    <3>3. PICK end \in Nat : end = to \div D
      BY <2>2, <3>1, Division
    <3>4. PICK last \in Nat : last = (IF to % D = 0 THEN end ELSE end + 1)
      OBVIOUS
    <3>5. first <= last
      <4>1. first <= end
        BY <2>2, <2>11, <3>1, <3>2, <3>3, DivMonotone
      <4> QED
        BY <3>4, <4>1
    <3>6. Floor(Quotient(from, D)) = first
      BY <2>2, <3>1, <3>2, QuotientIsExact
    <3>7. Ceil(Quotient(to, D)) = last
      <4>1. Ceil(Quotient(to, D)) = CeilDiv(to, D)
        BY <2>2, <3>1, QuotientIsExact
      <4>2. CeilDiv(to, D) = last
        BY <2>2, <3>1, <3>3, <3>4, CeilDivOf
      <4> QED
        BY <4>1, <4>2
    <3>8. FetchRange(k, from, to) = IF first >= F \/ last >= F THEN <<>> ELSE SubSeq(Fetch(k), first + 1, last + 1)
      BY <2>1, <2>6, <3>6, <3>7 DEF FetchRange, D
    <3>9. Ranged(s, from, to) = IF last < F THEN SubSeq(Stored(s), first + 1, last + 1) ELSE <<>>
      BY <2>10, <3>2, <3>3, <3>4 DEF Ranged, D
    <3>10. last < F <=> ~(first >= F \/ last >= F)
      BY <2>2, <3>5
    <3> QED
      BY <2>10, <3>8, <3>9, <3>10
  <2> QED
    BY <2>10, <2>11
<1> QED
  BY <1>1, CacheInvHolds, RegionInvHolds, ChainInvHolds, PTL
==============================================================================
