----------------------------- MODULE HashProofs -----------------------------
(***************************************************************************)
(* The array of the hash ring holds exactly the items of the listed nodes, *)
(* sorted, whatever was added, removed, cleared or failed; the bisection   *)
(* of hash_ring_find_next_highest_item finds the successor of every key in *)
(* such an array; and so a node that comes or goes moves its own keys only.*)
(* All of it for every number of nodes, of items of a node and of hashes,  *)
(* and for every hash function.                                            *)
(*                                                                         *)
(* The hash functions do not tell how a message was cut: a stream that was *)
(* fed the bytes D compressed the whole blocks of D and keeps the rest of  *)
(* D in its buffer, for blocks, words, messages and pieces of any length.  *)
(***************************************************************************)
EXTENDS HashRing, HashStreams, FiniteSetTheorems, FunctionTheorems, SequenceTheorems,
        WellFoundedInduction, TLAPS

Items == [node : Names, number : Numbers]

-----------------------------------------------------------------------------
(* Facts about numbers and sets.                                           *)

\* A set of natural numbers has a least member: the inductions below are about the least
\* counterexample.
LEMMA LeastNumber ==
    ASSUME NEW T \in SUBSET Nat, T # {}
    PROVE  \E m \in T : \A n \in T : m <= n
<1>. DEFINE R == OpToRel(<, Nat)
<1>1. IsWellFoundedOn(R, Nat)
  BY NatLessThanWellFounded
<1>2. \A x, y \in Nat : y < x => <<y, x>> \in R
  BY DEF OpToRel
<1>. HIDE DEF R
<1>3. PICK m \in T : \A n \in T : ~(<<n, m>> \in R)
  BY <1>1, WFMin
<1>4. \A n \in T : ~(n < m)
  BY <1>2, <1>3
<1>5. m \in Nat /\ \A n \in T : n \in Nat
  OBVIOUS
<1>6. \A n \in T : m <= n
  BY <1>4, <1>5
<1>. QED BY <1>6

LEMMA CountingUp ==
    ASSUME NEW n \in Nat
    PROVE  IsFiniteSet(1..n) /\ Cardinality(1..n) = n
BY FS_Interval

-----------------------------------------------------------------------------
(* Sorting.                                                                *)

\* qsort's order of the items is a strict order of their places, and total.
LEMMA BeforeIsStrict ==
    ASSUME NEW s \in Seq(Items), NEW order \in TieOrders
    PROVE  /\ \A i \in DOMAIN s : ~Before(s, order, i, i)
           /\ \A i, j, k \in DOMAIN s :
                  Before(s, order, i, j) /\ Before(s, order, j, k) => Before(s, order, i, k)
           /\ \A i, j \in DOMAIN s :
                  Before(s, order, i, j) \/ Before(s, order, j, i) \/ i = j
           /\ \A i, j \in DOMAIN s : Before(s, order, i, j) => s[i].number <= s[j].number
<1>1. \A i \in DOMAIN s : /\ i \in Nat
                          /\ s[i] = [node |-> s[i].node, number |-> s[i].number]
                          /\ s[i].node \in Names
                          /\ s[i].number \in Nat
  <2>1. DOMAIN s = 1..Len(s) /\ Len(s) \in Nat
    BY LenProperties
  <2>2. \A i \in DOMAIN s : s[i] \in Items
    BY <2>1, ElementOfSeq
  <2>3. \A x \in Items : /\ x = [node |-> x.node, number |-> x.number]
                         /\ x.node \in Names
                         /\ x.number \in Nat
    BY RingSizes DEF Items, Numbers
  <2>. QED BY <2>1, <2>2, <2>3
<1>2. \A n \in Names : order[n] \in Int
  <2>1. Cardinality(Names) \in Nat
    BY RingSizes, FS_CardinalityType
  <2>. QED BY <2>1 DEF TieOrders
<1>3. \A n, m \in Names : order[n] = order[m] => n = m
  BY DEF TieOrders
<1>. DEFINE Number(i) == s[i].number
            Rank(i) == order[s[i].node]
<1>4. \A i \in DOMAIN s : Number(i) \in Int /\ Rank(i) \in Int
  BY <1>1, <1>2
<1>5. \A i, j \in DOMAIN s :
          Before(s, order, i, j) <=> \/ Number(i) < Number(j)
                                     \/ (Number(i) = Number(j) /\ Rank(i) < Rank(j))
                                     \/ (s[i] = s[j] /\ i < j)
  BY DEF Before
<1>6. \A i, j \in DOMAIN s : s[i] = s[j] <=> (Number(i) = Number(j) /\ Rank(i) = Rank(j))
  BY <1>1, <1>3
<1>7. \A i \in DOMAIN s : i \in Int
  BY <1>1
<1>. HIDE DEF Number, Rank
<1>8. \A i, j \in DOMAIN s : Before(s, order, i, j) => Number(i) <= Number(j)
  BY <1>4, <1>5, <1>6
<1>9. \A i \in DOMAIN s : ~Before(s, order, i, i)
  BY <1>4, <1>5, <1>7
<1>10. \A i, j, k \in DOMAIN s :
           Before(s, order, i, j) /\ Before(s, order, j, k) => Before(s, order, i, k)
  BY <1>4, <1>5, <1>6, <1>7
<1>11. \A i, j \in DOMAIN s :
           Before(s, order, i, j) \/ Before(s, order, j, i) \/ i = j
  BY <1>4, <1>5, <1>6, <1>7
<1>. QED BY <1>8, <1>9, <1>10, <1>11 DEF Number

\* The places of the kept items are 1, 2, ... without a gap.
LEMMA PlacesAreOneToOne ==
    ASSUME NEW s \in Seq(Items), NEW order \in TieOrders, NEW kept \in SUBSET DOMAIN s
    PROVE  /\ IsFiniteSet(kept)
           /\ Cardinality(kept) \in Nat
           /\ [j \in kept |-> Place(s, kept, order, j)] \in Bijection(kept, 1..Cardinality(kept))
           /\ \A i, j \in kept :
                  Before(s, order, i, j) => Place(s, kept, order, i) < Place(s, kept, order, j)
<1>. DEFINE pred(j) == {i \in kept : Before(s, order, i, j)}
            place == [j \in kept |-> Place(s, kept, order, j)]
<1>1. IsFiniteSet(kept) /\ Cardinality(kept) \in Nat
  <2>1. DOMAIN s = 1..Len(s) /\ Len(s) \in Nat
    BY LenProperties
  <2>2. IsFiniteSet(DOMAIN s)
    BY <2>1, FS_Interval
  <2>. QED BY <2>2, FS_Subset, FS_CardinalityType
<1>2. \A j \in kept : /\ IsFiniteSet(pred(j))
                      /\ Cardinality(pred(j)) \in Nat
                      /\ Place(s, kept, order, j) = Cardinality(pred(j)) + 1
  <2>. TAKE j \in kept
  <2>1. pred(j) \subseteq kept
    OBVIOUS
  <2>2. IsFiniteSet(pred(j))
    BY <2>1, <1>1, FS_Subset
  <2>. QED BY <2>2, FS_CardinalityType DEF Place
<1>3. \A j \in kept : Place(s, kept, order, j) \in 1..Cardinality(kept)
  <2>. TAKE j \in kept
  <2>1. pred(j) \subseteq kept
    OBVIOUS
  <2>2. j \notin pred(j)
    BY BeforeIsStrict
  <2>3. Cardinality(pred(j)) <= Cardinality(kept)
    BY <2>1, <1>1, FS_Subset
  <2>4. Cardinality(pred(j)) # Cardinality(kept)
    BY <2>1, <2>2, <1>1, FS_Subset
  <2>. HIDE DEF pred
  <2>. QED BY <2>3, <2>4, <1>1, <1>2
<1>4. ASSUME NEW i \in kept, NEW j \in kept, Before(s, order, i, j)
      PROVE  Place(s, kept, order, i) < Place(s, kept, order, j)
  <2>1. pred(i) \subseteq pred(j)
    BY <1>4, BeforeIsStrict
  <2>2. i \in pred(j) /\ i \notin pred(i)
    BY <1>4, BeforeIsStrict
  <2>3. Cardinality(pred(i)) <= Cardinality(pred(j))
    BY <2>1, <1>2, FS_Subset
  <2>4. Cardinality(pred(i)) # Cardinality(pred(j))
    BY <2>1, <2>2, <1>2, FS_Subset
  <2>. HIDE DEF pred
  <2>. QED BY <2>3, <2>4, <1>2
<1>5. place \in [kept -> 1..Cardinality(kept)]
  BY <1>3
<1>6. \A i, j \in kept : place[i] = place[j] => i = j
  <2>1. \A i, j \in kept : Place(s, kept, order, i) \in Int
    BY <1>3, <1>1
  <2>. QED BY <1>4, <2>1, BeforeIsStrict
<1>7. place \in Injection(kept, 1..Cardinality(kept))
  BY <1>5, <1>6, Fun_IsInj
<1>8. place \in Surjection(kept, 1..Cardinality(kept))
  <2>1. IsFiniteSet(1..Cardinality(kept)) /\ Cardinality(1..Cardinality(kept)) = Cardinality(kept)
    BY <1>1, FS_Interval
  <2>. HIDE DEF place
  <2>. QED BY <1>7, <2>1, FS_Injection
<1>9. place \in Bijection(kept, 1..Cardinality(kept))
  BY <1>7, <1>8 DEF Bijection
<1>. QED BY <1>1, <1>4, <1>9

\* What the sort returns: the kept items, each as often as before, in ascending order.
LEMMA SortedSorts ==
    ASSUME NEW s \in Seq(Items), NEW order \in TieOrders, NEW kept \in SUBSET DOMAIN s
    PROVE  /\ Sorted(s, kept, order) \in Seq(Items)
           /\ Len(Sorted(s, kept, order)) = Cardinality(kept)
           /\ \A k, l \in DOMAIN Sorted(s, kept, order) :
                  k < l => Sorted(s, kept, order)[k].number <= Sorted(s, kept, order)[l].number
           /\ \E f \in Bijection(kept, DOMAIN Sorted(s, kept, order)) :
                  \A j \in kept : Sorted(s, kept, order)[f[j]] = s[j]
<1>. DEFINE place == [j \in kept |-> Place(s, kept, order, j)]
            from(k) == CHOOSE j \in kept : Place(s, kept, order, j) = k
            r == Sorted(s, kept, order)
            m == Cardinality(kept)
<1>1. /\ m \in Nat
      /\ place \in [kept -> 1..m]
      /\ \A i, j \in kept : place[i] = place[j] => i = j
      /\ \A k \in 1..m : \E j \in kept : place[j] = k
  <2>1. place \in Bijection(kept, 1..m) /\ m \in Nat
    BY PlacesAreOneToOne
  <2>. HIDE DEF place, m
  <2>2. place \in [kept -> 1..m]
    BY <2>1, Fun_BijectionProperties
  <2>3. \A i, j \in kept : place[i] = place[j] => i = j
    BY <2>1, Fun_BijectionProperties
  <2>4. \A k \in 1..m : \E j \in kept : place[j] = k
    BY <2>1 DEF Bijection, Surjection
  <2>. QED BY <2>1, <2>2, <2>3, <2>4
<1>2. \A j \in kept : place[j] = Place(s, kept, order, j)
  OBVIOUS
<1>3. \A k \in 1..m : from(k) \in kept /\ Place(s, kept, order, from(k)) = k
  BY <1>1, <1>2
<1>4. \A j \in kept : from(place[j]) = j
  BY <1>1, <1>2
<1>5. r = [k \in 1..m |-> s[from(k)]]
  BY DEF Sorted
<1>6. \A j \in DOMAIN s : s[j] \in Items
  BY LenProperties, ElementOfSeq
<1>. HIDE DEF from, r, m
<1>7. r \in [1..m -> Items]
  BY <1>3, <1>5, <1>6
<1>8. r \in Seq(Items) /\ Len(r) = m /\ DOMAIN r = 1..m
  <2>1. r \in Seq(Items)
    BY <1>1, <1>7, SeqDef
  <2>2. DOMAIN r = 1..m
    BY <1>7
  <2>3. DOMAIN r = 1..Len(r) /\ Len(r) \in Nat
    BY <2>1, LenProperties
  <2>4. Len(r) = m
    BY <2>2, <2>3, <1>1
  <2>. QED BY <2>1, <2>2, <2>4
<1>9. \A k, l \in 1..m : k < l => r[k].number <= r[l].number
  <2>. SUFFICES ASSUME NEW k \in 1..m, NEW l \in 1..m, k < l
                PROVE  s[from(k)].number <= s[from(l)].number
    BY <1>5
  <2>1. from(k) \in kept /\ from(l) \in kept /\ from(k) # from(l)
    BY <1>3
  <2>2. ~Before(s, order, from(l), from(k))
    <3>1. Before(s, order, from(l), from(k))
              => Place(s, kept, order, from(l)) < Place(s, kept, order, from(k))
      BY <2>1, PlacesAreOneToOne
    <3>2. ~(Place(s, kept, order, from(l)) < Place(s, kept, order, from(k)))
      BY <1>1, <1>3
    <3>. QED BY <3>1, <3>2
  <2>3. Before(s, order, from(k), from(l))
    BY <2>1, <2>2, BeforeIsStrict
  <2>. QED BY <2>1, <2>3, BeforeIsStrict
<1>10. place \in Bijection(kept, 1..m)
  BY PlacesAreOneToOne DEF m
<1>11. \A j \in kept : r[place[j]] = s[j]
  BY <1>1, <1>4, <1>5
<1>. HIDE DEF place
<1>. QED BY <1>8, <1>9, <1>10, <1>11 DEF r, m

-----------------------------------------------------------------------------
(* The bisection.                                                          *)

Ascending == \A i, j \in 1..Len(items) : i <= j => items[i].number <= items[j].number

\* Neighbours in order are enough.
LEMMA NeighboursSort ==
    ASSUME items \in Seq(Items),
           \A i \in 1..(Len(items) - 1) : items[i].number <= items[i + 1].number
    PROVE  Ascending
<1>. DEFINE number(i) == items[i].number
            bad == {d \in Nat : \E i \in 1..Len(items) :
                        i + d \in 1..Len(items) /\ ~(number(i) <= number(i + d))}
<1>1. Len(items) \in Nat /\ \A i \in 1..Len(items) : number(i) \in Int
  <2>1. \A i \in 1..Len(items) : items[i] \in Items
    BY ElementOfSeq
  <2>2. Numbers \subseteq Int
    BY DEF Numbers
  <2>. QED BY <2>1, <2>2, LenProperties DEF Items
<1>2. \A i \in 1..(Len(items) - 1) : number(i) <= number(i + 1)
  OBVIOUS
<1>. HIDE DEF number
<1>3. bad = {}
  <2>. SUFFICES ASSUME bad # {} PROVE FALSE
    OBVIOUS
  <2>1. PICK d \in bad : \A e \in bad : d <= e
    BY LeastNumber
  <2>2. PICK i \in 1..Len(items) : i + d \in 1..Len(items) /\ ~(number(i) <= number(i + d))
    BY <2>1
  <2>3. d \in Nat /\ d # 0
    BY <2>1, <2>2, <1>1
  <2>4. d - 1 \in Nat /\ ~(d <= d - 1)
    BY <2>3
  <2>5. d - 1 \notin bad
    BY <2>1, <2>4
  <2>6. i + (d - 1) \in 1..(Len(items) - 1)
    BY <2>2, <2>3, <1>1
  <2>7. number(i) <= number(i + (d - 1))
    BY <2>4, <2>5, <2>6, <1>1
  <2>8. number(i + (d - 1)) <= number((i + (d - 1)) + 1)
    BY <2>6, <1>2
  <2>9. (i + (d - 1)) + 1 = i + d
    BY <2>3, <1>1
  <2>10. number(i) \in Int /\ number(i + (d - 1)) \in Int /\ number(i + d) \in Int
    BY <2>2, <2>6, <1>1
  <2>. QED BY <2>2, <2>7, <2>8, <2>9, <2>10
<1>4. ASSUME NEW i \in 1..Len(items), NEW j \in 1..Len(items), i <= j
      PROVE  number(i) <= number(j)
  <2>1. j - i \in Nat /\ i + (j - i) = j
    BY <1>4, <1>1
  <2>. QED BY <2>1, <1>3
<1>. QED BY <1>4 DEF Ascending, number

\* Where a key cuts a sorted array: the items up to there are not behind it, the others are.
CutAt(cut, num) ==
    /\ cut \in 0..Len(items)
    /\ \A i \in 1..Len(items) : items[i].number > num <=> i > cut

LEMMA CutExists ==
    ASSUME items \in Seq(Items), Ascending, NEW num \in Numbers
    PROVE  \E cut \in 0..Len(items) : CutAt(cut, num)
<1>. DEFINE number(i) == items[i].number
            behind == {i \in 0..Len(items) : i = Len(items) \/ number(i + 1) > num}
<1>1. Len(items) \in Nat /\ \A i \in 1..Len(items) : number(i) \in Int
  <2>1. \A i \in 1..Len(items) : items[i] \in Items
    BY ElementOfSeq
  <2>2. Numbers \subseteq Int
    BY DEF Numbers
  <2>. QED BY <2>1, <2>2, LenProperties DEF Items
<1>2. \A i, j \in 1..Len(items) : i <= j => number(i) <= number(j)
  BY DEF Ascending
<1>3. num \in Int
  BY DEF Numbers
<1>. HIDE DEF number
<1>4. behind \in SUBSET Nat /\ behind # {}
  BY <1>1
<1>5. PICK cut \in behind : \A i \in behind : cut <= i
  BY <1>4, LeastNumber
<1>6. cut \in 0..Len(items)
  OBVIOUS
<1>7. ASSUME NEW i \in 1..Len(items), i > cut
      PROVE  number(i) > num
  <2>1. cut + 1 \in 1..Len(items) /\ cut + 1 <= i
    BY <1>7, <1>6, <1>1
  <2>2. number(cut + 1) > num
    BY <2>1, <1>1
  <2>. QED BY <2>1, <2>2, <1>1, <1>2, <1>3
<1>8. ASSUME NEW i \in 1..Len(items), number(i) > num
      PROVE  i > cut
  <2>1. i - 1 \in 0..Len(items) /\ (i - 1) + 1 = i
    BY <1>1
  <2>2. i - 1 \in behind
    BY <2>1, <1>8
  <2>3. cut <= i - 1
    BY <2>2, <1>5
  <2>. QED BY <2>3, <1>6, <1>1
<1>. QED BY <1>6, <1>7, <1>8 DEF CutAt, number

\* The bisection of a sorted array returns the first item behind the key, or the first of all.
LEMMA BisectionFinds ==
    ASSUME items \in Seq(Items), numItems = Len(items), numItems > 0, NEW num \in Numbers,
           NEW cut, CutAt(cut, num)
    PROVE  NextHighestItem(num) = items[IF cut = numItems THEN 1 ELSE cut + 1]
<1>. DEFINE behind(i) == items[i + 1].number > num
            middle(r) == (r[1] + r[2]) \div 2
            step(f, r) == IF r[1] > r[2] THEN r[1]
                          ELSE IF behind(middle(r)) THEN f[<<r[1], middle(r) - 1>>]
                          ELSE f[<<middle(r) + 1, r[2]>>]
            goal(r) == IF r[1] > r[2] \/ cut < r[1] THEN r[1] ELSE IF cut > r[2] THEN r[2] + 1 ELSE cut
            bound == CHOOSE f : f = [r \in Bounds |-> step(f, r)]
            found == [r \in Bounds |-> goal(r)]
<1>1. numItems \in Nat /\ cut \in 0..numItems
  BY LenProperties DEF CutAt
<1>2. \A i \in 0..(numItems - 1) : behind(i) <=> i >= cut
  <2>. TAKE i \in 0..(numItems - 1)
  <2>1. i + 1 \in 1..Len(items)
    BY <1>1
  <2>2. behind(i) <=> i + 1 > cut
    BY <2>1 DEF CutAt
  <2>. QED BY <2>2, <1>1
<1>. HIDE DEF behind
<1>3. ASSUME NEW r \in Bounds, ~(r[1] > r[2])
      PROVE  /\ middle(r) \in r[1]..r[2]
             /\ middle(r) \in 0..(numItems - 1)
             /\ <<r[1], middle(r) - 1>> \in Bounds
             /\ <<middle(r) + 1, r[2]>> \in Bounds
  <2>1. r[1] \in 0..numItems /\ r[2] \in -1..(numItems - 1)
    BY DEF Bounds
  <2>2. middle(r) \in Int /\ r[1] <= middle(r) /\ middle(r) <= r[2]
    BY <2>1, <1>1, <1>3
  <2>. HIDE DEF middle
  <2>3. middle(r) \in r[1]..r[2] /\ middle(r) \in 0..(numItems - 1)
    BY <2>1, <2>2, <1>1
  <2>4. middle(r) - 1 \in -1..(numItems - 1) /\ middle(r) + 1 \in 0..numItems
    BY <2>3, <1>1
  <2>. QED BY <2>1, <2>3, <2>4 DEF Bounds
<1>. HIDE DEF middle
<1>4. \A r \in Bounds : goal(r) = step(found, r)
  <2>. TAKE r \in Bounds
  <2>1. r[1] \in 0..numItems /\ r[2] \in -1..(numItems - 1)
    BY DEF Bounds
  <2>2. CASE r[1] > r[2]
    BY <2>2
  <2>3. CASE ~(r[1] > r[2]) /\ behind(middle(r))
    <3>1. middle(r) \in r[1]..r[2] /\ middle(r) >= cut
      BY <2>3, <1>2, <1>3
    <3>2. found[<<r[1], middle(r) - 1>>] = goal(<<r[1], middle(r) - 1>>)
      BY <2>3, <1>3
    <3>3. goal(r) = goal(<<r[1], middle(r) - 1>>)
      BY <2>1, <2>3, <3>1, <1>1
    <3>. HIDE DEF found, goal
    <3>. QED BY <2>3, <3>2, <3>3
  <2>4. CASE ~(r[1] > r[2]) /\ ~behind(middle(r))
    <3>1. middle(r) \in r[1]..r[2] /\ ~(middle(r) >= cut)
      BY <2>4, <1>2, <1>3
    <3>2. found[<<middle(r) + 1, r[2]>>] = goal(<<middle(r) + 1, r[2]>>)
      BY <2>4, <1>3
    <3>3. goal(r) = goal(<<middle(r) + 1, r[2]>>)
      BY <2>1, <2>4, <3>1, <1>1
    <3>. HIDE DEF found, goal
    <3>. QED BY <2>4, <3>2, <3>3
  <2>. QED BY <2>2, <2>3, <2>4
<1>5. found = [r \in Bounds |-> step(found, r)]
  BY <1>4
<1>6. bound = [r \in Bounds |-> step(bound, r)]
  <2>. HIDE DEF found
  <2>. QED BY <1>5
<1>. HIDE DEF bound
<1>7. \A r \in Bounds : bound[r] = step(bound, r)
  BY <1>6
<1>. HIDE DEF found
<1>8. \A r \in Bounds : bound[r] = goal(r)
  <2>. DEFINE size(r) == IF r[1] > r[2] THEN 0 ELSE r[2] - r[1] + 1
              bad == {d \in Nat : \E r \in Bounds : size(r) = d /\ bound[r] # goal(r)}
  <2>1. \A r \in Bounds : r[1] \in Nat /\ r[2] \in Int /\ size(r) \in Nat
    BY <1>1 DEF Bounds
  <2>. SUFFICES ASSUME bad # {} PROVE FALSE
    BY <2>1
  <2>2. PICK d \in bad : \A e \in bad : d <= e
    BY LeastNumber
  <2>3. PICK r \in Bounds : size(r) = d /\ bound[r] # goal(r)
    BY <2>2
  <2>4. \A q \in Bounds : size(q) < d => bound[q] = goal(q)
    BY <2>1, <2>2
  <2>5. CASE r[1] > r[2]
    BY <2>3, <2>5, <1>7
  <2>6. CASE ~(r[1] > r[2])
    <3>1. /\ middle(r) \in r[1]..r[2]
          /\ <<r[1], middle(r) - 1>> \in Bounds
          /\ <<middle(r) + 1, r[2]>> \in Bounds
      BY <2>6, <1>3
    <3>2. size(<<r[1], middle(r) - 1>>) < d /\ size(<<middle(r) + 1, r[2]>>) < d
      <4>1. r[1] \in Nat /\ r[2] \in Int /\ middle(r) \in Int /\ r[1] <= middle(r) /\ middle(r) <= r[2]
        BY <2>1, <3>1
      <4>2. d = (r[2] - r[1]) + 1
        BY <2>3, <2>6
      <4>. QED BY SMTT(30), <4>1, <4>2
    <3>3. /\ bound[<<r[1], middle(r) - 1>>] = goal(<<r[1], middle(r) - 1>>)
          /\ bound[<<middle(r) + 1, r[2]>>] = goal(<<middle(r) + 1, r[2]>>)
      BY <2>4, <3>1, <3>2
    <3>4. /\ found[<<r[1], middle(r) - 1>>] = goal(<<r[1], middle(r) - 1>>)
          /\ found[<<middle(r) + 1, r[2]>>] = goal(<<middle(r) + 1, r[2]>>)
      BY <3>1 DEF found
    <3>. HIDE DEF goal
    <3>5. step(bound, r) = step(found, r)
      BY <3>3, <3>4
    <3>. QED BY <2>3, <3>5, <1>4, <1>7
  <2>. QED BY <2>5, <2>6
<1>9. <<0, numItems - 1>> \in Bounds /\ goal(<<0, numItems - 1>>) = cut
  BY <1>1 DEF Bounds
<1>10. bound[<<0, numItems - 1>>] = cut
  BY <1>8, <1>9
<1>11. NextHighestItem(num) = items[IF bound[<<0, numItems - 1>>] = numItems THEN 1
                                    ELSE bound[<<0, numItems - 1>>] + 1]
  BY DEF NextHighestItem, bound, behind, middle
<1>. QED BY <1>10, <1>11

-----------------------------------------------------------------------------
(* The invariant.                                                          *)

\* Every item in the array is an item of one listed node, and every listed node has all of its
\* items there, each once, so that as many go when it is removed as hash_ring_remove_node
\* subtracts.
Owned ==
    \E place \in Bijection(nodes \X (1..Replicas), DOMAIN items) :
        \A n \in nodes, x \in 1..Replicas :
            items[place[<<n, x>>]] = [node |-> n, number |-> hash[n][x]]

RingTypes ==
    /\ hash \in Hashes
    /\ ring \in BOOLEAN /\ spoiled \in BOOLEAN
    /\ nodes \in SUBSET Names /\ _nodes \in SUBSET Names
    /\ items \in Seq(Items)
    /\ search \in [start : Numbers, key : Numbers, want : Nat, found : Seq(Names), running : BOOLEAN]

\* HashRing::clear leaves nothing behind that reset would find again.
NothingWithoutRing ==
    ~ring => /\ nodes = {} /\ _nodes = {} /\ items = <<>> /\ numItems = 0
             /\ ~spoiled /\ ~search.running

Sound ==
    Live => /\ nodes = _nodes
            /\ numItems = Len(items)
            /\ Ascending
            /\ Owned

\* What a search that is under way has behind it: all that is met up to where it stands, or, once it
\* came round, all there is.
Walked ==
    \E gone \in 0..(MaxNumber + 1) :
        /\ \/ gone = 0 /\ search.key = search.start
           \/ gone = Distance(search.start, search.key)
           \/ gone = MaxNumber + 1
        /\ \A l \in Numbers :
               Distance(search.start, l) <= gone =>
                   MetAt(l) \subseteq {search.found[j] : j \in DOMAIN search.found}

\* A search runs on a whole ring that is not empty, and has not found enough yet, unless it was asked
\* for nothing; what it found are nodes of the ring.
Searching ==
    /\ search.found \in Seq(nodes)
    /\ search.running => /\ Live /\ numItems > 0 /\ Walked
                         /\ search.want > 0 => Len(search.found) < search.want

RingInv == RingTypes /\ NothingWithoutRing /\ Sound /\ Searching /\ FindsFirst

-----------------------------------------------------------------------------
(* What the invariant says.                                                *)

LEMMA HashOfNode ==
    ASSUME hash \in Hashes, NEW n \in Names, NEW x \in 1..Replicas
    PROVE  hash[n][x] \in Numbers
BY DEF Hashes

LEMMA ItemFacts ==
    ASSUME RingTypes
    PROVE  /\ Len(items) \in Nat
           /\ DOMAIN items = 1..Len(items)
           /\ IsFiniteSet(DOMAIN items)
           /\ Cardinality(DOMAIN items) = Len(items)
           /\ \A i \in DOMAIN items : /\ items[i] = [node |-> items[i].node, number |-> items[i].number]
                                      /\ items[i].node \in Names
                                      /\ items[i].number \in Numbers
<1>1. Len(items) \in Nat /\ DOMAIN items = 1..Len(items)
  BY LenProperties DEF RingTypes
<1>2. IsFiniteSet(DOMAIN items) /\ Cardinality(DOMAIN items) = Len(items)
  <2>1. IsFiniteSet(1..Len(items)) /\ Cardinality(1..Len(items)) = Len(items)
    BY <1>1, CountingUp
  <2>. QED BY <2>1, <1>1
<1>3. \A i \in DOMAIN items : items[i] \in Items
  BY <1>1, ElementOfSeq DEF RingTypes
<1>. QED BY <1>1, <1>2, <1>3 DEF Items

\* The items are those of the listed nodes.
LEMMA ItemsOfNodes ==
    ASSUME RingTypes, Owned
    PROVE  /\ \A i \in DOMAIN items :
                  /\ items[i].node \in nodes
                  /\ \E x \in 1..Replicas : hash[items[i].node][x] = items[i].number
           /\ \A n \in nodes, x \in 1..Replicas :
                  \E i \in DOMAIN items : items[i] = [node |-> n, number |-> hash[n][x]]
<1>1. PICK place \in Bijection(nodes \X (1..Replicas), DOMAIN items) :
          \A n \in nodes, x \in 1..Replicas :
              items[place[<<n, x>>]] = [node |-> n, number |-> hash[n][x]]
  BY DEF Owned
<1>2. place \in [nodes \X (1..Replicas) -> DOMAIN items]
  BY Fun_BijectionProperties
<1>3. \A i \in DOMAIN items : \E z \in nodes \X (1..Replicas) : place[z] = i
  BY DEF Bijection, Surjection
<1>4. ASSUME NEW i \in DOMAIN items
      PROVE  /\ items[i].node \in nodes
             /\ \E x \in 1..Replicas : hash[items[i].node][x] = items[i].number
  <2>1. PICK n \in nodes, x \in 1..Replicas : place[<<n, x>>] = i
    BY <1>3
  <2>2. items[i] = [node |-> n, number |-> hash[n][x]]
    BY <1>1, <2>1
  <2>. QED BY <2>2
<1>5. ASSUME NEW n \in nodes, NEW x \in 1..Replicas
      PROVE  \E i \in DOMAIN items : items[i] = [node |-> n, number |-> hash[n][x]]
  <2>1. place[<<n, x>>] \in DOMAIN items
    BY <1>2
  <2>. QED BY <1>1, <2>1
<1>. QED BY <1>4, <1>5

\* The invariant says at least as much as RingWhole.
LEMMA InvImpliesWhole ==
    ASSUME RingInv
    PROVE  RingWhole
<1>. SUFFICES ASSUME Live PROVE RingWhole
  BY DEF RingWhole
<1>1. RingTypes /\ nodes = _nodes /\ numItems = Len(items) /\ Ascending /\ Owned
  BY DEF RingInv, Sound
<1>2. \A i \in 1..(Len(items) - 1) : items[i].number <= items[i + 1].number
  BY <1>1, ItemFacts DEF Ascending
<1>3. ASSUME NEW n \in Names, NEW k \in Numbers
      PROVE  Cardinality({i \in DOMAIN items : items[i] = [node |-> n, number |-> k]})
                 = IF n \in _nodes THEN Cardinality({x \in 1..Replicas : hash[n][x] = k}) ELSE 0
  <2>. DEFINE there == {i \in DOMAIN items : items[i] = [node |-> n, number |-> k]}
              own == {x \in 1..Replicas : hash[n][x] = k}
  <2>1. CASE n \notin nodes
    <3>1. there = {}
      BY <2>1, <1>1, ItemsOfNodes
    <3>. QED BY <3>1, <2>1, <1>1, FS_EmptySet
  <2>2. CASE n \in nodes
    <3>1. PICK place \in Bijection(nodes \X (1..Replicas), DOMAIN items) :
              \A m \in nodes, x \in 1..Replicas :
                  items[place[<<m, x>>]] = [node |-> m, number |-> hash[m][x]]
      BY <1>1 DEF Owned
    <3>2. place \in [nodes \X (1..Replicas) -> DOMAIN items]
      BY Fun_BijectionProperties
    <3>3. \A i \in DOMAIN items : \E z \in nodes \X (1..Replicas) : place[z] = i
      BY DEF Bijection, Surjection
    <3>4. \A y, z \in nodes \X (1..Replicas) : place[y] = place[z] => y = z
      BY Fun_BijectionProperties
    <3>. DEFINE f == [x \in own |-> place[<<n, x>>]]
    <3>5. f \in [own -> there]
      BY <2>2, <3>1, <3>2
    <3>6. \A x, y \in own : f[x] = f[y] => x = y
      BY <2>2, <3>4
    <3>7. \A i \in there : \E x \in own : f[x] = i
      <4>. TAKE i \in there
      <4>1. PICK m \in nodes, x \in 1..Replicas : place[<<m, x>>] = i
        BY <3>3
      <4>2. [node |-> n, number |-> k] = [node |-> m, number |-> hash[m][x]]
        BY <3>1, <4>1
      <4>3. m = n /\ hash[n][x] = k
        BY <4>2
      <4>. QED BY <4>1, <4>3
    <3>8. f \in Bijection(own, there)
      <4>. HIDE DEF f, own, there
      <4>. QED BY <3>5, <3>6, <3>7, Fun_IsBij
    <3>9. IsFiniteSet(own)
      BY RingSizes, FS_Interval, FS_Subset
    <3>10. Cardinality(there) = Cardinality(own)
      <4>. HIDE DEF f, own, there
      <4>. QED BY <3>8, <3>9, FS_Bijection DEF ExistsBijection
    <3>. QED BY <3>10, <2>2, <1>1
  <2>. QED BY <2>1, <2>2
<1>. QED BY <1>1, <1>2, <1>3 DEF RingWhole

\* On a whole ring that is not empty the bisection takes an item of the key's successor.
LEMMA NextIsSuccessor ==
    ASSUME RingInv, Live, numItems > 0, NEW key \in Numbers
    PROVE  \E i \in DOMAIN items : /\ NextHighestItem(key) = items[i]
                                   /\ items[i].number = Successor(key)
<1>1. /\ RingTypes /\ items \in Seq(Items)
      /\ nodes = _nodes /\ numItems = Len(items) /\ Ascending /\ Owned
  BY DEF RingInv, Sound, RingTypes
<1>2. PICK cut \in 0..Len(items) : CutAt(cut, key)
  BY <1>1, CutExists
<1>. DEFINE i == IF cut = numItems THEN 1 ELSE cut + 1
            number(j) == items[j].number
            greater == {k \in Taken : k > key}
            from == IF greater = {} THEN Taken ELSE greater
<1>3. NextHighestItem(key) = items[i]
  BY <1>1, <1>2, BisectionFinds
<1>4. Len(items) \in Nat /\ DOMAIN items = 1..Len(items) /\ \A j \in 1..Len(items) : number(j) \in Nat
  BY <1>1, ItemFacts DEF Numbers
<1>5. i \in 1..Len(items)
  BY <1>1, <1>2, <1>4
<1>6. \A j \in 1..Len(items) : number(j) \in Taken
  BY <1>1, <1>4, ItemsOfNodes DEF Taken
<1>7. \A k \in Taken : \E j \in 1..Len(items) : number(j) = k
  <2>. TAKE k \in Taken
  <2>1. PICK n \in nodes, x \in 1..Replicas : hash[n][x] = k
    BY <1>1 DEF Taken
  <2>2. PICK j \in DOMAIN items : items[j] = [node |-> n, number |-> hash[n][x]]
    BY <1>1, ItemsOfNodes
  <2>. QED BY <2>1, <2>2, <1>4
<1>8. \A j, l \in 1..Len(items) : j <= l => number(j) <= number(l)
  BY <1>1 DEF Ascending
<1>9. \A j \in 1..Len(items) : number(j) > key <=> j > cut
  BY <1>2 DEF CutAt
<1>. HIDE DEF number
<1>10. number(i) \in from /\ \A l \in from : number(i) <= l
  <2>1. CASE cut = numItems
    <3>1. greater = {}
      BY <2>1, <1>1, <1>4, <1>7, <1>9
    <3>2. i = 1
      BY <2>1
    <3>. QED BY <3>1, <3>2, <1>4, <1>5, <1>6, <1>7, <1>8
  <2>2. CASE cut # numItems
    <3>1. i = cut + 1 /\ number(i) > key
      BY <2>2, <1>1, <1>2, <1>4, <1>5, <1>9
    <3>2. number(i) \in greater
      BY <3>1, <1>5, <1>6
    <3>3. ASSUME NEW l \in greater PROVE number(i) <= l
      <4>1. PICK j \in 1..Len(items) : number(j) = l
        BY <1>7
      <4>2. j > cut
        BY <4>1, <1>9
      <4>. QED BY <4>1, <4>2, <3>1, <1>2, <1>4, <1>5, <1>8
    <3>. QED BY <3>2, <3>3
  <2>. QED BY <2>1, <2>2
<1>11. from \subseteq Int
  BY <1>4, <1>7
<1>12. Successor(key) = number(i)
  <2>1. Successor(key) = CHOOSE k \in from : \A l \in from : k <= l
    BY DEF Successor
  <2>. HIDE DEF from
  <2>2. \A k \in from : (\A l \in from : k <= l) => k = number(i)
    <3>. TAKE k \in from
    <3>. HAVE \A l \in from : k <= l
    <3>1. number(i) \in from /\ k <= number(i) /\ number(i) <= k
      BY <1>10
    <3>2. k \in Int /\ number(i) \in Int
      BY <3>1, <1>11
    <3>. QED BY <3>1, <3>2
  <2>. QED BY <2>1, <2>2, <1>10
<1>. QED BY <1>3, <1>4, <1>5, <1>12 DEF number

\* Without nodes there are no items, and with a node there is one.
LEMMA ItemsWithNodes ==
    ASSUME RingInv, Live
    PROVE  numItems > 0 <=> _nodes # {}
<1>1. RingTypes /\ nodes = _nodes /\ numItems = Len(items) /\ Owned
  BY DEF RingInv, Sound
<1>2. Len(items) > 0 => nodes # {}
  BY <1>1, ItemFacts, ItemsOfNodes
<1>3. nodes # {} => Len(items) > 0
  <2>1. 1 \in 1..Replicas
    BY RingSizes
  <2>2. nodes # {} => DOMAIN items # {}
    BY <2>1, <1>1, ItemsOfNodes
  <2>. QED BY <2>2, <1>1, ItemFacts
<1>. QED BY <1>1, <1>2, <1>3

LEMMA InvFindsSuccessor ==
    ASSUME RingInv
    PROVE  FindsSuccessor
<1>. SUFFICES ASSUME Live, NEW key \in Numbers
              PROVE  IF _nodes = {} THEN FindNode(key) = NoNode
                     ELSE FindNode(key) \in HoldersOf(Successor(key))
  BY DEF FindsSuccessor
<1>1. RingTypes /\ nodes = _nodes /\ numItems = Len(items) /\ Owned /\ ring
  BY DEF RingInv, Sound, Live
<1>2. CASE _nodes = {}
  <2>1. numItems = 0
    BY <1>1, <1>2, ItemsWithNodes, ItemFacts
  <2>. QED BY <1>2, <2>1 DEF FindNode
<1>3. CASE _nodes # {}
  <2>1. numItems > 0 /\ numItems # 0
    BY <1>1, <1>3, ItemsWithNodes
  <2>2. PICK i \in DOMAIN items : /\ NextHighestItem(key) = items[i]
                                  /\ items[i].number = Successor(key)
    BY <2>1, NextIsSuccessor
  <2>3. /\ items[i].node \in _nodes
        /\ \E x \in 1..Replicas : hash[items[i].node][x] = Successor(key)
    BY <1>1, <2>2, ItemsOfNodes
  <2>4. FindNode(key) = items[i].node
    BY <1>1, <2>1, <2>2, <2>3 DEF FindNode
  <2>. QED BY <1>3, <2>3, <2>4 DEF HoldersOf
<1>. QED BY <1>2, <1>3

-----------------------------------------------------------------------------
(* The steps.                                                              *)

LEMMA NoSearchFacts ==
    /\ NoSearch \in [start : Numbers, key : Numbers, want : Nat, found : Seq(Names), running : BOOLEAN]
    /\ NoSearch.found = <<>> /\ ~NoSearch.running /\ Len(NoSearch.found) = 0 /\ NoSearch.want = 0
    /\ \A S : NoSearch.found \in Seq(S)
<1>1. 0 \in Numbers
  BY RingSizes DEF Numbers
<1>2. \A S : <<>> \in Seq(S)
  BY EmptySeq
<1>3. Len(<<>>) = 0
  BY EmptySeq
<1>. QED BY <1>1, <1>2, <1>3 DEF NoSearch

LEMMA InitInv ==
    ASSUME Init
    PROVE  RingInv
<1>1. RingTypes
  BY NoSearchFacts, EmptySeq DEF Init, RingTypes
<1>2. NothingWithoutRing
  BY DEF Init, NothingWithoutRing
<1>3. items = <<>> /\ Len(items) = 0 /\ DOMAIN items = {}
  <2>1. items = <<>>
    BY DEF Init
  <2>. QED BY <2>1, EmptySeq
<1>4. Ascending
  BY <1>3 DEF Ascending
<1>5. Owned
  <2>1. nodes \X (1..Replicas) = {}
    BY DEF Init
  <2>. DEFINE place == [z \in {} |-> 0]
  <2>2. place \in Bijection({}, {})
    <3>1. place \in [{} -> {}]
      OBVIOUS
    <3>. QED BY <3>1, Fun_IsBij
  <2>3. place \in Bijection(nodes \X (1..Replicas), DOMAIN items)
    BY <2>1, <2>2, <1>3
  <2>4. nodes = {}
    BY DEF Init
  <2>. HIDE DEF place
  <2>. QED BY <2>3, <2>4 DEF Owned
<1>6. Sound
  BY <1>3, <1>4, <1>5 DEF Init, Sound
<1>7. Searching /\ FindsFirst
  BY NoSearchFacts, EmptySeq DEF Init, Searching, FindsFirst
<1>. QED BY <1>1, <1>2, <1>6, <1>7 DEF RingInv

\* A step that ends a search leaves nothing of it behind.
LEMMA NoSearchLeft ==
    ASSUME search' = NoSearch
    PROVE  Searching' /\ FindsFirst'
BY NoSearchFacts, EmptySeq DEF Searching, FindsFirst

LEMMA AddNodeInv ==
    ASSUME RingInv, NEW name \in Names, AddNode(name)
    PROVE  RingInv'
<1>1. /\ RingTypes /\ items \in Seq(Items) /\ ring /\ ~spoiled
      /\ nodes = _nodes /\ numItems = Len(items) /\ Ascending /\ Owned
  BY DEF AddNode, Idle, Live, RingInv, Sound, RingTypes
<1>2. name \notin nodes
  BY DEF AddNode, GetNode
<1>. DEFINE own == ItemsOf(name)
            s == items \o own
            size == Len(items) + Replicas
<1>3. PICK order \in TieOrders : items' = Sorted(s, 1..size, order)
  BY DEF AddNode
<1>4. /\ own \in Seq(Items) /\ Len(own) = Replicas
      /\ \A x \in 1..Replicas : own[x] = [node |-> name, number |-> hash[name][x]]
  <2>1. \A x \in 1..Replicas : [node |-> name, number |-> hash[name][x]] \in Items
    BY <1>1, HashOfNode DEF RingTypes, Items
  <2>2. own \in [1..Replicas -> Items] /\ DOMAIN own = 1..Replicas
    BY <2>1 DEF ItemsOf
  <2>3. own \in Seq(Items)
    BY <2>2, RingSizes, SeqDef
  <2>4. \A x \in 1..Replicas : own[x] = [node |-> name, number |-> hash[name][x]]
    BY DEF ItemsOf
  <2>. HIDE DEF own
  <2>5. Len(own) = Replicas
    BY <2>2, <2>3, RingSizes, LenProperties
  <2>. QED BY <2>3, <2>4, <2>5
<1>. HIDE DEF own
<1>5. Len(items) \in Nat /\ DOMAIN items = 1..Len(items) /\ Replicas \in Nat /\ size \in Nat
  BY <1>1, ItemFacts, RingSizes
<1>6. /\ s \in Seq(Items) /\ Len(s) = size /\ DOMAIN s = 1..size
      /\ \A i \in 1..Len(items) : s[i] = items[i]
      /\ \A x \in 1..Replicas : s[Len(items) + x] = own[x]
  <2>1. s \in Seq(Items) /\ Len(s) = size
    BY <1>1, <1>4, ConcatProperties
  <2>2. \A i \in 1..(Len(items) + Len(own)) :
            s[i] = IF i <= Len(items) THEN items[i] ELSE own[i - Len(items)]
    BY <1>1, <1>4, ConcatProperties
  <2>3. \A i \in 1..Len(items) : s[i] = items[i]
    BY <2>2, <1>4, <1>5
  <2>4. \A x \in 1..Replicas : s[Len(items) + x] = own[x]
    <3>. TAKE x \in 1..Replicas
    <3>1. Len(items) + x \in 1..(Len(items) + Len(own)) /\ ~(Len(items) + x <= Len(items))
          /\ (Len(items) + x) - Len(items) = x
      BY <1>4, <1>5
    <3>. QED BY <3>1, <2>2
  <2>5. DOMAIN s = 1..size
    BY <2>1, LenProperties
  <2>. QED BY <2>1, <2>3, <2>4, <2>5
<1>. HIDE DEF s
<1>. DEFINE kept == DOMAIN s
<1>7. /\ items' \in Seq(Items)
      /\ Len(items') = size
      /\ \A k, l \in DOMAIN items' : k < l => items'[k].number <= items'[l].number
      /\ \E f \in Bijection(kept, DOMAIN items') : \A j \in kept : items'[f[j]] = s[j]
  <2>1. items' = Sorted(s, kept, order) /\ kept \in SUBSET DOMAIN s
    BY <1>3, <1>6
  <2>2. Cardinality(kept) = size
    BY <1>5, <1>6, CountingUp
  <2>. HIDE DEF kept, size
  <2>. QED BY <1>6, <2>1, <2>2, SortedSorts
<1>8. DOMAIN items' = 1..size
  BY <1>7, LenProperties
<1>9. RingTypes'
  <2>1. _nodes' \in SUBSET Names /\ nodes' \in SUBSET Names
    BY <1>1 DEF AddNode, Keep, RingTypes
  <2>2. UNCHANGED <<hash, ring, spoiled>> /\ search' = NoSearch
    BY DEF AddNode
  <2>. QED BY <1>1, <1>7, <2>1, <2>2, NoSearchFacts DEF RingTypes
<1>10. Ascending'
  <2>1. \A i \in 1..size : items'[i].number \in Int
    <3>1. \A i \in 1..size : items'[i] \in Items
      BY <1>7, <1>8, ElementOfSeq
    <3>. QED BY <3>1 DEF Items, Numbers
  <2>2. ASSUME NEW i \in 1..size, NEW j \in 1..size, i <= j
        PROVE  items'[i].number <= items'[j].number
    <3>1. CASE i < j
      BY <3>1, <1>7, <1>8
    <3>2. CASE i = j
      BY <3>2, <2>1
    <3>. QED BY <3>1, <3>2, <2>2, <1>5
  <2>. QED BY <2>2, <1>7 DEF Ascending
<1>11. Owned'
  <2>1. PICK place \in Bijection(nodes \X (1..Replicas), DOMAIN items) :
            \A n \in nodes, x \in 1..Replicas :
                items[place[<<n, x>>]] = [node |-> n, number |-> hash[n][x]]
    BY <1>1 DEF Owned
  <2>2. /\ place \in [nodes \X (1..Replicas) -> 1..Len(items)]
        /\ \A y, z \in nodes \X (1..Replicas) : place[y] = place[z] => y = z
    BY <1>5, Fun_BijectionProperties
  <2>3. \A i \in 1..Len(items) : \E z \in nodes \X (1..Replicas) : place[z] = i
    BY <1>5 DEF Bijection, Surjection
  <2>4. PICK f \in Bijection(kept, DOMAIN items') : \A j \in kept : items'[f[j]] = s[j]
    BY <1>7
  <2>. DEFINE All == (nodes \cup {name}) \X (1..Replicas)
              before == [z \in All |-> IF z[1] = name THEN Len(items) + z[2] ELSE place[z]]
              place2 == [z \in All |-> f[before[z]]]
  <2>5. \A z \in All : \/ z[1] = name /\ z[2] \in 1..Replicas /\ z = <<name, z[2]>>
                       \/ z[1] # name /\ z \in nodes \X (1..Replicas)
    OBVIOUS
  <2>6. \A z \in All : \/ z[1] = name /\ before[z] = Len(items) + z[2]
                       \/ z[1] # name /\ before[z] = place[z]
    OBVIOUS
  <2>7. before \in [All -> kept]
    <3>1. ASSUME NEW z \in All PROVE before[z] \in 1..size
      BY <2>2, <2>5, <2>6, <1>5
    <3>. QED BY <3>1, <1>6
  <2>. HIDE DEF before
  <2>8. ASSUME NEW y \in All, NEW z \in All, before[y] = before[z]
        PROVE  y = z
    <3>1. CASE y[1] = name /\ z[1] = name
      <4>1. y[2] = z[2]
        BY <3>1, <2>5, <2>6, <2>8, <1>5
      <4>. QED BY <3>1, <4>1, <2>5
    <3>2. CASE y[1] # name /\ z[1] # name
      BY <3>2, <2>2, <2>5, <2>6, <2>8
    <3>3. \A u, v \in All : u[1] = name /\ v[1] # name => before[u] # before[v]
      <4>. TAKE u, v \in All
      <4>. HAVE u[1] = name /\ v[1] # name
      <4>1. before[u] = Len(items) + u[2] /\ u[2] \in 1..Replicas
        BY <2>5, <2>6
      <4>2. before[v] \in 1..Len(items)
        BY <2>2, <2>5, <2>6
      <4>. QED BY <4>1, <4>2, <1>5
    <3>. QED BY <3>1, <3>2, <3>3, <2>8
  <2>9. ASSUME NEW j \in kept PROVE \E z \in All : before[z] = j
    <3>1. j \in 1..size
      BY <1>6
    <3>2. CASE j <= Len(items)
      <4>1. PICK z \in nodes \X (1..Replicas) : place[z] = j
        BY <3>1, <3>2, <2>3, <1>5
      <4>2. z \in All /\ z[1] # name
        BY <1>2
      <4>. QED BY <4>1, <4>2, <2>6
    <3>3. CASE ~(j <= Len(items))
      <4>1. j - Len(items) \in 1..Replicas /\ Len(items) + (j - Len(items)) = j
        BY <3>1, <3>3, <1>5
      <4>2. <<name, j - Len(items)>> \in All
        BY <4>1
      <4>. QED BY <4>1, <4>2, <2>6
    <3>. QED BY <3>2, <3>3
  <2>10. before \in Bijection(All, kept)
    <3>. HIDE DEF All, kept
    <3>. QED BY <2>7, <2>8, <2>9, Fun_IsBij
  <2>11. place2 \in Bijection(All, DOMAIN items')
    <3>. HIDE DEF All, kept
    <3>. QED BY <2>4, <2>10, Fun_BijTransitive
  <2>12. ASSUME NEW n \in nodes \cup {name}, NEW x \in 1..Replicas
         PROVE  items'[place2[<<n, x>>]] = [node |-> n, number |-> hash[n][x]]
    <3>1. <<n, x>> \in All
      OBVIOUS
    <3>2. before[<<n, x>>] \in kept
      BY <3>1, <2>7
    <3>3. items'[place2[<<n, x>>]] = s[before[<<n, x>>]]
      BY <3>1, <3>2, <2>4
    <3>4. CASE n = name
      <4>1. before[<<n, x>>] = Len(items) + x
        BY <3>1, <3>4, <2>6
      <4>. QED BY <3>3, <3>4, <4>1, <1>4, <1>6
    <3>5. CASE n # name
      <4>1. before[<<n, x>>] = place[<<n, x>>] /\ n \in nodes
        BY <3>1, <3>5, <2>6
      <4>2. place[<<n, x>>] \in 1..Len(items)
        BY <4>1, <2>2
      <4>. QED BY <3>3, <4>1, <4>2, <2>1, <1>6
    <3>. QED BY <3>4, <3>5
  <2>13. nodes' = nodes \cup {name} /\ hash' = hash
    BY DEF AddNode
  <2>. HIDE DEF place2, kept
  <2>14. place2 \in Bijection(nodes' \X (1..Replicas), DOMAIN items')
    BY <2>11, <2>13
  <2>15. \A n \in nodes', x \in 1..Replicas :
             items'[place2[<<n, x>>]] = [node |-> n, number |-> hash'[n][x]]
    BY <2>12, <2>13
  <2>. QED BY <2>14, <2>15 DEF Owned
<1>12. nodes' = _nodes' /\ numItems' = Len(items')
  BY <1>1, <1>7 DEF AddNode, Keep
<1>13. Sound'
  BY <1>10, <1>11, <1>12 DEF Sound
<1>14. NothingWithoutRing'
  BY <1>1 DEF AddNode, NothingWithoutRing
<1>15. Searching' /\ FindsFirst'
  BY NoSearchLeft DEF AddNode
<1>. QED BY <1>9, <1>13, <1>14, <1>15 DEF RingInv

LEMMA ItemFields ==
    ASSUME NEW item, NEW n, NEW k, item = [node |-> n, number |-> k]
    PROVE  item.node = n /\ item.number = k
OBVIOUS

\* All of a node's items are there, so that as many go as are subtracted.
LEMMA AllItemsGo ==
    ASSUME RingTypes, Owned, NEW name \in nodes
    PROVE  /\ Without(name) \in SUBSET DOMAIN items
           /\ Cardinality(Without(name)) = Len(items) - Replicas
<1>1. PICK place \in Bijection(nodes \X (1..Replicas), DOMAIN items) :
          \A n \in nodes, x \in 1..Replicas :
              items[place[<<n, x>>]] = [node |-> n, number |-> hash[n][x]]
  BY DEF Owned
<1>2. /\ place \in [nodes \X (1..Replicas) -> DOMAIN items]
      /\ \A y, z \in nodes \X (1..Replicas) : place[y] = place[z] => y = z
  BY Fun_BijectionProperties
<1>3. \A i \in DOMAIN items : \E z \in nodes \X (1..Replicas) : place[z] = i
  BY DEF Bijection, Surjection
<1>. DEFINE gone == DOMAIN items \ Without(name)
            f == [x \in 1..Replicas |-> place[<<name, x>>]]
<1>4. gone = {i \in DOMAIN items : items[i].node = name}
  BY DEF Without
<1>5. f \in [1..Replicas -> gone]
  <2>1. \A x \in 1..Replicas : place[<<name, x>>] \in DOMAIN items /\ items[place[<<name, x>>]].node = name
    <3>. TAKE x \in 1..Replicas
    <3>1. items[place[<<name, x>>]] = [node |-> name, number |-> hash[name][x]]
      BY <1>1
    <3>2. items[place[<<name, x>>]].node = name
      BY <3>1, ItemFields
    <3>. QED BY <3>2, <1>2
  <2>. QED BY <2>1, <1>4
<1>6. \A x, y \in 1..Replicas : f[x] = f[y] => x = y
  BY <1>2
<1>7. \A i \in gone : \E x \in 1..Replicas : f[x] = i
  <2>. TAKE i \in gone
  <2>1. PICK n \in nodes, x \in 1..Replicas : place[<<n, x>>] = i
    BY <1>3
  <2>2. items[i] = [node |-> n, number |-> hash[n][x]]
    BY <2>1, <1>1
  <2>3. items[i].node = n /\ items[i].node = name
    BY <2>2, <1>4, ItemFields
  <2>4. n = name
    BY <2>3
  <2>. QED BY <2>1, <2>4
<1>8. f \in Bijection(1..Replicas, gone)
  <2>. HIDE DEF f, gone
  <2>. QED BY <1>5, <1>6, <1>7, Fun_IsBij
<1>9. Cardinality(gone) = Replicas
  <2>1. IsFiniteSet(1..Replicas) /\ Cardinality(1..Replicas) = Replicas
    BY RingSizes, CountingUp
  <2>. HIDE DEF f, gone
  <2>. QED BY <1>8, <2>1, FS_Bijection DEF ExistsBijection
<1>10. Without(name) \subseteq DOMAIN items
  BY DEF Without
<1>11. DOMAIN items \cap Without(name) = Without(name)
  BY <1>10
<1>12. IsFiniteSet(DOMAIN items) /\ Cardinality(DOMAIN items) = Len(items) /\ Len(items) \in Nat
  BY ItemFacts
<1>13. Cardinality(gone) = Cardinality(DOMAIN items) - Cardinality(DOMAIN items \cap Without(name))
  BY <1>12, FS_Difference
<1>14. Cardinality(Without(name)) \in Nat
  BY <1>10, <1>12, FS_Subset, FS_CardinalityType
<1>15. Replicas \in Nat
  BY RingSizes
<1>. HIDE DEF gone
<1>16. Cardinality(DOMAIN items \cap Without(name)) = Cardinality(Without(name))
  BY <1>11
<1>17. Cardinality(gone) = Len(items) - Cardinality(Without(name))
  BY <1>12, <1>13, <1>16
<1>18. Replicas = Len(items) - Cardinality(Without(name))
  BY <1>9, <1>17
<1>19. Cardinality(Without(name)) = Len(items) - Replicas
  BY <1>12, <1>14, <1>15, <1>18
<1>. QED BY <1>10, <1>19

LEMMA RemoveNodeInv ==
    ASSUME RingInv, NEW name \in Names, RemoveNode(name)
    PROVE  RingInv'
<1>1. /\ RingTypes /\ items \in Seq(Items) /\ ring /\ ~spoiled
      /\ nodes = _nodes /\ numItems = Len(items) /\ Ascending /\ Owned
  BY DEF RemoveNode, Idle, Live, RingInv, Sound, RingTypes
<1>2. name \in nodes
  BY DEF RemoveNode, GetNode
<1>. DEFINE kept == Without(name)
            size == Len(items) - Replicas
<1>3. PICK order \in TieOrders : items' = Sorted(items, kept, order)
  BY DEF RemoveNode
<1>4. kept \in SUBSET DOMAIN items /\ Cardinality(kept) = size
  BY <1>1, <1>2, AllItemsGo
<1>5. /\ items' \in Seq(Items)
      /\ Len(items') = size
      /\ \A k, l \in DOMAIN items' : k < l => items'[k].number <= items'[l].number
      /\ \E f \in Bijection(kept, DOMAIN items') : \A j \in kept : items'[f[j]] = items[j]
  <2>. HIDE DEF kept, size
  <2>. QED BY <1>1, <1>3, <1>4, SortedSorts
<1>6. DOMAIN items' = 1..size /\ size \in Nat
  BY <1>5, LenProperties
<1>7. RingTypes'
  <2>1. _nodes' \in SUBSET Names /\ nodes' \in SUBSET Names
    BY <1>1 DEF RemoveNode, Forget, RingTypes
  <2>2. UNCHANGED <<hash, ring, spoiled>> /\ search' = NoSearch
    BY DEF RemoveNode
  <2>. QED BY <1>1, <1>5, <2>1, <2>2, NoSearchFacts DEF RingTypes
<1>8. Ascending'
  <2>1. \A i \in 1..size : items'[i].number \in Int
    <3>1. \A i \in 1..size : items'[i] \in Items
      BY <1>5, <1>6, ElementOfSeq
    <3>. QED BY <3>1 DEF Items, Numbers
  <2>2. ASSUME NEW i \in 1..size, NEW j \in 1..size, i <= j
        PROVE  items'[i].number <= items'[j].number
    <3>1. CASE i < j
      BY <3>1, <1>5, <1>6
    <3>2. CASE i = j
      BY <3>2, <2>1
    <3>3. i \in Int /\ j \in Int
      BY <1>6
    <3>. QED BY <3>1, <3>2, <3>3, <2>2
  <2>. QED BY <2>2, <1>5 DEF Ascending
<1>9. Owned'
  <2>1. PICK place \in Bijection(nodes \X (1..Replicas), DOMAIN items) :
            \A n \in nodes, x \in 1..Replicas :
                items[place[<<n, x>>]] = [node |-> n, number |-> hash[n][x]]
    BY <1>1 DEF Owned
  <2>2. /\ place \in [nodes \X (1..Replicas) -> DOMAIN items]
        /\ \A y, z \in nodes \X (1..Replicas) : place[y] = place[z] => y = z
    BY Fun_BijectionProperties
  <2>3. \A i \in DOMAIN items : \E z \in nodes \X (1..Replicas) : place[z] = i
    BY DEF Bijection, Surjection
  <2>4. PICK f \in Bijection(kept, DOMAIN items') : \A j \in kept : items'[f[j]] = items[j]
    BY <1>5
  <2>. DEFINE Others == (nodes \ {name}) \X (1..Replicas)
              before == [z \in Others |-> place[z]]
              place2 == [z \in Others |-> f[before[z]]]
  <2>5. \A z \in Others : z \in nodes \X (1..Replicas) /\ z[1] # name /\ z = <<z[1], z[2]>>
                        /\ z[1] \in nodes /\ z[2] \in 1..Replicas
    OBVIOUS
  <2>6. \A z \in nodes \X (1..Replicas) : items[place[z]].node = z[1]
    <3>1. ASSUME NEW n \in nodes, NEW x \in 1..Replicas
          PROVE  items[place[<<n, x>>]].node = n
      <4>1. items[place[<<n, x>>]] = [node |-> n, number |-> hash[n][x]]
        BY <2>1
      <4>. QED BY <4>1, ItemFields
    <3>. QED BY <3>1
  <2>7. before \in [Others -> kept]
    <3>1. ASSUME NEW z \in Others PROVE place[z] \in kept
      <4>1. place[z] \in DOMAIN items /\ items[place[z]].node # name
        BY <2>2, <2>5, <2>6
      <4>. QED BY <4>1 DEF Without
    <3>. QED BY <3>1
  <2>8. \A y, z \in Others : before[y] = before[z] => y = z
    BY <2>2, <2>5
  <2>9. ASSUME NEW j \in kept PROVE \E z \in Others : before[z] = j
    <3>1. j \in DOMAIN items /\ items[j].node # name
      BY DEF Without
    <3>2. PICK n \in nodes, x \in 1..Replicas : place[<<n, x>>] = j
      BY <3>1, <2>3
    <3>3. n # name
      <4>1. <<n, x>> \in nodes \X (1..Replicas) /\ <<n, x>>[1] = n
        OBVIOUS
      <4>. QED BY <4>1, <3>1, <3>2, <2>6
    <3>. QED BY <3>2, <3>3
  <2>10. before \in Bijection(Others, kept)
    <3>. HIDE DEF Others, kept, before
    <3>. QED BY <2>7, <2>8, <2>9, Fun_IsBij
  <2>11. place2 \in Bijection(Others, DOMAIN items')
    <3>. HIDE DEF Others, kept, before
    <3>. QED BY <2>4, <2>10, Fun_BijTransitive
  <2>12. ASSUME NEW n \in nodes \ {name}, NEW x \in 1..Replicas
         PROVE  items'[place2[<<n, x>>]] = [node |-> n, number |-> hash[n][x]]
    <3>1. <<n, x>> \in Others
      OBVIOUS
    <3>2. before[<<n, x>>] \in kept /\ before[<<n, x>>] = place[<<n, x>>]
      BY <3>1, <2>7
    <3>3. items'[place2[<<n, x>>]] = items[place[<<n, x>>]]
      BY <3>1, <3>2, <2>4
    <3>. QED BY <3>3, <2>1
  <2>13. nodes' = nodes \ {name} /\ hash' = hash
    BY DEF RemoveNode
  <2>. HIDE DEF place2, kept
  <2>14. place2 \in Bijection(nodes' \X (1..Replicas), DOMAIN items')
    BY <2>11, <2>13
  <2>15. \A n \in nodes', x \in 1..Replicas :
             items'[place2[<<n, x>>]] = [node |-> n, number |-> hash'[n][x]]
    BY <2>12, <2>13
  <2>. QED BY <2>14, <2>15 DEF Owned
<1>10. nodes' = _nodes' /\ numItems' = Len(items')
  BY <1>1, <1>5 DEF RemoveNode, Forget
<1>11. Sound'
  BY <1>8, <1>9, <1>10 DEF Sound
<1>12. NothingWithoutRing'
  BY <1>1 DEF RemoveNode, NothingWithoutRing
<1>13. Searching' /\ FindsFirst'
  BY NoSearchLeft DEF RemoveNode
<1>. QED BY <1>7, <1>11, <1>12, <1>13 DEF RingInv

\* A failure spoils the ring: it promises nothing until it is cleared.
LEMMA AddNodeFailsInv ==
    ASSUME RingInv, NEW name \in Names, AddNodeFails(name)
    PROVE  RingInv'
<1>1. RingTypes /\ ring
  BY DEF AddNodeFails, Idle, RingInv
<1>2. RingTypes'
  <2>1. spoiled' \in BOOLEAN /\ search' = NoSearch /\ UNCHANGED <<hash, ring, nodes, items, _nodes>>
    BY DEF AddNodeFails
  <2>. QED BY <1>1, <2>1, NoSearchFacts DEF RingTypes
<1>3. Sound' /\ NothingWithoutRing'
  BY <1>1 DEF AddNodeFails, Sound, Live, NothingWithoutRing
<1>4. Searching' /\ FindsFirst'
  BY NoSearchLeft DEF AddNodeFails
<1>. QED BY <1>2, <1>3, <1>4 DEF RingInv

LEMMA ClearInv ==
    ASSUME RingInv, Clear
    PROVE  RingInv'
<1>1. RingTypes'
  <2>1. /\ hash' = hash /\ ring' \in BOOLEAN /\ spoiled' \in BOOLEAN
        /\ nodes' = {} /\ _nodes' = {} /\ items' = <<>> /\ search' = NoSearch
    BY DEF Clear
  <2>. QED BY <2>1, NoSearchFacts, EmptySeq DEF RingInv, RingTypes
<1>2. NothingWithoutRing' /\ Sound'
  BY NoSearchFacts DEF Clear, NothingWithoutRing, Sound, Live
<1>3. Searching' /\ FindsFirst'
  BY NoSearchLeft DEF Clear
<1>. QED BY <1>1, <1>2, <1>3 DEF RingInv

LEMMA ResetInv ==
    ASSUME RingInv, Reset
    PROVE  RingInv'
<1>1. /\ RingTypes /\ nodes = {} /\ _nodes = {} /\ items = <<>> /\ numItems = 0
      /\ ~spoiled /\ ~search.running /\ FindsFirst /\ Searching
  BY DEF Reset, RingInv, NothingWithoutRing
<1>2. ring' = TRUE /\ UNCHANGED <<hash, nodes, items, numItems, _nodes, search, spoiled>>
  BY DEF Reset
<1>3. RingTypes'
  BY <1>1, <1>2 DEF RingTypes
<1>4. Len(items) = 0 /\ DOMAIN items = {}
  BY <1>1, EmptySeq
<1>5. Ascending'
  BY <1>2, <1>4 DEF Ascending
<1>6. Owned'
  <2>. DEFINE place == [z \in {} |-> 0]
  <2>1. place \in Bijection({}, {})
    <3>1. place \in [{} -> {}]
      OBVIOUS
    <3>. QED BY <3>1, Fun_IsBij
  <2>2. nodes' \X (1..Replicas) = {} /\ DOMAIN items' = {} /\ nodes' = {}
    BY <1>1, <1>2, <1>4
  <2>. HIDE DEF place
  <2>3. place \in Bijection(nodes' \X (1..Replicas), DOMAIN items')
    BY <2>1, <2>2
  <2>. QED BY <2>2, <2>3 DEF Owned
<1>7. Sound'
  BY <1>1, <1>2, <1>4, <1>5, <1>6 DEF Sound
<1>8. NothingWithoutRing' /\ Searching' /\ FindsFirst'
  BY <1>1, <1>2 DEF NothingWithoutRing, Searching, FindsFirst
<1>. QED BY <1>3, <1>7, <1>8 DEF RingInv

\* A step of a search leaves the ring as it is.
LEMMA RingStays ==
    ASSUME RingInv, UNCHANGED <<hash, ring, nodes, items, numItems, _nodes, spoiled>>,
           search' \in [start : Numbers, key : Numbers, want : Nat, found : Seq(Names), running : BOOLEAN], ring
    PROVE  RingTypes' /\ NothingWithoutRing' /\ Sound'
<1>1. RingTypes'
  BY DEF RingInv, RingTypes
<1>2. NothingWithoutRing'
  BY DEF NothingWithoutRing
<1>3. Sound'
  <2>1. Ascending' = Ascending
    BY DEF Ascending
  <2>2. Owned' = Owned
    BY DEF Owned
  <2>. QED BY <2>1, <2>2 DEF RingInv, Sound, Live
<1>. QED BY <1>1, <1>2, <1>3

\* The item the bisection finds is the first with its number, and no number lies nearer to the key.
LEMMA NextIsNearest ==
    ASSUME RingInv, Live, numItems > 0, NEW key \in Numbers
    PROVE  /\ NextHighestItem(key).node \in nodes
           /\ NextHighestItem(key).number \in Numbers
           /\ MetAt(NextHighestItem(key).number) = {NextHighestItem(key).node}
           /\ \A l \in Numbers : MetAt(l) # {} =>
                  Distance(key, NextHighestItem(key).number) <= Distance(key, l)
<1>1. /\ RingTypes /\ items \in Seq(Items) /\ numItems = Len(items) /\ Ascending /\ Owned
  BY DEF RingInv, Sound, RingTypes
<1>2. PICK cut \in 0..Len(items) : CutAt(cut, key)
  BY <1>1, CutExists
<1>. DEFINE i == IF cut = numItems THEN 1 ELSE cut + 1
            number(j) == items[j].number
<1>3. NextHighestItem(key) = items[i]
  BY <1>1, <1>2, BisectionFinds
<1>4. Len(items) \in Nat /\ DOMAIN items = 1..Len(items) /\ \A j \in 1..Len(items) : number(j) \in 0..MaxNumber
  BY <1>1, ItemFacts DEF Numbers
<1>5. i \in 1..Len(items)
  BY <1>1, <1>2, <1>4
<1>6. items[i].node \in nodes /\ number(i) \in Numbers
  BY <1>1, <1>4, <1>5, ItemFacts, ItemsOfNodes
<1>7. \A j, l \in 1..Len(items) : j <= l => number(j) <= number(l)
  BY <1>1 DEF Ascending
<1>8. \A j \in 1..Len(items) : number(j) > key <=> j > cut
  BY <1>2 DEF CutAt
<1>. DEFINE first(k) == {j \in DOMAIN items : number(j) = k /\ \A l \in 1..(j - 1) : number(l) # k}
<1>9. \A k : MetAt(k) = {items[j].node : j \in first(k)}
  BY DEF MetAt
<1>10. key \in 0..MaxNumber /\ MaxNumber \in Nat
  BY RingSizes DEF Numbers
<1>. HIDE DEF number, first
<1>11. \A j \in 1..Len(items) : j < i => number(j) # number(i)
  <2>. TAKE j \in 1..Len(items)
  <2>. HAVE j < i
  <2>1. cut # numItems /\ i = cut + 1 /\ ~(j > cut) /\ i > cut
    BY <1>1, <1>2, <1>4
  <2>2. number(i) > key /\ ~(number(j) > key)
    BY <2>1, <1>5, <1>8
  <2>. QED BY <2>2
<1>12. first(number(i)) = {i}
  <2>1. \A l \in 1..(i - 1) : l \in 1..Len(items) /\ l < i
    BY <1>4, <1>5
  <2>2. i \in first(number(i))
    BY <2>1, <1>4, <1>5, <1>11 DEF first
  <2>3. ASSUME NEW j \in first(number(i)) PROVE j = i
    <3>1. j \in 1..Len(items) /\ number(j) = number(i) /\ \A l \in 1..(j - 1) : number(l) # number(i)
      BY <1>4 DEF first
    <3>2. ~(j < i)
      BY <3>1, <1>11
    <3>3. ~(i < j)
      <4>. SUFFICES ASSUME i < j PROVE FALSE
        OBVIOUS
      <4>1. i \in 1..(j - 1)
        BY <3>1, <1>4, <1>5
      <4>. QED BY <4>1, <3>1
    <3>. QED BY <3>1, <3>2, <3>3, <1>4, <1>5
  <2>. QED BY <2>2, <2>3
<1>13. MetAt(number(i)) = {items[i].node}
  BY <1>9, <1>12
<1>14. ASSUME NEW l \in Numbers, MetAt(l) # {}
       PROVE  Distance(key, number(i)) <= Distance(key, l)
  <2>1. PICK j \in 1..Len(items) : number(j) = l
    BY <1>4, <1>9, <1>14 DEF first
  <2>2. number(i) \in 0..MaxNumber /\ number(j) \in 0..MaxNumber
    BY <2>1, <1>4, <1>5
  <2>3. CASE cut = numItems
    <3>1. i = 1 /\ ~(i > cut) /\ ~(j > cut)
      BY <2>1, <2>3, <1>1, <1>4, <1>5
    <3>2. ~(number(i) > key) /\ ~(number(j) > key) /\ number(i) <= number(j)
      BY <2>1, <3>1, <1>5, <1>7, <1>8, <1>4
    <3>. QED BY <3>2, <2>1, <2>2, <1>10 DEF Distance
  <2>4. CASE cut # numItems
    <3>1. i = cut + 1 /\ i > cut
      BY <2>4, <1>1, <1>2, <1>4
    <3>2. number(i) > key
      BY <3>1, <1>5, <1>8
    <3>3. CASE number(j) > key
      <4>1. j > cut
        BY <3>3, <2>1, <1>8
      <4>2. i <= j
        BY <4>1, <3>1, <2>1, <1>2, <1>4
      <4>3. number(i) <= number(j)
        BY <4>2, <2>1, <1>5, <1>7
      <4>. QED BY <4>3, <3>2, <3>3, <2>1, <2>2, <1>10 DEF Distance
    <3>4. CASE ~(number(j) > key)
      BY <3>2, <3>4, <2>1, <2>2, <1>10 DEF Distance
    <3>. QED BY <3>3, <3>4
  <2>. QED BY <2>3, <2>4
<1>15. NextHighestItem(key).node = items[i].node /\ NextHighestItem(key).number = number(i)
  BY <1>3 DEF number
<1>. HIDE DEF i
<1>. QED BY <1>6, <1>13, <1>14, <1>15

\* A distance is a number of steps around the circle, never none and never more than once round.
LEMMA DistanceType ==
    ASSUME NEW key \in Numbers, NEW l \in Numbers
    PROVE  Distance(key, l) \in 1..(MaxNumber + 1)
BY RingSizes DEF Distance, Numbers

\* Who stands `gone` behind the start finds everything that is not behind him at the distance left.
LEMMA DistancesAdd ==
    ASSUME NEW start \in Numbers, NEW key \in Numbers, NEW l \in Numbers, NEW gone \in 0..(MaxNumber + 1),
           (gone = 0 /\ key = start) \/ gone = Distance(start, key)
    PROVE  /\ gone + Distance(key, l) <= MaxNumber + 1 => Distance(start, l) = gone + Distance(key, l)
           /\ gone + Distance(key, l) > MaxNumber + 1 => Distance(start, l) <= gone
<1>1. MaxNumber \in Nat /\ start \in 0..MaxNumber /\ key \in 0..MaxNumber /\ l \in 0..MaxNumber
  BY RingSizes DEF Numbers
<1>. QED BY <1>1, SMTT(30) DEF Distance

LEMMA FindNodesInv ==
    ASSUME RingInv, NEW key \in Numbers, NEW num \in 0..Cardinality(Names), FindNodes(key, num)
    PROVE  RingInv'
<1>1. /\ ring /\ ~spoiled /\ Live /\ numItems > 0 /\ RingTypes
      /\ UNCHANGED <<hash, ring, nodes, items, numItems, _nodes, spoiled>>
  BY DEF FindNodes, Idle, Live, RingInv
<1>. DEFINE want == IF Cardinality(nodes) < num THEN Cardinality(nodes) ELSE num
<1>2. search' = [start |-> key, key |-> key, found |-> <<>>, running |-> TRUE, want |-> want]
  BY DEF FindNodes
<1>3. want \in Nat
  <2>1. IsFiniteSet(nodes)
    BY <1>1, RingSizes, FS_Subset DEF RingTypes
  <2>2. Cardinality(nodes) \in Nat /\ num \in Nat
    BY <2>1, RingSizes, FS_CardinalityType
  <2>. QED BY <2>2
<1>. HIDE DEF want
<1>4. \A S : <<>> \in Seq(S)
  BY EmptySeq
<1>5. Len(<<>>) = 0 /\ DOMAIN <<>> = {}
  BY EmptySeq
<1>6. search' \in [start : Numbers, key : Numbers, want : Nat, found : Seq(Names), running : BOOLEAN]
  BY <1>2, <1>3, <1>4
<1>7. Walked'
  <2>1. 0 \in 0..(MaxNumber + 1) /\ search'.key = search'.start /\ search'.start = key
    BY <1>2, RingSizes
  <2>2. \A l \in Numbers : ~(Distance(key, l) <= 0)
    <3>. TAKE l \in Numbers
    <3>1. Distance(key, l) \in 1..(MaxNumber + 1)
      BY DistanceType
    <3>. QED BY <3>1
  <2>3. \A l \in Numbers : ~(Distance(search'.start, l) <= 0)
    BY <2>1, <2>2
  <2>. QED BY <2>1, <2>3 DEF Walked
<1>8. Searching'
  BY <1>1, <1>2, <1>3, <1>4, <1>5, <1>7 DEF Searching, Live
<1>9. FindsFirst'
  BY <1>2, <1>3, <1>5 DEF FindsFirst
<1>. QED BY <1>1, <1>6, <1>8, <1>9, RingStays DEF RingInv

LEMMA FindNextInv ==
    ASSUME RingInv, FindNext
    PROVE  RingInv'
<1>. DEFINE start == search.start
            key == search.key
            old == search.found
            item == NextHighestItem(key)
            met == {old[j] : j \in DOMAIN old}
<1>1. /\ search.running /\ ring /\ Live /\ numItems > 0 /\ RingTypes /\ Walked /\ ~Overrun
      /\ UNCHANGED <<hash, ring, nodes, items, numItems, _nodes, spoiled>>
      /\ old \in Seq(nodes) /\ (search.want > 0 => Len(old) < search.want)
      /\ start \in Numbers /\ key \in Numbers /\ search.want \in Nat
      /\ old \in Seq(Names)
      /\ search \in [start : Numbers, key : Numbers, want : Nat, found : Seq(Names), running : BOOLEAN]
      /\ nodes \subseteq Names
  BY DEF FindNext, Turn, RingInv, Searching, Live, RingTypes
<1>2. search' = IF Contains(old, item.node) THEN [search EXCEPT !.key = item.number]
                ELSE [search EXCEPT !.key = item.number, !.found = Append(old, item.node),
                                    !.running = Len(old) + 1 # search.want]
  BY DEF FindNext, Turn
<1>3. /\ item.node \in nodes /\ item.number \in Numbers /\ MetAt(item.number) = {item.node}
      /\ \A l \in Numbers : MetAt(l) # {} => Distance(key, item.number) <= Distance(key, l)
  BY <1>1, NextIsNearest
<1>4. PICK gone \in 0..(MaxNumber + 1) :
          /\ \/ gone = 0 /\ key = start
             \/ gone = Distance(start, key)
             \/ gone = MaxNumber + 1
          /\ \A l \in Numbers : Distance(start, l) <= gone => MetAt(l) \subseteq met
  BY <1>1 DEF Walked
<1>5. MetAt(0)' = MetAt(0) /\ \A l : MetAt(l)' = MetAt(l)
  BY <1>1 DEF MetAt
<1>. HIDE DEF start, key, old, item, met
<1>6. Len(old) \in Nat /\ DOMAIN old = 1..Len(old)
  BY <1>1, LenProperties
<1>7. MaxNumber \in Nat /\ \A l \in Numbers : Distance(start, l) \in 1..(MaxNumber + 1)
                                            /\ Distance(key, l) \in 1..(MaxNumber + 1)
  BY <1>1, DistanceType, RingSizes
<1>. DEFINE far == gone + Distance(key, item.number)
            now == IF far <= MaxNumber + 1 THEN far ELSE MaxNumber + 1
            all == met \cup {item.node}
<1>8. far \in Nat /\ now \in 0..(MaxNumber + 1)
  BY <1>3, <1>4, <1>7
\* Either the walk came round, and the item is of a node that was found, or all that is nearer was.
<1>9. \/ gone = MaxNumber + 1
      \/ /\ (gone = 0 /\ key = start) \/ gone = Distance(start, key)
         /\ \A l \in Numbers :
                /\ gone + Distance(key, l) <= MaxNumber + 1 => Distance(start, l) = gone + Distance(key, l)
                /\ gone + Distance(key, l) > MaxNumber + 1 => Distance(start, l) <= gone
  <2>. SUFFICES ASSUME gone # MaxNumber + 1, NEW l \in Numbers
                PROVE  /\ gone + Distance(key, l) <= MaxNumber + 1 => Distance(start, l) = gone + Distance(key, l)
                       /\ gone + Distance(key, l) > MaxNumber + 1 => Distance(start, l) <= gone
    BY <1>4
  <2>. QED BY <1>1, <1>4, DistancesAdd
<1>10. ASSUME NEW l \in Numbers, Distance(start, l) > gone, MetAt(l) # {}
       PROVE  /\ far <= MaxNumber + 1
              /\ Distance(start, item.number) = far
              /\ Distance(start, l) = gone + Distance(key, l)
              /\ Distance(key, item.number) <= Distance(key, l)
  <2>1. gone # MaxNumber + 1
    BY <1>4, <1>7, <1>10
  <2>2. /\ Distance(start, l) \in 1..(MaxNumber + 1) /\ Distance(key, l) \in 1..(MaxNumber + 1)
        /\ Distance(key, item.number) \in 1..(MaxNumber + 1)
    BY <1>3, <1>7
  <2>3. ~(gone + Distance(key, l) > MaxNumber + 1)
    BY <2>1, <2>2, <1>4, <1>9, <1>10
  <2>4. gone + Distance(key, l) <= MaxNumber + 1
    BY <2>2, <2>3, <1>4, <1>7
  <2>5. Distance(key, item.number) <= Distance(key, l)
    BY <1>3, <1>10
  <2>6. far <= MaxNumber + 1
    BY <2>2, <2>4, <2>5, <1>4, <1>7
  <2>. QED BY <2>1, <2>4, <2>5, <2>6, <1>3, <1>9
<1>11. \A l \in Numbers : Distance(start, l) <= now => MetAt(l) \subseteq all
  <2>. TAKE l \in Numbers
  <2>. HAVE Distance(start, l) <= now
  <2>1. CASE Distance(start, l) <= gone
    BY <2>1, <1>4
  <2>2. CASE MetAt(l) = {}
    BY <2>2
  <2>3. CASE ~(Distance(start, l) <= gone) /\ MetAt(l) # {}
    <3>1. Distance(start, l) > gone
      BY <2>3, <1>4, <1>7
    <3>2. /\ far <= MaxNumber + 1 /\ Distance(start, l) = gone + Distance(key, l)
          /\ Distance(key, item.number) <= Distance(key, l)
      BY <2>3, <3>1, <1>10
    <3>3. Distance(start, l) <= far
      BY <3>2
    <3>4. Distance(key, l) = Distance(key, item.number)
      BY <3>2, <3>3, <1>3, <1>4, <1>7
    <3>5. l = item.number
      <4>1. l \in 0..MaxNumber /\ item.number \in 0..MaxNumber /\ key \in 0..MaxNumber /\ MaxNumber \in Nat
        BY <1>1, <1>3, RingSizes DEF Numbers
      <4>. QED BY <3>4, <4>1 DEF Distance
    <3>. QED BY <3>5, <1>3
  <2>. QED BY <2>1, <2>2, <2>3
<1>12. \/ now = Distance(start, item.number)
       \/ now = MaxNumber + 1
  <2>1. CASE far <= MaxNumber + 1
    <3>1. Distance(key, item.number) \in 1..(MaxNumber + 1) /\ gone # MaxNumber + 1
      BY <2>1, <1>3, <1>4, <1>7
    <3>2. Distance(start, item.number) = far
      BY <2>1, <3>1, <1>3, <1>9
    <3>. QED BY <2>1, <3>2
  <2>2. CASE ~(far <= MaxNumber + 1)
    BY <2>2
  <2>. QED BY <2>1, <2>2
<1>. HIDE DEF now
<1>13. CASE Contains(old, item.node)
  <2>1. /\ search'.start = start /\ search'.key = item.number /\ search'.found = old
        /\ search'.want = search.want /\ search'.running = search.running
        /\ search' \in [start : Numbers, key : Numbers, want : Nat, found : Seq(Names), running : BOOLEAN]
    BY <1>1, <1>2, <1>3, <1>13 DEF start, old
  <2>2. item.node \in met
    BY <1>6, <1>13 DEF Contains, met
  <2>3. Walked'
    <3>1. \A l \in Numbers : Distance(start, l) <= now => MetAt(l)' \subseteq met
      BY <2>2, <1>5, <1>11
    <3>2. met = {search'.found[j] : j \in DOMAIN search'.found}
      BY <2>1 DEF met
    <3>3. \A l \in Numbers : Distance(search'.start, l) <= now =>
              MetAt(l)' \subseteq {search'.found[j] : j \in DOMAIN search'.found}
      BY <2>1, <3>1, <3>2
    <3>4. now = Distance(search'.start, search'.key) \/ now = MaxNumber + 1
      BY <2>1, <1>12
    <3>. QED BY <3>3, <3>4, <1>8 DEF Walked
  <2>4. Searching'
    BY <2>1, <2>3, <1>1 DEF Searching, Live
  <2>5. FindsFirst'
    <3>1. FindsFirst
      BY DEF RingInv
    <3>. QED BY <3>1, <2>1, <1>1, <1>5 DEF FindsFirst, start, old
  <2>. QED BY <2>1, <2>4, <2>5, <1>1, RingStays DEF RingInv
<1>14. CASE ~Contains(old, item.node)
  <2>. DEFINE more == Append(old, item.node)
              n == Len(old) + 1
  <2>1. /\ search'.start = start /\ search'.key = item.number /\ search'.found = more
        /\ search'.want = search.want /\ search'.running = (n # search.want)
        /\ search' \in [start : Numbers, key : Numbers, want : Nat, found : Seq(Names), running : BOOLEAN]
    <3>1. more \in Seq(Names) /\ (n # search.want) \in BOOLEAN
      BY <1>1, <1>3
    <3>. QED BY <3>1, <1>1, <1>2, <1>3, <1>14 DEF start, old
  <2>2. more \in Seq(nodes) /\ Len(more) = n /\ DOMAIN more = 1..n
    <3>1. more \in Seq(nodes) /\ Len(more) = n
      BY <1>1, <1>3
    <3>. QED BY <3>1, LenProperties
  <2>3. \A i \in 1..n : more[i] = IF i <= Len(old) THEN old[i] ELSE item.node
    BY <1>1, <1>3, <1>6
  <2>4. item.node \notin met
    BY <1>6, <1>14 DEF Contains, met
  <2>5. \A m \in 0..Len(old) : {more[j] : j \in 1..m} = {old[j] : j \in 1..m}
    <3>. TAKE m \in 0..Len(old)
    <3>1. \A j \in 1..m : more[j] = old[j]
      BY <2>3, <1>6
    <3>. QED BY <3>1
  <2>. HIDE DEF more
  <2>6. {more[j] : j \in 1..n} = all
    <3>1. \A j \in 1..Len(old) : j \in 1..n /\ more[j] = old[j]
      BY <2>3, <1>6
    <3>2. n \in 1..n /\ more[n] = item.node
      BY <2>3, <1>6
    <3>3. \A j \in 1..n : j \in 1..Len(old) \/ j = n
      BY <1>6
    <3>4. met = {old[j] : j \in 1..Len(old)}
      BY <1>6 DEF met
    <3>. HIDE DEF n
    <3>. QED BY <3>1, <3>2, <3>3, <3>4
  <2>7. Walked'
    <3>1. \A l \in Numbers : Distance(start, l) <= now => MetAt(l)' \subseteq all
      BY <1>5, <1>11
    <3>2. all = {search'.found[j] : j \in DOMAIN search'.found}
      BY <2>1, <2>2, <2>6
    <3>3. \A l \in Numbers : Distance(search'.start, l) <= now =>
              MetAt(l)' \subseteq {search'.found[j] : j \in DOMAIN search'.found}
      BY <2>1, <3>1, <3>2
    <3>4. now = Distance(search'.start, search'.key) \/ now = MaxNumber + 1
      BY <2>1, <1>12
    <3>. QED BY <3>3, <3>4, <1>8 DEF Walked
  <2>8. Searching'
    <3>1. search'.found \in Seq(nodes') /\ Live' /\ numItems' > 0
      BY <2>1, <2>2, <1>1 DEF Live
    <3>2. search'.running /\ search'.want > 0 => Len(search'.found) < search'.want
      BY <2>1, <2>2, <1>1, <1>6
    <3>. QED BY <3>1, <3>2, <2>7 DEF Searching
  <2>9. ASSUME NEW i \in 1..n
        PROVE  LET before == {more[j] : j \in 1..(i - 1)}
               IN  /\ more[i] \notin before
                   /\ \E k \in Numbers :
                          /\ more[i] \in MetAt(k)
                          /\ \A l \in Numbers : Distance(start, l) < Distance(start, k) => MetAt(l) \subseteq before
    <3>1. CASE i <= Len(old)
      <4>1. i \in DOMAIN old /\ i - 1 \in 0..Len(old) /\ more[i] = old[i]
        BY <3>1, <2>3, <1>6
      <4>2. {more[j] : j \in 1..(i - 1)} = {old[j] : j \in 1..(i - 1)}
        BY <4>1, <2>5
      <4>3. LET before == {old[j] : j \in 1..(i - 1)}
            IN  /\ old[i] \notin before
                /\ \E k \in Numbers :
                       /\ old[i] \in MetAt(k)
                       /\ \A l \in Numbers : Distance(start, l) < Distance(start, k) => MetAt(l) \subseteq before
        <5>1. FindsFirst
          BY DEF RingInv
        <5>. QED BY <4>1, <5>1 DEF FindsFirst, start, old
      <4>. QED BY <4>1, <4>2, <4>3
    <3>2. CASE ~(i <= Len(old))
      <4>1. i = n /\ i - 1 = Len(old) /\ Len(old) \in 0..Len(old)
        BY <3>2, <1>6
      <4>2. {more[j] : j \in 1..(i - 1)} = met /\ more[i] = item.node
        BY <4>1, <2>3, <2>5, <1>6 DEF met
      <4>3. ASSUME NEW l \in Numbers, Distance(start, l) < Distance(start, item.number)
            PROVE  MetAt(l) \subseteq met
        <5>1. Distance(start, item.number) > gone
          <6>1. ~(Distance(start, item.number) <= gone)
            BY <2>4, <1>3, <1>4
          <6>. QED BY <6>1, <1>3, <1>4, <1>7
        <5>2. /\ far <= MaxNumber + 1 /\ Distance(start, item.number) = far
          BY <5>1, <1>3, <1>10
        <5>3. CASE Distance(start, l) <= gone
          BY <5>3, <1>4
        <5>4. CASE ~(Distance(start, l) <= gone) /\ MetAt(l) # {}
          <6>1. Distance(start, l) > gone
            BY <5>4, <1>4, <1>7
          <6>2. /\ Distance(start, l) = gone + Distance(key, l)
                /\ Distance(key, item.number) <= Distance(key, l)
            BY <5>4, <6>1, <1>10
          <6>3. gone + Distance(key, l) < gone + Distance(key, item.number)
            BY <6>2, <5>2, <4>3
          <6>. QED BY <6>2, <6>3, <1>3, <1>4, <1>7
        <5>. QED BY <5>3, <5>4
      <4>. QED BY <4>2, <4>3, <2>4, <1>3
    <3>. QED BY <3>1, <3>2
  <2>10. FindsFirst'
    <3>1. \A i \in DOMAIN search'.found :
             LET before == {search'.found[j] : j \in 1..(i - 1)}
             IN  /\ search'.found[i] \notin before
                 /\ \E k \in Numbers :
                        /\ search'.found[i] \in MetAt(k)'
                        /\ \A l \in Numbers :
                               Distance(search'.start, l) < Distance(search'.start, k) =>
                                   MetAt(l)' \subseteq before
      <4>. HIDE DEF n
      <4>. QED BY <2>1, <2>2, <2>9, <1>5
    <3>2. search'.want > 0 => Len(search'.found) <= search'.want
      BY <2>1, <2>2, <1>1, <1>6
    <3>3. ~search'.running => Len(search'.found) = search'.want
      BY <2>1, <2>2
    <3>. QED BY <3>1, <3>2, <3>3 DEF FindsFirst
  <2>. QED BY <2>1, <2>8, <2>10, <1>1, RingStays DEF RingInv
<1>. QED BY <1>13, <1>14

LEMMA StutterInv ==
    ASSUME RingInv, UNCHANGED vars
    PROVE  RingInv'
<1>1. /\ hash' = hash /\ ring' = ring /\ nodes' = nodes /\ items' = items
      /\ numItems' = numItems /\ _nodes' = _nodes /\ search' = search /\ spoiled' = spoiled
  BY DEF vars
<1>2. RingTypes' /\ NothingWithoutRing'
  BY <1>1 DEF RingInv, RingTypes, NothingWithoutRing
<1>3. Ascending' = Ascending /\ Owned' = Owned
  BY <1>1 DEF Ascending, Owned
<1>4. Sound'
  BY <1>1, <1>3 DEF RingInv, Sound, Live
<1>5. \A l : MetAt(l)' = MetAt(l)
  BY <1>1 DEF MetAt
<1>6. Walked' = Walked
  BY <1>1, <1>5 DEF Walked
<1>7. Searching'
  BY <1>1, <1>6 DEF RingInv, Searching, Live
<1>8. FindsFirst'
  BY <1>1, <1>5 DEF RingInv, FindsFirst
<1>. QED BY <1>2, <1>4, <1>7, <1>8 DEF RingInv

-----------------------------------------------------------------------------
(* Keys stay where they are.                                               *)

\* Successor, of any set of numbers.
NextIn(taken, key) ==
    LET greater == {k \in taken : k > key}
        from    == IF greater = {} THEN taken ELSE greater
    IN  CHOOSE k \in from : \A l \in from : k <= l

LEMMA NextInIsLeast ==
    ASSUME NEW taken \in SUBSET Nat, taken # {}, NEW key \in Nat
    PROVE  /\ NextIn(taken, key) \in taken
           /\ \/ /\ NextIn(taken, key) > key
                 /\ \A l \in taken : l > key => NextIn(taken, key) <= l
              \/ \A l \in taken : ~(l > key) /\ NextIn(taken, key) <= l
<1>. DEFINE greater == {k \in taken : k > key}
            from == IF greater = {} THEN taken ELSE greater
<1>1. from \in SUBSET Nat /\ from # {}
  OBVIOUS
<1>2. \E k \in from : \A l \in from : k <= l
  <2>. HIDE DEF from
  <2>. QED BY <1>1, LeastNumber
<1>3. NextIn(taken, key) \in from /\ \A l \in from : NextIn(taken, key) <= l
  <2>1. NextIn(taken, key) = CHOOSE k \in from : \A l \in from : k <= l
    BY DEF NextIn
  <2>. HIDE DEF from
  <2>. QED BY <2>1, <1>2
<1>. HIDE DEF NextIn
<1>4. CASE greater = {}
  BY <1>3, <1>4
<1>5. CASE greater # {}
  BY <1>3, <1>5
<1>. QED BY <1>4, <1>5

\* More numbers leave the successor of a key as it is, unless one of them becomes it.
LEMMA NextInLarger ==
    ASSUME NEW few \in SUBSET Nat, few # {}, NEW many \in SUBSET Nat, few \subseteq many,
           NEW key \in Nat, NextIn(many, key) \in few
    PROVE  NextIn(few, key) = NextIn(many, key)
<1>. DEFINE a == NextIn(few, key)
            b == NextIn(many, key)
<1>1. /\ a \in few
      /\ \/ a > key /\ \A l \in few : l > key => a <= l
         \/ \A l \in few : ~(l > key) /\ a <= l
  BY NextInIsLeast
<1>2. /\ b \in many
      /\ \/ b > key /\ \A l \in many : l > key => b <= l
         \/ \A l \in many : ~(l > key) /\ b <= l
  <2>1. many # {}
    OBVIOUS
  <2>. QED BY <2>1, NextInIsLeast
<1>3. a \in Nat /\ b \in Nat /\ b \in few /\ a \in many
  BY <1>1
<1>. HIDE DEF a, b
<1>4. a = b
  BY <1>1, <1>2, <1>3
<1>. QED BY <1>4 DEF a, b

\* A step adds nodes or removes nodes; no step does both, and the hash function stays.
LEMMA StepAddsOrRemoves ==
    ASSUME [Next]_vars
    PROVE  hash' = hash /\ (_nodes \subseteq _nodes' \/ _nodes' \subseteq _nodes)
<1>1. ASSUME NEW name \in Names, AddNode(name)
      PROVE  hash' = hash /\ _nodes \subseteq _nodes'
  BY <1>1 DEF AddNode, Keep
<1>2. ASSUME NEW name \in Names, AddNodeFails(name)
      PROVE  hash' = hash /\ _nodes \subseteq _nodes'
  BY <1>2 DEF AddNodeFails
<1>3. ASSUME NEW name \in Names, RemoveNode(name)
      PROVE  hash' = hash /\ _nodes' \subseteq _nodes
  BY <1>3 DEF RemoveNode, Forget
<1>4. ASSUME NEW key \in Numbers, NEW num \in 0..Cardinality(Names), FindNodes(key, num)
      PROVE  hash' = hash /\ _nodes \subseteq _nodes'
  BY <1>4 DEF FindNodes
<1>5. CASE FindNext \/ Reset \/ UNCHANGED vars
  BY <1>5 DEF FindNext, Turn, Reset, vars
<1>6. CASE Clear
  BY <1>6 DEF Clear
<1>. QED BY <1>1, <1>2, <1>3, <1>4, <1>5, <1>6 DEF Next

\* Taken, of any hash function and any nodes.
NumbersOf(h, names) == {h[n][x] : n \in names, x \in 1..Replicas}

LEMMA TakenFacts ==
    ASSUME NEW h \in Hashes, NEW names \in SUBSET Names, names # {}
    PROVE  NumbersOf(h, names) \in SUBSET Nat /\ NumbersOf(h, names) # {}
<1>. DEFINE taken == {h[n][x] : n \in names, x \in 1..Replicas}
<1>1. ASSUME NEW n \in names, NEW x \in 1..Replicas
      PROVE  h[n][x] \in Nat
  <2>1. h[n] \in [1..Replicas -> Numbers]
    BY DEF Hashes
  <2>2. h[n][x] \in Numbers
    BY <2>1
  <2>. QED BY <2>2, RingSizes DEF Numbers
<1>2. \A k \in taken : k \in Nat
  <2>. TAKE k \in taken
  <2>1. PICK n \in names, x \in 1..Replicas : k = h[n][x]
    OBVIOUS
  <2>. QED BY <1>1, <2>1
<1>3. PICK n \in names : TRUE
  OBVIOUS
<1>4. h[n][1] \in taken
  BY <1>3, RingSizes
<1>. HIDE DEF taken
<1>5. taken \in SUBSET Nat /\ taken # {}
  BY <1>2, <1>4
<1>. QED BY <1>5 DEF taken, NumbersOf

LEMMA StepKeepsKeys ==
    ASSUME RingInv, RingInv', FindsSuccessor, FindsSuccessor', [Next]_vars,
           NEW key \in Numbers, Live, Live', _nodes # {}, _nodes' # {},
           FindNode(key) # FindNode(key)', FindNode(key)' \in _nodes, FindNode(key) \in _nodes'
    PROVE  Cardinality(HoldersOf(Successor(key))) > 1
<1>. DEFINE a == FindNode(key)
            b == FindNode(key)'
            p == Successor(key)
            q == Successor(key)'
<1>1. a \in _nodes /\ \E x \in 1..Replicas : hash[a][x] = p
  BY DEF FindsSuccessor, HoldersOf
<1>2. b \in _nodes' /\ \E x \in 1..Replicas : hash'[b][x] = q
  BY DEF FindsSuccessor, HoldersOf
<1>3. hash' = hash /\ (_nodes \subseteq _nodes' \/ _nodes' \subseteq _nodes)
  BY StepAddsOrRemoves
<1>4. key \in Nat /\ RingTypes /\ RingTypes'
  BY DEF RingInv, Numbers
<1>5. /\ Taken \in SUBSET Nat /\ Taken # {}
      /\ Taken' \in SUBSET Nat /\ Taken' # {}
  <2>1. hash \in Hashes /\ _nodes \in SUBSET Names /\ hash' \in Hashes /\ _nodes' \in SUBSET Names
    BY <1>4 DEF RingTypes
  <2>2. Taken = NumbersOf(hash, _nodes) /\ Taken' = NumbersOf(hash', _nodes')
    BY DEF Taken, NumbersOf
  <2>3. NumbersOf(hash, _nodes) \in SUBSET Nat /\ NumbersOf(hash, _nodes) # {}
    BY <2>1, TakenFacts
  <2>4. NumbersOf(hash', _nodes') \in SUBSET Nat /\ NumbersOf(hash', _nodes') # {}
    BY <2>1, TakenFacts
  <2>. QED BY <2>2, <2>3, <2>4
<1>6. p = NextIn(Taken, key) /\ q = NextIn(Taken', key)
  BY DEF Successor, NextIn
<1>7. /\ a \in _nodes /\ a # b /\ b \in _nodes /\ a \in _nodes'
      /\ \E x \in 1..Replicas : hash[a][x] = p
      /\ \E x \in 1..Replicas : hash[b][x] = q
  BY <1>1, <1>2, <1>3
<1>8. p \in Taken' /\ q \in Taken
  BY <1>3, <1>7 DEF Taken
<1>9. Taken \subseteq Taken' \/ Taken' \subseteq Taken
  BY <1>3 DEF Taken
<1>. HIDE DEF a, b, p, q
<1>10. p = q
  BY <1>4, <1>5, <1>6, <1>8, <1>9, NextInLarger
<1>11. {a, b} \subseteq HoldersOf(p)
  BY <1>7, <1>10 DEF HoldersOf
<1>12. IsFiniteSet(HoldersOf(p))
  <2>1. HoldersOf(p) \subseteq Names
    BY <1>4 DEF HoldersOf, RingTypes
  <2>. QED BY <2>1, RingSizes, FS_Subset
<1>13. Cardinality({a, b}) = 2
  <2>1. IsFiniteSet({a}) /\ Cardinality({a}) = 1
    BY FS_Singleton
  <2>2. Cardinality({a} \cup {b}) = Cardinality({a}) + 1
    BY <2>1, <1>7, FS_AddElement
  <2>3. {a} \cup {b} = {a, b}
    OBVIOUS
  <2>. QED BY <2>1, <2>2, <2>3
<1>14. Cardinality({a, b}) <= Cardinality(HoldersOf(p)) /\ Cardinality(HoldersOf(p)) \in Nat
  BY <1>11, <1>12, FS_Subset, FS_CardinalityType
<1>15. Cardinality(HoldersOf(p)) > 1
  BY <1>13, <1>14
<1>. QED BY <1>15 DEF p

-----------------------------------------------------------------------------
(* The theorems.                                                           *)

LEMMA RingInvHolds ==
    Spec => []RingInv
<1>1. Init => RingInv
  BY InitInv
<1>2. RingInv /\ [Next]_vars => RingInv'
  <2>. SUFFICES ASSUME RingInv, [Next]_vars PROVE RingInv'
    OBVIOUS
  <2>1. ASSUME NEW name \in Names, AddNode(name) PROVE RingInv'
    BY <2>1, AddNodeInv
  <2>2. ASSUME NEW name \in Names, AddNodeFails(name) PROVE RingInv'
    BY <2>2, AddNodeFailsInv
  <2>3. ASSUME NEW name \in Names, RemoveNode(name) PROVE RingInv'
    BY <2>3, RemoveNodeInv
  <2>4. ASSUME NEW key \in Numbers, NEW num \in 0..Cardinality(Names), FindNodes(key, num)
        PROVE  RingInv'
    BY <2>4, FindNodesInv
  <2>5. CASE FindNext
    BY <2>5, FindNextInv
  <2>6. CASE Clear
    BY <2>6, ClearInv
  <2>7. CASE Reset
    BY <2>7, ResetInv
  <2>8. CASE UNCHANGED vars
    BY <2>8, StutterInv
  <2>. QED BY <2>1, <2>2, <2>3, <2>4, <2>5, <2>6, <2>7, <2>8 DEF Next
<1>. QED BY <1>1, <1>2, PTL DEF Spec

\* List, array, counters and map agree after every sequence of calls, and the array is sorted and
\* holds exactly the items of the listed nodes: add_node and remove_node never lose or double an
\* item, however many numbers are equal.
THEOREM RingWholeHolds == Spec => []RingWhole
BY RingInvHolds, InvImpliesWhole, PTL

\* The bisection finds for every key a node at the key's successor on the circle, and the map knows
\* that node.
THEOREM FindsSuccessorHolds == Spec => []FindsSuccessor
BY RingInvHolds, InvFindsSuccessor, PTL

\* hash_ring_find_nodes finds the nodes that a clockwise walk from the key meets first, each once and
\* in that order, wherever the walk comes round and whatever numbers are equal.
THEOREM FindsFirstHolds == Spec => []FindsFirst
<1>1. RingInv => FindsFirst
  BY DEF RingInv
<1>. QED BY <1>1, RingInvHolds, PTL

\* Consistent hashing: a node that is added takes keys over and a node that is removed gives its own
\* away; no other key moves, except between nodes that have the same number.
THEOREM KeysStayHolds == Spec => KeysStay
<1>1. ASSUME RingInv, RingInv', FindsSuccessor, FindsSuccessor', [Next]_vars
      PROVE  \A key \in Numbers :
                 Live /\ Live' /\ _nodes # {} /\ _nodes' # {} /\ FindNode(key) # FindNode(key)' =>
                     \/ FindNode(key)' \notin _nodes
                     \/ FindNode(key) \notin _nodes'
                     \/ Cardinality(HoldersOf(Successor(key))) > 1
  BY <1>1, StepKeepsKeys
<1>. QED BY <1>1, RingInvHolds, FindsSuccessorHolds, PTL DEF KeysStay, Spec

-----------------------------------------------------------------------------
(* Division.                                                               *)

LEMMA Division ==
    ASSUME NEW n \in Nat, NEW s \in Nat \ {0}
    PROVE  /\ n \div s \in Nat
           /\ n % s \in 0..(s - 1)
           /\ n = s * (n \div s) + (n % s)
  BY SMT

LEMMA DivisionIsUnique ==
    ASSUME NEW s \in Nat \ {0}, NEW q \in Nat, NEW r \in 0..(s - 1)
    PROVE  /\ (s * q + r) \div s = q
           /\ (s * q + r) % s = r
<1>1. s * q \in Nat
  BY SMT
<1>2. PICK n \in Nat : n = s * q + r
  BY <1>1
<1>3. PICK p \in Nat : p = n \div s
  BY Division
<1>4. PICK t \in 0..(s - 1) : t = n % s
  BY Division
<1>5. s * q + r = s * p + t
  BY <1>2, <1>3, <1>4, Division
<1>6. ASSUME NEW a \in Nat, NEW b \in Nat, NEW c \in 0..(s - 1), NEW d \in 0..(s - 1), s * a + c = s * b + d
      PROVE  ~(a < b)
  <2>. SUFFICES ASSUME a < b PROVE FALSE
    OBVIOUS
  <2>1. PICK e \in Nat : b = a + 1 + e
    BY SMT
  <2>2. s * b = s * a + s + s * e
    BY <2>1, SMT
  <2>3. s * e >= 0 /\ s * e \in Nat /\ s * a \in Nat
    BY SMT
  <2> QED BY <2>2, <2>3, <1>6
<1>7. p = q
  BY <1>5, <1>6
<1> QED BY <1>1, <1>2, <1>3, <1>4, <1>5, <1>7

-----------------------------------------------------------------------------
(* Whole blocks of a buffer, and what is left.                             *)

LEMMA WholeFacts ==
    ASSUME NEW U, NEW D \in Seq(U), NEW used \in 0..Len(D), NEW s \in Nat \ {0}
    PROVE  /\ Whole(D, used, s) \in Nat
           /\ s * Whole(D, used, s) \in Nat
           /\ (Len(D) - used) % s \in 0..(s - 1)
           /\ Len(D) = used + s * Whole(D, used, s) + ((Len(D) - used) % s)
<1>1. PICK n \in Nat : n = Len(D) - used
  BY LenProperties
<1>2. /\ n \div s \in Nat
      /\ n % s \in 0..(s - 1)
      /\ n = s * (n \div s) + (n % s)
  BY Division
<1>3. n \div s = Whole(D, used, s)
  BY <1>1 DEF Whole
<1>4. s * Whole(D, used, s) \in Nat
  BY <1>2, <1>3, SMT
<1>5. Len(D) = used + n
  BY <1>1, LenProperties
<1>6. PICK y \in Nat, m \in 0..(s - 1) : y = s * Whole(D, used, s) /\ m = n % s
  BY <1>2, <1>4
<1>7. n = y + m
  BY <1>2, <1>3, <1>6
<1>8. Len(D) = used + y + m
  BY <1>5, <1>6, <1>7
<1> QED BY <1>1, <1>2, <1>3, <1>6, <1>8

\* A chunk lies inside the sequence.
LEMMA ChunkInside ==
    ASSUME NEW s \in Nat \ {0}, NEW q \in Nat, NEW k \in 1..q
    PROVE  /\ (k - 1) * s \in Nat
           /\ k * s = (k - 1) * s + s
           /\ k * s <= s * q
<1>1. (k - 1) * s \in Nat
  BY SMT
<1>2. k * s = (k - 1) * s + s
  BY SMT
<1>3. PICK e \in Nat : q = k + e
  BY SMT
<1>4. s * q = k * s + s * e /\ s * e \in Nat /\ k * s \in Nat /\ s * q \in Nat
  BY <1>3, SMT
<1>5. k * s <= s * q
  BY <1>4
<1> QED BY <1>1, <1>2, <1>5

LEMMA ChunksSeq ==
    ASSUME NEW U, NEW D \in Seq(U), NEW used \in 0..Len(D), NEW s \in Nat \ {0}
    PROVE  /\ Chunks(D, used, s) \in Seq(Seq(U))
           /\ Len(Chunks(D, used, s)) = Whole(D, used, s)
<1>1. PICK q \in Nat : q = Whole(D, used, s)
  BY WholeFacts
<1>2. used + s * q <= Len(D) /\ s * q \in Nat
  BY <1>1, WholeFacts
<1>3. \A i \in 1..Len(D) : D[i] \in U
  BY ElementOfSeq
<1>4. \A k \in 1..q : SubSeq(D, used + (k - 1) * s + 1, used + k * s) \in Seq(U)
  <2>. SUFFICES ASSUME NEW k \in 1..q
                PROVE  SubSeq(D, used + (k - 1) * s + 1, used + k * s) \in Seq(U)
    OBVIOUS
  <2>1. PICK a \in Nat : a = (k - 1) * s
    BY ChunkInside
  <2>2. a + s = k * s /\ a + s <= s * q
    BY <2>1, ChunkInside
  <2>3. \A i \in (used + a + 1)..(used + (a + s)) : D[i] \in U
    BY <1>2, <1>3, <2>2
  <2>4. SubSeq(D, used + a + 1, used + (a + s)) \in Seq(U)
    BY <2>3, SubSeqProperties
  <2> QED BY <2>1, <2>2, <2>4
<1>5. Chunks(D, used, s) = [k \in 1..q |-> SubSeq(D, used + (k - 1) * s + 1, used + k * s)]
  BY <1>1 DEF Chunks
<1>6. Chunks(D, used, s) \in [1..q -> Seq(U)]
  BY <1>4, <1>5
<1>7. Chunks(D, used, s) \in Seq(Seq(U)) /\ Len(Chunks(D, used, s)) = q
  BY <1>6, SMT
<1> QED BY <1>1, <1>7

LEMMA ChunkAt ==
    ASSUME NEW D, NEW s \in Nat \ {0}, NEW q \in Nat, q = Whole(D, 0, s), NEW k \in 1..q,
           NEW a \in Nat, a = (k - 1) * s
    PROVE  /\ Chunks(D, 0, s)[k] = SubSeq(D, a + 1, a + s)
           /\ a + s <= s * q
<1>1. k * s = a + s /\ a + s <= s * q
  BY ChunkInside
<1>2. 0 + (k - 1) * s + 1 = a + 1 /\ 0 + k * s = a + s
  BY <1>1
<1> QED BY <1>1, <1>2 DEF Chunks

\* What is left is the end of the sequence.
LEMMA RestFacts ==
    ASSUME NEW U, NEW D \in Seq(U), NEW s \in Nat \ {0}
    PROVE  /\ Rest(D, 0, s) \in Seq(U)
           /\ Len(Rest(D, 0, s)) = Len(D) % s
           /\ \A i \in 1..Len(Rest(D, 0, s)) : Rest(D, 0, s)[i] = D[Len(D) - Len(Rest(D, 0, s)) + i]
<1>1. PICK r : r = Len(D) % s
  OBVIOUS
<1>2. Len(D) \in Nat /\ 0 \in 0..Len(D) /\ Len(D) - 0 = Len(D)
  BY LenProperties
<1>3. PICK w \in Nat : w = Whole(D, 0, s)
  BY <1>2, WholeFacts
<1>4. PICK a \in Nat : a = s * w
  BY SMT
<1>5. r \in 0..(s - 1) /\ Len(D) = a + r
  <2>1. /\ s * Whole(D, 0, s) \in Nat
        /\ (Len(D) - 0) % s \in 0..(s - 1)
        /\ Len(D) = 0 + s * Whole(D, 0, s) + ((Len(D) - 0) % s)
    BY <1>2, WholeFacts
  <2> QED BY <1>1, <1>2, <1>3, <1>4, <2>1
<1>6. Rest(D, 0, s) = SubSeq(D, a + 1, Len(D))
  <2>1. 0 + w * s + 1 = a + 1
    BY <1>4, SMT
  <2> QED BY <1>3, <2>1 DEF Rest
<1>7. \A i \in (a + 1)..Len(D) : D[i] \in U
  BY ElementOfSeq, LenProperties
<1>8. /\ SubSeq(D, a + 1, Len(D)) \in Seq(U)
      /\ Len(SubSeq(D, a + 1, Len(D))) = IF a + 1 <= Len(D) THEN Len(D) - (a + 1) + 1 ELSE 0
      /\ \A i \in 1..(Len(D) - (a + 1) + 1) : SubSeq(D, a + 1, Len(D))[i] = D[a + 1 + i - 1]
  BY <1>7, LenProperties, SubSeqProperties
<1>9. \A i \in 1..r : a + 1 + i - 1 = Len(D) - r + i
  BY <1>5
<1>10. Len(D) - (a + 1) + 1 = r /\ (a + 1 <= Len(D) <=> r > 0)
  BY <1>5
<1>11. \A i \in 1..r : SubSeq(D, a + 1, Len(D))[i] = D[Len(D) - r + i]
  BY <1>8, <1>9, <1>10
<1>12. Len(SubSeq(D, a + 1, Len(D))) = r
  BY <1>5, <1>8, <1>10
<1> QED BY <1>1, <1>6, <1>8, <1>11, <1>12

\* Two sequences of chunks are the same when their chunks are.
LEMMA SameChunks ==
    ASSUME NEW U, NEW c \in Seq(U), NEW d \in Seq(U),
           Len(c) = Len(d), \A k \in 1..Len(c) : c[k] = d[k]
    PROVE  c = d
  BY SeqEqual

\* Concatenation under a name of its own, which the provers do not expand.
Cat(D, P) == D \o P

LEMMA CatFacts ==
    ASSUME NEW U, NEW D \in Seq(U), NEW P \in Seq(U)
    PROVE  /\ Cat(D, P) \in Seq(U)
           /\ Len(Cat(D, P)) = Len(D) + Len(P)
           /\ \A i \in 1..(Len(D) + Len(P)) : Cat(D, P)[i] = IF i <= Len(D) THEN D[i] ELSE P[i - Len(D)]
  BY ConcatProperties DEF Cat

LEMMA CatAssociative ==
    ASSUME NEW U, NEW D \in Seq(U), NEW P \in Seq(U), NEW T \in Seq(U)
    PROVE  Cat(Cat(D, P), T) = Cat(D, Cat(P, T))
  BY ConcatAssociative, SMTT(30) DEF Cat

LEMMA SubSeqOfLeft ==
    ASSUME NEW U, NEW D \in Seq(U), NEW P \in Seq(U), NEW m \in 1..Len(D), NEW n \in 1..Len(D)
    PROVE  SubSeq(Cat(D, P), m, n) = SubSeq(D, m, n)
  BY SubSeqOfConcat1 DEF Cat

LEMMA SubSeqOfRight ==
    ASSUME NEW U, NEW D \in Seq(U), NEW P \in Seq(U),
           NEW m \in (Len(D) + 1)..(Len(D) + Len(P)), NEW n \in (Len(D) + 1)..(Len(D) + Len(P))
    PROVE  SubSeq(Cat(D, P), m, n) = SubSeq(P, m - Len(D), n - Len(D))
  BY SubSeqOfConcat2 DEF Cat

\* A piece that does not fill the chunk completes none.
LEMMA ShortPiece ==
    ASSUME NEW U, NEW D \in Seq(U), NEW P \in Seq(U), NEW s \in Nat \ {0},
           (Len(D) % s) + Len(P) < s
    PROVE  /\ Chunks(Cat(D, P), 0, s) = Chunks(D, 0, s)
           /\ Len(Cat(D, P)) % s = (Len(D) % s) + Len(P)
<1>1. PICK q \in Nat : q = Len(D) \div s
  BY Division, LenProperties
<1>2. PICK r \in 0..(s - 1) : r = Len(D) % s
  BY Division, LenProperties
<1>3. Len(D) = s * q + r /\ s * q \in Nat
  BY <1>1, <1>2, Division, LenProperties
<1>4. Cat(D, P) \in Seq(U) /\ Len(Cat(D, P)) = Len(D) + Len(P)
  BY CatFacts
<1>5. PICK t \in 0..(s - 1) : t = r + Len(P)
  BY <1>2, LenProperties
<1>6. Len(Cat(D, P)) = s * q + t
  BY <1>3, <1>4, <1>5, LenProperties
<1>7. Len(Cat(D, P)) \div s = q /\ Len(Cat(D, P)) % s = t
  BY <1>6, DivisionIsUnique
<1>8. Whole(D, 0, s) = q /\ Whole(Cat(D, P), 0, s) = q
  BY <1>1, <1>4, <1>7, LenProperties DEF Whole
<1>9. ASSUME NEW k \in 1..q
      PROVE  Chunks(Cat(D, P), 0, s)[k] = Chunks(D, 0, s)[k]
  <2>1. PICK a \in Nat : a = (k - 1) * s
    BY ChunkInside
  <2>2. Chunks(D, 0, s)[k] = SubSeq(D, a + 1, a + s) /\ a + s <= s * q
    BY <1>8, <2>1, ChunkAt
  <2>3. Chunks(Cat(D, P), 0, s)[k] = SubSeq(Cat(D, P), a + 1, a + s)
    BY <1>8, <2>1, ChunkAt
  <2>4. a + 1 \in 1..Len(D) /\ a + s \in 1..Len(D)
    BY <1>3, <2>2, LenProperties
  <2>5. SubSeq(Cat(D, P), a + 1, a + s) = SubSeq(D, a + 1, a + s)
    BY <2>4, SubSeqOfLeft
  <2> QED BY <2>2, <2>3, <2>5
<1>10. 0 \in 0..Len(D) /\ 0 \in 0..Len(Cat(D, P))
  BY <1>4, LenProperties
<1>11. Chunks(D, 0, s) \in Seq(Seq(U)) /\ Len(Chunks(D, 0, s)) = q
  BY <1>8, <1>10, ChunksSeq
<1>12. Chunks(Cat(D, P), 0, s) \in Seq(Seq(U)) /\ Len(Chunks(Cat(D, P), 0, s)) = q
  BY <1>4, <1>8, <1>10, ChunksSeq
<1>13. Chunks(Cat(D, P), 0, s) = Chunks(D, 0, s)
  BY <1>9, <1>11, <1>12, SameChunks
<1> QED BY <1>2, <1>5, <1>7, <1>13


\* Behind whole chunks, a piece is cut into chunks as it is alone.
LEMMA AlignedPiece ==
    ASSUME NEW U, NEW D \in Seq(U), NEW P \in Seq(U), NEW s \in Nat \ {0},
           Len(D) % s = 0
    PROVE  /\ Chunks(Cat(D, P), 0, s) = Cat(Chunks(D, 0, s), Chunks(P, 0, s))
           /\ Len(Cat(D, P)) % s = Len(P) % s
<1>1. PICK E \in Seq(U) : E = Cat(D, P)
  BY CatFacts
<1>2. Len(D) \in Nat /\ Len(P) \in Nat /\ Len(E) = Len(D) + Len(P)
  BY <1>1, LenProperties, CatFacts
<1>3. PICK q \in Nat : q = Len(D) \div s
  BY <1>2, Division
<1>4. PICK w \in Nat : w = Len(P) \div s
  BY <1>2, Division
<1>5. PICK r \in 0..(s - 1) : r = Len(P) % s
  BY <1>2, Division
<1>6. Len(D) = s * q
  <2>1. Len(D) = s * (Len(D) \div s) + (Len(D) % s)
    BY <1>2, Division
  <2>2. s * q \in Nat
    BY SMT
  <2> QED BY <1>3, <2>1, <2>2
<1>7. Len(P) = s * w + r
  BY <1>2, <1>4, <1>5, Division
<1>8. Len(E) = s * (q + w) + r
  <2>1. s * (q + w) = s * q + s * w /\ s * q \in Nat /\ s * w \in Nat
    BY SMT
  <2> QED BY <1>2, <1>6, <1>7, <2>1
<1>9. Len(E) \div s = q + w /\ Len(E) % s = r
  <2>1. PICK n \in Nat : n = q + w
    OBVIOUS
  <2>2. (s * n + r) \div s = n /\ (s * n + r) % s = r
    BY DivisionIsUnique
  <2> QED BY <1>8, <2>1, <2>2
<1>10. Whole(D, 0, s) = q /\ Whole(P, 0, s) = w /\ Whole(E, 0, s) = q + w
  BY <1>2, <1>3, <1>4, <1>9 DEF Whole
<1>11. 0 \in 0..Len(D) /\ 0 \in 0..Len(P) /\ 0 \in 0..Len(E)
  BY <1>2
<1>. DEFINE A == Chunks(D, 0, s)
            B == Chunks(P, 0, s)
<1>12. A \in Seq(Seq(U)) /\ Len(A) = q
  BY <1>10, <1>11, ChunksSeq
<1>13. B \in Seq(Seq(U)) /\ Len(B) = w
  BY <1>10, <1>11, ChunksSeq
<1>14. Chunks(E, 0, s) \in Seq(Seq(U)) /\ Len(Chunks(E, 0, s)) = q + w
  BY <1>10, <1>11, ChunksSeq
<1>. HIDE DEF A, B
<1>15. /\ Cat(A, B) \in Seq(Seq(U))
       /\ Len(Cat(A, B)) = q + w
       /\ \A k \in 1..(q + w) : Cat(A, B)[k] = IF k <= q THEN A[k] ELSE B[k - q]
  <2>1. /\ Cat(A, B) \in Seq(Seq(U))
        /\ Len(Cat(A, B)) = Len(A) + Len(B)
        /\ \A k \in 1..(Len(A) + Len(B)) : Cat(A, B)[k] = IF k <= Len(A) THEN A[k] ELSE B[k - Len(A)]
    BY ZenonT(30), <1>12, <1>13, CatFacts
  <2> QED BY <1>12, <1>13, <2>1
<1>16. ASSUME NEW k \in 1..q
       PROVE  Chunks(E, 0, s)[k] = A[k]
  <2>1. PICK a \in Nat : a = (k - 1) * s
    BY ChunkInside
  <2>2. A[k] = SubSeq(D, a + 1, a + s) /\ a + s <= s * q
    BY <1>10, <2>1, ChunkAt DEF A
  <2>3. k \in 1..(q + w) /\ q + w \in Nat
    OBVIOUS
  <2>4. Chunks(E, 0, s)[k] = SubSeq(E, a + 1, a + s)
    BY <1>10, <2>1, <2>3, ChunkAt
  <2>5. a + 1 \in 1..Len(D) /\ a + s \in 1..Len(D)
    BY <1>2, <1>6, <2>2
  <2>6. SubSeq(Cat(D, P), a + 1, a + s) = SubSeq(D, a + 1, a + s)
    BY <2>5, SubSeqOfLeft
  <2> QED BY <1>1, <2>2, <2>4, <2>6
<1>17. ASSUME NEW j \in 1..w
       PROVE  Chunks(E, 0, s)[q + j] = B[j]
  <2>1. PICK b \in Nat : b = (j - 1) * s
    BY ChunkInside
  <2>2. B[j] = SubSeq(P, b + 1, b + s) /\ b + s <= s * w
    BY <1>10, <2>1, ChunkAt DEF B
  <2>3. PICK k \in 1..(q + w) : k = q + j
    OBVIOUS
  <2>4. PICK a \in Nat : a = (k - 1) * s
    BY ChunkInside
  <2>5. a = Len(D) + b
    <3>1. (k - 1) * s = s * q + (j - 1) * s
      BY <2>3, SMT
    <3> QED BY <1>6, <2>1, <2>4, <3>1
  <2>6. q + w \in Nat
    OBVIOUS
  <2>7. Chunks(E, 0, s)[k] = SubSeq(E, a + 1, a + s)
    BY <1>10, <2>4, <2>6, ChunkAt
  <2>8. b + s <= Len(P)
    <3>1. PICK c \in Nat : c = s * w
      BY SMT
    <3> QED BY <1>2, <1>7, <2>2, <3>1
  <2>9. PICK x, y \in (Len(D) + 1)..(Len(D) + Len(P)) : x = a + 1 /\ y = a + s
    <3>1. a + 1 \in (Len(D) + 1)..(Len(D) + Len(P)) /\ a + s \in (Len(D) + 1)..(Len(D) + Len(P))
      BY <1>2, <2>5, <2>8
    <3> QED BY <3>1
  <2>10. SubSeq(Cat(D, P), x, y) = SubSeq(P, x - Len(D), y - Len(D))
    BY SubSeqOfRight
  <2>11. x - Len(D) = b + 1 /\ y - Len(D) = b + s
    BY <1>2, <2>5, <2>9
  <2> QED BY <1>1, <2>2, <2>3, <2>7, <2>9, <2>10, <2>11
<1>18. \A k \in 1..(q + w) : Chunks(E, 0, s)[k] = Cat(A, B)[k]
  <2>. SUFFICES ASSUME NEW k \in 1..(q + w)
                PROVE  Chunks(E, 0, s)[k] = Cat(A, B)[k]
    OBVIOUS
  <2>1. CASE k <= q
    <3>1. k \in 1..q
      BY <2>1
    <3> QED BY <1>15, <1>16, <2>1, <3>1
  <2>2. CASE ~(k <= q)
    <3>1. PICK j \in 1..w : k = q + j /\ k - q = j
      BY <2>2
    <3> QED BY <1>15, <1>17, <2>2, <3>1
  <2> QED BY <2>1, <2>2
<1>19. Chunks(E, 0, s) = Cat(A, B)
  BY <1>14, <1>15, <1>18, SameChunks
<1> QED BY <1>1, <1>5, <1>9, <1>19 DEF A, B

LEMMA OneChunk ==
    ASSUME NEW U, NEW D \in Seq(U), Len(D) \in Nat \ {0}
    PROVE  /\ Chunks(D, 0, Len(D)) = <<D>>
           /\ Len(D) % Len(D) = 0
<1>1. PICK s \in Nat \ {0} : s = Len(D)
  OBVIOUS
<1>2. /\ (s * 1 + 0) \div s = 1
      /\ (s * 1 + 0) % s = 0
  BY DivisionIsUnique
<1>3. s * 1 + 0 = s
  OBVIOUS
<1>4. Whole(D, 0, s) = 1
  BY <1>1, <1>2, <1>3 DEF Whole
<1>5. 0 \in 0..Len(D)
  BY <1>1
<1>6. Chunks(D, 0, s) \in Seq(Seq(U)) /\ Len(Chunks(D, 0, s)) = 1
  BY <1>4, <1>5, ChunksSeq
<1>7. Chunks(D, 0, s)[1] = D
  <2>1. 0 = (1 - 1) * s
    OBVIOUS
  <2>2. Chunks(D, 0, s)[1] = SubSeq(D, 0 + 1, 0 + s)
    BY <1>4, <2>1, ChunkAt
  <2>3. SubSeq(D, 1, Len(D)) = D
    BY SubSeqFull
  <2> QED BY <1>1, <2>2, <2>3
<1>8. <<D>> \in Seq(Seq(U)) /\ Len(<<D>>) = 1 /\ <<D>>[1] = D
  OBVIOUS
<1>9. Chunks(D, 0, s) = <<D>>
  BY <1>6, <1>7, <1>8, SameChunks
<1> QED BY <1>1, <1>2, <1>3, <1>9


\* Chunks behind the first bytes are the chunks of what follows them.
LEMMA BehindUsed ==
    ASSUME NEW U, NEW H \in Seq(U), NEW T \in Seq(U), NEW s \in Nat \ {0}
    PROVE  Chunks(Cat(H, T), Len(H), s) = Chunks(T, 0, s)
<1>1. PICK P : P = Cat(H, T) /\ P \in Seq(U)
  BY CatFacts
<1>2. PICK u \in Nat : u = Len(H)
  BY LenProperties
<1>3. Len(P) = u + Len(T) /\ Len(T) \in Nat /\ u \in 0..Len(P) /\ 0 \in 0..Len(T)
  BY <1>1, <1>2, LenProperties, CatFacts
<1>4. PICK w \in Nat : w = Whole(T, 0, s)
  BY <1>3, WholeFacts
<1>5. Whole(P, u, s) = w
  <2>1. Len(P) - u = Len(T) - 0
    BY <1>3
  <2> QED BY <1>4, <2>1 DEF Whole
<1>6. Chunks(P, u, s) \in Seq(Seq(U)) /\ Len(Chunks(P, u, s)) = w
  BY <1>1, <1>3, <1>5, ChunksSeq
<1>7. Chunks(T, 0, s) \in Seq(Seq(U)) /\ Len(Chunks(T, 0, s)) = w
  BY <1>3, <1>4, ChunksSeq
<1>8. ASSUME NEW k \in 1..w
      PROVE  Chunks(P, u, s)[k] = Chunks(T, 0, s)[k]
  <2>1. PICK a \in Nat : a = (k - 1) * s
    BY ChunkInside
  <2>2. Chunks(T, 0, s)[k] = SubSeq(T, a + 1, a + s) /\ a + s <= s * w
    BY ZenonT(30), <1>4, <2>1, ChunkAt
  <2>3. a + s <= Len(T)
    <3>1. PICK c \in Nat : c = s * w
      BY SMT
    <3>2. PICK d \in Nat : d = (Len(T) - 0) % s
      BY <1>3, WholeFacts
    <3>3. Len(T) = 0 + c + d
      BY <1>3, <1>4, <3>1, <3>2, WholeFacts
    <3> QED BY <2>2, <3>1, <3>3
  <2>4. Chunks(P, u, s)[k] = SubSeq(P, u + a + 1, u + (a + s))
    <3>1. k * s = a + s
      BY <2>1, ChunkInside
    <3> QED BY <1>5, <2>1, <3>1 DEF Chunks
  <2>5. PICK x, y \in (Len(H) + 1)..(Len(H) + Len(T)) : x = u + a + 1 /\ y = u + (a + s)
    <3>1. /\ u + a + 1 \in (Len(H) + 1)..(Len(H) + Len(T))
          /\ u + (a + s) \in (Len(H) + 1)..(Len(H) + Len(T))
      BY <1>2, <1>3, <2>3
    <3> QED BY <3>1
  <2>6. SubSeq(Cat(H, T), x, y) = SubSeq(T, x - Len(H), y - Len(H))
    BY SubSeqOfRight
  <2>7. x - Len(H) = a + 1 /\ y - Len(H) = a + s
    BY <1>2, <2>5
  <2> QED BY <1>1, <2>2, <2>4, <2>5, <2>6, <2>7
<1>9. Chunks(P, u, s) = Chunks(T, 0, s)
  BY <1>6, <1>7, <1>8, SameChunks
<1> QED BY <1>1, <1>2, <1>9

LEMMA Regroup ==
    ASSUME NEW U, NEW B \in Seq(U), NEW R \in Seq(U), NEW H \in Seq(U), NEW T \in Seq(U)
    PROVE  Cat(Cat(B, R), Cat(H, T)) = Cat(Cat(B, Cat(R, H)), T)
<1>1. PICK X : X = Cat(B, R) /\ X \in Seq(U)
  BY CatFacts, SMTT(60)
<1>2. Cat(X, Cat(H, T)) = Cat(Cat(X, H), T)
  BY <1>1, CatAssociative, SMTT(60)
<1>3. Cat(Cat(B, R), H) = Cat(B, Cat(R, H))
  BY CatAssociative, SMTT(60)
<1> QED BY <1>1, <1>2, <1>3

\* Whole chunks, then one chunk, then any piece.
LEMMA ChunkBetween ==
    ASSUME NEW U, NEW B \in Seq(U), NEW C \in Seq(U), NEW T \in Seq(U), NEW s \in Nat \ {0},
           Len(B) % s = 0, Len(C) % s = 0, Chunks(C, 0, s) = <<C>>
    PROVE  /\ Chunks(Cat(Cat(B, C), T), 0, s) = Cat(Cat(Chunks(B, 0, s), <<C>>), Chunks(T, 0, s))
           /\ Len(Cat(Cat(B, C), T)) % s = Len(T) % s
<1>1. Chunks(Cat(B, C), 0, s) = Cat(Chunks(B, 0, s), <<C>>) /\ Len(Cat(B, C)) % s = 0
  BY SMTT(30), AlignedPiece
<1>2. PICK F : F = Cat(B, C) /\ F \in Seq(U)
  BY CatFacts
<1>3. Chunks(Cat(F, T), 0, s) = Cat(Chunks(F, 0, s), Chunks(T, 0, s)) /\ Len(Cat(F, T)) % s = Len(T) % s
  BY <1>1, <1>2, AlignedPiece
<1> QED BY <1>1, <1>2, <1>3

LEMMA SplitAtRest ==
    ASSUME NEW U, NEW D \in Seq(U), NEW s \in Nat \ {0}
    PROVE  \E B, R \in Seq(U) :
              /\ D = Cat(B, R) /\ Len(B) % s = 0
              /\ Len(R) = Len(D) % s
              /\ R = Rest(D, 0, s)
              /\ Chunks(D, 0, s) = Chunks(B, 0, s)
<1>1. PICK m \in 0..(s - 1) : m = Len(D) % s
  BY LenProperties, Division
<1>2. Len(D) \in Nat
  BY LenProperties
<1>3. PICK R \in Seq(U) : /\ R = Rest(D, 0, s)
                         /\ Len(R) = m
                         /\ \A i \in 1..m : R[i] = D[Len(D) - m + i]
  <2>1. /\ Rest(D, 0, s) \in Seq(U)
        /\ Len(Rest(D, 0, s)) = m
        /\ \A i \in 1..Len(Rest(D, 0, s)) : Rest(D, 0, s)[i] = D[Len(D) - Len(Rest(D, 0, s)) + i]
    BY <1>1, RestFacts
  <2> QED BY <2>1
<1>4. PICK a \in Nat : Len(D) = a + m /\ a % s = 0
  <2>1. PICK q \in Nat : q = Len(D) \div s
    BY <1>2, Division
  <2>2. s * q \in Nat
    BY SMT
  <2>3. Len(D) = s * q + m
    BY <1>1, <1>2, <2>1, <2>2, Division
  <2>4. 0 \in 0..(s - 1)
    OBVIOUS
  <2>5. (s * q + 0) % s = 0
    BY <2>4, DivisionIsUnique
  <2>6. s * q + 0 = s * q
    BY <2>2
  <2> QED BY <2>2, <2>3, <2>5, <2>6
<1>5. PICK B \in Seq(U) : B = SubSeq(D, 1, a) /\ Len(B) = a /\ \A i \in 1..a : B[i] = D[i]
  <2>1. \A i \in 1..a : D[i] \in U
    BY <1>4, ElementOfSeq
  <2>2. /\ SubSeq(D, 1, a) \in Seq(U)
        /\ Len(SubSeq(D, 1, a)) = IF 1 <= a THEN a - 1 + 1 ELSE 0
        /\ \A i \in 1..(a - 1 + 1) : SubSeq(D, 1, a)[i] = D[1 + i - 1]
    BY <2>1, SubSeqProperties
  <2>3. a - 1 + 1 = a /\ \A i \in 1..a : 1 + i - 1 = i
    OBVIOUS
  <2>4. \A i \in 1..a : SubSeq(D, 1, a)[i] = D[i]
    BY <2>2, <2>3
  <2>5. Len(SubSeq(D, 1, a)) = a
    BY <2>2
  <2> QED BY <2>2, <2>4, <2>5
<1>6. D = Cat(B, R)
  <2>1. /\ Cat(B, R) \in Seq(U)
        /\ Len(Cat(B, R)) = Len(B) + Len(R)
        /\ \A i \in 1..(Len(B) + Len(R)) : Cat(B, R)[i] = IF i <= Len(B) THEN B[i] ELSE R[i - Len(B)]
    BY CatFacts
  <2>2. /\ Len(Cat(B, R)) = a + m
        /\ \A i \in 1..(a + m) : Cat(B, R)[i] = IF i <= a THEN B[i] ELSE R[i - a]
    BY <1>3, <1>5, <2>1
  <2>3. ASSUME NEW i \in 1..(a + m) PROVE D[i] = Cat(B, R)[i]
    <3>1. CASE i <= a
      BY <1>5, <2>2, <3>1
    <3>2. CASE ~(i <= a)
      <4>1. i - a \in 1..m /\ Len(D) - m + (i - a) = i
        BY <1>4, <3>2
      <4> QED BY <1>3, <2>2, <3>2, <4>1
    <3> QED BY <3>1, <3>2
  <2> QED BY <1>4, <2>1, <2>2, <2>3, SeqEqual
<1>7. Chunks(D, 0, s) = Chunks(B, 0, s)
  <2>1. (Len(B) % s) + Len(R) < s
    BY <1>1, <1>3, <1>4, <1>5
  <2>2. Chunks(Cat(B, R), 0, s) = Chunks(B, 0, s)
    BY <2>1, ShortPiece
  <2> QED BY <1>6, <2>2
<1> QED BY <1>1, <1>3, <1>4, <1>5, <1>6, <1>7

\* H is what is missing from the last chunk of D.
Completes(D, H, s) == (Len(D) % s) + Len(H) = s

\* A piece that completes a chunk: the chunk comes between those before and those of the piece.
LEMMA LongPiece ==
    ASSUME NEW U, NEW D \in Seq(U), NEW H \in Seq(U), NEW T \in Seq(U), NEW s \in Nat \ {0},
           Completes(D, H, s)
    PROVE  /\ Chunks(Cat(D, Cat(H, T)), 0, s)
                  = Cat(Cat(Chunks(D, 0, s), <<Cat(Rest(D, 0, s), H)>>), Chunks(T, 0, s))
           /\ Len(Cat(D, Cat(H, T))) % s = Len(T) % s
<1>1. PICK B, R : /\ B \in Seq(U) /\ R \in Seq(U)
                  /\ D = Cat(B, R) /\ Len(B) % s = 0
                  /\ Len(R) = Len(D) % s
                  /\ R = Rest(D, 0, s)
                  /\ Chunks(D, 0, s) = Chunks(B, 0, s)
  BY SplitAtRest
<1>2. PICK C : C = Cat(R, H) /\ C \in Seq(U)
  BY <1>1, CatFacts
<1>3. Len(C) = s
  <2>1. Len(Cat(R, H)) = Len(R) + Len(H)
    BY <1>1, CatFacts
  <2> QED BY <1>1, <1>2, <2>1 DEF Completes
<1>4. Chunks(C, 0, s) = <<C>> /\ Len(C) % s = 0
  <2>1. Chunks(C, 0, Len(C)) = <<C>> /\ Len(C) % Len(C) = 0
    BY <1>2, <1>3, OneChunk
  <2> QED BY <1>3, <2>1
<1>5. /\ Chunks(Cat(Cat(B, C), T), 0, s) = Cat(Cat(Chunks(B, 0, s), <<C>>), Chunks(T, 0, s))
      /\ Len(Cat(Cat(B, C), T)) % s = Len(T) % s
  BY <1>1, <1>2, <1>4, ChunkBetween
<1>6. Cat(Cat(B, R), Cat(H, T)) = Cat(Cat(B, C), T)
  BY <1>1, <1>2, Regroup
<1> QED BY <1>1, <1>2, <1>5, <1>6

LEMMA RestBehindUsed ==
    ASSUME NEW U, NEW H \in Seq(U), NEW T \in Seq(U), NEW s \in Nat \ {0}
    PROVE  Rest(Cat(H, T), Len(H), s) = Rest(T, 0, s)
<1>1. PICK P : P = Cat(H, T) /\ P \in Seq(U)
  BY CatFacts
<1>2. PICK u \in Nat : u = Len(H)
  BY LenProperties
<1>3. Len(P) = u + Len(T) /\ Len(T) \in Nat
  BY <1>1, <1>2, LenProperties, CatFacts
<1>4. PICK w \in Nat : w = Whole(T, 0, s)
  BY <1>3, WholeFacts
<1>5. Whole(P, u, s) = w
  <2>1. Len(P) - u = Len(T) - 0
    BY <1>3
  <2> QED BY <1>4, <2>1 DEF Whole
<1>6. PICK a \in Nat : a = w * s
  BY SMT
<1>7. Rest(P, u, s) = SubSeq(P, u + a + 1, Len(P)) /\ Rest(T, 0, s) = SubSeq(T, a + 1, Len(T))
  <2>1. 0 + w * s + 1 = a + 1
    BY <1>6
  <2> QED BY <1>4, <1>5, <1>6, <2>1 DEF Rest
<1>8. CASE a < Len(T)
  <2>1. PICK x, y \in (Len(H) + 1)..(Len(H) + Len(T)) : x = u + a + 1 /\ y = Len(P)
    <3>1. /\ u + a + 1 \in (Len(H) + 1)..(Len(H) + Len(T))
          /\ Len(P) \in (Len(H) + 1)..(Len(H) + Len(T))
      BY <1>2, <1>3, <1>8
    <3> QED BY <3>1
  <2>2. SubSeq(Cat(H, T), x, y) = SubSeq(T, x - Len(H), y - Len(H))
    BY SubSeqOfRight
  <2>3. x - Len(H) = a + 1 /\ y - Len(H) = Len(T)
    BY <1>2, <1>3, <2>1
  <2> QED BY <1>1, <1>2, <1>7, <2>1, <2>2, <2>3
<1>9. CASE ~(a < Len(T))
  <2>1. Len(P) < u + a + 1 /\ Len(T) < a + 1
    BY <1>3, <1>9
  <2>2. SubSeq(P, u + a + 1, Len(P)) = <<>> /\ SubSeq(T, a + 1, Len(T)) = <<>>
    BY <1>3, <2>1, SubSeqEmpty
  <2> QED BY <1>1, <1>2, <1>7, <2>2
<1> QED BY <1>8, <1>9

-----------------------------------------------------------------------------
(* Buffers.                                                                *)

LEMMA OverwriteFacts ==
    ASSUME NEW U, NEW buf \in Seq(U), NEW at \in Nat, NEW data \in Seq(U)
    PROVE  /\ Overwrite(buf, at, data) \in Seq(U)
           /\ Len(Overwrite(buf, at, data)) = Len(buf)
           /\ \A i \in 1..Len(buf) :
                  Overwrite(buf, at, data)[i] = IF i - at \in 1..Len(data) THEN data[i - at] ELSE buf[i]
<1>1. Len(buf) \in Nat /\ Len(data) \in Nat
  BY LenProperties
<1>2. \A i \in 1..Len(buf) : (IF i - at \in 1..Len(data) THEN data[i - at] ELSE buf[i]) \in U
  BY ElementOfSeq
<1>3. Overwrite(buf, at, data) \in [1..Len(buf) -> U]
  BY <1>2 DEF Overwrite
<1>4. Overwrite(buf, at, data) \in Seq(U) /\ Len(Overwrite(buf, at, data)) = Len(buf)
  BY <1>1, <1>3
<1> QED BY <1>4 DEF Overwrite

Byte == ({"msg", "pad", "garbage"} \X Nat) \cup ({"len"} \X Nat \X Nat)

\* A stream that was fed D: its whole chunks of s bytes were taken, and the buffer begins with the rest.
Keeps(mem, D, s) ==
    \A i \in 1..(Len(D) % s) : mem[i] = D[Len(D) - (Len(D) % s) + i]

IsBuffer(mem, s) == mem \in Seq(Byte) /\ Len(mem) = s

Fed(D, s, v, mem) ==
    /\ IsBuffer(mem, s)
    /\ v = Chunks(D, 0, s)
    /\ Keeps(mem, D, s)

Overwritten(new, mem, at, data, s) ==
    /\ IsBuffer(new, s)
    /\ \A i \in 1..s : new[i] = IF i - at \in 1..Len(data) THEN data[i - at] ELSE mem[i]

LEMMA OverwrittenBuffer ==
    ASSUME NEW s \in Nat \ {0}, NEW mem, IsBuffer(mem, s), NEW at \in Nat, NEW data \in Seq(Byte)
    PROVE  Overwritten(Overwrite(mem, at, data), mem, at, data, s)
  BY OverwriteFacts DEF IsBuffer, Overwritten

LEMMA FedNothing ==
    ASSUME NEW s \in Nat \ {0}, NEW mem, IsBuffer(mem, s)
    PROVE  Fed(<<>>, s, <<>>, mem)
<1>1. Len(<<>>) = 0
  OBVIOUS
<1>2. /\ (s * 0 + 0) \div s = 0
      /\ (s * 0 + 0) % s = 0
  BY DivisionIsUnique
<1>3. s * 0 + 0 = 0
  OBVIOUS
<1>4. Whole(<<>>, 0, s) = 0
  BY <1>1, <1>2, <1>3 DEF Whole
<1>5. <<>> \in Seq(Byte) /\ 0 \in 0..Len(<<>>)
  BY <1>1
<1>6. Len(Chunks(<<>>, 0, s)) = 0 /\ Chunks(<<>>, 0, s) \in Seq(Seq(Byte))
  BY <1>4, <1>5, ChunksSeq
<1>7. Chunks(<<>>, 0, s) = <<>>
  BY <1>6, EmptySeq
<1>8. Keeps(mem, <<>>, s)
  BY <1>1, <1>2, <1>3 DEF Keeps
<1> QED BY <1>7, <1>8 DEF Fed

\* A piece that completes no chunk goes behind what is kept.
LEMMA FedShort ==
    ASSUME NEW D \in Seq(Byte), NEW P \in Seq(Byte), NEW s \in Nat \ {0}, NEW v, NEW mem,
           Fed(D, s, v, mem), (Len(D) % s) + Len(P) < s
    PROVE  Fed(Cat(D, P), s, v, Overwrite(mem, Len(D) % s, P))
<1>1. PICK m \in 0..(s - 1) : m = Len(D) % s
  BY LenProperties, Division
<1>2. IsBuffer(mem, s) /\ v = Chunks(D, 0, s)
  BY DEF Fed
<1>3. \A i \in 1..m : mem[i] = D[Len(D) - m + i]
  BY <1>1 DEF Fed, Keeps
<1>4. Chunks(Cat(D, P), 0, s) = Chunks(D, 0, s) /\ Len(Cat(D, P)) % s = m + Len(P)
  BY <1>1, ShortPiece
<1>5. /\ Len(Cat(D, P)) = Len(D) + Len(P)
      /\ \A i \in 1..(Len(D) + Len(P)) : Cat(D, P)[i] = IF i <= Len(D) THEN D[i] ELSE P[i - Len(D)]
  BY CatFacts
<1>6. /\ IsBuffer(Overwrite(mem, m, P), s)
      /\ \A i \in 1..s : Overwrite(mem, m, P)[i] = IF i - m \in 1..Len(P) THEN P[i - m] ELSE mem[i]
  <2>1. Overwritten(Overwrite(mem, m, P), mem, m, P, s)
    BY <1>2, OverwrittenBuffer
  <2> QED BY <2>1 DEF Overwritten
<1>7. Len(D) \in Nat /\ Len(P) \in Nat /\ m <= Len(D) /\ m + Len(P) < s
  <2>1. PICK a \in Nat : a = Len(D) \div s
    BY LenProperties, Division
  <2>2. PICK b \in Nat : b = s * a
    BY SMT
  <2>3. Len(D) = b + m
    BY <1>1, <2>1, <2>2, LenProperties, Division
  <2> QED BY <1>1, <2>3, LenProperties
<1>8. ASSUME NEW i \in 1..(m + Len(P))
      PROVE  Overwrite(mem, m, P)[i] = Cat(D, P)[Len(Cat(D, P)) - (m + Len(P)) + i]
  <2>1. Len(Cat(D, P)) - (m + Len(P)) + i = Len(D) - m + i
    BY <1>5, <1>7
  <2>2. i \in 1..s /\ Len(D) - m + i \in 1..(Len(D) + Len(P))
    BY <1>7
  <2>3. CASE i <= m
    <3>1. i \in 1..m /\ ~(i - m \in 1..Len(P)) /\ Len(D) - m + i <= Len(D)
      BY <1>7, <2>3
    <3> QED BY <1>3, <1>5, <1>6, <2>1, <2>2, <3>1
  <2>4. CASE ~(i <= m)
    <3>1. i - m \in 1..Len(P) /\ ~(Len(D) - m + i <= Len(D)) /\ Len(D) - m + i - Len(D) = i - m
      BY <1>7, <2>4
    <3>2. Overwrite(mem, m, P)[i] = P[i - m]
      BY <1>6, <2>2, <3>1
    <3>3. Cat(D, P)[Len(D) - m + i] = P[i - m]
      BY <1>5, <2>2, <3>1
    <3> QED BY <2>1, <3>2, <3>3
  <2> QED BY <2>3, <2>4
<1>9. Keeps(Overwrite(mem, m, P), Cat(D, P), s)
  BY <1>4, <1>8 DEF Keeps
<1> QED BY <1>1, <1>2, <1>4, <1>6, <1>9 DEF Fed

\* What is left of X and T together is what is left of T.
SameRest(X, T, s) == Len(Cat(X, T)) % s = Len(T) % s

LEMMA KeepsRest ==
    ASSUME NEW X \in Seq(Byte), NEW T \in Seq(Byte), NEW s \in Nat \ {0}, NEW mem, IsBuffer(mem, s),
           SameRest(X, T, s)
    PROVE  /\ IsBuffer(Overwrite(mem, 0, Rest(T, 0, s)), s)
           /\ Keeps(Overwrite(mem, 0, Rest(T, 0, s)), Cat(X, T), s)
<1>1. PICK r \in 0..(s - 1) : r = Len(T) % s
  BY LenProperties, Division
<1>2. PICK R \in Seq(Byte) : /\ R = Rest(T, 0, s)
                            /\ Len(R) = r
                            /\ \A i \in 1..r : R[i] = T[Len(T) - r + i]
  <2>1. /\ Rest(T, 0, s) \in Seq(Byte)
        /\ Len(Rest(T, 0, s)) = r
        /\ \A i \in 1..Len(Rest(T, 0, s)) : Rest(T, 0, s)[i] = T[Len(T) - Len(Rest(T, 0, s)) + i]
    BY <1>1, RestFacts
  <2> QED BY <2>1
<1>3. /\ IsBuffer(Overwrite(mem, 0, R), s)
      /\ \A i \in 1..s : Overwrite(mem, 0, R)[i] = IF i - 0 \in 1..r THEN R[i - 0] ELSE mem[i]
  <2>1. Overwritten(Overwrite(mem, 0, R), mem, 0, R, s)
    BY <1>2, OverwrittenBuffer
  <2> QED BY <1>2, <2>1 DEF Overwritten
<1>4. /\ Len(Cat(X, T)) = Len(X) + Len(T)
      /\ \A i \in 1..(Len(X) + Len(T)) : Cat(X, T)[i] = IF i <= Len(X) THEN X[i] ELSE T[i - Len(X)]
  BY CatFacts
<1>5. Len(X) \in Nat /\ Len(T) \in Nat /\ r <= Len(T)
  <2>1. PICK a \in Nat : a = Len(T) \div s
    BY LenProperties, Division
  <2>2. PICK b \in Nat : b = s * a
    BY SMT
  <2>3. Len(T) = b + r
    BY <1>1, <2>1, <2>2, LenProperties, Division
  <2> QED BY <2>3, LenProperties
<1>6. ASSUME NEW i \in 1..r
      PROVE  Overwrite(mem, 0, R)[i] = Cat(X, T)[Len(Cat(X, T)) - r + i]
  <2>1. i \in 1..s /\ i - 0 = i
    OBVIOUS
  <2>2. Overwrite(mem, 0, R)[i] = T[Len(T) - r + i]
    BY <1>2, <1>3, <2>1
  <2>3. PICK j \in 1..(Len(X) + Len(T)) : j = Len(X) + Len(T) - r + i
    <3>1. Len(X) + Len(T) - r + i \in 1..(Len(X) + Len(T))
      BY <1>5
    <3> QED BY <3>1
  <2>4. ~(j <= Len(X)) /\ j - Len(X) = Len(T) - r + i
    BY <1>5, <2>3
  <2>5. Cat(X, T)[j] = T[Len(T) - r + i]
    BY <1>4, <2>4
  <2> QED BY <1>4, <2>2, <2>3, <2>5
<1>7. Len(Cat(X, T)) % s = r
  BY <1>1 DEF SameRest
<1>8. Keeps(Overwrite(mem, 0, R), Cat(X, T), s)
  BY <1>6, <1>7 DEF Keeps
<1> QED BY <1>2, <1>3, <1>8

\* A piece of which nothing goes into a chunk begun before.
LEMMA FedAligned ==
    ASSUME NEW D \in Seq(Byte), NEW P \in Seq(Byte), NEW s \in Nat \ {0}, NEW v, NEW mem,
           Fed(D, s, v, mem), Len(D) % s = 0, NEW buf, IsBuffer(buf, s)
    PROVE  Fed(Cat(D, P), s, Cat(v, Chunks(P, 0, s)), Overwrite(buf, 0, Rest(P, 0, s)))
<1>1. v = Chunks(D, 0, s)
  BY DEF Fed
<1>2. Chunks(Cat(D, P), 0, s) = Cat(Chunks(D, 0, s), Chunks(P, 0, s)) /\ SameRest(D, P, s)
  BY AlignedPiece DEF SameRest
<1>3. /\ IsBuffer(Overwrite(buf, 0, Rest(P, 0, s)), s)
      /\ Keeps(Overwrite(buf, 0, Rest(P, 0, s)), Cat(D, P), s)
  BY <1>2, KeepsRest
<1> QED BY <1>1, <1>2, <1>3 DEF Fed

\* The buffer that H fills up is the chunk.
LEMMA FilledBuffer ==
    ASSUME NEW D \in Seq(Byte), NEW H \in Seq(Byte), NEW s \in Nat \ {0}, NEW mem,
           IsBuffer(mem, s), Keeps(mem, D, s), Completes(D, H, s)
    PROVE  Overwrite(mem, Len(D) % s, H) = Cat(Rest(D, 0, s), H)
<1>1. PICK m \in 0..(s - 1) : m = Len(D) % s
  BY LenProperties, Division
<1>2. \A i \in 1..m : mem[i] = D[Len(D) - m + i]
  BY <1>1 DEF Keeps
<1>3. Len(H) \in Nat /\ m + Len(H) = s
  BY <1>1, LenProperties DEF Completes
<1>4. PICK R \in Seq(Byte) : /\ R = Rest(D, 0, s)
                            /\ Len(R) = m
                            /\ \A i \in 1..m : R[i] = D[Len(D) - m + i]
  <2>1. /\ Rest(D, 0, s) \in Seq(Byte)
        /\ Len(Rest(D, 0, s)) = m
        /\ \A i \in 1..Len(Rest(D, 0, s)) : Rest(D, 0, s)[i] = D[Len(D) - Len(Rest(D, 0, s)) + i]
    BY <1>1, RestFacts
  <2> QED BY <2>1
<1>5. /\ IsBuffer(Overwrite(mem, m, H), s)
      /\ \A i \in 1..s : Overwrite(mem, m, H)[i] = IF i - m \in 1..Len(H) THEN H[i - m] ELSE mem[i]
  <2>1. Overwritten(Overwrite(mem, m, H), mem, m, H, s)
    BY OverwrittenBuffer
  <2> QED BY <2>1 DEF Overwritten
<1>6. /\ IsBuffer(Cat(R, H), s)
      /\ \A i \in 1..s : Cat(R, H)[i] = IF i <= m THEN R[i] ELSE H[i - m]
  <2>1. /\ Cat(R, H) \in Seq(Byte)
        /\ Len(Cat(R, H)) = Len(R) + Len(H)
        /\ \A i \in 1..(Len(R) + Len(H)) : Cat(R, H)[i] = IF i <= Len(R) THEN R[i] ELSE H[i - Len(R)]
    BY CatFacts
  <2> QED BY <1>3, <1>4, <2>1 DEF IsBuffer
<1>7. ASSUME NEW i \in 1..s PROVE Overwrite(mem, m, H)[i] = Cat(R, H)[i]
  <2>1. CASE i <= m
    <3>1. i \in 1..m /\ ~(i - m \in 1..Len(H))
      BY <2>1
    <3> QED BY <1>2, <1>4, <1>5, <1>6, <2>1, <3>1
  <2>2. CASE ~(i <= m)
    <3>1. i - m \in 1..Len(H)
      BY <1>3, <2>2
    <3> QED BY <1>5, <1>6, <2>2, <3>1
  <2> QED BY <2>1, <2>2
<1>8. Overwrite(mem, m, H) = Cat(R, H)
  <2>1. ASSUME NEW a \in Seq(Byte), NEW b \in Seq(Byte), Len(a) = Len(b), \A i \in 1..Len(a) : a[i] = b[i]
        PROVE  a = b
    BY <2>1, SeqEqual
  <2> QED BY <1>5, <1>6, <1>7, <2>1 DEF IsBuffer
<1> QED BY <1>1, <1>4, <1>8

\* A piece whose first part H completes the chunk begun before.
LEMMA FedLong ==
    ASSUME NEW D \in Seq(Byte), NEW H \in Seq(Byte), NEW T \in Seq(Byte), NEW s \in Nat \ {0}, NEW v, NEW mem,
           Fed(D, s, v, mem), Completes(D, H, s), NEW buf, IsBuffer(buf, s)
    PROVE  Fed(Cat(D, Cat(H, T)), s,
               Cat(Cat(v, <<Overwrite(mem, Len(D) % s, H)>>), Chunks(T, 0, s)),
               Overwrite(buf, 0, Rest(T, 0, s)))
<1>1. IsBuffer(mem, s) /\ Keeps(mem, D, s) /\ v = Chunks(D, 0, s)
  BY DEF Fed
<1>2. Overwrite(mem, Len(D) % s, H) = Cat(Rest(D, 0, s), H)
  BY <1>1, FilledBuffer
<1>3. /\ Chunks(Cat(D, Cat(H, T)), 0, s)
              = Cat(Cat(Chunks(D, 0, s), <<Cat(Rest(D, 0, s), H)>>), Chunks(T, 0, s))
       /\ Len(Cat(D, Cat(H, T))) % s = Len(T) % s
  BY SMTT(30), LongPiece
<1>4. PICK X : X = Cat(D, H) /\ X \in Seq(Byte)
  BY CatFacts
<1>5. Cat(D, Cat(H, T)) = Cat(X, T)
  BY <1>4, CatAssociative
<1>6. SameRest(X, T, s)
  BY <1>3, <1>5 DEF SameRest
<1>7. /\ IsBuffer(Overwrite(buf, 0, Rest(T, 0, s)), s)
       /\ Keeps(Overwrite(buf, 0, Rest(T, 0, s)), Cat(X, T), s)
  BY <1>4, <1>6, KeepsRest
<1> QED BY <1>1, <1>2, <1>3, <1>5, <1>7 DEF Fed

LEMMA SplitPiece ==
    ASSUME NEW U, NEW P \in Seq(U), NEW u \in 0..Len(P)
    PROVE  \E H, T \in Seq(U) : P = Cat(H, T) /\ H = SubSeq(P, 1, u) /\ Len(H) = u
<1>1. Len(P) \in Nat /\ \A i \in 1..Len(P) : P[i] \in U
  BY LenProperties, ElementOfSeq
<1>2. PICK t \in Nat : Len(P) = u + t
  BY <1>1
<1>3. PICK H \in Seq(U) : H = SubSeq(P, 1, u) /\ Len(H) = u /\ \A i \in 1..u : H[i] = P[i]
  <2>1. \A i \in 1..u : P[i] \in U
    BY <1>1
  <2>2. /\ SubSeq(P, 1, u) \in Seq(U)
        /\ Len(SubSeq(P, 1, u)) = IF 1 <= u THEN u - 1 + 1 ELSE 0
        /\ \A i \in 1..(u - 1 + 1) : SubSeq(P, 1, u)[i] = P[1 + i - 1]
    BY <2>1, SubSeqProperties
  <2>3. u - 1 + 1 = u /\ \A i \in 1..u : 1 + i - 1 = i
    BY <1>1
  <2>4. \A i \in 1..u : SubSeq(P, 1, u)[i] = P[i]
    BY <2>2, <2>3
  <2>5. Len(SubSeq(P, 1, u)) = u
    BY <1>1, <2>2
  <2> QED BY <2>2, <2>4, <2>5
<1>4. PICK T \in Seq(U) : Len(T) = t /\ \A i \in 1..t : T[i] = P[u + i]
  <2>1. \A i \in (u + 1)..Len(P) : P[i] \in U
    BY <1>1
  <2>2. /\ SubSeq(P, u + 1, Len(P)) \in Seq(U)
        /\ Len(SubSeq(P, u + 1, Len(P))) = IF u + 1 <= Len(P) THEN Len(P) - (u + 1) + 1 ELSE 0
        /\ \A i \in 1..(Len(P) - (u + 1) + 1) : SubSeq(P, u + 1, Len(P))[i] = P[u + 1 + i - 1]
    BY <1>1, <2>1, SubSeqProperties
  <2>3. Len(P) - (u + 1) + 1 = t /\ \A i \in 1..t : u + 1 + i - 1 = u + i
    BY <1>2
  <2>4. Len(SubSeq(P, u + 1, Len(P))) = t
    BY <1>2, <2>2
  <2>5. \A i \in 1..t : SubSeq(P, u + 1, Len(P))[i] = P[u + i]
    BY <2>2, <2>3
  <2> QED BY <2>2, <2>4, <2>5
<1>5. P = Cat(H, T)
  <2>1. /\ Cat(H, T) \in Seq(U)
        /\ Len(Cat(H, T)) = Len(H) + Len(T)
        /\ \A i \in 1..(Len(H) + Len(T)) : Cat(H, T)[i] = IF i <= Len(H) THEN H[i] ELSE T[i - Len(H)]
    BY CatFacts
  <2>2. /\ Len(Cat(H, T)) = u + t
        /\ \A i \in 1..(u + t) : Cat(H, T)[i] = IF i <= u THEN H[i] ELSE T[i - u]
    BY <1>3, <1>4, <2>1
  <2>3. ASSUME NEW i \in 1..(u + t) PROVE P[i] = Cat(H, T)[i]
    <3>1. CASE i <= u
      BY <1>3, <2>2, <3>1
    <3>2. CASE ~(i <= u)
      <4>1. i - u \in 1..t /\ u + (i - u) = i
        BY <1>2, <3>2
      <4> QED BY <1>4, <2>2, <3>2, <4>1
    <3> QED BY <3>1, <3>2
  <2> QED BY <1>2, <2>1, <2>2, <2>3, SeqEqual
<1> QED BY <1>3, <1>5

LEMMA AfterNothing ==
    ASSUME NEW U, NEW v \in Seq(U)
    PROVE  Cat(v, <<>>) = v
  BY ConcatEmptySeq DEF Cat

LEMMA FedType ==
    ASSUME NEW D \in Seq(Byte), NEW s \in Nat \ {0}, NEW v, NEW mem, Fed(D, s, v, mem)
    PROVE  v \in Seq(Seq(Byte)) /\ IsBuffer(mem, s)
<1>1. 0 \in 0..Len(D)
  BY LenProperties
<1>2. Chunks(D, 0, s) \in Seq(Seq(Byte))
  BY <1>1, ChunksSeq
<1> QED BY <1>2 DEF Fed

LEMMA LengthOfRest ==
    ASSUME NEW X \in Seq(Byte), NEW T \in Seq(Byte), NEW s \in Nat \ {0}, SameRest(X, T, s)
    PROVE  Len(Rest(T, 0, s)) = Len(Cat(X, T)) % s
  BY RestFacts DEF SameRest

\* P fills up the buffer with its first u bytes.
FillsUp(mem, m, P, s, u, buf) ==
    /\ ~(m + Len(P) < s)
    /\ m # 0 /\ u = s - m
    /\ buf = Overwrite(mem, m, SubSeq(P, 1, u))

LEMMA AbsorbedLong ==
    ASSUME NEW v, NEW mem, NEW m, NEW P, NEW s, NEW u, NEW buf, FillsUp(mem, m, P, s, u, buf)
    PROVE  Absorbed(v, mem, m, P, s)
              = <<Cat(Cat(v, <<buf>>), Chunks(P, u, s)), Overwrite(buf, 0, Rest(P, u, s)), Len(Rest(P, u, s))>>
  BY DEF FillsUp, Absorbed, Cat

\* The update of a stream of xxHash: what it absorbs is fed behind what it was fed.
LEMMA AbsorbedIsFed ==
    ASSUME NEW D \in Seq(Byte), NEW P \in Seq(Byte), NEW s \in Nat \ {0}, NEW v, NEW mem,
           Fed(D, s, v, mem)
    PROVE  \E w, new, left :
              /\ Absorbed(v, mem, Len(D) % s, P, s) = <<w, new, left>>
              /\ Fed(Cat(D, P), s, w, new)
              /\ left = Len(Cat(D, P)) % s
<1>1. PICK m \in 0..(s - 1) : m = Len(D) % s
  BY LenProperties, Division
<1>2. v \in Seq(Seq(Byte)) /\ IsBuffer(mem, s)
  BY FedType
<1>3. Len(P) \in Nat
  BY LenProperties
<1>4. CASE m + Len(P) < s
  <2>1. Absorbed(v, mem, m, P, s) = <<v, Overwrite(mem, m, P), m + Len(P)>>
    BY <1>4 DEF Absorbed
  <2>2. Fed(Cat(D, P), s, v, Overwrite(mem, m, P))
    BY <1>1, <1>4, FedShort
  <2>3. Len(Cat(D, P)) % s = m + Len(P)
    BY <1>1, <1>4, ShortPiece
  <2> QED BY <1>1, <2>1, <2>2, <2>3
<1>5. CASE ~(m + Len(P) < s) /\ m = 0
  <2>1. PICK buf : buf = Overwrite(mem, 0, SubSeq(P, 1, 0))
    OBVIOUS
  <2>2. Absorbed(v, mem, m, P, s)
           = <<Cat(Cat(v, <<>>), Chunks(P, 0, s)), Overwrite(buf, 0, Rest(P, 0, s)), Len(Rest(P, 0, s))>>
    BY <1>5, <2>1 DEF Absorbed, Cat
  <2>3. IsBuffer(buf, s)
    <3>1. SubSeq(P, 1, 0) = <<>>
      BY SubSeqEmpty
    <3>2. <<>> \in Seq(Byte)
      OBVIOUS
    <3>3. Overwritten(Overwrite(mem, 0, <<>>), mem, 0, <<>>, s)
      BY <1>2, <3>2, OverwrittenBuffer
    <3> QED BY <2>1, <3>1, <3>3 DEF Overwritten
  <2>4. Fed(Cat(D, P), s, Cat(v, Chunks(P, 0, s)), Overwrite(buf, 0, Rest(P, 0, s)))
    BY <1>1, <1>5, <2>3, FedAligned
  <2>5. Cat(v, <<>>) = v
    BY <1>2, AfterNothing
  <2>6. SameRest(D, P, s)
    BY <1>1, <1>5, AlignedPiece DEF SameRest
  <2> QED BY <1>1, <2>2, <2>4, <2>5, <2>6, LengthOfRest
<1>6. CASE ~(m + Len(P) < s) /\ m > 0
  <2>1. PICK u \in 0..Len(P) : u = s - m
    BY <1>3, <1>6
  <2>2. PICK H, T \in Seq(Byte) : P = Cat(H, T) /\ H = SubSeq(P, 1, u) /\ Len(H) = u
    BY SplitPiece
  <2>3. Completes(D, H, s)
    BY <1>1, <2>1, <2>2 DEF Completes
  <2>4. PICK buf : buf = Overwrite(mem, m, H)
    OBVIOUS
  <2>5. Absorbed(v, mem, m, P, s)
           = <<Cat(Cat(v, <<buf>>), Chunks(P, u, s)), Overwrite(buf, 0, Rest(P, u, s)), Len(Rest(P, u, s))>>
    <3>1. FillsUp(mem, m, P, s, u, buf)
      <4>1. ~(m + Len(P) < s) /\ m # 0
        BY <1>6
      <4>2. buf = Overwrite(mem, m, SubSeq(P, 1, u))
        BY <2>2, <2>4, Zenon
      <4>3. u = s - m
        BY <2>1
      <4> QED BY <4>1, <4>2, <4>3, Zenon DEF FillsUp
    <3> QED BY <3>1, AbsorbedLong
  <2>6. Chunks(P, u, s) = Chunks(T, 0, s) /\ Rest(P, u, s) = Rest(T, 0, s)
    BY <2>2, BehindUsed, RestBehindUsed
  <2>7. IsBuffer(buf, s)
    <3>1. Overwritten(buf, mem, m, H, s)
      BY <1>2, <2>4, OverwrittenBuffer
    <3> QED BY <3>1 DEF Overwritten
  <2>8. Fed(Cat(D, Cat(H, T)), s, Cat(Cat(v, <<Overwrite(mem, Len(D) % s, H)>>), Chunks(T, 0, s)),
            Overwrite(buf, 0, Rest(T, 0, s)))
    BY <2>3, <2>7, FedLong
  <2>9. Len(Rest(T, 0, s)) = Len(Cat(D, Cat(H, T))) % s
    <3>1. /\ Chunks(Cat(D, Cat(H, T)), 0, s)
                = Cat(Cat(Chunks(D, 0, s), <<Cat(Rest(D, 0, s), H)>>), Chunks(T, 0, s))
          /\ Len(Cat(D, Cat(H, T))) % s = Len(T) % s
      BY <2>3, LongPiece
    <3>2. Len(Rest(T, 0, s)) = Len(T) % s
      BY RestFacts
    <3> QED BY <3>1, <3>2
  <2> QED BY <1>1, <2>2, <2>4, <2>5, <2>6, <2>8, <2>9
<1> QED BY <1>1, <1>4, <1>5, <1>6

\* What the digest takes from the buffer.
LEMMA KeptIsRest ==
    ASSUME NEW D \in Seq(Byte), NEW s \in Nat \ {0}, NEW v, NEW mem, Fed(D, s, v, mem)
    PROVE  SubSeq(mem, 1, Len(D) % s) = Rest(D, 0, s)
<1>1. PICK m \in 0..(s - 1) : m = Len(D) % s
  BY LenProperties, Division
<1>2. /\ mem \in Seq(Byte) /\ Len(mem) = s
      /\ \A i \in 1..m : mem[i] = D[Len(D) - m + i]
  BY <1>1 DEF Fed, IsBuffer, Keeps
<1>3. PICK R \in Seq(Byte) : /\ R = Rest(D, 0, s)
                            /\ Len(R) = m
                            /\ \A i \in 1..m : R[i] = D[Len(D) - m + i]
  <2>1. /\ Rest(D, 0, s) \in Seq(Byte)
        /\ Len(Rest(D, 0, s)) = m
        /\ \A i \in 1..Len(Rest(D, 0, s)) : Rest(D, 0, s)[i] = D[Len(D) - Len(Rest(D, 0, s)) + i]
    BY <1>1, RestFacts
  <2> QED BY <2>1
<1>4. PICK H \in Seq(Byte) : H = SubSeq(mem, 1, m) /\ Len(H) = m /\ \A i \in 1..m : H[i] = mem[i]
  <2>1. \A i \in 1..m : mem[i] \in Byte
    BY <1>2, ElementOfSeq
  <2>2. /\ SubSeq(mem, 1, m) \in Seq(Byte)
        /\ Len(SubSeq(mem, 1, m)) = IF 1 <= m THEN m - 1 + 1 ELSE 0
        /\ \A i \in 1..(m - 1 + 1) : SubSeq(mem, 1, m)[i] = mem[1 + i - 1]
    BY <2>1, SubSeqProperties
  <2>3. m - 1 + 1 = m /\ \A i \in 1..m : 1 + i - 1 = i
    OBVIOUS
  <2>4. \A i \in 1..m : SubSeq(mem, 1, m)[i] = mem[i]
    BY <2>2, <2>3
  <2>5. Len(SubSeq(mem, 1, m)) = m
    BY <2>2
  <2> QED BY <2>2, <2>4, <2>5
<1>5. \A i \in 1..m : H[i] = R[i]
  BY <1>2, <1>3, <1>4
<1>6. H = R
  BY <1>3, <1>4, <1>5, SeqEqual
<1> QED BY <1>1, <1>3, <1>4, <1>6

LEMMA MsgFacts ==
    ASSUME NEW from \in Nat, NEW n \in Nat
    PROVE  /\ Msg(from, n) \in Seq(Byte)
           /\ Len(Msg(from, n)) = n
           /\ \A i \in 1..n : Msg(from, n)[i] = <<"msg", from + i>>
<1>1. \A i \in 1..n : <<"msg", from + i>> \in Byte
  BY DEF Byte
<1>2. Msg(from, n) \in [1..n -> Byte]
  BY <1>1 DEF Msg
<1>3. Msg(from, n) \in Seq(Byte) /\ Len(Msg(from, n)) = n
  BY <1>2
<1> QED BY <1>3 DEF Msg

LEMMA MsgGrows ==
    ASSUME NEW a \in Nat, NEW n \in Nat
    PROVE  Cat(Msg(0, a), Msg(a, n)) = Msg(0, a + n)
<1>1. PICK D \in Seq(Byte) : D = Msg(0, a) /\ Len(D) = a /\ \A i \in 1..a : D[i] = <<"msg", 0 + i>>
  BY MsgFacts
<1>2. PICK P \in Seq(Byte) : P = Msg(a, n) /\ Len(P) = n /\ \A i \in 1..n : P[i] = <<"msg", a + i>>
  BY MsgFacts
<1>3. PICK e \in Nat : e = a + n
  OBVIOUS
<1>4. PICK E \in Seq(Byte) : E = Msg(0, e) /\ Len(E) = e /\ \A i \in 1..e : E[i] = <<"msg", 0 + i>>
  BY MsgFacts
<1>5. PICK C \in Seq(Byte) : /\ C = Cat(D, P) /\ Len(C) = e
                            /\ \A i \in 1..e : C[i] = IF i <= a THEN D[i] ELSE P[i - a]
  <2>1. /\ Cat(D, P) \in Seq(Byte)
        /\ Len(Cat(D, P)) = Len(D) + Len(P)
        /\ \A i \in 1..(Len(D) + Len(P)) : Cat(D, P)[i] = IF i <= Len(D) THEN D[i] ELSE P[i - Len(D)]
    BY CatFacts
  <2>2. /\ Cat(D, P) \in Seq(Byte)
        /\ Len(Cat(D, P)) = a + n
        /\ \A i \in 1..(a + n) : Cat(D, P)[i] = IF i <= a THEN D[i] ELSE P[i - a]
    BY <1>1, <1>2, <2>1
  <2> QED BY <1>3, <2>2
<1>6. ASSUME NEW i \in 1..e PROVE C[i] = E[i]
  <2>1. CASE i <= a
    <3>1. i \in 1..a
      BY <2>1
    <3>2. C[i] = D[i]
      BY <1>5, <2>1
    <3>3. D[i] = <<"msg", 0 + i>>
      BY <1>1, <3>1
    <3> QED BY <1>4, <3>2, <3>3
  <2>2. CASE ~(i <= a)
    <3>1. i - a \in 1..n /\ a + (i - a) = 0 + i
      BY <1>3, <2>2
    <3> QED BY <1>2, <1>4, <1>5, <2>2, <3>1
  <2> QED BY <2>1, <2>2
<1>7. C = E
  BY <1>4, <1>5, <1>6, SeqEqual
<1> QED BY <1>3, <1>1, <1>2, <1>4, <1>5, <1>7

LEMMA ZeroBuffer ==
    ASSUME NEW s \in Nat \ {0}
    PROVE  IsBuffer(Zeroes(s), s)
<1>1. \A i \in 1..s : <<"pad", 0>> \in Byte
  BY DEF Byte
<1>2. Zeroes(s) \in [1..s -> Byte]
  BY <1>1 DEF Zeroes
<1> QED BY <1>2 DEF IsBuffer

\* A counter that wraps counts modulo its width.
LEMMA WrappedSum ==
    ASSUME NEW w \in Nat \ {0}, NEW a \in Nat, NEW n \in Nat
    PROVE  ((a % w) + n) % w = (a + n) % w
<1>1. PICK p \in Nat : p = a \div w
  BY Division
<1>2. PICK r \in 0..(w - 1) : r = a % w
  BY Division
<1>3. PICK x \in Nat : x = w * p
  BY SMT
<1>4. a = x + r
  BY <1>1, <1>2, <1>3, Division
<1>5. PICK b \in Nat : b = r + n
  OBVIOUS
<1>6. PICK q \in Nat : q = b \div w
  BY Division
<1>7. PICK t \in 0..(w - 1) : t = b % w
  BY Division
<1>8. PICK y \in Nat : y = w * q
  BY SMT
<1>9. b = y + t
  BY <1>6, <1>7, <1>8, Division
<1>10. a + n = w * (p + q) + t
  <2>1. w * (p + q) = x + y
    BY <1>3, <1>8, SMT
  <2> QED BY <1>4, <1>5, <1>9, <2>1
<1>11. (a + n) % w = t
  <2>1. PICK z \in Nat : z = p + q
    OBVIOUS
  <2>2. (w * z + t) % w = t
    BY DivisionIsUnique
  <2> QED BY <1>10, <2>1, <2>2
<1> QED BY <1>2, <1>5, <1>7, <1>11

LEMMA NoWrap ==
    ASSUME NEW w \in Nat \ {0}, NEW a \in 0..(w - 1)
    PROVE  a % w = a
<1>1. (w * 0 + a) % w = a
  BY DivisionIsUnique
<1>2. w * 0 + a = a
  OBVIOUS
<1> QED BY <1>1, <1>2

-----------------------------------------------------------------------------
(* The streams of xxHash.                                                  *)

Stream32 ==
    /\ Fed(Msg(0, sent), Stripe32, xxh32.v, xxh32.mem32)
    /\ xxh32.memsize = sent % Stripe32
    /\ xxh32.total_len_32 = sent % Word
    /\ xxh32.large_len = (sent >= Stripe32)

Stream64 ==
    /\ Fed(Msg(0, sent), Stripe64, xxh64.v, xxh64.mem64)
    /\ xxh64.memsize = sent % Stripe64
    /\ xxh64.total_len = sent

XxhInv == sent \in Nat /\ Stream32 /\ Stream64

LEMMA SizesFacts ==
    /\ Stripe32 \in Nat \ {0} /\ Stripe64 \in Nat \ {0}
    /\ Word \in Nat \ {0} /\ Word >= 2 * Stripe32
    /\ Block \in Nat \ {0} /\ Word1 \in Nat \ {0}
  BY Sizes

LEMMA NothingFed ==
    ASSUME NEW s \in Nat \ {0}
    PROVE  Fed(Msg(0, 0), s, <<>>, Zeroes(s)) /\ 0 % s = 0
<1>1. Msg(0, 0) = <<>>
  <2>1. Msg(0, 0) \in Seq(Byte) /\ Len(Msg(0, 0)) = 0
    BY MsgFacts
  <2> QED BY <2>1, EmptySeq
<1>2. 0 \in 0..(s - 1)
  OBVIOUS
<1> QED BY <1>1, <1>2, ZeroBuffer, FedNothing, NoWrap

LEMMA XxhInitially ==
    ASSUME NEW n, n = 0, NEW a, a = XXH32_reset, NEW b, b = XXH64_reset
    PROVE  /\ Fed(Msg(0, n), Stripe32, a.v, a.mem32)
           /\ a.memsize = n % Stripe32
           /\ a.total_len_32 = n % Word
           /\ a.large_len = (n >= Stripe32)
           /\ Fed(Msg(0, n), Stripe64, b.v, b.mem64)
           /\ b.memsize = n % Stripe64
           /\ b.total_len = n
<1>1. /\ a.v = <<>> /\ a.mem32 = Zeroes(Stripe32) /\ a.memsize = 0
      /\ a.total_len_32 = 0 /\ a.large_len = FALSE
  BY DEF XXH32_reset
<1>2. ~(0 >= Stripe32) /\ 0 % Word = 0
  BY SizesFacts, NothingFed
<1>3. 0 % Stripe32 = 0 /\ Fed(Msg(0, 0), Stripe32, <<>>, Zeroes(Stripe32))
  BY SizesFacts, NothingFed
<1>4. b.v = <<>> /\ b.mem64 = Zeroes(Stripe64) /\ b.memsize = 0 /\ b.total_len = 0
  BY DEF XXH64_reset
<1>5. 0 % Stripe64 = 0 /\ Fed(Msg(0, 0), Stripe64, <<>>, Zeroes(Stripe64))
  BY SizesFacts, NothingFed
<1>6. a.large_len = (n >= Stripe32)
  <2>1. (n >= Stripe32) = FALSE
    BY SizesFacts
  <2> QED BY <1>1, <2>1
<1>7. Fed(Msg(0, n), Stripe32, a.v, a.mem32) /\ a.memsize = n % Stripe32 /\ a.total_len_32 = n % Word
  BY <1>1, <1>2, <1>3
<1>8. Fed(Msg(0, n), Stripe64, b.v, b.mem64) /\ b.memsize = n % Stripe64 /\ b.total_len = n
  BY <1>4, <1>5
<1> QED BY <1>6, <1>7, <1>8

\* The flag large_len is set by the update after which the message has a stripe or more, before the
\* length may have wrapped.
LEMMA LargeIsSeen ==
    ASSUME NEW a \in Nat, NEW n \in Nat
    PROVE  (a >= Stripe32 \/ n >= Stripe32 \/ (a + n) % Word >= Stripe32) <=> a + n >= Stripe32
<1>1. Stripe32 \in Nat \ {0} /\ Word \in Nat \ {0} /\ Word >= 2 * Stripe32
  BY SizesFacts
<1>2. PICK b \in Nat : b = a + n
  OBVIOUS
<1>3. b % Word <= b
  <2>1. PICK q \in Nat : q = b \div Word
    BY <1>1, Division
  <2>2. PICK x \in Nat : x = Word * q
    BY <1>1, SMT
  <2>3. PICK r \in 0..(Word - 1) : r = b % Word
    BY <1>1, Division
  <2>4. b = x + r
    BY <1>1, <2>1, <2>2, <2>3, Division
  <2> QED BY <2>3, <2>4
<1>4. b % Word \in Nat
  BY <1>1, Division
<1>5. CASE b < Word
  <2>1. b % Word = b
    BY <1>1, <1>5, NoWrap
  <2> QED BY <1>1, <1>2, <2>1
<1>6. CASE ~(b < Word)
  <2>1. a >= Stripe32 \/ n >= Stripe32
    BY <1>1, <1>2, <1>6
  <2> QED BY <1>1, <1>2, <2>1
<1> QED BY <1>5, <1>6

LEMMA Stream32Step ==
    ASSUME sent \in Nat, Stream32, NEW n \in Nat,
           NEW next, next = XXH32_update_endian(xxh32, Msg(sent, n))
    PROVE  /\ Fed(Msg(0, sent + n), Stripe32, next.v, next.mem32)
           /\ next.memsize = (sent + n) % Stripe32
           /\ next.total_len_32 = (sent + n) % Word
           /\ next.large_len = (sent + n >= Stripe32)
<1>1. Stripe32 \in Nat \ {0} /\ Word \in Nat \ {0}
  BY SizesFacts
<1>2. PICK D : D = Msg(0, sent) /\ D \in Seq(Byte) /\ Len(D) = sent
  BY MsgFacts
<1>3. PICK P : P = Msg(sent, n) /\ P \in Seq(Byte) /\ Len(P) = n
  BY MsgFacts
<1>4. Fed(D, Stripe32, xxh32.v, xxh32.mem32) /\ xxh32.memsize = Len(D) % Stripe32
  BY <1>2 DEF Stream32
<1>5. PICK w, new, left :
          /\ Absorbed(xxh32.v, xxh32.mem32, Len(D) % Stripe32, P, Stripe32) = <<w, new, left>>
          /\ Fed(Cat(D, P), Stripe32, w, new)
          /\ left = Len(Cat(D, P)) % Stripe32
  BY <1>1, <1>2, <1>3, <1>4, AbsorbedIsFed
<1>6. Cat(D, P) = Msg(0, sent + n) /\ Len(Cat(D, P)) = sent + n
  <2>1. Cat(D, P) = Msg(0, sent + n)
    BY <1>2, <1>3, MsgGrows
  <2>2. PICK m \in Nat : m = sent + n
    OBVIOUS
  <2>3. Len(Msg(0, m)) = m
    BY <2>2, MsgFacts
  <2> QED BY <2>1, <2>2, <2>3
<1>7. /\ next.v = w /\ next.mem32 = new /\ next.memsize = left
      /\ next.total_len_32 = (xxh32.total_len_32 + n) % Word
      /\ next.large_len = (xxh32.large_len \/ n >= Stripe32 \/ (xxh32.total_len_32 + n) % Word >= Stripe32)
  BY <1>3, <1>4, <1>5 DEF XXH32_update_endian
<1>8. xxh32.total_len_32 = sent % Word /\ xxh32.large_len = (sent >= Stripe32)
  BY DEF Stream32
<1>9. ((sent % Word) + n) % Word = (sent + n) % Word
  BY <1>1, WrappedSum
<1>10. (sent >= Stripe32 \/ n >= Stripe32 \/ (sent + n) % Word >= Stripe32) <=> sent + n >= Stripe32
  BY LargeIsSeen
<1>11. next.large_len = (sent >= Stripe32 \/ n >= Stripe32 \/ (sent + n) % Word >= Stripe32)
  BY <1>7, <1>8, <1>9
<1> QED BY <1>5, <1>6, <1>7, <1>8, <1>9, <1>10, <1>11

LEMMA Stream64Step ==
    ASSUME sent \in Nat, Stream64, NEW n \in Nat,
           NEW next, next = XXH64_update_endian(xxh64, Msg(sent, n))
    PROVE  /\ Fed(Msg(0, sent + n), Stripe64, next.v, next.mem64)
           /\ next.memsize = (sent + n) % Stripe64
           /\ next.total_len = sent + n
<1>1. Stripe64 \in Nat \ {0}
  BY SizesFacts
<1>2. PICK D : D = Msg(0, sent) /\ D \in Seq(Byte) /\ Len(D) = sent
  BY MsgFacts
<1>3. PICK P : P = Msg(sent, n) /\ P \in Seq(Byte) /\ Len(P) = n
  BY MsgFacts
<1>4. Fed(D, Stripe64, xxh64.v, xxh64.mem64) /\ xxh64.memsize = Len(D) % Stripe64 /\ xxh64.total_len = sent
  BY <1>2 DEF Stream64
<1>5. PICK w, new, left :
          /\ Absorbed(xxh64.v, xxh64.mem64, Len(D) % Stripe64, P, Stripe64) = <<w, new, left>>
          /\ Fed(Cat(D, P), Stripe64, w, new)
          /\ left = Len(Cat(D, P)) % Stripe64
  BY <1>1, <1>2, <1>3, <1>4, AbsorbedIsFed
<1>6. Cat(D, P) = Msg(0, sent + n) /\ Len(Cat(D, P)) = sent + n
  <2>1. Cat(D, P) = Msg(0, sent + n)
    BY <1>2, <1>3, MsgGrows
  <2>2. PICK m \in Nat : m = sent + n
    OBVIOUS
  <2>3. Len(Msg(0, m)) = m
    BY <2>2, MsgFacts
  <2> QED BY <2>1, <2>2, <2>3
<1>7. next.v = w /\ next.mem64 = new /\ next.memsize = left /\ next.total_len = xxh64.total_len + n
  BY <1>3, <1>4, <1>5 DEF XXH64_update_endian
<1> QED BY <1>4, <1>5, <1>6, <1>7

LEMMA XxhStep == XxhInv /\ [StreamsNext]_streams => XxhInv'
<1>. SUFFICES ASSUME XxhInv, [StreamsNext]_streams PROVE XxhInv'
  OBVIOUS
<1>1. sent \in Nat /\ Stream32 /\ Stream64
  BY DEF XxhInv
<1>2. CASE UNCHANGED <<sent, xxh32, xxh64>>
  BY <1>1, <1>2 DEF XxhInv, Stream32, Stream64
<1>3. ASSUME NEW n \in 0..MaxPiece, Feed(n) PROVE XxhInv'
  <2>1. n \in Nat
    BY Sizes
  <2>2. PICK a : a = XXH32_update_endian(xxh32, Msg(sent, n))
    OBVIOUS
  <2>3. PICK b : b = XXH64_update_endian(xxh64, Msg(sent, n))
    OBVIOUS
  <2>4. sent' = sent + n /\ xxh32' = a /\ xxh64' = b
    BY <1>3, <2>2, <2>3 DEF Feed
  <2>5. /\ Fed(Msg(0, sent + n), Stripe32, a.v, a.mem32)
        /\ a.memsize = (sent + n) % Stripe32
        /\ a.total_len_32 = (sent + n) % Word
        /\ a.large_len = (sent + n >= Stripe32)
    BY <1>1, <2>1, <2>2, Stream32Step
  <2>6. /\ Fed(Msg(0, sent + n), Stripe64, b.v, b.mem64)
        /\ b.memsize = (sent + n) % Stripe64
        /\ b.total_len = sent + n
    BY <1>1, <2>1, <2>3, Stream64Step
  <2>7. Stream32' /\ Stream64'
    BY <2>4, <2>5, <2>6 DEF Stream32, Stream64
  <2>8. sent' \in Nat
    BY <1>1, <2>1, <2>4
  <2> QED BY <2>7, <2>8 DEF XxhInv
<1>4. CASE ResetAll
  <2>1. sent' = 0 /\ xxh32' = XXH32_reset /\ xxh64' = XXH64_reset
    BY <1>4 DEF ResetAll
  <2>2. Stream32' /\ Stream64'
    BY <2>1, XxhInitially DEF Stream32, Stream64
  <2> QED BY <2>1, <2>2 DEF XxhInv
<1> QED
  BY <1>2, <1>3, <1>4 DEF StreamsNext, streams, FeedLate, Close, ResultAgain

LEMMA XxhDigests == XxhInv => XxhStreamsMatchOneShot
<1>. SUFFICES ASSUME XxhInv PROVE XxhStreamsMatchOneShot
  OBVIOUS
<1>1. sent \in Nat /\ Stream32 /\ Stream64 /\ Stripe32 \in Nat \ {0} /\ Stripe64 \in Nat \ {0}
  BY SizesFacts DEF XxhInv
<1>2. PICK D : D = Msg(0, sent) /\ D \in Seq(Byte) /\ Len(D) = sent
  BY <1>1, MsgFacts
<1>3. XXH32_digest_endian(xxh32) = XXH32_endian_align(D)
  <2>1. Fed(D, Stripe32, xxh32.v, xxh32.mem32)
    BY <1>1, <1>2 DEF Stream32
  <2>2. SubSeq(xxh32.mem32, 1, Len(D) % Stripe32) = Rest(D, 0, Stripe32)
    BY <1>1, <1>2, <2>1, KeptIsRest
  <2>3. xxh32.v = Chunks(D, 0, Stripe32)
    BY <2>1 DEF Fed
  <2>4. /\ xxh32.memsize = Len(D) % Stripe32 /\ xxh32.total_len_32 = Len(D) % Word
        /\ xxh32.large_len = (Len(D) >= Stripe32)
    BY <1>1, <1>2 DEF Stream32
  <2> QED BY <2>2, <2>3, <2>4 DEF XXH32_digest_endian, XXH32_endian_align
<1>4. XXH64_digest_endian(xxh64) = XXH64_endian_align(D)
  <2>1. Fed(D, Stripe64, xxh64.v, xxh64.mem64)
    BY <1>1, <1>2 DEF Stream64
  <2>2. SubSeq(xxh64.mem64, 1, Len(D) % Stripe64) = Rest(D, 0, Stripe64)
    BY <1>1, <1>2, <2>1, KeptIsRest
  <2>3. xxh64.v = Chunks(D, 0, Stripe64)
    BY <2>1 DEF Fed
  <2>4. xxh64.memsize = Len(D) % Stripe64 /\ xxh64.total_len = Len(D)
    BY <1>1, <1>2 DEF Stream64
  <2> QED BY <2>2, <2>3, <2>4 DEF XXH64_digest_endian, XXH64_endian_align
<1> QED BY <1>2, <1>3, <1>4 DEF XxhStreamsMatchOneShot

\* At any moment the digest of a stream of xxHash is the one-shot hash of what was fed, for stripes,
\* words and messages of any size and pieces of any length. (XXH32_update, XXH64_update and their digests)
THEOREM XxhStreamsRight == StreamsSpec => []XxhStreamsMatchOneShot
<1>1. StreamsInit => XxhInv
  <2>. SUFFICES ASSUME StreamsInit PROVE XxhInv
    OBVIOUS
  <2>1. sent = 0 /\ xxh32 = XXH32_reset /\ xxh64 = XXH64_reset
    BY DEF StreamsInit
  <2>2. Stream32 /\ Stream64
    BY <2>1, XxhInitially DEF Stream32, Stream64
  <2> QED BY <2>1, <2>2 DEF XxhInv
<1> QED BY <1>1, XxhStep, XxhDigests, PTL DEF StreamsSpec

-----------------------------------------------------------------------------
(* The bit counter of md5, and its padding.                                *)

\* The two words of the counter after n bytes.
Counted(n) == <<(8 * n) % Word, ((8 * n) \div Word) % Word>>

\* The low word tells how far the last block is filled.
LEMMA LowWordTellsOffset ==
    ASSUME NEW n \in Nat
    PROVE  \E x, k \in Nat : /\ ((8 * n) % Word) \div 8 = x
                             /\ n = Block * k + x
                             /\ x % Block = n % Block
<1>1. Word \in Nat \ {0} /\ Block \in Nat \ {0} /\ Word % (8 * Block) = 0
  BY Sizes, SizesFacts
<1>2. PICK b \in Nat \ {0} : b = 8 * Block
  BY <1>1
<1>3. PICK c \in Nat : Word = b * c
  <2>1. PICK c \in Nat : c = Word \div b
    BY <1>1, Division
  <2>2. b * c \in Nat
    BY SMT
  <2>3. Word = b * (Word \div b) + (Word % b)
    BY <1>1, Division
  <2>4. Word = b * c + 0
    BY <1>1, <1>2, <2>1, <2>3
  <2> QED BY <2>2, <2>4
<1>4. PICK p \in Nat : p = (8 * n) \div Word
  BY <1>1, Division
<1>5. PICK r \in 0..(Word - 1) : r = (8 * n) % Word
  BY <1>1, Division
<1>6. 8 * n = Word * p + r
  BY <1>1, <1>4, <1>5, Division
<1>7. PICK k \in Nat : k = c * p
  BY SMT
<1>8. PICK y \in Nat : y = Block * k
  BY <1>1, SMT
<1>9. Word * p = 8 * y
  <2>1. Word * p = (b * c) * p
    BY <1>3
  <2>2. (b * c) * p = b * (c * p)
    BY SMT
  <2>3. b * k = 8 * (Block * k)
    BY <1>1, <1>2, SMT
  <2> QED BY <1>7, <1>8, <2>1, <2>2, <2>3
<1>10. PICK x \in Nat : x = n - y /\ r = 8 * x
  <2>1. 8 * n = 8 * y + r
    BY <1>6, <1>9
  <2>2. n - y \in Nat /\ r = 8 * (n - y)
    BY <1>1, <2>1
  <2> QED BY <2>2
<1>11. r \div 8 = x
  BY <1>10
<1>12. n = Block * k + x
  BY <1>8, <1>10
<1>13. x % Block = n % Block
  <2>1. PICK q \in Nat : q = x \div Block
    BY <1>1, Division
  <2>2. PICK t \in 0..(Block - 1) : t = x % Block
    BY <1>1, Division
  <2>3. x = Block * q + t
    BY <1>1, <2>1, <2>2, Division
  <2>4. PICK z \in Nat : z = k + q
    OBVIOUS
  <2>5. Block * z = Block * k + Block * q /\ Block * k \in Nat /\ Block * q \in Nat /\ Block * z \in Nat
    BY <1>1, <2>4, SMT
  <2>6. n = Block * z + t
    BY <1>12, <2>3, <2>5
  <2>7. (Block * z + t) % Block = t
    BY <1>1, DivisionIsUnique
  <2> QED BY <2>2, <2>6, <2>7
<1> QED BY <1>5, <1>11, <1>12, <1>13

\* The carry between the words is found by the wrap of the low one.
LEMMA CarryIsExact ==
    ASSUME NEW n \in Nat, NEW d \in Nat
    PROVE  AddBits(Counted(n), d) = Counted(n + d)
<1>1. Word \in Nat \ {0}
  BY SizesFacts
<1>2. PICK u, v \in Nat : u = 8 * n /\ v = 8 * d
  OBVIOUS
<1>3. PICK p \in Nat, a \in 0..(Word - 1) : p = u \div Word /\ a = u % Word
  BY <1>1, Division
<1>4. PICK q \in Nat, b \in 0..(Word - 1) : q = v \div Word /\ b = v % Word
  BY <1>1, Division
<1>5. PICK x, y \in Nat : x = Word * p /\ y = Word * q
  BY <1>1, SMT
<1>6. u = x + a /\ v = y + b
  BY <1>1, <1>3, <1>4, <1>5, Division
<1>7. PICK e \in {0, 1}, low \in 0..(Word - 1) : a + b = (IF e = 1 THEN Word ELSE 0) + low /\ (e = 1 <=> low < b)
  <2>1. CASE a + b < Word
    <3>1. a + b \in 0..(Word - 1) /\ ~(a + b < b) /\ a + b = 0 + (a + b)
      BY <1>1, <2>1
    <3> QED BY <3>1
  <2>2. CASE ~(a + b < Word)
    <3>1. a + b - Word \in 0..(Word - 1) /\ a + b - Word < b /\ a + b = Word + (a + b - Word)
      BY <1>1, <2>2
    <3> QED BY <3>1
  <2> QED BY <2>1, <2>2
<1>8. PICK g \in Nat : g = p + q + e
  OBVIOUS
<1>9. u + v = Word * g + low
  <2>1. Word * g = Word * p + Word * q + Word * e
    BY <1>1, <1>8, SMT
  <2>2. Word * e = IF e = 1 THEN Word ELSE 0
    BY <1>1, SMT
  <2>3. Word * g = x + y + (IF e = 1 THEN Word ELSE 0)
    BY <1>5, <2>1, <2>2
  <2> QED BY <1>1, <1>6, <1>7, <2>3
<1>10. (u + v) \div Word = g /\ (u + v) % Word = low
  <2>1. (Word * g + low) \div Word = g /\ (Word * g + low) % Word = low
    BY <1>1, DivisionIsUnique
  <2> QED BY <1>9, <2>1
<1>11. (a + b) % Word = low
  <2>1. (a + v) % Word = (u + v) % Word
    BY <1>1, <1>3, WrappedSum
  <2>2. a \in Nat
    BY <1>1
  <2>3. ((v % Word) + a) % Word = (v + a) % Word
    BY <1>1, <2>2, WrappedSum
  <2>4. (v % Word) + a = a + b /\ v + a = a + v
    BY <1>4
  <2> QED BY <1>10, <2>1, <2>3, <2>4
<1>12. ((p % Word) + (q + e)) % Word = g % Word
  <2>1. PICK f \in Nat : f = q + e
    OBVIOUS
  <2>2. ((p % Word) + f) % Word = (p + f) % Word
    BY <1>1, WrappedSum
  <2>3. p + f = g
    BY <1>8, <2>1
  <2> QED BY <2>1, <2>2, <2>3
<1>13. Counted(n) = <<a, p % Word>>
  BY <1>2, <1>3 DEF Counted
<1>14. Counted(n + d) = <<low, g % Word>>
  <2>1. 8 * (n + d) = u + v
    BY <1>2
  <2> QED BY <1>10, <2>1 DEF Counted
<1>15. AddBits(<<a, p % Word>>, d) = <<(a + b) % Word, ((p % Word) + q + (IF (a + b) % Word < b THEN 1 ELSE 0)) % Word>>
  <2>1. 8 * d = v
    BY <1>2
  <2> QED BY <1>4, <2>1 DEF AddBits
<1>16. (IF low < b THEN 1 ELSE 0) = e
  BY <1>7
<1>17. PICK pw \in Nat : pw = p % Word
  BY <1>1, Division
<1>18. pw + q + e = pw + (q + e)
  OBVIOUS
<1> QED BY <1>11, <1>12, <1>13, <1>14, <1>15, <1>16, <1>17, <1>18

\* The two words together are the number of bits, modulo what two words hold.
LEMMA WordsAreBits ==
    ASSUME NEW n \in Nat
    PROVE  Counted(n)[2] * Word + Counted(n)[1] = (8 * n) % (Word * Word)
<1>1. Word \in Nat \ {0}
  BY SizesFacts
<1>2. PICK u \in Nat : u = 8 * n
  OBVIOUS
<1>3. PICK p \in Nat, a \in 0..(Word - 1) : p = u \div Word /\ a = u % Word
  BY <1>1, Division
<1>4. PICK q \in Nat, h \in 0..(Word - 1) : q = p \div Word /\ h = p % Word
  BY <1>1, Division
<1>5. PICK ww \in Nat \ {0} : ww = Word * Word
  BY <1>1, SMT
<1>6. PICK x, y \in Nat : x = Word * p /\ y = Word * q
  BY <1>1, SMT
<1>7. u = x + a /\ p = y + h
  BY <1>1, <1>3, <1>4, <1>6, Division
<1>8. PICK z \in Nat : z = h * Word
  BY <1>1, SMT
<1>9. x = ww * q + z
  <2>1. Word * p = Word * y + Word * h
    BY <1>1, <1>7, SMT
  <2>2. Word * (Word * q) = (Word * Word) * q
    BY <1>1, SMT
  <2>3. Word * h = h * Word
    BY <1>1, SMT
  <2> QED BY <1>5, <1>6, <1>8, <2>1, <2>2, <2>3
<1>10. PICK t \in 0..(ww - 1) : t = z + a
  <2>1. PICK o \in Nat : Word = h + 1 + o
    BY <1>1
  <2>2. (h + 1 + o) * Word = h * Word + Word + o * Word /\ o * Word >= 0 /\ o * Word \in Nat
    BY <1>1, SMT
  <2>3. ww = z + Word + o * Word
    BY <1>5, <1>8, <2>1, <2>2
  <2>4. z + a \in 0..(ww - 1)
    BY <1>1, <2>2, <2>3
  <2> QED BY <2>4
<1>11. ww * q \in Nat
  BY SMT
<1>12. u = ww * q + t
  BY <1>7, <1>9, <1>10, <1>11
<1>13. u % ww = t
  <2>1. (ww * q + t) % ww = t
    BY DivisionIsUnique
  <2> QED BY <1>12, <2>1
<1>14. Counted(n) = <<a, h>>
  BY <1>2, <1>3, <1>4 DEF Counted
<1> QED BY <1>2, <1>5, <1>8, <1>10, <1>13, <1>14

\* The padding that md5_finish computes from the low word, and the one the message needs.
PadOf(word) == ((Block - LengthSize - 1 - word \div 8) % Block) + 1

LEMMA IntDivision ==
    ASSUME NEW y \in Int, NEW s \in Nat \ {0}
    PROVE  \E q \in Int, t \in 0..(s - 1) : t = y % s /\ y = s * q + t
<1>1. /\ y \div s \in Int
      /\ y % s \in 0..(s - 1)
      /\ y = s * (y \div s) + (y % s)
  BY SMT
<1> QED BY <1>1

\* One padding fills the last block.
LEMMA OnePadding ==
    ASSUME NEW n \in Nat, NEW z \in 1..Block, (n + z + LengthSize) % Block = 0
    PROVE  z = CHOOSE zeroes \in 1..Block : (n + zeroes + LengthSize) % Block = 0
<1>1. Block \in Nat \ {0} /\ LengthSize \in Nat
  BY Sizes, SizesFacts
<1>2. ASSUME NEW a \in 1..Block, NEW b \in 1..Block, a < b,
             (n + a + LengthSize) % Block = 0, (n + b + LengthSize) % Block = 0
      PROVE  FALSE
  <2>1. PICK m, d \in Nat : m = n + a + LengthSize /\ d = b - a
    BY <1>1, <1>2
  <2>2. d \in 1..(Block - 1) /\ n + b + LengthSize = m + d
    BY <1>1, <1>2, <2>1
  <2>3. ((m % Block) + d) % Block = (m + d) % Block
    BY <1>1, WrappedSum
  <2>4. (0 + d) % Block = 0
    BY <1>2, <2>1, <2>2, <2>3
  <2>5. d % Block = d
    BY <1>1, <2>2, NoWrap
  <2> QED BY <2>2, <2>4, <2>5
<1>3. PICK y : y = CHOOSE zeroes \in 1..Block : (n + zeroes + LengthSize) % Block = 0
  OBVIOUS
<1>4. y \in 1..Block /\ (n + y + LengthSize) % Block = 0
  BY <1>3
<1>5. ~(y < z) /\ ~(z < y)
  BY <1>2, <1>4
<1>6. y = z
  BY <1>4, <1>5
<1> QED BY <1>3, <1>6

LEMMA PaddingFits ==
    ASSUME NEW n \in Nat
    PROVE  /\ PadOf((8 * n) % Word) \in 1..Block
           /\ (n + PadOf((8 * n) % Word) + LengthSize) % Block = 0
<1>1. Block \in Nat \ {0} /\ LengthSize \in 1..(Block - 1)
  BY Sizes, SizesFacts
<1>2. PICK x, k \in Nat : /\ ((8 * n) % Word) \div 8 = x
                          /\ n = Block * k + x
                          /\ x % Block = n % Block
  BY LowWordTellsOffset
<1>3. PICK y \in Int : y = Block - LengthSize - 1 - x
  BY <1>1
<1>4. PICK q \in Int, t \in 0..(Block - 1) : t = y % Block /\ y = Block * q + t
  BY <1>1, IntDivision
<1>5. PadOf((8 * n) % Word) = t + 1
  BY <1>2, <1>3, <1>4 DEF PadOf
<1>6. PICK u, w \in Int : u = Block * k /\ w = Block * q
  BY <1>1, SMT
<1>7. n + (t + 1) + LengthSize = u + Block - w
  <2>1. n = u + x /\ y = w + t
    BY <1>2, <1>4, <1>6
  <2> QED BY <1>1, <1>3, <2>1
<1>8. PICK j \in Int : j = k + 1 - q
  OBVIOUS
<1>9. Block * j = u + Block - w
  BY <1>1, <1>6, <1>8, SMT
<1>10. j \in Nat
  <2>1. Block * j >= 0
    BY <1>1, <1>7, <1>9
  <2>2. ASSUME ~(j \in Nat) PROVE Block * j < 0
    <3>1. PICK i \in Nat : j = 0 - 1 - i
      <4>1. 0 - 1 - j \in Nat /\ j = 0 - 1 - (0 - 1 - j)
        BY <2>2
      <4> QED BY <4>1
    <3>2. Block * (0 - 1 - i) = 0 - Block - Block * i /\ Block * i \in Nat
      BY <1>1, SMT
    <3> QED BY <1>1, <3>1, <3>2
  <2>3. Block * j \in Int
    BY <1>1, SMT
  <2> QED BY <2>1, <2>2, <2>3
<1>11. (n + (t + 1) + LengthSize) % Block = 0
  <2>1. 0 \in 0..(Block - 1)
    BY <1>1
  <2>2. (Block * j + 0) % Block = 0
    BY <1>1, <1>10, <2>1, DivisionIsUnique
  <2>3. Block * j + 0 = n + (t + 1) + LengthSize
    BY <1>1, <1>7, <1>9
  <2> QED BY <2>2, <2>3
<1>12. t + 1 \in 1..Block
  BY <1>1
<1> QED BY <1>5, <1>11, <1>12

-----------------------------------------------------------------------------
(* The stream of md5.                                                      *)

Context(c, a, b) == [count |-> c, abcd |-> a, buf |-> b]

Md5Fed(D, state) ==
    /\ state = Context(state.count, state.abcd, state.buf)
    /\ state.count = Counted(Len(D))
    /\ Fed(D, Block, state.abcd, state.buf)

LEMMA GarbageBuffer ==
    ASSUME NEW s \in Nat \ {0}
    PROVE  IsBuffer(Garbage(s), s)
<1>1. \A i \in 1..s : <<"garbage", i>> \in Byte
  BY DEF Byte
<1>2. Garbage(s) \in [1..s -> Byte]
  BY <1>1 DEF Garbage
<1> QED BY <1>2 DEF IsBuffer

LEMMA Md5Initially == Md5Fed(<<>>, md5_init)
<1>1. Block \in Nat \ {0} /\ Word \in Nat \ {0}
  BY SizesFacts
<1>2. Fed(<<>>, Block, <<>>, Garbage(Block))
  BY <1>1, GarbageBuffer, FedNothing
<1>3. Counted(0) = <<0, 0>>
  <2>1. (Word * 0 + 0) \div Word = 0 /\ (Word * 0 + 0) % Word = 0
    BY <1>1, DivisionIsUnique
  <2>2. Word * 0 + 0 = 0 /\ 8 * 0 = 0
    BY <1>1
  <2> QED BY <2>1, <2>2 DEF Counted
<1> QED BY <1>2, <1>3 DEF Md5Fed, Context, md5_init

LEMMA AppendNothing ==
    ASSUME NEW D \in Seq(Byte), NEW P \in Seq(Byte), NEW state, Len(P) = 0
    PROVE  md5_append(state, P) = state /\ Cat(D, P) = D
<1>1. P = <<>>
  BY EmptySeq
<1>2. Cat(D, P) = D
  BY <1>1, AfterNothing
<1>3. md5_append(state, P) = state
  BY DEF md5_append
<1> QED BY <1>2, <1>3

\* The offset of md5_append, from the count.
LEMMA OffsetIsRest ==
    ASSUME NEW D \in Seq(Byte), NEW state, Md5Fed(D, state)
    PROVE  (state.count[1] \div 8) % Block = Len(D) % Block
<1>1. PICK n \in Nat : n = Len(D)
  BY LenProperties
<1>2. PICK x, k \in Nat : /\ ((8 * n) % Word) \div 8 = x
                          /\ n = Block * k + x
                          /\ x % Block = n % Block
  BY LowWordTellsOffset
<1>3. state.count[1] = (8 * n) % Word
  BY <1>1 DEF Md5Fed, Counted
<1> QED BY <1>1, <1>2, <1>3

\* What md5_append does with a piece.
LEMMA ContextFields ==
    ASSUME NEW c, NEW a, NEW b
    PROVE  Context(c, a, b).count = c /\ Context(c, a, b).abcd = a /\ Context(c, a, b).buf = b
  BY DEF Context

LEMMA Processed ==
    ASSUME NEW c, NEW a, NEW b, NEW blocks
    PROVE  md5_process(Context(c, a, b), blocks) = Context(c, Cat(a, blocks), b)
<1>1. PICK w : w = Cat(a, blocks)
  OBVIOUS
<1>2. [Context(c, a, b) EXCEPT !.abcd = w] = Context(c, w, b)
  BY DEF Context
<1>3. md5_process(Context(c, a, b), blocks) = [Context(c, a, b) EXCEPT !.abcd = Cat(Context(c, a, b).abcd, blocks)]
  BY DEF md5_process, Cat
<1> QED BY <1>1, <1>2, <1>3, ContextFields

WithPiece(state, n, m, piece) == [state EXCEPT !.count = AddBits(@, n), !.buf = Overwrite(@, m, piece)]

LEMMA Received ==
    ASSUME NEW c, NEW a, NEW b, NEW n, NEW m, NEW piece
    PROVE  WithPiece(Context(c, a, b), n, m, piece) = Context(AddBits(c, n), a, Overwrite(b, m, piece))
<1>. DEFINE r == WithPiece(Context(c, a, b), n, m, piece)
<1>1. r \in [count : {AddBits(c, n)}, abcd : {a}, buf : {Overwrite(b, m, piece)}]
  BY DEF WithPiece, Context
<1>. HIDE DEF r
<1>2. r = [count |-> AddBits(c, n), abcd |-> a, buf |-> Overwrite(b, m, piece)]
  BY <1>1
<1> QED BY <1>2 DEF r, Context

WithRest(state, rest) == [state EXCEPT !.buf = Overwrite(@, 0, rest)]

LEMMA Kept ==
    ASSUME NEW c, NEW a, NEW b, NEW rest
    PROVE  WithRest(Context(c, a, b), rest) = Context(c, a, Overwrite(b, 0, rest))
<1>1. PICK y : y = Overwrite(b, 0, rest)
  OBVIOUS
<1>2. [Context(c, a, b) EXCEPT !.buf = y] = Context(c, a, y)
  BY DEF Context
<1> QED BY <1>1, <1>2, ContextFields DEF WithRest

\* n bytes at offset m, of which u go into the buffer.
Offset(state, P, m, n) == (state.count[1] \div 8) % Block = m /\ Len(P) = n /\ n # 0 /\ n > 0
NotBegun(m) == m = 0 /\ ~(m > 0)
FitsIn(m, n) == m # 0 /\ m > 0 /\ ~(m + n > Block) /\ m + n < Block
FilledWith(m, n, u) == m # 0 /\ m > 0 /\ (IF m + n > Block THEN Block - m ELSE n) = u /\ ~(m + u < Block)

LEMMA AppendShort ==
    ASSUME NEW c, NEW a, NEW b, NEW P, NEW m, NEW n, Offset(Context(c, a, b), P, m, n), FitsIn(m, n)
    PROVE  md5_append(Context(c, a, b), P) = Context(AddBits(c, n), a, Overwrite(b, m, SubSeq(P, 1, n)))
<1>1. PICK state : state = Context(c, a, b)
  OBVIOUS
<1>2. Offset(state, P, m, n)
  BY <1>1
<1>3. md5_append(state, P) = WithPiece(state, n, m, SubSeq(P, 1, n))
  BY <1>2 DEF FitsIn, Offset, md5_append, WithPiece
<1> QED BY <1>1, <1>3, Received

LEMMA AppendAligned ==
    ASSUME NEW c, NEW a, NEW b, NEW P, NEW m, NEW n, Offset(Context(c, a, b), P, m, n), NotBegun(m)
    PROVE  md5_append(Context(c, a, b), P)
              = Context(AddBits(c, n), Cat(a, Chunks(P, 0, Block)),
                        Overwrite(Overwrite(b, 0, SubSeq(P, 1, 0)), 0, Rest(P, 0, Block)))
<1>1. PICK state : state = Context(c, a, b)
  OBVIOUS
<1>2. Offset(state, P, m, n)
  BY <1>1
<1>3. md5_append(state, P)
         = WithRest(md5_process(WithPiece(state, n, 0, SubSeq(P, 1, 0)), Chunks(P, 0, Block)), Rest(P, 0, Block))
  BY <1>2 DEF NotBegun, Offset, md5_append, WithPiece, WithRest
<1>4. PICK x, y, z : x = AddBits(c, n) /\ y = Overwrite(b, 0, SubSeq(P, 1, 0)) /\ z = Cat(a, Chunks(P, 0, Block))
  OBVIOUS
<1>5. WithPiece(state, n, 0, SubSeq(P, 1, 0)) = Context(x, a, y)
  BY <1>1, <1>4, Received
<1>6. md5_process(Context(x, a, y), Chunks(P, 0, Block)) = Context(x, z, y)
  BY <1>4, Processed
<1>7. md5_append(state, P) = Context(x, z, Overwrite(y, 0, Rest(P, 0, Block)))
  BY <1>3, <1>5, <1>6, Kept
<1> QED BY <1>1, <1>4, <1>7

LEMMA AppendLong ==
    ASSUME NEW c, NEW a, NEW b, NEW P, NEW m, NEW n, NEW u,
           Offset(Context(c, a, b), P, m, n), FilledWith(m, n, u)
    PROVE  md5_append(Context(c, a, b), P)
              = Context(AddBits(c, n),
                        Cat(Cat(a, <<Overwrite(b, m, SubSeq(P, 1, u))>>), Chunks(P, u, Block)),
                        Overwrite(Overwrite(b, m, SubSeq(P, 1, u)), 0, Rest(P, u, Block)))
<1>1. PICK state : state = Context(c, a, b)
  OBVIOUS
<1>2. Offset(state, P, m, n)
  BY <1>1
<1>3. PICK given : given = WithPiece(state, n, m, SubSeq(P, 1, u))
  OBVIOUS
<1>4. md5_append(state, P)
         = WithRest(md5_process(md5_process(WithPiece(state, n, m, SubSeq(P, 1, u)),
                                            <<WithPiece(state, n, m, SubSeq(P, 1, u)).buf>>),
                                Chunks(P, u, Block)), Rest(P, u, Block))
  BY <1>2 DEF FilledWith, Offset, md5_append, WithPiece, WithRest
<1>5. PICK x, y, w, z : /\ x = AddBits(c, n)
                        /\ y = Overwrite(b, m, SubSeq(P, 1, u))
                        /\ w = Cat(a, <<y>>)
                        /\ z = Cat(w, Chunks(P, u, Block))
  OBVIOUS
<1>6. given = Context(x, a, y)
  BY <1>1, <1>3, <1>5, Received
<1>7. given.buf = y
  BY <1>6, ContextFields
<1>8. md5_process(Context(x, a, y), <<y>>) = Context(x, w, y)
  BY <1>5, Processed
<1>9. md5_process(Context(x, w, y), Chunks(P, u, Block)) = Context(x, z, y)
  BY <1>5, Processed
<1>10. md5_append(state, P) = WithRest(Context(x, z, y), Rest(P, u, Block))
  BY <1>3, <1>4, <1>6, <1>7, <1>8, <1>9
<1>11. md5_append(state, P) = Context(x, z, Overwrite(y, 0, Rest(P, u, Block)))
  BY <1>10, Kept
<1> QED BY <1>1, <1>5, <1>11

\* A piece appended is fed behind what was fed, wherever in a block it begins and ends.
LEMMA AppendedIsFed ==
    ASSUME NEW D \in Seq(Byte), NEW P \in Seq(Byte), NEW state, Md5Fed(D, state)
    PROVE  Md5Fed(Cat(D, P), md5_append(state, P))
<1>1. Block \in Nat \ {0}
  BY SizesFacts
<1>2. PICK m \in 0..(Block - 1) : m = Len(D) % Block
  BY <1>1, LenProperties, Division
<1>3. PICK n \in Nat : n = Len(P)
  BY LenProperties
<1>4. PICK c, a, b : c = state.count /\ a = state.abcd /\ b = state.buf
  OBVIOUS
<1>5. state = Context(c, a, b) /\ Fed(D, Block, a, b) /\ c = Counted(Len(D))
  BY <1>4 DEF Md5Fed
<1>6. IsBuffer(b, Block) /\ a \in Seq(Seq(Byte))
  BY <1>1, <1>5, FedType
<1>7. AddBits(c, n) = Counted(Len(Cat(D, P)))
  <2>1. Len(Cat(D, P)) = Len(D) + n /\ Len(D) \in Nat
    BY <1>3, CatFacts, LenProperties
  <2> QED BY <1>5, <2>1, CarryIsExact
<1>8. ASSUME n > 0 PROVE Offset(Context(c, a, b), P, m, n)
  <2>1. (state.count[1] \div 8) % Block = m
    BY <1>2, OffsetIsRest
  <2> QED BY <1>3, <1>5, <1>8, <2>1 DEF Offset
<1>9. ASSUME NEW w, NEW new, md5_append(state, P) = Context(AddBits(c, n), w, new),
             Fed(Cat(D, P), Block, w, new)
      PROVE  Md5Fed(Cat(D, P), md5_append(state, P))
  BY <1>7, <1>9, ContextFields DEF Md5Fed
<1>10. CASE n = 0
  BY <1>3, <1>10, AppendNothing
<1>11. CASE n > 0 /\ m > 0 /\ m + n < Block
  <2>1. FitsIn(m, n)
    BY <1>1, <1>11 DEF FitsIn
  <2>2. md5_append(Context(c, a, b), P) = Context(AddBits(c, n), a, Overwrite(b, m, SubSeq(P, 1, n)))
    BY <1>8, <1>11, <2>1, AppendShort
  <2>3. SubSeq(P, 1, n) = P
    BY <1>3, SubSeqFull
  <2>4. md5_append(state, P) = Context(AddBits(c, n), a, Overwrite(b, m, P))
    BY <1>5, <2>2, <2>3
  <2>5. Fed(Cat(D, P), Block, a, Overwrite(b, m, P))
    BY <1>1, <1>2, <1>3, <1>5, <1>11, FedShort
  <2> QED BY <1>9, <2>4, <2>5
<1>12. CASE n > 0 /\ m = 0
  <2>1. NotBegun(m)
    BY <1>12 DEF NotBegun
  <2>2. PICK buf : buf = Overwrite(b, 0, SubSeq(P, 1, 0))
    OBVIOUS
  <2>3. md5_append(state, P)
           = Context(AddBits(c, n), Cat(a, Chunks(P, 0, Block)), Overwrite(buf, 0, Rest(P, 0, Block)))
    <3>1. Offset(Context(c, a, b), P, m, n)
      BY <1>8, <1>12
    <3>2. md5_append(Context(c, a, b), P)
             = Context(AddBits(c, n), Cat(a, Chunks(P, 0, Block)),
                       Overwrite(Overwrite(b, 0, SubSeq(P, 1, 0)), 0, Rest(P, 0, Block)))
      BY <2>1, <3>1, AppendAligned
    <3> QED BY <1>5, <2>2, <3>2
  <2>4. IsBuffer(buf, Block)
    <3>1. SubSeq(P, 1, 0) = <<>>
      BY SubSeqEmpty
    <3>2. <<>> \in Seq(Byte)
      OBVIOUS
    <3>3. Overwritten(Overwrite(b, 0, <<>>), b, 0, <<>>, Block)
      BY <1>1, <1>6, <3>2, OverwrittenBuffer
    <3> QED BY <2>2, <3>1, <3>3 DEF Overwritten
  <2>5. Fed(Cat(D, P), Block, Cat(a, Chunks(P, 0, Block)), Overwrite(buf, 0, Rest(P, 0, Block)))
    BY <1>1, <1>2, <1>5, <1>12, <2>4, FedAligned
  <2> QED BY <1>9, <2>3, <2>5
<1>13. CASE n > 0 /\ m > 0 /\ ~(m + n < Block)
  <2>1. PICK u \in 0..Len(P) : u = Block - m
    BY <1>1, <1>3, <1>13
  <2>2. FilledWith(m, n, u)
    BY <1>1, <1>3, <1>13, <2>1 DEF FilledWith
  <2>3. PICK H, T \in Seq(Byte) : P = Cat(H, T) /\ H = SubSeq(P, 1, u) /\ Len(H) = u
    BY SplitPiece
  <2>4. PICK buf : buf = Overwrite(b, m, SubSeq(P, 1, u))
    OBVIOUS
  <2>5. md5_append(state, P)
           = Context(AddBits(c, n), Cat(Cat(a, <<buf>>), Chunks(P, u, Block)), Overwrite(buf, 0, Rest(P, u, Block)))
    <3>1. Offset(Context(c, a, b), P, m, n)
      BY <1>8, <1>13
    <3>2. md5_append(Context(c, a, b), P)
             = Context(AddBits(c, n),
                       Cat(Cat(a, <<Overwrite(b, m, SubSeq(P, 1, u))>>), Chunks(P, u, Block)),
                       Overwrite(Overwrite(b, m, SubSeq(P, 1, u)), 0, Rest(P, u, Block)))
      BY <2>2, <3>1, AppendLong
    <3> QED BY <1>5, <2>4, <3>2
  <2>6. Chunks(P, u, Block) = Chunks(T, 0, Block) /\ Rest(P, u, Block) = Rest(T, 0, Block)
    BY <1>1, <2>3, BehindUsed, RestBehindUsed
  <2>7. Completes(D, H, Block)
    BY <1>1, <1>2, <2>1, <2>3 DEF Completes
  <2>8. IsBuffer(buf, Block)
    <3>1. Overwritten(Overwrite(b, m, H), b, m, H, Block)
      BY <1>1, <1>6, OverwrittenBuffer
    <3> QED BY <2>3, <2>4, <3>1 DEF Overwritten
  <2>9. Fed(Cat(D, Cat(H, T)), Block, Cat(Cat(a, <<Overwrite(b, Len(D) % Block, H)>>), Chunks(T, 0, Block)),
            Overwrite(buf, 0, Rest(T, 0, Block)))
    BY <1>1, <1>5, <2>7, <2>8, FedLong
  <2>10. Fed(Cat(D, P), Block, Cat(Cat(a, <<buf>>), Chunks(P, u, Block)), Overwrite(buf, 0, Rest(P, u, Block)))
    <3>1. Overwrite(b, Len(D) % Block, H) = buf
      BY <1>2, <2>3, <2>4
    <3> QED BY <2>3, <2>6, <2>9, <3>1, Zenon
  <2> QED BY <1>9, <2>5, <2>10
<1> QED BY <1>1, <1>10, <1>11, <1>12, <1>13

LEMMA PaddingFacts ==
    ASSUME NEW n \in Nat
    PROVE  Padding(n) \in Seq(Byte) /\ Len(Padding(n)) = n
<1>1. \A i \in 1..n : <<"pad", IF i = 1 THEN 128 ELSE 0>> \in Byte
  BY DEF Byte
<1>2. Padding(n) \in [1..n -> Byte]
  BY <1>1 DEF Padding
<1> QED BY <1>2

LEMMA LengthFacts ==
    ASSUME NEW bits \in Nat, NEW n \in Nat
    PROVE  Length(bits, n) \in Seq(Byte) /\ Len(Length(bits, n)) = n
<1>1. \A i \in 1..n : <<"len", bits, i>> \in Byte
  BY DEF Byte
<1>2. Length(bits, n) \in [1..n -> Byte]
  BY <1>1 DEF Length
<1> QED BY <1>2

\* The padded message, in the terms of the code.
LEMMA PaddedFacts ==
    ASSUME NEW n \in Nat, NEW word \in Nat \ {0}, NEW z \in 1..Block, (n + z + LengthSize) % Block = 0
    PROVE  Padded(n, word) = Cat(Cat(Msg(0, n), Padding(z)), Length((8 * n) % (word * word), LengthSize))
<1>1. z = CHOOSE zeroes \in 1..Block : (n + zeroes + LengthSize) % Block = 0
  BY OnePadding
<1>2. PICK D \in Seq(Byte) : D = Msg(0, n)
  BY MsgFacts
<1>3. PICK bits : bits = (8 * n) % (word * word)
  OBVIOUS
<1>4. Padded(n, word) = D \o Padding(z) \o Length(bits, LengthSize)
  BY <1>1, <1>2, <1>3, Zenon DEF Padded
<1> QED BY <1>2, <1>3, <1>4, Zenon DEF Cat

LEMMA FinishedIsFed ==
    ASSUME NEW n \in Nat, NEW state, Md5Fed(Msg(0, n), state)
    PROVE  md5_finish(state).abcd = Blocks(Padded(n, Word))
<1>1. Block \in Nat \ {0} /\ LengthSize \in Nat /\ Word \in Nat \ {0}
  BY Sizes, SizesFacts
<1>2. PICK D \in Seq(Byte) : D = Msg(0, n) /\ Len(D) = n
  BY MsgFacts
<1>3. state.count = Counted(n)
  BY <1>2 DEF Md5Fed
<1>4. PICK z \in 1..Block : z = PadOf((8 * n) % Word) /\ (n + z + LengthSize) % Block = 0
  BY PaddingFits
<1>5. PICK bits \in Nat : bits = (8 * n) % (Word * Word)
  <2>1. Word * Word \in Nat \ {0}
    BY <1>1, SMT
  <2>2. PICK ww \in Nat \ {0} : ww = Word * Word
    BY <2>1
  <2> QED BY <2>2, Division
<1>6. state.count[2] * Word + state.count[1] = bits
  BY <1>3, <1>5, WordsAreBits
<1>7. PadOf(state.count[1]) = z
  BY <1>3, <1>4 DEF Counted
<1>8. md5_finish(state) = md5_append(md5_append(state, Padding(z)), Length(bits, LengthSize))
  BY <1>6, <1>7 DEF md5_finish, PadOf
<1>9. Padding(z) \in Seq(Byte) /\ Length(bits, LengthSize) \in Seq(Byte)
  BY <1>1, PaddingFacts, LengthFacts
<1>10. PICK E : E = Cat(D, Padding(z)) /\ E \in Seq(Byte)
  BY <1>9, CatFacts
<1>11. Md5Fed(E, md5_append(state, Padding(z)))
  BY <1>2, <1>9, <1>10, AppendedIsFed
<1>12. Md5Fed(Cat(E, Length(bits, LengthSize)), md5_finish(state))
  BY <1>8, <1>9, <1>10, <1>11, AppendedIsFed
<1>13. Padded(n, Word) = Cat(E, Length(bits, LengthSize))
  BY <1>1, <1>2, <1>4, <1>5, <1>10, PaddedFacts
<1> QED BY <1>12, <1>13 DEF Md5Fed, Fed, Blocks

Md5Inv ==
    /\ sent \in Nat /\ closed \in BOOLEAN
    /\ ~closed => Md5Fed(Msg(0, sent), md5)
    /\ closed => md5.abcd = Blocks(Padded(sent, Word))

LEMMA EmptyMsg == Msg(0, 0) = <<>>
<1>1. Msg(0, 0) \in Seq(Byte) /\ Len(Msg(0, 0)) = 0
  BY MsgFacts
<1> QED BY <1>1, EmptySeq

LEMMA Md5Step == Md5Inv /\ [StreamsNext]_streams => Md5Inv'
<1>. SUFFICES ASSUME Md5Inv, [StreamsNext]_streams PROVE Md5Inv'
  OBVIOUS
<1>1. /\ sent \in Nat /\ closed \in BOOLEAN
      /\ ~closed => Md5Fed(Msg(0, sent), md5)
      /\ closed => md5.abcd = Blocks(Padded(sent, Word))
  BY DEF Md5Inv
<1>2. CASE UNCHANGED <<sent, closed, md5>>
  BY <1>1, <1>2 DEF Md5Inv
<1>3. ASSUME NEW n \in 0..MaxPiece, Feed(n) PROVE Md5Inv'
  <2>1. n \in Nat
    BY Sizes
  <2>2. ~closed /\ closed' = closed /\ sent' = sent + n /\ md5' = md5_append(md5, Msg(sent, n))
    BY <1>3 DEF Feed
  <2>3. PICK D \in Seq(Byte) : D = Msg(0, sent)
    BY <1>1, MsgFacts
  <2>4. PICK P \in Seq(Byte) : P = Msg(sent, n)
    BY <1>1, <2>1, MsgFacts
  <2>5. Md5Fed(Cat(D, P), md5_append(md5, P))
    BY <1>1, <2>2, <2>3, AppendedIsFed
  <2>6. Cat(D, P) = Msg(0, sent + n)
    BY <1>1, <2>1, <2>3, <2>4, MsgGrows
  <2>7. Md5Fed(Msg(0, sent'), md5') /\ sent' \in Nat
    BY <1>1, <2>1, <2>2, <2>4, <2>5, <2>6
  <2> QED BY <1>1, <2>2, <2>7 DEF Md5Inv
<1>4. CASE Close
  <2>1. ~closed /\ closed' = TRUE /\ sent' = sent /\ md5' = md5_finish(md5)
    BY <1>4 DEF Close
  <2>2. md5_finish(md5).abcd = Blocks(Padded(sent, Word))
    BY <1>1, <2>1, FinishedIsFed
  <2> QED BY <1>1, <2>1, <2>2 DEF Md5Inv
<1>5. CASE ResetAll
  <2>1. sent' = 0 /\ closed' = FALSE /\ md5' = md5_init
    BY <1>5 DEF ResetAll
  <2>2. Md5Fed(Msg(0, 0), md5_init)
    BY EmptyMsg, Md5Initially
  <2> QED BY <2>1, <2>2 DEF Md5Inv
<1> QED
  BY <1>2, <1>3, <1>4, <1>5 DEF StreamsNext, streams, FeedLate, ResultAgain

\* md5 compresses the blocks of the padded message, however it was cut, for blocks, lengths and words of
\* any size in which the words count whole blocks. (md5_append, md5_finish)
THEOREM Md5Right == StreamsSpec => []Md5IgnoresCuts
<1>1. StreamsInit => Md5Inv
  <2>. SUFFICES ASSUME StreamsInit PROVE Md5Inv
    OBVIOUS
  <2>1. sent = 0 /\ closed = FALSE /\ md5 = md5_init
    BY DEF StreamsInit
  <2> QED BY <2>1, EmptyMsg, Md5Initially DEF Md5Inv
<1>2. Md5Inv => Md5IgnoresCuts
  BY DEF Md5Inv, Md5IgnoresCuts
<1> QED BY <1>1, <1>2, Md5Step, PTL DEF StreamsSpec

-----------------------------------------------------------------------------
(* The context of SHA-1, fed byte by byte.                                 *)

\* The recursive definition in SHA1Input has a solution.
LEMMA FedByBytes ==
    ASSUME NEW context, NEW data, Len(data) \in Nat \ {0}, ~(context.Computed \/ context.Corrupted)
    PROVE  \E f : /\ SHA1Input(context, data) = f[Len(data)]
                  /\ f[0] = context
                  /\ \A n \in 1..Len(data) : f[n] = InputByte(f[n - 1], data[n])
<1>. DEFINE D == 0..Len(data)
            Fits(f, m) == /\ f = [n \in D |-> f[n]]
                          /\ f[0] = context
                          /\ \A n \in 1..m : f[n] = InputByte(f[n - 1], data[n])
            Bad == {m \in D : ~ \E f : Fits(f, m)}
<1>1. D \subseteq Nat /\ 0 \in D /\ Len(data) \in D /\ Bad \subseteq Nat
  OBVIOUS
<1>2. Bad = {}
  <2>1. SUFFICES ASSUME Bad # {} PROVE FALSE
    OBVIOUS
  <2>2. PICK m \in Bad : \A n \in Bad : m <= n
    BY <1>1, <2>1, LeastNumber
  <2>3. m # 0
    <3>1. Fits([n \in D |-> context], 0)
      BY <1>1
    <3> QED BY <3>1
  <2>4. m \in D /\ m - 1 \in D /\ m - 1 \notin Bad
    <3>1. m \in D /\ \A n \in Bad : m <= n
      BY <2>2
    <3>. HIDE DEF Bad
    <3>2. m - 1 \in D /\ ~(m <= m - 1)
      BY <3>1, <2>3
    <3>. HIDE DEF D
    <3> QED BY <3>1, <3>2
  <2>5. PICK f : Fits(f, m - 1)
    BY <2>4
  <2>. DEFINE g == [n \in D |-> IF n = m THEN InputByte(f[m - 1], data[m]) ELSE f[n]]
  <2>6. /\ g[m] = InputByte(f[m - 1], data[m])
        /\ \A n \in D : n # m => g[n] = f[n]
        /\ g = [n \in D |-> g[n]]
    BY <2>4
  <2>. HIDE DEF g
  <2>7. g[0] = context
    BY <1>1, <2>3, <2>5, <2>6
  <2>8. ASSUME NEW n \in 1..m PROVE g[n] = InputByte(g[n - 1], data[n])
    <3>1. n \in D /\ n - 1 \in D /\ n - 1 # m
      BY <2>4
    <3>2. g[n - 1] = f[n - 1]
      BY <3>1, <2>6
    <3>3. CASE n = m
      BY <3>2, <3>3, <2>6
    <3>4. CASE n # m
      <4>1. n \in 1..(m - 1)
        BY <3>4, <2>4
      <4> QED BY <4>1, <3>1, <3>2, <3>4, <2>5, <2>6
    <3> QED BY <3>3, <3>4
  <2> QED BY <2>2, <2>6, <2>7, <2>8
<1>3. PICK f : Fits(f, Len(data))
  BY <1>1, <1>2
<1>. DEFINE Body(w, n) == IF n = 0 THEN context ELSE InputByte(w[n - 1], data[n])
<1>4. \A n \in D : f[n] = Body(f, n)
  <2>1. ASSUME NEW n \in D, n # 0 PROVE n \in 1..Len(data)
    BY <2>1
  <2> QED BY <1>3, <2>1
<1>. DEFINE Solves(w) == w = [n \in D |-> Body(w, n)]
<1>5. Solves(f)
  BY <1>3, <1>4
<1>6. SHA1Input(context, data) = (CHOOSE w : Solves(w))[Len(data)]
  BY DEF SHA1Input
<1>7. PICK w : w = CHOOSE x : Solves(x)
  OBVIOUS
<1>. HIDE DEF Solves
<1>8. Solves(w)
  BY <1>5, <1>7
<1>. USE DEF Solves
<1>9. \A n \in D : w[n] = Body(w, n)
  BY <1>8
<1>10. \A n \in 1..Len(data) : w[n] = InputByte(w[n - 1], data[n])
  <2>1. \A n \in 1..Len(data) : n \in D /\ n # 0
    OBVIOUS
  <2> QED BY <1>9, <2>1
<1>11. w[0] = context
  BY <1>1, <1>9
<1>12. SHA1Input(context, data) = w[Len(data)]
  BY <1>6, <1>7
<1> QED BY <1>10, <1>11, <1>12

\* A buffer filled up exactly by H.
LEMMA FedExactly ==
    ASSUME NEW D \in Seq(Byte), NEW H \in Seq(Byte), NEW s \in Nat \ {0}, NEW v, NEW mem,
           Fed(D, s, v, mem), Completes(D, H, s)
    PROVE  /\ Fed(Cat(D, H), s, Cat(v, <<Overwrite(mem, Len(D) % s, H)>>), Overwrite(mem, Len(D) % s, H))
           /\ Len(Cat(D, H)) % s = 0
<1>1. ASSUME NEW T \in Seq(Byte) PROVE Len(Cat(D, Cat(H, T))) % s = Len(T) % s
  <2>1. /\ Chunks(Cat(D, Cat(H, T)), 0, s)
              = Cat(Cat(Chunks(D, 0, s), <<Cat(Rest(D, 0, s), H)>>), Chunks(T, 0, s))
        /\ Len(Cat(D, Cat(H, T))) % s = Len(T) % s
    BY LongPiece
  <2> QED BY <2>1
<1>2. PICK m \in 0..(s - 1) : m = Len(D) % s
  BY LenProperties, Division
<1>3. v \in Seq(Seq(Byte)) /\ IsBuffer(mem, s)
  BY FedType
<1>4. PICK buf : buf = Overwrite(mem, m, H)
  OBVIOUS
<1>5. IsBuffer(buf, s)
  <2>1. Overwritten(Overwrite(mem, m, H), mem, m, H, s)
    BY <1>3, OverwrittenBuffer
  <2> QED BY <1>4, <2>1 DEF Overwritten
<1>6. <<>> \in Seq(Byte) /\ Len(<<>>) = 0
  OBVIOUS
<1>7. PICK T \in Seq(Byte) : T = <<>>
  BY <1>6
<1>8. Fed(Cat(D, Cat(H, T)), s, Cat(Cat(v, <<Overwrite(mem, Len(D) % s, H)>>), Chunks(T, 0, s)),
          Overwrite(buf, 0, Rest(T, 0, s)))
  BY <1>5, FedLong
<1>9. Cat(H, T) = H
  BY <1>7, AfterNothing
<1>10. Len(Cat(D, Cat(H, T))) % s = Len(T) % s
  BY <1>1
<1>11. 0 % s = 0
  BY NothingFed
<1>12. Len(Cat(D, H)) % s = 0
  BY <1>7, <1>9, <1>10, <1>11, <1>6
<1>13. Keeps(buf, Cat(D, H), s)
  BY <1>12 DEF Keeps
<1>14. Cat(v, <<buf>>) = Chunks(Cat(D, H), 0, s)
  <2>1. Fed(T, s, <<>>, buf)
    BY <1>5, <1>7, <1>6, FedNothing
  <2>2. Chunks(T, 0, s) = <<>>
    BY <2>1 DEF Fed
  <2>3. PICK w \in Seq(Seq(Byte)) : w = Cat(v, <<buf>>)
    <3>1. <<buf>> \in Seq(Seq(Byte))
      BY <1>5 DEF IsBuffer
    <3> QED BY <1>3, <3>1, CatFacts
  <2>4. Cat(w, <<>>) = w
    BY <2>3, AfterNothing
  <2>5. Cat(Cat(v, <<buf>>), Chunks(T, 0, s)) = Chunks(Cat(D, Cat(H, T)), 0, s)
    BY <1>2, <1>4, <1>8 DEF Fed
  <2> QED BY <1>9, <2>2, <2>3, <2>4, <2>5
<1> QED BY <1>2, <1>4, <1>5, <1>12, <1>13, <1>14 DEF Fed

\* A context of SHA-1 as a record.
Sha(lo, hi, ix, mb, md, cd, cr) ==
    [Length_Low |-> lo, Length_High |-> hi, Message_Block_Index |-> ix, Message_Block |-> mb,
     Message_Digest |-> md, Computed |-> cd, Corrupted |-> cr]

IsSha(c) == c = Sha(c.Length_Low, c.Length_High, c.Message_Block_Index, c.Message_Block,
                    c.Message_Digest, c.Computed, c.Corrupted)

LEMMA ShaFields ==
    ASSUME NEW lo, NEW hi, NEW ix, NEW mb, NEW md, NEW cd, NEW cr, NEW c, c = Sha(lo, hi, ix, mb, md, cd, cr)
    PROVE  /\ c.Length_Low = lo /\ c.Length_High = hi /\ c.Message_Block_Index = ix /\ c.Message_Block = mb
           /\ c.Message_Digest = md /\ c.Computed = cd /\ c.Corrupted = cr
           /\ IsSha(c)
  BY DEF Sha, IsSha

LEMMA PutFields ==
    ASSUME NEW c, IsSha(c), NEW bytes
    PROVE  Put(c, bytes) = Sha(c.Length_Low, c.Length_High, c.Message_Block_Index + Len(bytes),
                               Overwrite(c.Message_Block, c.Message_Block_Index, bytes),
                               c.Message_Digest, c.Computed, c.Corrupted)
<1>. DEFINE r == Put(c, bytes)
<1>1. PICK lo, hi, ix, mb, md, cd, cr :
          /\ lo = c.Length_Low /\ hi = c.Length_High /\ ix = c.Message_Block_Index /\ mb = c.Message_Block
          /\ md = c.Message_Digest /\ cd = c.Computed /\ cr = c.Corrupted
  OBVIOUS
<1>2. c = Sha(lo, hi, ix, mb, md, cd, cr)
  BY <1>1 DEF IsSha
<1>3. PICK y, z : y = Overwrite(mb, ix, bytes) /\ z = ix + Len(bytes)
  OBVIOUS
<1>4. r = [Sha(lo, hi, ix, mb, md, cd, cr) EXCEPT !.Message_Block = y, !.Message_Block_Index = z]
  BY <1>1, <1>2, <1>3 DEF Put
<1>. HIDE DEF r
<1>5. r \in [Length_Low : {lo}, Length_High : {hi}, Message_Block_Index : {z}, Message_Block : {y},
             Message_Digest : {md}, Computed : {cd}, Corrupted : {cr}]
  BY <1>4 DEF Sha
<1>6. r = Sha(lo, hi, z, y, md, cd, cr)
  BY <1>5 DEF Sha
<1> QED BY <1>1, <1>3, <1>6 DEF r

LEMMA ProcessFields ==
    ASSUME NEW c, IsSha(c), c.Message_Digest \in Seq(Seq(Byte)), c.Message_Block \in Seq(Byte)
    PROVE  SHA1ProcessMessageBlock(c)
              = Sha(c.Length_Low, c.Length_High, 0, c.Message_Block,
                    Cat(c.Message_Digest, <<c.Message_Block>>), c.Computed, c.Corrupted)
<1>. DEFINE r == SHA1ProcessMessageBlock(c)
<1>1. PICK lo, hi, ix, mb, md, cd, cr :
          /\ lo = c.Length_Low /\ hi = c.Length_High /\ ix = c.Message_Block_Index /\ mb = c.Message_Block
          /\ md = c.Message_Digest /\ cd = c.Computed /\ cr = c.Corrupted
  OBVIOUS
<1>2. c = Sha(lo, hi, ix, mb, md, cd, cr)
  BY <1>1 DEF IsSha
<1>3. PICK y : y = Append(md, mb)
  OBVIOUS
<1>4. y = Cat(md, <<mb>>)
  <2>1. md \in Seq(Seq(Byte)) /\ mb \in Seq(Byte)
    BY <1>1
  <2> QED BY <1>3, <2>1, AppendIsConcat DEF Cat
<1>5. r = [Sha(lo, hi, ix, mb, md, cd, cr) EXCEPT !.Message_Digest = y, !.Message_Block_Index = 0]
  BY <1>1, <1>2, <1>3 DEF SHA1ProcessMessageBlock
<1>. HIDE DEF r
<1>6. r \in [Length_Low : {lo}, Length_High : {hi}, Message_Block_Index : {0}, Message_Block : {mb},
             Message_Digest : {y}, Computed : {cd}, Corrupted : {cr}]
  BY <1>5 DEF Sha
<1>7. r = Sha(lo, hi, 0, mb, y, cd, cr)
  BY <1>6 DEF Sha
<1> QED BY <1>1, <1>4, <1>7 DEF r

\* What is buffered and compressed of a context that was fed D; what feeding bytes leaves alone.
ShaFed(D, c) ==
    /\ IsSha(c)
    /\ c.Message_Block_Index = Len(D) % Block
    /\ Fed(D, Block, c.Message_Digest, c.Message_Block)

SameCount(c, d) ==
    /\ c.Length_Low = d.Length_Low /\ c.Length_High = d.Length_High
    /\ c.Computed = d.Computed /\ c.Corrupted = d.Corrupted

LEMMA PutPart ==
    ASSUME NEW D \in Seq(Byte), NEW P \in Seq(Byte), NEW c, ShaFed(D, c), (Len(D) % Block) + Len(P) < Block
    PROVE  /\ ShaFed(Cat(D, P), Put(c, P))
           /\ SameCount(Put(c, P), c)
           /\ Put(c, P).Message_Block_Index = (Len(D) % Block) + Len(P)
<1>1. Block \in Nat \ {0}
  BY SizesFacts
<1>2. PICK p : p = Put(c, P)
  OBVIOUS
<1>3. IsSha(c) /\ c.Message_Block_Index = Len(D) % Block /\ Fed(D, Block, c.Message_Digest, c.Message_Block)
  BY DEF ShaFed
<1>4. p = Sha(c.Length_Low, c.Length_High, c.Message_Block_Index + Len(P),
              Overwrite(c.Message_Block, c.Message_Block_Index, P), c.Message_Digest, c.Computed, c.Corrupted)
  BY <1>2, <1>3, PutFields
<1>5. /\ p.Length_Low = c.Length_Low /\ p.Length_High = c.Length_High
      /\ p.Message_Block_Index = (Len(D) % Block) + Len(P)
      /\ p.Message_Block = Overwrite(c.Message_Block, Len(D) % Block, P)
      /\ p.Message_Digest = c.Message_Digest /\ p.Computed = c.Computed /\ p.Corrupted = c.Corrupted
      /\ IsSha(p)
  BY <1>3, <1>4, ShaFields
<1>6. Fed(Cat(D, P), Block, c.Message_Digest, Overwrite(c.Message_Block, Len(D) % Block, P))
  BY <1>1, <1>3, FedShort
<1>7. Len(Cat(D, P)) % Block = (Len(D) % Block) + Len(P)
  BY <1>1, ShortPiece
<1> QED BY <1>2, <1>5, <1>6, <1>7 DEF ShaFed, SameCount

LEMMA PutFull ==
    ASSUME NEW D \in Seq(Byte), NEW P \in Seq(Byte), NEW c, ShaFed(D, c), Completes(D, P, Block)
    PROVE  /\ ShaFed(Cat(D, P), SHA1ProcessMessageBlock(Put(c, P)))
           /\ SameCount(SHA1ProcessMessageBlock(Put(c, P)), c)
           /\ SHA1ProcessMessageBlock(Put(c, P)).Message_Block_Index = 0
           /\ Put(c, P).Message_Block_Index = Block
<1>1. Block \in Nat \ {0}
  BY SizesFacts
<1>2. PICK p : p = Put(c, P)
  OBVIOUS
<1>3. IsSha(c) /\ c.Message_Block_Index = Len(D) % Block /\ Fed(D, Block, c.Message_Digest, c.Message_Block)
  BY DEF ShaFed
<1>4. p = Sha(c.Length_Low, c.Length_High, c.Message_Block_Index + Len(P),
              Overwrite(c.Message_Block, c.Message_Block_Index, P), c.Message_Digest, c.Computed, c.Corrupted)
  BY <1>2, <1>3, PutFields
<1>5. /\ p.Length_Low = c.Length_Low /\ p.Length_High = c.Length_High
      /\ p.Message_Block_Index = (Len(D) % Block) + Len(P)
      /\ p.Message_Block = Overwrite(c.Message_Block, Len(D) % Block, P)
      /\ p.Message_Digest = c.Message_Digest /\ p.Computed = c.Computed /\ p.Corrupted = c.Corrupted
      /\ IsSha(p)
  BY <1>3, <1>4, ShaFields
<1>6. p.Message_Block_Index = Block
  BY <1>5 DEF Completes
<1>7. /\ Fed(Cat(D, P), Block, Cat(c.Message_Digest, <<p.Message_Block>>), p.Message_Block)
      /\ Len(Cat(D, P)) % Block = 0
  BY <1>1, <1>3, <1>5, FedExactly
<1>8. p.Message_Digest \in Seq(Seq(Byte)) /\ p.Message_Block \in Seq(Byte)
  <2>1. p.Message_Digest \in Seq(Seq(Byte))
    BY <1>1, <1>3, <1>5, FedType
  <2>2. p.Message_Block \in Seq(Byte)
    BY <1>7 DEF Fed, IsBuffer
  <2> QED BY <2>1, <2>2
<1>9. PICK q : q = SHA1ProcessMessageBlock(p)
  OBVIOUS
<1>10. q = Sha(p.Length_Low, p.Length_High, 0, p.Message_Block,
               Cat(p.Message_Digest, <<p.Message_Block>>), p.Computed, p.Corrupted)
  BY <1>5, <1>8, <1>9, ProcessFields
<1>11. /\ q.Length_Low = p.Length_Low /\ q.Length_High = p.Length_High /\ q.Message_Block_Index = 0
       /\ q.Message_Block = p.Message_Block /\ q.Message_Digest = Cat(p.Message_Digest, <<p.Message_Block>>)
       /\ q.Computed = p.Computed /\ q.Corrupted = p.Corrupted
       /\ IsSha(q)
  BY <1>10, ShaFields
<1>12. ShaFed(Cat(D, P), q)
  BY <1>5, <1>7, <1>11 DEF ShaFed
<1>13. SameCount(q, c)
  BY <1>5, <1>11 DEF SameCount
<1> QED BY <1>2, <1>6, <1>9, <1>11, <1>12, <1>13

\* One more byte in the two words of the length.
NextLow(lo) == (lo + 8) % Word1
NextHigh(lo, hi) == IF NextLow(lo) = 0 THEN (hi + 1) % Word1 ELSE hi

LEMMA CountsOneByte ==
    ASSUME NEW n \in Nat, NEW lo \in 0..(Word1 - 1), NEW hi \in 0..(Word1 - 1), 8 * n = Word1 * hi + lo
    PROVE  /\ 8 * (n + 1) < Word1 * Word1 =>
                 /\ NextLow(lo) \in 0..(Word1 - 1) /\ NextHigh(lo, hi) \in 0..(Word1 - 1)
                 /\ 8 * (n + 1) = Word1 * NextHigh(lo, hi) + NextLow(lo)
                 /\ ~(NextLow(lo) = 0 /\ NextHigh(lo, hi) = 0)
           /\ ~(8 * (n + 1) < Word1 * Word1) => NextLow(lo) = 0 /\ NextHigh(lo, hi) = 0
<1>1. Word1 \in Nat \ {0} /\ Word1 % 8 = 0
  BY Sizes
<1>2. PICK w \in Nat \ {0} : Word1 = 8 * w
  <2>1. PICK w \in Nat : w = Word1 \div 8
    BY <1>1, Division
  <2>2. Word1 = 8 * w
    BY <1>1, <2>1
  <2> QED BY <1>1, <2>2
<1>3. PICK x \in Nat : x = w * hi
  BY SMT
<1>4. Word1 * hi = 8 * x
  <2>1. (8 * w) * hi = 8 * (w * hi)
    BY SMT
  <2> QED BY <1>2, <1>3, <2>1
<1>5. PICK k \in Nat : lo = 8 * k /\ n = x + k /\ k <= w - 1
  <2>1. lo = 8 * (n - x)
    BY <1>1, <1>4
  <2>2. n - x \in Nat /\ n - x <= w - 1
    BY <1>1, <1>2, <2>1
  <2> QED BY <2>1, <2>2
<1>6. PICK ww \in Nat : ww = Word1 * Word1
  BY <1>1, SMT
<1>7. PICK o \in Nat : Word1 = hi + 1 + o
  BY <1>1
<1>8. PICK y \in Nat : y = Word1 * o
  BY <1>1, SMT
<1>9. ww = 8 * x + Word1 + y
  <2>1. Word1 * (hi + 1 + o) = Word1 * hi + Word1 + Word1 * o
    BY <1>1, SMT
  <2> QED BY <1>4, <1>6, <1>7, <1>8, <2>1
<1>10. o > 0 => y >= Word1
  <2>1. ASSUME o > 0 PROVE y >= Word1
    <3>1. PICK p \in Nat : o = 1 + p
      BY <2>1
    <3>2. Word1 * (1 + p) = Word1 + Word1 * p /\ Word1 * p \in Nat
      BY <1>1, SMT
    <3> QED BY <1>1, <1>8, <3>1, <3>2
  <2> QED BY <2>1
<1>11. CASE lo + 8 < Word1
  <2>1. lo + 8 \in 0..(Word1 - 1)
    BY <1>1, <1>11
  <2>2. NextLow(lo) = lo + 8
    BY <1>1, <2>1, NoWrap DEF NextLow
  <2>3. NextHigh(lo, hi) = hi
    BY <1>5, <2>2 DEF NextHigh
  <2>4. 8 * (n + 1) = Word1 * hi + (lo + 8)
    BY <1>4
  <2>5. 8 * (n + 1) < ww
    <3>1. 8 * (n + 1) = 8 * x + (lo + 8)
      BY <1>5
    <3> QED BY <1>1, <1>9, <1>11, <3>1
  <2> QED BY <1>1, <1>6, <2>1, <2>2, <2>3, <2>4, <2>5
<1>12. CASE ~(lo + 8 < Word1)
  <2>1. lo + 8 = Word1
    BY <1>2, <1>5, <1>12
  <2>2. NextLow(lo) = 0
    <3>1. (Word1 * 1 + 0) % Word1 = 0
      BY <1>1, DivisionIsUnique
    <3>2. Word1 * 1 + 0 = Word1
      BY <1>1
    <3> QED BY <2>1, <3>1, <3>2 DEF NextLow
  <2>3. 8 * (n + 1) = 8 * x + Word1
    BY <1>4, <2>1
  <2>4. CASE o = 0
    <3>1. hi + 1 = Word1 /\ y = 0
      BY <1>1, <1>7, <1>8, <2>4
    <3>2. NextHigh(lo, hi) = 0
      <4>1. (Word1 * 1 + 0) % Word1 = 0
        BY <1>1, DivisionIsUnique
      <4>2. Word1 * 1 + 0 = Word1
        BY <1>1
      <4> QED BY <2>2, <3>1, <4>1, <4>2 DEF NextHigh
    <3>3. ~(8 * (n + 1) < ww)
      BY <1>9, <2>3, <3>1
    <3> QED BY <1>6, <2>2, <3>2, <3>3
  <2>5. CASE o > 0
    <3>1. hi + 1 \in 0..(Word1 - 1)
      BY <1>1, <1>7, <2>5
    <3>2. NextHigh(lo, hi) = hi + 1
      BY <1>1, <2>2, <3>1, NoWrap DEF NextHigh
    <3>3. Word1 * (hi + 1) = Word1 * hi + Word1
      BY <1>1, SMT
    <3>4. 8 * (n + 1) = Word1 * NextHigh(lo, hi) + NextLow(lo)
      BY <1>1, <1>4, <2>2, <2>3, <3>2, <3>3
    <3>5. 8 * (n + 1) < ww
      BY <1>1, <1>9, <1>10, <2>3, <2>5
    <3>6. 0 \in 0..(Word1 - 1) /\ ~(hi + 1 = 0)
      BY <1>1
    <3> QED BY <1>6, <2>2, <3>1, <3>2, <3>4, <3>5, <3>6
  <2> QED BY <2>4, <2>5
<1> QED BY <1>11, <1>12

\* The context of SHA-1 that was fed D, as long as the length of D can be counted.
ShaOpen(D, c) ==
    /\ ShaFed(D, c)
    /\ c.Length_Low \in 0..(Word1 - 1) /\ c.Length_High \in 0..(Word1 - 1)
    /\ 8 * Len(D) = Word1 * c.Length_High + c.Length_Low
    /\ c.Computed = FALSE /\ c.Corrupted = FALSE

ShaSpoiled(c) == IsSha(c) /\ c.Corrupted = TRUE

Recount(c) == Sha(NextLow(c.Length_Low), NextHigh(c.Length_Low, c.Length_High), c.Message_Block_Index,
                  c.Message_Block, c.Message_Digest, c.Computed,
                  NextLow(c.Length_Low) = 0 /\ NextHigh(c.Length_Low, c.Length_High) = 0)

\* A byte is counted and put; it does not matter in which order.
LEMMA InputByteFields ==
    ASSUME NEW c, IsSha(c), c.Corrupted = FALSE, NEW byte
    PROVE  InputByte(c, byte) = IF Put(Recount(c), <<byte>>).Message_Block_Index = Block
                                THEN SHA1ProcessMessageBlock(Put(Recount(c), <<byte>>))
                                ELSE Put(Recount(c), <<byte>>)
<1>1. PICK lo, hi, ix, mb, md, cd :
          /\ lo = c.Length_Low /\ hi = c.Length_High /\ ix = c.Message_Block_Index /\ mb = c.Message_Block
          /\ md = c.Message_Digest /\ cd = c.Computed
  OBVIOUS
<1>2. PICK low, high, z, y, cr :
          /\ low = NextLow(lo) /\ high = NextHigh(lo, hi) /\ z = ix + Len(<<byte>>)
          /\ y = Overwrite(mb, ix, <<byte>>) /\ cr = (NextLow(lo) = 0 /\ NextHigh(lo, hi) = 0)
  OBVIOUS
<1>3. Put(c, <<byte>>) = Sha(lo, hi, z, y, md, cd, FALSE)
  BY <1>1, <1>2, PutFields
<1>4. Put(Recount(c), <<byte>>) = Sha(low, high, z, y, md, cd, cr)
  <2>1. Recount(c) = Sha(low, high, ix, mb, md, cd, cr)
    BY <1>1, <1>2, Zenon DEF Recount
  <2>2. PICK d : d = Recount(c)
    OBVIOUS
  <2>3. /\ d.Length_Low = low /\ d.Length_High = high /\ d.Message_Block_Index = ix /\ d.Message_Block = mb
        /\ d.Message_Digest = md /\ d.Computed = cd /\ d.Corrupted = cr /\ IsSha(d)
    BY <2>1, <2>2, ShaFields
  <2> QED BY <1>2, <2>2, <2>3, PutFields
<1>. DEFINE put == [Put(c, <<byte>>) EXCEPT !.Length_Low = low, !.Length_High = high, !.Corrupted = cr]
<1>5. put = Sha(low, high, z, y, md, cd, cr)
  <2>1. put = [Sha(lo, hi, z, y, md, cd, FALSE) EXCEPT !.Length_Low = low, !.Length_High = high, !.Corrupted = cr]
    BY <1>3
  <2>. HIDE DEF put
  <2>2. put \in [Length_Low : {low}, Length_High : {high}, Message_Block_Index : {z}, Message_Block : {y},
                 Message_Digest : {md}, Computed : {cd}, Corrupted : {cr}]
    BY <2>1 DEF Sha
  <2> QED BY <2>2 DEF Sha
<1>6. InputByte(c, byte) = IF put.Message_Block_Index = Block THEN SHA1ProcessMessageBlock(put) ELSE put
  <2>1. low = (c.Length_Low + 8) % Word1
    BY <1>1, <1>2 DEF NextLow
  <2>2. high = IF low = 0 THEN (c.Length_High + 1) % Word1 ELSE c.Length_High
    BY <1>1, <1>2 DEF NextHigh
  <2>3. cr = (low = 0 /\ high = 0)
    BY <1>2
  <2> QED BY <2>1, <2>2, <2>3 DEF InputByte
<1> QED BY <1>4, <1>5, <1>6

LEMMA ByteIsFed ==
    ASSUME NEW D \in Seq(Byte), NEW byte \in Byte, NEW c, ShaOpen(D, c)
    PROVE  IF 8 * (Len(D) + 1) < Word1 * Word1 THEN ShaOpen(Cat(D, <<byte>>), InputByte(c, byte))
           ELSE ShaSpoiled(InputByte(c, byte))
<1>1. Block \in Nat \ {0} /\ Len(D) \in Nat
  BY SizesFacts, LenProperties
<1>2. /\ ShaFed(D, c) /\ IsSha(c)
      /\ c.Length_Low \in 0..(Word1 - 1) /\ c.Length_High \in 0..(Word1 - 1)
      /\ 8 * Len(D) = Word1 * c.Length_High + c.Length_Low
      /\ c.Computed = FALSE /\ c.Corrupted = FALSE
  BY DEF ShaOpen, ShaFed
<1>3. PICK d : d = Recount(c)
  OBVIOUS
<1>4. /\ d.Length_Low = NextLow(c.Length_Low) /\ d.Length_High = NextHigh(c.Length_Low, c.Length_High)
      /\ d.Message_Block_Index = c.Message_Block_Index
      /\ d.Message_Block = c.Message_Block /\ d.Message_Digest = c.Message_Digest /\ d.Computed = c.Computed
      /\ d.Corrupted = (NextLow(c.Length_Low) = 0 /\ NextHigh(c.Length_Low, c.Length_High) = 0)
      /\ IsSha(d)
  BY <1>3, ShaFields DEF Recount
<1>5. ShaFed(D, d)
  BY <1>2, <1>4 DEF ShaFed
<1>6. PICK P \in Seq(Byte) : P = <<byte>>
  <2>1. <<byte>> \in Seq(Byte)
    OBVIOUS
  <2> QED BY <2>1
<1>7. Len(P) = 1
  BY <1>6
<1>8. PICK m \in 0..(Block - 1) : m = Len(D) % Block
  BY <1>1, Division
<1>9. InputByte(c, byte) = IF Put(d, P).Message_Block_Index = Block THEN SHA1ProcessMessageBlock(Put(d, P)) ELSE Put(d, P)
  BY <1>2, <1>3, <1>6, InputByteFields
<1>10. ShaFed(Cat(D, P), InputByte(c, byte)) /\ SameCount(InputByte(c, byte), d)
  <2>1. CASE m + 1 < Block
    <3>1. (Len(D) % Block) + Len(P) < Block
      BY <1>7, <1>8, <2>1
    <3>2. /\ ShaFed(Cat(D, P), Put(d, P)) /\ SameCount(Put(d, P), d)
          /\ Put(d, P).Message_Block_Index = (Len(D) % Block) + Len(P)
      BY <1>5, <3>1, PutPart
    <3>3. Put(d, P).Message_Block_Index # Block
      BY <1>1, <1>7, <1>8, <2>1, <3>2
    <3> QED BY <1>9, <3>2, <3>3
  <2>2. CASE ~(m + 1 < Block)
    <3>1. Completes(D, P, Block)
      BY <1>1, <1>7, <1>8, <2>2 DEF Completes
    <3>2. /\ ShaFed(Cat(D, P), SHA1ProcessMessageBlock(Put(d, P)))
          /\ SameCount(SHA1ProcessMessageBlock(Put(d, P)), d)
          /\ Put(d, P).Message_Block_Index = Block
      BY <1>5, <3>1, PutFull
    <3> QED BY <1>9, <3>2
  <2> QED BY <1>1, <2>1, <2>2
<1>11. Len(Cat(D, P)) = Len(D) + 1
  <2>1. Len(Cat(D, P)) = Len(D) + Len(P)
    BY CatFacts
  <2> QED BY <1>7, <2>1
<1>12. PICK r : r = InputByte(c, byte)
  OBVIOUS
<1>13. /\ r.Length_Low = NextLow(c.Length_Low) /\ r.Length_High = NextHigh(c.Length_Low, c.Length_High)
       /\ r.Computed = FALSE
       /\ r.Corrupted = (NextLow(c.Length_Low) = 0 /\ NextHigh(c.Length_Low, c.Length_High) = 0)
       /\ IsSha(r)
  BY <1>2, <1>4, <1>10, <1>12 DEF SameCount, ShaFed
<1>14. CASE 8 * (Len(D) + 1) < Word1 * Word1
  <2>1. /\ NextLow(c.Length_Low) \in 0..(Word1 - 1) /\ NextHigh(c.Length_Low, c.Length_High) \in 0..(Word1 - 1)
        /\ 8 * (Len(D) + 1) = Word1 * NextHigh(c.Length_Low, c.Length_High) + NextLow(c.Length_Low)
        /\ ~(NextLow(c.Length_Low) = 0 /\ NextHigh(c.Length_Low, c.Length_High) = 0)
    BY <1>1, <1>2, <1>14, CountsOneByte
  <2>2. r.Corrupted = FALSE
    BY <1>13, <2>1
  <2>3. ShaOpen(Cat(D, P), r)
    BY <1>10, <1>11, <1>12, <1>13, <2>1, <2>2 DEF ShaOpen
  <2> QED BY <1>6, <1>12, <1>14, <2>3
<1>15. CASE ~(8 * (Len(D) + 1) < Word1 * Word1)
  <2>1. NextLow(c.Length_Low) = 0 /\ NextHigh(c.Length_Low, c.Length_High) = 0
    BY <1>1, <1>2, <1>15, CountsOneByte
  <2>2. r.Corrupted = TRUE
    BY <1>13, <2>1
  <2> QED BY <1>12, <1>13, <1>15, <2>2 DEF ShaSpoiled
<1> QED BY <1>14, <1>15

\* A context after a piece: counted and buffered, or spoiled by the length.
ShaAfter(n, c) ==
    IF 8 * n < Word1 * Word1 THEN ShaOpen(Msg(0, n), c) ELSE ShaSpoiled(c)

LEMMA ByteOfMessage ==
    ASSUME NEW n \in Nat, NEW c, ShaAfter(n, c), NEW byte, byte = <<"msg", n + 1>>
    PROVE  ShaAfter(n + 1, InputByte(c, byte))
<1>1. PICK D \in Seq(Byte) : D = Msg(0, n) /\ Len(D) = n
  BY MsgFacts
<1>2. byte \in Byte
  <2>1. <<"msg", n + 1>> \in Byte
    BY DEF Byte
  <2> QED BY <2>1
<1>3. Cat(D, <<byte>>) = Msg(0, n + 1)
  <2>1. PICK P \in Seq(Byte) : P = Msg(n, 1) /\ Len(P) = 1 /\ P[1] = <<"msg", n + 1>>
    <3>1. Msg(n, 1) \in Seq(Byte) /\ Len(Msg(n, 1)) = 1 /\ \A i \in 1..1 : Msg(n, 1)[i] = <<"msg", n + i>>
      BY MsgFacts
    <3> QED BY <3>1
  <2>2. P = <<byte>>
    <3>1. <<byte>> \in Seq(Byte) /\ Len(<<byte>>) = 1 /\ <<byte>>[1] = byte
      BY <1>2
    <3> QED BY <2>1, <3>1, SeqEqual
  <2>3. Cat(Msg(0, n), Msg(n, 1)) = Msg(0, n + 1)
    BY MsgGrows
  <2> QED BY <1>1, <2>1, <2>2, <2>3
<1>4. CASE 8 * n < Word1 * Word1
  <2>1. ShaOpen(D, c)
    BY <1>1, <1>4 DEF ShaAfter
  <2>2. IF 8 * (Len(D) + 1) < Word1 * Word1 THEN ShaOpen(Cat(D, <<byte>>), InputByte(c, byte))
        ELSE ShaSpoiled(InputByte(c, byte))
    BY <1>2, <2>1, ByteIsFed
  <2> QED BY <1>1, <1>3, <2>2 DEF ShaAfter
<1>5. CASE ~(8 * n < Word1 * Word1)
  <2>1. ShaSpoiled(c)
    BY <1>5 DEF ShaAfter
  <2>2. InputByte(c, byte) = c
    BY <2>1 DEF ShaSpoiled, InputByte
  <2>3. ~(8 * (n + 1) < Word1 * Word1)
    <3>1. PICK ww \in Nat : ww = Word1 * Word1
      BY Sizes, SMT
    <3> QED BY <1>5, <3>1
  <2> QED BY <2>1, <2>2, <2>3 DEF ShaAfter
<1> QED BY <1>4, <1>5

\* A piece of the message, of which any byte may spoil the context.
LEMMA PieceOfMessage ==
    ASSUME NEW a \in Nat, NEW n \in Nat, NEW c, ShaAfter(a, c)
    PROVE  ShaAfter(a + n, SHA1Input(c, Msg(a, n)))
<1>1. PICK P \in Seq(Byte) : P = Msg(a, n) /\ Len(P) = n /\ \A i \in 1..n : P[i] = <<"msg", a + i>>
  BY MsgFacts
<1>2. CASE n = 0
  <2>1. SHA1Input(c, P) = c
    BY <1>1, <1>2 DEF SHA1Input
  <2>2. a + n = a
    BY <1>2
  <2> QED BY <1>1, <2>1, <2>2
<1>3. CASE n # 0 /\ c.Corrupted = TRUE
  <2>1. ShaSpoiled(c) /\ ~(8 * a < Word1 * Word1)
    BY <1>3 DEF ShaAfter, ShaOpen, ShaSpoiled
  <2>2. SHA1Input(c, P) = [c EXCEPT !.Corrupted = TRUE]
    BY <1>1, <1>3 DEF SHA1Input
  <2>3. [c EXCEPT !.Corrupted = TRUE] = c
    BY <2>1 DEF ShaSpoiled, IsSha, Sha
  <2>4. ~(8 * (a + n) < Word1 * Word1)
    <3>1. PICK ww \in Nat : ww = Word1 * Word1
      BY Sizes, SMT
    <3> QED BY <2>1, <3>1
  <2> QED BY <1>1, <2>1, <2>2, <2>3, <2>4 DEF ShaAfter
<1>4. CASE n # 0 /\ ~(c.Corrupted = TRUE)
  <2>1. ~(c.Computed \/ c.Corrupted)
    BY <1>4 DEF ShaAfter, ShaOpen, ShaSpoiled
  <2>2. Len(P) \in Nat \ {0}
    BY <1>1, <1>4
  <2>3. PICK f : /\ SHA1Input(c, P) = f[Len(P)]
                 /\ f[0] = c
                 /\ \A i \in 1..Len(P) : f[i] = InputByte(f[i - 1], P[i])
    BY <2>1, <2>2, FedByBytes
  <2>. DEFINE Bad == {i \in 0..n : ~ShaAfter(a + i, f[i])}
  <2>4. Bad = {}
    <3>1. SUFFICES ASSUME Bad # {} PROVE FALSE
      OBVIOUS
    <3>2. Bad \in SUBSET Nat
      OBVIOUS
    <3>3. PICK k \in Bad : \A i \in Bad : k <= i
      BY <3>1, <3>2, LeastNumber
    <3>4. k \in 0..n /\ ~ShaAfter(a + k, f[k])
      OBVIOUS
    <3>5. k # 0
      <4>1. a + 0 = a
        OBVIOUS
      <4> QED BY <2>3, <3>4, <4>1
    <3>6. PICK j \in 0..n : k = j + 1 /\ k - 1 = j
      BY <3>4, <3>5
    <3>7. ShaAfter(a + j, f[j])
      <4>1. ~(k <= j)
        BY <3>6
      <4>2. j \notin Bad
        BY <3>3, <4>1
      <4> QED BY <4>2
    <3>8. P[k] = <<"msg", (a + j) + 1>> /\ f[k] = InputByte(f[j], P[k])
      <4>1. k \in 1..n /\ a + k = (a + j) + 1
        BY <3>4, <3>6
      <4> QED BY <1>1, <2>3, <3>6, <4>1
    <3>9. PICK b \in Nat : b = a + j
      OBVIOUS
    <3>10. ShaAfter(b + 1, InputByte(f[j], P[k]))
      BY <3>7, <3>8, <3>9, ByteOfMessage
    <3>11. b + 1 = a + k
      BY <3>6, <3>9
    <3> QED BY <3>4, <3>8, <3>10, <3>11
  <2>5. ShaAfter(a + n, f[n])
    BY <2>4
  <2> QED BY <1>1, <2>3, <2>5
<1> QED BY <1>2, <1>3, <1>4

LEMMA ZeroesFacts ==
    ASSUME NEW n \in Nat
    PROVE  Zeroes(n) \in Seq(Byte) /\ Len(Zeroes(n)) = n
<1>1. \A i \in 1..n : <<"pad", 0>> \in Byte
  BY DEF Byte
<1>2. Zeroes(n) \in [1..n -> Byte]
  BY <1>1 DEF Zeroes
<1> QED BY <1>2

\* Padding that goes on in a second block is one padding.
LEMMA PaddingGoesOn ==
    ASSUME NEW x \in Nat \ {0}, NEW y \in Nat
    PROVE  Cat(Padding(x), Zeroes(y)) = Padding(x + y)
<1>1. PICK e \in Nat : e = x + y
  OBVIOUS
<1>2. PICK A \in Seq(Byte) : A = Padding(x) /\ Len(A) = x
  BY PaddingFacts
<1>3. PICK B \in Seq(Byte) : B = Zeroes(y) /\ Len(B) = y
  BY ZeroesFacts
<1>4. PICK E \in Seq(Byte) : E = Padding(e) /\ Len(E) = e
  BY PaddingFacts
<1>5. PICK C \in Seq(Byte) : C = Cat(A, B) /\ Len(C) = e
                            /\ \A i \in 1..e : C[i] = IF i <= x THEN A[i] ELSE B[i - x]
  <2>1. /\ Cat(A, B) \in Seq(Byte)
        /\ Len(Cat(A, B)) = Len(A) + Len(B)
        /\ \A i \in 1..(Len(A) + Len(B)) : Cat(A, B)[i] = IF i <= Len(A) THEN A[i] ELSE B[i - Len(A)]
    BY CatFacts
  <2>2. /\ Cat(A, B) \in Seq(Byte)
        /\ Len(Cat(A, B)) = x + y
        /\ \A i \in 1..(x + y) : Cat(A, B)[i] = IF i <= x THEN A[i] ELSE B[i - x]
    BY <1>2, <1>3, <2>1
  <2> QED BY <1>1, <2>2
<1>6. ASSUME NEW i \in 1..e PROVE C[i] = E[i]
  <2>1. E[i] = <<"pad", IF i = 1 THEN 128 ELSE 0>>
    BY <1>4 DEF Padding
  <2>2. CASE i <= x
    <3>1. i \in 1..x
      BY <2>2
    <3>2. A[i] = <<"pad", IF i = 1 THEN 128 ELSE 0>>
      BY <1>2, <3>1 DEF Padding
    <3> QED BY <1>5, <2>1, <2>2, <3>2
  <2>3. CASE ~(i <= x)
    <3>1. i - x \in 1..y /\ i # 1
      BY <1>1, <2>3
    <3>2. B[i - x] = <<"pad", 0>>
      BY <1>3, <3>1 DEF Zeroes
    <3> QED BY <1>5, <2>1, <2>3, <3>1, <3>2
  <2> QED BY <2>2, <2>3
<1>7. C = E
  BY <1>4, <1>5, <1>6, SeqEqual
<1> QED BY <1>1, <1>2, <1>3, <1>4, <1>5, <1>7

\* The padding of SHA-1 fills the last block, or the one after it when the length does not fit.
LEMMA PaddedContext ==
    ASSUME NEW D \in Seq(Byte), NEW c, ShaOpen(D, c)
    PROVE  \E z \in 1..Block, bits \in Nat :
              /\ (Len(D) + z + LengthSize) % Block = 0
              /\ bits = 8 * Len(D)
              /\ ShaFed(Cat(Cat(D, Padding(z)), Length(bits, LengthSize)), SHA1PadMessage(c))
              /\ SameCount(SHA1PadMessage(c), c)
<1>1. Block \in Nat \ {0} /\ LengthSize \in 1..(Block - 1) /\ Word1 \in Nat \ {0} /\ Len(D) \in Nat
  BY Sizes, SizesFacts, LenProperties
<1>2. PICK body \in 1..(Block - 1) : body = Block - LengthSize
  BY <1>1
<1>3. PICK n \in Nat : n = Len(D)
  BY <1>1
<1>4. PICK m \in 0..(Block - 1) : m = n % Block
  BY <1>1, Division
<1>5. PICK bits \in Nat : bits = 8 * n
  OBVIOUS
<1>6. c.Length_High * Word1 + c.Length_Low = bits
  <2>1. c.Length_High * Word1 = Word1 * c.Length_High
    BY <1>1, SMT DEF ShaOpen
  <2> QED BY <1>3, <1>5, <2>1 DEF ShaOpen
<1>7. ShaFed(D, c) /\ c.Message_Block_Index = m
  BY <1>3, <1>4 DEF ShaOpen, ShaFed
<1>8. Length(bits, LengthSize) \in Seq(Byte) /\ Len(Length(bits, LengthSize)) = LengthSize
  BY <1>1, LengthFacts
<1>9. PICK q \in Nat : q = n \div Block
  BY <1>1, Division
<1>10. PICK x \in Nat : x = Block * q
  BY <1>1, SMT
<1>11. n = x + m
  BY <1>1, <1>4, <1>9, <1>10, Division
<1>12. ASSUME NEW z \in 1..Block, NEW room, ShaFed(Cat(D, Padding(z)), room), SameCount(room, c),
              room.Message_Block_Index = body,
              SHA1PadMessage(c) = SHA1ProcessMessageBlock(Put(room, Length(bits, LengthSize))),
              (n + z + LengthSize) % Block = 0
       PROVE  /\ ShaFed(Cat(Cat(D, Padding(z)), Length(bits, LengthSize)), SHA1PadMessage(c))
              /\ SameCount(SHA1PadMessage(c), c)
  <2>1. Padding(z) \in Seq(Byte)
    BY <1>1, PaddingFacts
  <2>2. PICK E \in Seq(Byte) : E = Cat(D, Padding(z))
    BY <2>1, CatFacts
  <2>3. Len(E) % Block = body
    BY <1>12, <2>2 DEF ShaFed
  <2>4. PICK L \in Seq(Byte) : L = Length(bits, LengthSize)
    BY <1>8
  <2>5. Completes(E, L, Block)
    <3>1. Len(L) = LengthSize
      BY <1>8, <2>4
    <3>2. body + LengthSize = Block
      BY <1>1, <1>2
    <3> QED BY <2>3, <3>1, <3>2 DEF Completes
  <2>6. ShaFed(Cat(E, L), SHA1ProcessMessageBlock(Put(room, L))) /\ SameCount(SHA1ProcessMessageBlock(Put(room, L)), room)
    BY <1>12, <2>2, <2>5, <2>4, PutFull
  <2> QED BY <1>12, <2>2, <2>4, <2>6 DEF SameCount
<1>13. CASE m <= body - 1
  <2>1. PICK z \in 1..Block : z = body - m
    BY <1>1, <1>2, <1>13
  <2>2. Padding(z) \in Seq(Byte) /\ Len(Padding(z)) = z
    BY <1>1, PaddingFacts
  <2>3. PICK room : room = Put(c, Padding(z))
    OBVIOUS
  <2>4. (Len(D) % Block) + Len(Padding(z)) < Block
    BY <1>1, <1>2, <1>3, <1>4, <2>1, <2>2
  <2>5. /\ ShaFed(Cat(D, Padding(z)), room) /\ SameCount(room, c)
        /\ room.Message_Block_Index = (Len(D) % Block) + Len(Padding(z))
    BY <1>7, <2>2, <2>3, <2>4, PutPart
  <2>6. room.Message_Block_Index = body
    BY <1>2, <1>3, <1>4, <2>1, <2>2, <2>5
  <2>7. SHA1PadMessage(c) = SHA1ProcessMessageBlock(Put(room, Length(bits, LengthSize)))
    <3>1. ~(c.Message_Block_Index > body - 1)
      BY <1>2, <1>7, <1>13
    <3>2. Pad(c, body) = room
      BY <1>7, <2>1, <2>3 DEF Pad
    <3> QED BY <1>2, <1>6, <3>1, <3>2 DEF SHA1PadMessage
  <2>8. (n + z + LengthSize) % Block = 0
    <3>1. n + z + LengthSize = x + Block
      BY <1>1, <1>2, <1>11, <2>1
    <3>2. PICK k \in Nat : k = q + 1
      OBVIOUS
    <3>3. Block * k = x + Block
      BY <1>1, <1>10, <3>2, SMT
    <3>4. (Block * k + 0) % Block = 0
      <4>1. 0 \in 0..(Block - 1)
        BY <1>1
      <4> QED BY <1>1, <3>2, <4>1, DivisionIsUnique
    <3>5. PICK y \in Nat : y = Block * k
      BY <1>1, <3>2, SMT
    <3>6. y % Block = 0
      BY <3>4, <3>5
    <3>7. y = x + Block
      BY <3>3, <3>5
    <3> QED BY <3>1, <3>6, <3>7
  <2> QED BY <1>3, <1>5, <1>12, <2>5, <2>6, <2>7, <2>8
<1>14. CASE ~(m <= body - 1)
  <2>1. PICK h \in 1..Block : h = Block - m
    BY <1>1
  <2>2. h + body \in 1..Block
    BY <1>1, <1>2, <1>14, <2>1
  <2>3. PICK z \in 1..Block : z = h + body
    BY <2>2
  <2>4. Padding(h) \in Seq(Byte) /\ Len(Padding(h)) = h /\ Zeroes(body) \in Seq(Byte) /\ Len(Zeroes(body)) = body
    BY <1>1, PaddingFacts, ZeroesFacts
  <2>5. Completes(D, Padding(h), Block)
    BY <1>1, <1>3, <1>4, <2>1, <2>4 DEF Completes
  <2>6. PICK full : full = SHA1ProcessMessageBlock(Put(c, Padding(h)))
    OBVIOUS
  <2>7. ShaFed(Cat(D, Padding(h)), full) /\ SameCount(full, c) /\ full.Message_Block_Index = 0
    BY <1>7, <2>4, <2>5, <2>6, PutFull
  <2>8. PICK E \in Seq(Byte) : E = Cat(D, Padding(h))
    BY <2>4, CatFacts
  <2>9. Len(E) % Block = 0
    BY <2>7, <2>8 DEF ShaFed
  <2>10. PICK room : room = Put(full, Zeroes(body))
    OBVIOUS
  <2>11. (Len(E) % Block) + Len(Zeroes(body)) < Block
    BY <1>1, <2>4, <2>9
  <2>12. /\ ShaFed(Cat(E, Zeroes(body)), room) /\ SameCount(room, full)
         /\ room.Message_Block_Index = (Len(E) % Block) + Len(Zeroes(body))
    BY <2>4, <2>7, <2>8, <2>10, <2>11, PutPart
  <2>13. room.Message_Block_Index = body
    BY <2>4, <2>9, <2>12
  <2>14. Cat(E, Zeroes(body)) = Cat(D, Padding(z))
    <3>1. Cat(Cat(D, Padding(h)), Zeroes(body)) = Cat(D, Cat(Padding(h), Zeroes(body)))
      BY <2>4, CatAssociative
    <3>2. Cat(Padding(h), Zeroes(body)) = Padding(h + body)
      <4>1. h \in Nat \ {0} /\ body \in Nat
        BY <1>1
      <4> QED BY <4>1, PaddingGoesOn
    <3> QED BY <2>3, <2>8, <3>1, <3>2
  <2>15. SameCount(room, c)
    BY <2>7, <2>12 DEF SameCount
  <2>16. SHA1PadMessage(c) = SHA1ProcessMessageBlock(Put(room, Length(bits, LengthSize)))
    <3>1. c.Message_Block_Index > body - 1
      BY <1>2, <1>7, <1>14
    <3>2. SHA1ProcessMessageBlock(Pad(c, Block)) = full
      BY <1>7, <2>1, <2>6 DEF Pad
    <3>3. PadOn(full, body) = room
      <4>1. body - 0 = body
        OBVIOUS
      <4> QED BY <2>7, <2>10, <4>1 DEF PadOn
    <3> QED BY <1>2, <1>6, <3>1, <3>2, <3>3 DEF SHA1PadMessage
  <2>17. (n + z + LengthSize) % Block = 0
    <3>1. n + z + LengthSize = x + Block + Block
      BY <1>1, <1>2, <1>11, <2>1, <2>3
    <3>2. PICK k \in Nat : k = q + 2
      OBVIOUS
    <3>3. Block * k = x + Block + Block
      BY <1>1, <1>10, <3>2, SMT
    <3>4. (Block * k + 0) % Block = 0
      <4>1. 0 \in 0..(Block - 1)
        BY <1>1
      <4> QED BY <1>1, <3>2, <4>1, DivisionIsUnique
    <3>5. PICK y \in Nat : y = Block * k
      BY <1>1, <3>2, SMT
    <3>6. y % Block = 0
      BY <3>4, <3>5
    <3>7. y = x + Block + Block
      BY <3>3, <3>5
    <3> QED BY <3>1, <3>6, <3>7
  <2> QED BY <1>3, <1>5, <1>12, <2>12, <2>13, <2>14, <2>15, <2>16, <2>17
<1> QED BY <1>13, <1>14

ShaDone(n, c) ==
    /\ IsSha(c)
    /\ c.Computed = TRUE /\ c.Corrupted = FALSE
    /\ c.Message_Digest = Blocks(Padded(n, Word1))

LEMMA FlagFields ==
    ASSUME NEW c, IsSha(c), NEW flag
    PROVE  /\ [c EXCEPT !.Computed = flag]
                  = Sha(c.Length_Low, c.Length_High, c.Message_Block_Index, c.Message_Block,
                        c.Message_Digest, flag, c.Corrupted)
           /\ [c EXCEPT !.Corrupted = flag]
                  = Sha(c.Length_Low, c.Length_High, c.Message_Block_Index, c.Message_Block,
                        c.Message_Digest, c.Computed, flag)
<1>1. PICK lo, hi, ix, mb, md, cd, cr :
          /\ lo = c.Length_Low /\ hi = c.Length_High /\ ix = c.Message_Block_Index /\ mb = c.Message_Block
          /\ md = c.Message_Digest /\ cd = c.Computed /\ cr = c.Corrupted
  OBVIOUS
<1>2. c = Sha(lo, hi, ix, mb, md, cd, cr)
  BY <1>1 DEF IsSha
<1>3. [c EXCEPT !.Computed = flag] = Sha(lo, hi, ix, mb, md, flag, cr)
  <2>1. PICK r : r = [c EXCEPT !.Computed = flag]
    OBVIOUS
  <2>2. r \in [Length_Low : {lo}, Length_High : {hi}, Message_Block_Index : {ix}, Message_Block : {mb},
               Message_Digest : {md}, Computed : {flag}, Corrupted : {cr}]
    BY <1>2, <2>1 DEF Sha
  <2>3. r = Sha(lo, hi, ix, mb, md, flag, cr)
    BY <2>2 DEF Sha
  <2> QED BY <2>1, <2>3
<1>4. [c EXCEPT !.Corrupted = flag] = Sha(lo, hi, ix, mb, md, cd, flag)
  <2>1. PICK r : r = [c EXCEPT !.Corrupted = flag]
    OBVIOUS
  <2>2. r \in [Length_Low : {lo}, Length_High : {hi}, Message_Block_Index : {ix}, Message_Block : {mb},
               Message_Digest : {md}, Computed : {cd}, Corrupted : {flag}]
    BY <1>2, <2>1 DEF Sha
  <2>3. r = Sha(lo, hi, ix, mb, md, cd, flag)
    BY <2>2 DEF Sha
  <2> QED BY <2>1, <2>3
<1> QED BY <1>1, <1>3, <1>4

\* The result of a context that was fed the message.
LEMMA ResultOfContext ==
    ASSUME NEW n \in Nat, NEW c, ShaOpen(Msg(0, n), c), 8 * n < Word1 * Word1
    PROVE  ShaDone(n, SHA1Result(c))
<1>1. Block \in Nat \ {0} /\ LengthSize \in Nat /\ Word1 \in Nat \ {0}
  BY Sizes, SizesFacts
<1>2. PICK D \in Seq(Byte) : D = Msg(0, n) /\ Len(D) = n
  BY MsgFacts
<1>3. ShaOpen(D, c)
  BY <1>2
<1>4. PICK z \in 1..Block, bits \in Nat :
         /\ (Len(D) + z + LengthSize) % Block = 0
         /\ bits = 8 * Len(D)
         /\ ShaFed(Cat(Cat(D, Padding(z)), Length(bits, LengthSize)), SHA1PadMessage(c))
         /\ SameCount(SHA1PadMessage(c), c)
  BY <1>3, PaddedContext
<1>5. PICK p : p = SHA1PadMessage(c)
  OBVIOUS
<1>6. (8 * n) % (Word1 * Word1) = 8 * n
  <2>1. Word1 * Word1 \in Nat \ {0}
    BY <1>1, SMT
  <2>2. PICK ww \in Nat \ {0} : ww = Word1 * Word1
    BY <2>1
  <2>3. PICK b \in Nat : b = 8 * n
    OBVIOUS
  <2>4. b \in 0..(ww - 1)
    BY <2>2, <2>3
  <2>5. b % ww = b
    BY <2>4, NoWrap
  <2> QED BY <2>2, <2>3, <2>5
<1>7. Padded(n, Word1) = Cat(Cat(D, Padding(z)), Length(bits, LengthSize))
  <2>1. (n + z + LengthSize) % Block = 0
    BY <1>2, <1>4
  <2>2. Padded(n, Word1) = Cat(Cat(Msg(0, n), Padding(z)), Length((8 * n) % (Word1 * Word1), LengthSize))
    BY <1>1, <2>1, PaddedFacts
  <2> QED BY <1>2, <1>4, <1>6, <2>2
<1>8. IsSha(p) /\ p.Message_Digest = Blocks(Padded(n, Word1)) /\ p.Corrupted = FALSE
  BY <1>3, <1>4, <1>5, <1>7 DEF ShaFed, Fed, Blocks, SameCount, ShaOpen
<1>9. PICK flag : flag = TRUE
  OBVIOUS
<1>10. PICK r : r = [p EXCEPT !.Computed = flag]
  OBVIOUS
<1>11. SHA1Result(c) = r
  BY <1>3, <1>5, <1>9, <1>10 DEF SHA1Result, ShaOpen
<1>12. r = Sha(p.Length_Low, p.Length_High, p.Message_Block_Index, p.Message_Block,
               p.Message_Digest, flag, p.Corrupted)
  BY <1>8, <1>10, FlagFields
<1>13. r.Message_Digest = p.Message_Digest /\ r.Computed = flag /\ r.Corrupted = p.Corrupted /\ IsSha(r)
  BY <1>12, ShaFields
<1> QED BY <1>8, <1>9, <1>11, <1>13 DEF ShaDone

LEMMA SpoiledByLateBytes ==
    ASSUME NEW c, IsSha(c), c.Computed \/ c.Corrupted, NEW data, Len(data) \in Nat
    PROVE  IF Len(data) = 0 THEN SHA1Input(c, data) = c ELSE ShaSpoiled(SHA1Input(c, data))
<1>1. CASE Len(data) = 0
  BY <1>1 DEF SHA1Input
<1>2. CASE Len(data) > 0
  <2>1. PICK flag : flag = TRUE
    OBVIOUS
  <2>2. PICK r : r = [c EXCEPT !.Corrupted = flag]
    OBVIOUS
  <2>3. SHA1Input(c, data) = r
    BY <1>2, <2>1, <2>2 DEF SHA1Input
  <2>4. r = Sha(c.Length_Low, c.Length_High, c.Message_Block_Index, c.Message_Block,
                c.Message_Digest, c.Computed, flag)
    BY <2>2, FlagFields
  <2>5. IsSha(r) /\ r.Corrupted = flag
    BY <2>4, ShaFields
  <2> QED BY <1>2, <2>1, <2>3, <2>5 DEF ShaSpoiled
<1> QED BY <1>1, <1>2

\* A context after SHA1Result: the digest of the message, or spoiled by its length or by late bytes.
ShaAtEnd(n, after, c) ==
    IF 8 * n < Word1 * Word1 /\ ~after THEN ShaDone(n, c) ELSE ShaSpoiled(c)

LEMMA EndFlags ==
    ASSUME NEW n, NEW after, NEW c, ShaAtEnd(n, after, c)
    PROVE  IsSha(c) /\ (c.Computed \/ c.Corrupted)
  BY DEF ShaAtEnd, ShaDone, ShaSpoiled

LEMMA ShaInitially == ShaAfter(0, SHA1Reset)
<1>1. Block \in Nat \ {0} /\ Word1 \in Nat \ {0}
  BY SizesFacts
<1>2. Word1 * Word1 \in Nat \ {0}
  BY <1>1, SMT
<1>3. PICK g : g = Garbage(Block) /\ IsBuffer(g, Block)
  BY <1>1, GarbageBuffer
<1>4. PICK c : c = SHA1Reset
  OBVIOUS
<1>5. PICK D \in Seq(Byte) : D = Msg(0, 0) /\ D = <<>>
  BY MsgFacts, EmptyMsg
<1>6. PICK zero, none, flag :
         zero = 0 /\ none = <<>> /\ flag = FALSE /\ c = Sha(zero, zero, zero, g, none, flag, flag)
  BY <1>3, <1>4 DEF SHA1Reset, Sha
<1>7. /\ c.Length_Low = zero /\ c.Length_High = zero /\ c.Message_Block_Index = zero /\ c.Message_Block = g
       /\ c.Message_Digest = none /\ c.Computed = flag /\ c.Corrupted = flag
       /\ IsSha(c)
  BY <1>6, ShaFields
<1>8. /\ c.Length_Low = 0 /\ c.Length_High = 0 /\ c.Message_Block_Index = 0 /\ c.Message_Block = g
      /\ c.Message_Digest = <<>> /\ c.Computed = FALSE /\ c.Corrupted = FALSE
      /\ IsSha(c)
  BY <1>6, <1>7
<1>9. Len(D) = 0
  BY <1>5
<1>10. Fed(D, Block, c.Message_Digest, c.Message_Block)
  BY <1>1, <1>3, <1>8, <1>5, FedNothing
<1>11. 0 % Block = 0
  BY <1>1, NoWrap
<1>12. ShaOpen(D, c)
  <2>1. Word1 * 0 + 0 = 0
    BY <1>1
  <2> QED BY <1>1, <1>8, <1>9, <1>10, <1>11, <2>1 DEF ShaOpen, ShaFed
<1>13. 8 * 0 < Word1 * Word1
  BY <1>2
<1> QED BY <1>4, <1>5, <1>12, <1>13, EmptyMsg DEF ShaAfter

LEMMA ResultOfMessage ==
    ASSUME NEW n \in Nat, NEW c, ShaAfter(n, c)
    PROVE  ShaAtEnd(n, FALSE, SHA1Result(c))
<1>1. CASE 8 * n < Word1 * Word1
  BY <1>1, ResultOfContext DEF ShaAfter, ShaAtEnd
<1>2. CASE ~(8 * n < Word1 * Word1)
  BY <1>2 DEF ShaAfter, ShaAtEnd, ShaSpoiled, SHA1Result
<1> QED BY <1>1, <1>2

Sha1Inv ==
    /\ sent \in Nat /\ closed \in BOOLEAN /\ late \in BOOLEAN
    /\ ~closed => late = FALSE /\ ShaAfter(sent, sha1)
    /\ closed => ShaAtEnd(sent, late, sha1)

LEMMA Sha1Step == Sha1Inv /\ [StreamsNext]_streams => Sha1Inv'
<1>. SUFFICES ASSUME Sha1Inv, [StreamsNext]_streams PROVE Sha1Inv'
  OBVIOUS
<1>1. /\ sent \in Nat /\ closed \in BOOLEAN /\ late \in BOOLEAN
      /\ ~closed => late = FALSE /\ ShaAfter(sent, sha1)
      /\ closed => ShaAtEnd(sent, late, sha1)
  BY DEF Sha1Inv
<1>2. CASE UNCHANGED <<sent, closed, late, sha1>>
  BY <1>1, <1>2 DEF Sha1Inv
<1>3. ASSUME NEW n \in 0..MaxPiece, Feed(n) PROVE Sha1Inv'
  <2>1. n \in Nat
    BY Sizes
  <2>2. ~closed /\ closed' = closed /\ late' = late /\ sent' = sent + n /\ sha1' = SHA1Input(sha1, Msg(sent, n))
    BY <1>3 DEF Feed
  <2>3. ShaAfter(sent + n, SHA1Input(sha1, Msg(sent, n)))
    BY <1>1, <2>1, <2>2, PieceOfMessage
  <2>4. ShaAfter(sent', sha1') /\ sent' \in Nat
    BY <1>1, <2>1, <2>2, <2>3
  <2> QED BY <1>1, <2>2, <2>4 DEF Sha1Inv
<1>4. CASE Close
  <2>1. ~closed /\ closed' = TRUE /\ late' = late /\ sent' = sent /\ sha1' = SHA1Result(sha1)
    BY <1>4 DEF Close
  <2>2. ShaAtEnd(sent, FALSE, SHA1Result(sha1))
    BY <1>1, <2>1, ResultOfMessage
  <2>3. ShaAtEnd(sent', late', sha1')
    BY <1>1, <2>1, <2>2
  <2> QED BY <1>1, <2>1, <2>3 DEF Sha1Inv
<1>5. ASSUME NEW n \in 0..MaxPiece, FeedLate(n) PROVE Sha1Inv'
  <2>1. n \in Nat
    BY Sizes
  <2>2. closed /\ ~late /\ closed' = closed /\ late' = (n > 0) /\ sent' = sent /\ sha1' = SHA1Input(sha1, Msg(sent, n))
    BY <1>5 DEF FeedLate
  <2>3. PICK P : P = Msg(sent, n) /\ Len(P) = n
    BY <1>1, <2>1, MsgFacts
  <2>4. IF n = 0 THEN SHA1Input(sha1, P) = sha1 ELSE ShaSpoiled(SHA1Input(sha1, P))
    <3>1. IsSha(sha1) /\ (sha1.Computed \/ sha1.Corrupted)
      BY <1>1, <2>2, EndFlags
    <3> QED BY <2>1, <2>3, <3>1, SpoiledByLateBytes
  <2>5. CASE n = 0
    <3>1. (n > 0) = FALSE
      BY <2>5
    <3>2. late' = FALSE
      BY <2>2, <3>1
    <3>3. sha1' = sha1
      BY <2>2, <2>3, <2>4, <2>5
    <3>4. late' = FALSE /\ sha1' = sha1
      BY <3>2, <3>3
    <3>5. ShaAtEnd(sent', late', sha1')
      BY <1>1, <2>2, <3>4
    <3> QED BY <1>1, <2>2, <3>4, <3>5 DEF Sha1Inv
  <2>6. CASE n > 0
    <3>1. (n > 0) = TRUE
      BY <2>6
    <3>2. late' = TRUE
      BY <2>2, <3>1
    <3>3. sha1' = SHA1Input(sha1, P) /\ ~(n = 0)
      BY <2>2, <2>3, <2>6
    <3>4. ShaSpoiled(SHA1Input(sha1, P))
      BY <2>4, <3>3
    <3>5. late' = TRUE /\ ShaSpoiled(sha1')
      BY <3>2, <3>3, <3>4
    <3>6. ShaAtEnd(sent', late', sha1')
      BY <3>5 DEF ShaAtEnd
    <3> QED BY <1>1, <2>2, <3>5, <3>6 DEF Sha1Inv
  <2> QED BY <2>1, <2>5, <2>6
<1>6. CASE ResultAgain
  <2>1. closed /\ closed' = closed /\ late' = late /\ sent' = sent /\ sha1' = SHA1Result(sha1)
    BY <1>6 DEF ResultAgain
  <2>2. sha1' = sha1
    BY <1>1, <2>1, EndFlags DEF SHA1Result
  <2> QED BY <1>1, <2>1, <2>2 DEF Sha1Inv
<1>7. CASE ResetAll
  <2>1. sent' = 0 /\ closed' = FALSE /\ late' = FALSE /\ sha1' = SHA1Reset
    BY <1>7 DEF ResetAll
  <2> QED BY <2>1, ShaInitially DEF Sha1Inv
<1> QED
  BY <1>2, <1>3, <1>4, <1>5, <1>6, <1>7 DEF StreamsNext, streams

\* SHA-1 compresses the blocks of the padded message, however it was cut and however often its result is
\* asked for, and refuses exactly the messages that its two words cannot count and the contexts that
\* were fed after the result. (SHA1Input, SHA1PadMessage, SHA1Result)
THEOREM Sha1Right == StreamsSpec => []Sha1IgnoresCuts
<1>1. StreamsInit => Sha1Inv
  <2>. SUFFICES ASSUME StreamsInit PROVE Sha1Inv
    OBVIOUS
  <2>1. sent = 0 /\ closed = FALSE /\ late = FALSE /\ sha1 = SHA1Reset
    BY DEF StreamsInit
  <2> QED BY <2>1, ShaInitially DEF Sha1Inv
<1>2. Sha1Inv => Sha1IgnoresCuts
  <2>. SUFFICES ASSUME Sha1Inv PROVE Sha1IgnoresCuts
    OBVIOUS
  <2>1. PICK ww : ww = Word1 * Word1
    OBVIOUS
  <2>2. PICK b : b = 8 * sent
    OBVIOUS
  <2>3. b \in Nat /\ ww \in Nat
    BY <2>1, <2>2, SizesFacts, SMT DEF Sha1Inv
  <2>4. b >= ww <=> ~(b < ww)
    BY <2>3
  <2>5. CASE ~closed
    <3>1. late = FALSE /\ (IF b < ww THEN sha1.Corrupted = FALSE ELSE sha1.Corrupted = TRUE)
      BY <2>1, <2>2, <2>5 DEF Sha1Inv, ShaAfter, ShaOpen, ShaSpoiled
    <3> QED BY <2>1, <2>2, <2>4, <2>5, <3>1 DEF Sha1IgnoresCuts
  <2>6. CASE closed
    <3>1. IF b < ww /\ ~late THEN sha1.Corrupted = FALSE /\ sha1.Message_Digest = Blocks(Padded(sent, Word1))
          ELSE sha1.Corrupted = TRUE
      BY <2>1, <2>2, <2>6 DEF Sha1Inv, ShaAtEnd, ShaDone, ShaSpoiled
    <3> QED BY <2>1, <2>2, <2>4, <2>6, <3>1 DEF Sha1IgnoresCuts
  <2> QED BY <2>5, <2>6
<1> QED BY <1>1, <1>2, Sha1Step, PTL DEF StreamsSpec
=============================================================================
