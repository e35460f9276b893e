------------------------------ MODULE HashRing ------------------------------
(***************************************************************************)
(* HashRing.h over hash/hash_ring.cpp: consistent hashing of keys to named *)
(* nodes.  Each node has Replicas items; an item's number is the hash of   *)
(* the node's name and the item's index.  The numbers are chosen once and  *)
(* freely, a node's in ascending order as its items are alike:             *)
(* hash_ring_hash takes the length as an uint8_t, so that long names are   *)
(* hashed by a prefix, and equal numbers, of one node or of several, are   *)
(* nothing special.  The hash of a whole name, the key of the map _nodes,  *)
(* tells names apart.  Calls do not overlap: HashRing.h says it is not     *)
(* thread safe.                                                            *)
(***************************************************************************)
EXTENDS Integers, Sequences, SequencesExt, FiniteSets

CONSTANTS
    Names,     \* the names nodes may have
    Replicas,  \* numReplicas
    MaxNumber, \* numbers and keys are 0..MaxNumber (2^64 - 1)
    Count,     \* numItems holds 0..Count-1 (2^32)
    NoNode

ASSUME RingSizes ==
    /\ Replicas \in Nat \ {0} /\ MaxNumber \in Nat /\ NoNode \notin Names /\ IsFiniteSet(Names)
    /\ Count \in Nat /\ Count > Replicas * Cardinality(Names)

Numbers == 0..MaxNumber

VARIABLES
    hash,     \* the numbers of all items: it never changes
    ring,     \* FALSE iff _ring is the null pointer
    nodes,    \* the names in the list of nodes; nothing depends on their order
    items,    \* the items, NULLs left out
    numItems,
    _nodes,   \* the keys of the map in HashRing
    search,   \* the call of hash_ring_find_nodes, or what it returned until the ring changes
    spoiled   \* an allocation failed while a node was added: history

vars == <<hash, ring, nodes, items, numItems, _nodes, search, spoiled>>

\* The key a search began with, the number its loop stands at, how many nodes it wants, those found.
NoSearch == [start |-> 0, key |-> 0, want |-> 0, found |-> <<>>, running |-> FALSE]

\* hash_ring_hash of a name and an index, whatever the function.
Hashes == [Names -> {h \in [1..Replicas -> Numbers] : \A x, y \in 1..Replicas : x < y => h[x] <= h[y]}]

Init ==
    /\ hash \in Hashes
    /\ ring = TRUE
    /\ nodes = {} /\ items = <<>> /\ numItems = 0
    /\ _nodes = {}
    /\ search = NoSearch
    /\ spoiled = FALSE

Idle == ring /\ ~spoiled /\ ~search.running

-----------------------------------------------------------------------------
(* The ring.                                                               *)

\* HashRing::add_node asks the map first and enters the node last; HashRing::remove_node erases it
\* when hash_ring_remove_node succeeded.
Known(name) == name \in _nodes
Keep(name) == _nodes' = _nodes \cup {name}
Forget(name) == _nodes' = _nodes \ {name}

\* hash_ring_get_node
GetNode(name) == name \in nodes

ItemsOf(name) == [x \in 1..Replicas |-> [node |-> name, number |-> hash[name][x]]]

\* qsort with item_sort of the items that stand in the places `kept` of s; the NULLs in the others go
\* behind them and are cut off.  Ascending numbers; items of equal numbers end up in any order.
Before(s, order, i, j) ==
    \/ s[i].number < s[j].number
    \/ s[i].number = s[j].number /\ order[s[i].node] < order[s[j].node]
    \/ s[i] = s[j] /\ i < j
Place(s, kept, order, j) == Cardinality({i \in kept : Before(s, order, i, j)}) + 1
Sorted(s, kept, order) ==
    [k \in 1..Cardinality(kept) |-> s[CHOOSE j \in kept : Place(s, kept, order, j) = k]]

TieOrders == {f \in [Names -> 1..Cardinality(Names)] : \A a, b \in Names : f[a] = f[b] => a = b}

\* Mutant: new items are left behind the sorted ones.
AddUnsorted(name) ==
    /\ Idle
    /\ ~Known(name)
    /\ nodes' = nodes \cup {name}
    /\ items' = items \o ItemsOf(name)
    /\ numItems' = numItems + Replicas
    /\ Keep(name)
    /\ search' = NoSearch
    /\ UNCHANGED <<hash, ring, spoiled>>

\* hash_ring_add_node succeeds; a name that is known is refused and nothing changes.
AddNode(name) ==
    /\ Idle
    /\ ~Known(name)
    /\ ~GetNode(name)
    /\ nodes' = nodes \cup {name}
    /\ \E order \in TieOrders :
        items' = Sorted(items \o ItemsOf(name), 1..(Len(items) + Replicas), order)
    /\ numItems' = numItems + Replicas
    /\ Keep(name)
    /\ search' = NoSearch
    /\ UNCHANGED <<hash, ring, spoiled>>

Without(name) == {i \in DOMAIN items : items[i].node # name}

\* hash_ring_add_items cannot grow the array, and hash_ring_remove_node takes the node back: it
\* subtracts the node's items, which were never added.
AddNodeFails(name) ==
    /\ Idle
    /\ ~Known(name)
    /\ ~GetNode(name)
    /\ numItems' = (numItems - Replicas) % Count
    /\ spoiled' = TRUE /\ search' = NoSearch
    /\ UNCHANGED <<hash, ring, nodes, items, _nodes>>

\* Mutant: the items of a removed node stay.
RemoveNodeOnly(name) ==
    /\ Idle
    /\ GetNode(name)
    /\ nodes' = nodes \ {name}
    /\ Forget(name)
    /\ search' = NoSearch
    /\ UNCHANGED <<hash, ring, items, numItems, spoiled>>

RemoveNode(name) ==
    /\ Idle
    /\ GetNode(name)
    /\ nodes' = nodes \ {name}
    /\ \E order \in TieOrders : items' = Sorted(items, Without(name), order)
    /\ numItems' = numItems - Replicas
    /\ Forget(name)
    /\ search' = NoSearch
    /\ UNCHANGED <<hash, ring, spoiled>>

\* HashRing::clear: the ring is freed and nothing can be added or found until reset.
Clear ==
    /\ ring /\ ~search.running
    /\ ring' = FALSE
    /\ nodes' = {} /\ items' = <<>> /\ numItems' = 0
    /\ _nodes' = {}
    /\ spoiled' = FALSE
    /\ search' = NoSearch
    /\ UNCHANGED hash

\* HashRing::reset after clear: hash_ring_create.
Reset ==
    /\ ~ring
    /\ ring' = TRUE
    /\ UNCHANGED <<hash, nodes, items, numItems, _nodes, search, spoiled>>

-----------------------------------------------------------------------------
(* Looking up.                                                             *)

\* min and max of the bisection.
Bounds == (0..numItems) \X (-1..(numItems - 1))

\* Mutant: the search takes an item whose number is the key.
NextOrSameItem(num) ==
    LET bound[r \in Bounds] ==
            LET mid == (r[1] + r[2]) \div 2
            IN  IF r[1] > r[2] THEN r[1]
                ELSE IF items[mid + 1].number >= num THEN bound[<<r[1], mid - 1>>]
                ELSE bound[<<mid + 1, r[2]>>]
        index == bound[<<0, numItems - 1>>]
    IN  items[IF index = numItems THEN 1 ELSE index + 1]

\* hash_ring_find_next_highest_item, by bisection: the first item behind num, or the first of all.
NextHighestItem(num) ==
    LET bound[r \in Bounds] ==
            LET mid == (r[1] + r[2]) \div 2
            IN  IF r[1] > r[2] THEN r[1]
                ELSE IF items[mid + 1].number > num THEN bound[<<r[1], mid - 1>>]
                ELSE bound[<<mid + 1, r[2]>>]
        index == bound[<<0, numItems - 1>>]
    IN  items[IF index = numItems THEN 1 ELSE index + 1]

\* HashRing::find_node: the null pointer without a ring, without items, or for a node _nodes lacks.
FindNode(key) ==
    IF ~ring \/ numItems = 0 \/ NextHighestItem(key).node \notin _nodes THEN NoNode
    ELSE NextHighestItem(key).node

\* hash_ring_find_nodes, one turn of its loop a step.
FindNodes(key, num) ==
    /\ Idle
    /\ numItems > 0
    /\ search' = [start |-> key, key |-> key, found |-> <<>>, running |-> TRUE,
                  want |-> IF Cardinality(nodes) < num THEN Cardinality(nodes) ELSE num]
    /\ UNCHANGED <<hash, ring, nodes, items, numItems, _nodes, spoiled>>

\* A search for no node at all: the first turn fills nodes[0] of an array without entries, x is 1 and
\* never meets ret. What the program does then is not defined; here nothing follows.
Overrun == Len(search.found) > search.want

\* One turn finds an item; the walk goes on from the number `on`.
Turn(item, on) ==
    /\ search.running /\ ~Overrun
    /\ search' = IF Contains(search.found, item.node) THEN [search EXCEPT !.key = on]
                 ELSE [search EXCEPT !.key = on, !.found = Append(@, item.node),
                                     !.running = Len(search.found) + 1 # search.want]
    /\ UNCHANGED <<hash, ring, nodes, items, numItems, _nodes, spoiled>>

\* Mutant: the search goes on with the key it was given.
FindNextStay == LET item == NextHighestItem(search.key) IN Turn(item, search.key)

\* Mutant: the search goes on behind the number it found.
FindNextSkip == LET item == NextHighestItem(search.key) IN Turn(item, (item.number + 1) % (MaxNumber + 1))

FindNext == LET item == NextHighestItem(search.key) IN Turn(item, item.number)

-----------------------------------------------------------------------------
Next ==
    \/ \E name \in Names : AddNode(name) \/ AddNodeFails(name) \/ RemoveNode(name)
    \/ \E key \in Numbers, num \in 0..Cardinality(Names) : FindNodes(key, num)
    \/ FindNext
    \/ Clear
    \/ Reset

\* The loop of hash_ring_find_nodes is run by its caller until it ends.
Spec == Init /\ [][Next]_vars /\ WF_vars(FindNext)

-----------------------------------------------------------------------------
(* Properties.                                                             *)

Live == ring /\ ~spoiled

\* The array holds exactly the items of the nodes in the list, in ascending order, under a count
\* that agrees, and the map of HashRing knows the same nodes: add_node and remove_node keep a list,
\* an array, two counters and a map in step. (hash_ring_add_node, hash_ring_remove_node, HashRing.h)
RingWhole ==
    Live =>
        /\ nodes = _nodes
        /\ numItems = Len(items)
        /\ \A i \in 1..(Len(items) - 1) : items[i].number <= items[i + 1].number
        /\ \A n \in Names, k \in Numbers :
               Cardinality({i \in DOMAIN items : items[i] = [node |-> n, number |-> k]})
                   = IF n \in _nodes THEN Cardinality({x \in 1..Replicas : hash[n][x] = k}) ELSE 0

\* The numbers of the nodes in the ring, and the one a key belongs to: the next strictly greater
\* one, or the least if there is none.
Taken == {hash[n][x] : n \in _nodes, x \in 1..Replicas}
Successor(key) ==
    LET greater == {k \in Taken : k > key}
        from    == IF greater = {} THEN Taken ELSE greater
    IN  CHOOSE k \in from : \A l \in from : k <= l
HoldersOf(number) == {n \in _nodes : \E x \in 1..Replicas : hash[n][x] = number}

\* The bisection and the map find for every key a node that has an item at the key's successor on
\* the circle, and find no node only on an empty ring. (hash_ring_find_next_highest_item, find_node)
FindsSuccessor ==
    Live => \A key \in Numbers :
        IF _nodes = {} THEN FindNode(key) = NoNode ELSE FindNode(key) \in HoldersOf(Successor(key))

\* What consistent hashing is for: adding a node moves keys to it only, removing one moves its keys
\* only; where several nodes have the same number, a new sort may also swap them.
\* (HashRing::add_node, HashRing::remove_node)
KeysStay ==
    [][\A key \in Numbers :
          Live /\ Live' /\ _nodes # {} /\ _nodes' # {} /\ FindNode(key) # FindNode(key)' =>
              \/ FindNode(key)' \notin _nodes
              \/ FindNode(key) \notin _nodes'
              \/ Cardinality(HoldersOf(Successor(key))) > 1]_vars

\* The node of the first item with a number: the one the bisection can come upon there.
MetAt(number) ==
    {items[i].node : i \in {j \in DOMAIN items : /\ items[j].number = number
                                                /\ \A l \in 1..(j - 1) : items[l].number # number}}

\* How far clockwise from a key a number lies; the key's own number comes last.
Distance(key, number) == IF number > key THEN number - key ELSE MaxNumber + 1 - key + number

\* hash_ring_find_nodes finds the nodes that a walk from the key meets first, each once and in that
\* order, although every turn searches the whole array again, numbers may be equal and the walk may
\* come round: a node found is met at some number, and all nodes met nearer to the key were found
\* before it. A search for some node never writes more than it was asked for, and one that returned
\* has them all. ("Finds the set of num nodes", hash_ring.h:137; the loop of hash_ring.cpp:425-457)
FindsFirst ==
    /\ \A i \in DOMAIN search.found :
           LET before == {search.found[j] : j \in 1..(i - 1)}
           IN  /\ search.found[i] \notin before
               /\ \E k \in Numbers :
                      /\ search.found[i] \in MetAt(k)
                      /\ \A l \in Numbers :
                             Distance(search.start, l) < Distance(search.start, k) =>
                                 MetAt(l) \subseteq before
    /\ search.want > 0 => Len(search.found) <= search.want
    /\ ~search.running => Len(search.found) = search.want

\* A search for at least one node returns, when each node is the first item at one of its numbers at
\* least; a node all of whose items lie behind others of the same number is never met, and a search
\* for it runs for ever. (the loop of hash_ring.cpp:425-457)
AllMet == \A n \in _nodes : \E key \in Numbers : FindNode(key) = n
FindNodesReturns == search.running /\ search.want > 0 /\ AllMet ~> ~search.running
=============================================================================
