------------------------- MODULE FragmentTableProps -------------------------
(***************************************************************************)
(* What the index of FragmentTable.tla should guarantee.                   *)
(***************************************************************************)
EXTENDS FragmentTable, FiniteSetsExt

\* The entries from e on, in the order of their links: None after the last.
Walk(e) ==
    LET w[n \in 0 .. TailCapacity] ==
          IF n = 0 THEN e
          ELSE IF w[n - 1] = None \/ entry[w[n - 1]].next = NULL_INDEX THEN None
          ELSE Tail(entry[w[n - 1]].next)
    IN  w
Reachable(e) == {Walk(e)[n] : n \in 0 .. TailCapacity} \ {None}

\* get_entry(k): the first entry with the tag, from the head or from behind a
\* free head.
GetEntry(k) ==
    LET h     == HeadOf(k)
        start == IF entry[h].type # "free" THEN h
                 ELSE IF entry[h].next = NULL_INDEX THEN None
                 ELSE Tail(entry[h].next)
        w     == Walk(start)
        hits  == {n \in 0 .. TailCapacity : w[n] # None /\ entry[w[n]].tag = TagOf(k)}
    IN  IF hits = {} THEN None ELSE w[Min(hits)]

Pool == IF tail_first = NULL_INDEX THEN {} ELSE Reachable(Tail(tail_first))

ReservedKeys == {k \in Keys : slot[k] # None}
Running == {t \in Threads : call[t] # Idle}

\* The entry a call holds: the head or the tail it took until reserve_entry
\* returns, or the one it frees until that is back in the pool.
Hand(t) ==
    CASE call[t].pc \in {"settag", "settype", "clear", "data", "jumps", "free",
                         "next", "unlink", "cut", "swap", "push"} -> {call[t].at}
      [] call[t].pc \in {"popped", "append"} -> {Tail(call[t].tail)}
      [] OTHER -> {}

\* None of the situations the code does not cope with has arisen.
Calm == faults \cap {"exhausted", "aba", "overflow", "orphaned", "twice"} = {} /\ ghosts = {}

-----------------------------------------------------------------------------
\* Reserved entries whose jumps are their own.
Owners == {k \in ReservedKeys : entry[slot[k]].type = "object"
                                 /\ entry[slot[k]].jump_head # NULL_INDEX}

\* No entry belongs to two keys, to a key and a call, to two calls, or to one
\* of them and the pool, whatever calls on other chains take from the pool and
\* give back meanwhile; and no jump chain to two entries or to one and the
\* jump table, unless an entry kept the jumps of an earlier one.
EntriesApart ==
    Calm =>
      /\ "stale" \notin faults =>
           \A j, k \in Owners :
             /\ entry[slot[k]].jump_head \notin jumps
             /\ entry[slot[j]].jump_head = entry[slot[k]].jump_head => j = k
      /\ \A j, k \in ReservedKeys : slot[j] = slot[k] => j = k
      /\ \A t, u \in Threads : t # u => Hand(t) \cap Hand(u) = {}
      /\ \A t \in Threads, k \in ReservedKeys : slot[k] \notin Hand(t)
      /\ \A k \in ReservedKeys : slot[k] \notin Pool
      /\ \A t \in Threads : Hand(t) \cap Pool = {}

\* When no call runs, the pool is a list from tail_first to tail_last of
\* tail_avail tails, and no tail is lost: what the tests assert of tail_avail
\* once their threads have joined.
PoolWhole ==
    Calm /\ Running = {} =>
      /\ Cardinality(Pool) = tail_avail
      /\ tail_last \in {e[2] : e \in Pool}
      /\ entry[Tail(tail_last)].next = NULL_INDEX
      /\ tail_avail + Cardinality({slot[k] : k \in ReservedKeys} \cap Tails)
           = TailCapacity - 1

\* get_entry finds every key whose reservation returned and that nobody asked
\* to free, in every state a reader can see.
FindsReserved ==
    Calm => \A k \in ReservedKeys : /\ GetEntry(k) = slot[k]
                                    /\ entry[slot[k]].type \in {"object", "name"}

\* get_entry finds no key that is not reserved, once the calls on its chain
\* are over: neither in the head it had nor through a link left behind.
FindsNothingElse ==
    Calm => \A k \in Keys \ ReservedKeys :
      (\A t \in Running : HeadOf(call[t].key) # HeadOf(k)) => GetEntry(k) = None

=============================================================================
