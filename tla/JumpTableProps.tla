--------------------------- MODULE JumpTableProps ---------------------------
(***************************************************************************)
(* What the pool of JumpTable.tla should guarantee.                        *)
(***************************************************************************)
EXTENDS JumpTable, Functions

\* Type correctness of every shared word and local; an index never leaves the
\* bitmap by more than the increment that ends a scan.
TypeOK ==
    /\ state \subseteq Bits
    /\ entry_avail \in 0 .. Word - 1
    /\ last_free_entry \in 1 .. Capacity + 1
    /\ next \in [Entries -> Entries \cup {NULL_INDEX}]
    /\ chains \in [Objects -> Seq(Entries)]
    /\ short \subseteq Objects
    /\ lost \in Nat
    /\ frees \in 0 .. MaxFrees
    /\ clobbered \in BOOLEAN
    /\ pc \in [Threads -> {"idle", "claim", "start", "probe", "cas", "hint",
                           "chain", "next", "freeload", "freecas", "freelast",
                           "freeavail", "freemin"}]
    /\ owner \in [Threads -> Objects \cup {NoObject}]
    /\ count \in [Threads -> Nat]
    /\ index \in [Threads -> 0 .. Capacity + 1]
    /\ expected \in [Threads -> SUBSET Bits]
    /\ entries \in [Threads -> Seq(Entries)]
    /\ next_index \in [Threads -> Entries \cup {NULL_INDEX}]
    /\ min_index \in [Threads -> 0 .. Capacity - 1]

-----------------------------------------------------------------------------
(* Until the first free *)

\* The hint and the scans leave no free entry behind: last_free_entry moves
\* past entries only once they are taken, although a failed compare-and-swap
\* skips one, scans start at different hints and end in any order.
NoGapBehindHint ==
    frees = 0 =>
      /\ \A e \in Entries : e < last_free_entry => e \in state
      /\ \A t \in Threads : pc[t] \in {"probe", "cas", "hint"} =>
           \A e \in Entries : e < index[t] => e \in state

\* A call comes back with fewer entries than it asked for only when all are
\* taken: two calls that pass the check of entry_avail together fill the pool.
ShortOnlyWhenFull == frees = 0 /\ short # {} => Entries \subseteq state

-----------------------------------------------------------------------------
(* As long as every free happened to clear its own bit only *)

\* What the call of t holds: the entries it acquired, or has still to free.
\* While a bit is cleared and not yet counted it may be taken again.
InHand(t) == IF pc[t] \in {"freelast", "freeavail"} /\ entries[t] # <<>>
               THEN Tail(entries[t]) ELSE entries[t]

\* No entry is in two chains, and each is marked as taken.
ChainsApart ==
    ~clobbered =>
      /\ \A o, p \in Objects : \A m \in DOMAIN chains[o], n \in DOMAIN chains[p] :
           chains[o][m] = chains[p][n] => o = p /\ m = n
      /\ \A t, u \in Threads : \A m \in DOMAIN InHand(t), n \in DOMAIN InHand(u) :
           InHand(t)[m] = InHand(u)[n] => t = u /\ m = n
      /\ \A t \in Threads, o \in Objects : Range(InHand(t)) \cap Range(chains[o]) = {}
      /\ \A o \in Objects : Range(chains[o]) \subseteq state
      /\ \A t \in Threads : Range(InHand(t)) \subseteq state

\* The links lead from the first entry of a chain through all of it and end,
\* whatever chains its entries were in before and in whatever order they were
\* freed; so free_entries and get_jumps meet each entry once.
ChainsLinked ==
    ~clobbered =>
      \A o \in Objects : \A n \in DOMAIN chains[o] :
        next[chains[o][n]] = IF n = Len(chains[o]) THEN NULL_INDEX
                                                   ELSE chains[o][n + 1]

=============================================================================
