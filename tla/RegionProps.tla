---------------------------- MODULE RegionProps ----------------------------
(***************************************************************************)
(* What the allocator of Region.tla should guarantee.                      *)
(***************************************************************************)
EXTENDS Region, Layout, Functions

\* The sum of the values of f, as the number of the units they are made of.
Units(f) == UNION {{x} \X (1 .. f[x]) : x \in DOMAIN f}
Total(f) == Cardinality(Units(f))

\* Type correctness of every shared word and local.
TypeOK ==
    /\ state \subseteq Bits
    /\ fragment_avail \in 0 .. Capacity
    /\ last_free_fragment \in Nat
    /\ time_table \in [first : Fragments, last : Fragments,
                       entry : [Fragments -> Keys \cup {NoKey}]]
    /\ objects \in [Keys -> Seq(Nat)]
    /\ lost \in Seq(Nat)
    /\ clobbered \in BOOLEAN
    /\ pc \in [Threads -> {"idle", "start", "load", "cas", "entry", "store",
                           "freeload", "freecas", "freelast", "freeavail"}]
    /\ op \in [Threads -> {"reserve", "write", "free"}]
    /\ key \in [Threads -> Keys \cup {NoKey}]
    /\ num \in [Threads -> Nat]
    /\ index \in [Threads -> Nat]
    /\ count \in [Threads -> Nat]
    /\ expected \in [Threads -> SUBSET Bits]
    /\ reserved \in [Threads -> Seq(Nat)]

-----------------------------------------------------------------------------
(* Filling a region *)

\* The fragments an unfinished reservation of t has collected.
InHand(t) == IF op[t] = "free" THEN <<>> ELSE reserved[t]

\* No fragment is delivered twice: neither to two objects or calls, nor twice
\* to one (reserve_fragments returns "indices of reserved fragments").
Exclusive ==
    /\ \A k, l \in Keys : \A i \in DOMAIN objects[k], j \in DOMAIN objects[l] :
         objects[k][i] = objects[l][j] => k = l /\ i = j
    /\ \A t, u \in Threads : \A i \in DOMAIN InHand(t), j \in DOMAIN InHand(u) :
         InHand(t)[i] = InHand(u)[j] => t = u /\ i = j
    /\ \A t \in Threads, k \in Keys :
         \A i \in DOMAIN InHand(t), j \in DOMAIN objects[k] :
           InHand(t)[i] # objects[k][j]

\* Every fragment delivered exists and its bit is set: the scan never gives
\* up, and never walks past the last fragment, on behalf of a call that
\* fragment_avail admitted.
DeliveredTaken ==
    /\ \A k \in Keys : \A i \in DOMAIN objects[k] :
         objects[k][i] \in Fragments \cap state
    /\ \A t \in Threads : \A i \in DOMAIN InHand(t) :
         InHand(t)[i] \in Fragments \cap state

\* What is written for one fragment delivered reaches neither the header and
\* the time table in front of the fragments nor a byte of another one, of the
\* same object or of another.
BytesApart ==
    LET at(k, i) == Offset(Capacity, objects[k][i])
    IN  \A k, l \in Keys : \A i \in DOMAIN objects[k], j \in DOMAIN objects[l] :
          /\ MemSize(Capacity) <= at(k, i)
          /\ at(k, i) + FragmentSize <= FileSize(Capacity)
          /\ \/ k = l /\ i = j
             \/ at(k, i) + FragmentSize <= at(l, j)
             \/ at(l, j) + FragmentSize <= at(k, i)

\* Scans from index 0 fill the region front to back: behind a scan every bit
\* is set, whatever the interleaving and although a failed compare-and-swap
\* skips its index.
NoGapBehindScan ==
    /\ \A i \in state : \A j \in 0 .. i : j \in state
    /\ \A t \in Threads : pc[t] \in {"load", "cas"} =>
         \A j \in 0 .. index[t] - 1 : j \in state

\* The counter and the bitmap agree once the fragments still owed to running
\* calls are counted.
CounterMatchesBitmap ==
    Cardinality(state) + Cardinality(Owed) = Capacity - fragment_avail

-----------------------------------------------------------------------------
(* Filling and freeing *)

\* fragment_avail never drifts: it, the fragments the running calls claimed or
\* are giving back, those delivered to objects, and those of calls that threw
\* make up the region.  So a free never meets "Fragments overflow", and the
\* counter is Capacity again once everything is freed.  And as long as every
\* free happened to clear its own bit only, no bit is orphaned: whoever frees
\* what, in whatever order, a set bit is that of one of those fragments.
Accounting ==
    /\ fragment_avail + Len(lost) + Total(num)
         + Total([k \in Keys |-> Len(objects[k])]) = Capacity
    /\ clobbered \/ \A i \in state :
         \/ \E k \in Keys : i \in Range(objects[k])
         \/ \E t \in Threads : i \in Range(reserved[t])
         \/ i \in Range(lost)

\* The most steps thread t still takes until its reservation has all its
\* fragments in hand.
StepsLeft(t) ==
    LET scan   == 2 * Capacity + 1
        toScan == num[t] - Len(reserved[t])
        probes == 2 * (Capacity - count[t])
    IN  CASE pc[t] = "start" -> toScan * scan
          [] pc[t] = "load"  -> (toScan - 1) * scan + probes
          [] pc[t] = "cas"   -> (toScan - 1) * scan + probes - 1
          [] OTHER           -> 0

\* The scans of a reservation are bounded: from the moment fragment_avail
\* admits the call until it holds its fragments, each of its steps brings
\* that end nearer, whatever the other threads do to the bitmap and the hint
\* meanwhile, because _acquire_free_fragment counts its probes and skips an
\* index whose compare-and-swap failed.  This is about the scans alone: the
\* loops of _update_fragment_avail before them and of reserve_entry behind
\* them may be sent back without bound.
ScansBounded ==
    [][\A t \in Threads :
         pc[t] \in {"start", "load", "cas"}
           => \/ UNCHANGED <<pc[t], num[t], reserved[t], count[t]>>
              \/ StepsLeft(t)' < StepsLeft(t)]_vars
=============================================================================
