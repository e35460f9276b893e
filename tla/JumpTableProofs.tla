--------------------------- MODULE JumpTableProofs ---------------------------
(***************************************************************************)
(* Proofs about the pool of JumpTable.tla, for any number of threads,      *)
(* entries, objects and bits per byte.                                     *)
(***************************************************************************)
EXTENDS JumpTableProps, SequenceTheorems, TLAPS

Reserving == {"idle", "claim", "start", "probe", "cas", "hint", "chain"}
Freeing   == {"next", "freeload", "freecas", "freelast", "freeavail"}

\* What the locals of a thread hold.
CallShape ==
    \A t \in Threads :
      /\ pc[t] \in {"claim", "start", "probe", "cas"} => count[t] >= 1
      /\ pc[t] \in Reserving \ {"idle"} => owner[t] \in Objects
      /\ pc[t] \in {"idle", "claim", "start"} => entries[t] = <<>>
      /\ pc[t] \in {"probe", "cas", "hint"} => index[t] >= 1
      /\ pc[t] = "cas" => index[t] < Capacity
      /\ pc[t] = "probe" /\ entries[t] # <<>> => index[t] <= Capacity
      /\ pc[t] = "hint" => index[t] <= Capacity
      /\ pc[t] \in Freeing => index[t] \in Entries
      /\ pc[t] \in Freeing \cup {"freemin"} => min_index[t] \in Entries

TypeInv == TypeOK /\ CallShape

-----------------------------------------------------------------------------
(* Types *)

LEMMA TypeInit == Init => TypeInv
<1> SUFFICES ASSUME Init PROVE TypeInv
  OBVIOUS
<1>1. TypeOK
  <2>1. /\ entry_avail \in 0 .. Word - 1 /\ last_free_entry \in 1 .. Capacity + 1
        /\ lost \in Nat /\ frees \in 0 .. MaxFrees
    BY JumpCapacityAssumption, JumpWordAssumption, MaxFreesAssumption DEF Init
  <2>2. /\ state \subseteq Bits /\ short \subseteq Objects
        /\ next \in [Entries -> Entries \cup {NULL_INDEX}]
    BY DEF Init
  <2>. <<>> \in Seq(Entries)
    OBVIOUS
  <2>3. /\ count \in [Threads -> Nat] /\ index \in [Threads -> 0 .. Capacity + 1]
        /\ min_index \in [Threads -> 0 .. Capacity - 1]
    BY JumpCapacityAssumption DEF Init
  <2>4. QED
    BY <2>1, <2>2, <2>3 DEF Init, TypeOK
<1>2. CallShape
  BY DEF Init, CallShape, Reserving, Freeing
<1>3. QED
  BY <1>1, <1>2 DEF TypeInv

\* entry_avail is a machine word.
LEMMA WordRange ==
    ASSUME NEW n \in Int
    PROVE  n % Word \in 0 .. Word - 1 /\ n % Word \in Nat
BY JumpWordAssumption, JumpCapacityAssumption

\* A call that ends leaves no trace in its locals.
LEMMA EndCallType ==
    ASSUME TypeInv, NEW t \in Threads, EndCall(t),
           state' \subseteq Bits, entry_avail' \in 0 .. Word - 1,
           last_free_entry' \in 1 .. Capacity + 1,
           next' \in [Entries -> Entries \cup {NULL_INDEX}],
           chains' \in [Objects -> Seq(Entries)], short' \subseteq Objects,
           lost' \in Nat, frees' \in 0 .. MaxFrees, clobbered' \in BOOLEAN
    PROVE  TypeInv'
<1>1. TypeOK'
  BY JumpCapacityAssumption DEF EndCall, Goto, TypeInv, TypeOK
<1>2. CallShape'
  BY DEF EndCall, Goto, TypeInv, TypeOK, CallShape, Reserving, Freeing
<1>3. QED
  BY <1>1, <1>2 DEF TypeInv

\* What Linked returns are links.
LEMMA LinkedType ==
    ASSUME NEW c \in Seq(Entries), next \in [Entries -> Entries \cup {NULL_INDEX}]
    PROVE  Linked(c) \in [Entries -> Entries \cup {NULL_INDEX}]
<1> SUFFICES ASSUME NEW e \in Entries PROVE Linked(c)[e] \in Entries \cup {NULL_INDEX}
  BY DEF Linked
<1>1. CASE \E n \in DOMAIN c : c[n] = e
  <2> DEFINE m == CHOOSE n \in DOMAIN c : c[n] = e
  <2>1. m \in DOMAIN c
    BY <1>1
  <2>2. Linked(c)[e] = IF m = Len(c) THEN NULL_INDEX ELSE c[m + 1]
    BY <1>1 DEF Linked
  <2> HIDE DEF m
  <2>3. m # Len(c) => c[m + 1] \in Entries
    BY <2>1
  <2>4. QED
    BY <2>2, <2>3
<1>2. CASE ~ \E n \in DOMAIN c : c[n] = e
  BY <1>2 DEF Linked
<1>3. QED
  BY <1>1, <1>2

LEMMA TypeStep == TypeInv /\ [Next]_vars => TypeInv'
<1> SUFFICES ASSUME TypeInv, [Next]_vars PROVE TypeInv'
  OBVIOUS
<1> USE JumpCapacityAssumption, JumpBucketAssumption, JumpWordAssumption, CountsAssumption
<1>1. CASE UNCHANGED vars
  BY <1>1 DEF vars, table, history, locals, TypeInv, TypeOK, CallShape, Reserving, Freeing
<1>2. ASSUME NEW t \in Threads, NEW o \in Objects, NEW n \in Counts,
             ReserveEntries(t, o, n) PROVE TypeInv'
  BY <1>2 DEF ReserveEntries, Goto, table, history, TypeInv, TypeOK, CallShape, Reserving, Freeing
<1>3. ASSUME NEW t \in Threads, Claim(t) PROVE TypeInv'
  <2>0. entry_avail - count[t] \in Int
    BY DEF TypeInv, TypeOK
  <2>1. entry_avail' \in 0 .. Word - 1
    BY <1>3, <2>0, WordRange DEF Claim
  <2>2. QED
    BY <1>3, <2>1 DEF Claim, Goto, history, TypeInv, TypeOK, CallShape, Reserving, Freeing
<1>4. ASSUME NEW t \in Threads, StartScan(t) PROVE TypeInv'
  <2>1. TypeOK'
    BY <1>4 DEF StartScan, Goto, table, history, TypeInv, TypeOK, CallShape
  <2>2. CallShape'
    BY <1>4 DEF StartScan, Goto, TypeInv, TypeOK, CallShape, Reserving, Freeing
  <2>3. QED
    BY <2>1, <2>2 DEF TypeInv
<1>5. ASSUME NEW t \in Threads, ProbeTaken(t) PROVE TypeInv'
  <2>1. TypeOK'
    BY <1>5 DEF ProbeTaken, Goto, table, history, TypeInv, TypeOK, CallShape
  <2>2. CallShape'
    BY <1>5 DEF ProbeTaken, Goto, TypeInv, TypeOK, CallShape, Reserving, Freeing
  <2>3. QED
    BY <2>1, <2>2 DEF TypeInv
<1>6. ASSUME NEW t \in Threads, ProbeFree(t) PROVE TypeInv'
  <2>1. TypeOK'
    BY <1>6 DEF ProbeFree, Goto, Load, table, history, TypeInv, TypeOK, CallShape
  <2>2. CallShape'
    BY <1>6 DEF ProbeFree, Goto, TypeInv, TypeOK, CallShape, Reserving, Freeing
  <2>3. QED
    BY <2>1, <2>2 DEF TypeInv
<1>7. ASSUME NEW t \in Threads, CasAcquire(t) PROVE TypeInv'
  <2>1. index[t] \in Entries /\ index[t] \in Bits /\ count[t] \in Nat \ {0}
    BY <1>7 DEF CasAcquire, TypeInv, TypeOK, CallShape, Entries, Bits
  <2>2. Append(entries[t], index[t]) \in Seq(Entries)
    BY <2>1 DEF TypeInv, TypeOK
  <2>3. TypeOK'
    <3>1. state' \subseteq Bits /\ expected' \in [Threads -> SUBSET Bits]
      BY <1>7, <2>1 DEF CasAcquire, Take, TypeInv, TypeOK
    <3>2. count' \in [Threads -> Nat]
      BY <1>7, <2>1 DEF CasAcquire, Take, TypeInv, TypeOK
    <3>3. index' \in [Threads -> 0 .. Capacity + 1]
      <4>1. index[t] + 1 \in 0 .. Capacity + 1
        BY <2>1 DEF Entries
      <4>2. index' = index \/ index' = [index EXCEPT ![t] = index[t] + 1]
        BY <1>7 DEF CasAcquire, Take
      <4>3. QED
        BY <4>1, <4>2 DEF TypeInv, TypeOK
    <3>4. QED
      BY <1>7, <2>2, <3>1, <3>2, <3>3 DEF CasAcquire, Take, Goto, history, TypeInv, TypeOK
  <2>4. CallShape'
    <3>1. index[t] >= 1 /\ index[t] < Capacity /\ owner[t] \in Objects
      BY <1>7 DEF CasAcquire, TypeInv, CallShape, Reserving
    <3>2. ASSUME NEW u \in Threads, u # t
          PROVE  /\ pc'[u] = pc[u] /\ count'[u] = count[u] /\ index'[u] = index[u]
                 /\ owner'[u] = owner[u] /\ entries'[u] = entries[u]
                 /\ min_index'[u] = min_index[u]
      BY <1>7, <3>2 DEF CasAcquire, Take, Goto, TypeInv, TypeOK
    <3>3. /\ pc'[t] = IF count[t] = 1 THEN "hint" ELSE "probe"
          /\ count'[t] = count[t] - 1
          /\ index'[t] = IF count[t] = 1 THEN index[t] ELSE index[t] + 1
          /\ owner'[t] = owner[t]
      BY <1>7 DEF CasAcquire, Take, Goto, TypeInv, TypeOK
    <3>4. count[t] \in Nat \ {0} /\ index[t] \in Nat
      BY <2>1 DEF Entries
    <3>5. QED
      BY <3>1, <3>2, <3>3, <3>4 DEF TypeInv, CallShape, Reserving, Freeing
  <2>5. QED
    BY <2>3, <2>4 DEF TypeInv
<1>8. ASSUME NEW t \in Threads, CasFail(t) PROVE TypeInv'
  <2>1. TypeOK'
    BY <1>8 DEF CasFail, Goto, table, history, TypeInv, TypeOK, CallShape
  <2>2. CallShape'
    BY <1>8 DEF CasFail, Goto, TypeInv, TypeOK, CallShape, Reserving, Freeing
  <2>3. QED
    BY <2>1, <2>2 DEF TypeInv
<1>9. ASSUME NEW t \in Threads, ScanThrows(t) PROVE TypeInv'
  <2>0. lost + count[t] \in Int
    BY DEF TypeInv, TypeOK
  <2>1. lost' \in Nat
    BY <1>9, <2>0, WordRange DEF ScanThrows
  <2>2. QED
    <3>1. EndCall(t) /\ UNCHANGED <<state, entry_avail, last_free_entry, next,
                                    chains, short, frees, clobbered>>
      BY <1>9 DEF ScanThrows, table
    <3>2. QED
      BY <2>1, <3>1, EndCallType DEF TypeInv, TypeOK
<1>10. ASSUME NEW t \in Threads, ScanShort(t) PROVE TypeInv'
  <2>0. lost + count[t] \in Int
    BY DEF TypeInv, TypeOK
  <2>1. lost' \in Nat
    BY <1>10, <2>0, WordRange DEF ScanShort
  <2>2. owner[t] \in Objects
    BY <1>10 DEF ScanShort, TypeInv, CallShape, Reserving
  <2>3. TypeOK'
    BY <1>10, <2>1, <2>2 DEF ScanShort, Goto, table, TypeInv, TypeOK
  <2>4. CallShape'
    BY <1>10, <2>2 DEF ScanShort, Goto, TypeInv, TypeOK, CallShape, Reserving, Freeing
  <2>5. QED
    BY <2>3, <2>4 DEF TypeInv
<1>11. ASSUME NEW t \in Threads, UpdateHint(t) PROVE TypeInv'
  <2>1. TypeOK'
    BY <1>11 DEF UpdateHint, Goto, history, TypeInv, TypeOK, CallShape
  <2>2. CallShape'
    BY <1>11 DEF UpdateHint, Goto, TypeInv, TypeOK, CallShape, Reserving, Freeing
  <2>3. QED
    BY <2>1, <2>2 DEF TypeInv
<1>12. ASSUME NEW t \in Threads, ChainEntries(t) PROVE TypeInv'
  <2>1. next' \in [Entries -> Entries \cup {NULL_INDEX}]
    BY <1>12, LinkedType DEF ChainEntries, TypeInv, TypeOK
  <2>2. QED
    BY <1>12, <2>1, EndCallType DEF ChainEntries, TypeInv, TypeOK
<1>13. ASSUME NEW t \in Threads, NEW o \in Objects, FreeEntries(t, o) PROVE TypeInv'
  <2>1. Head(chains[o]) \in Entries
    BY <1>13 DEF FreeEntries, TypeInv, TypeOK
  <2>2. TypeOK'
    BY <1>13, <2>1, MaxFreesAssumption
       DEF FreeEntries, Goto, table, TypeInv, TypeOK, Entries
  <2>3. CallShape'
    BY <1>13, <2>1
       DEF FreeEntries, Goto, TypeInv, TypeOK, CallShape, Reserving, Freeing
  <2>4. QED
    BY <2>2, <2>3 DEF TypeInv
<1>14. ASSUME NEW t \in Threads, ReadNext(t) PROVE TypeInv'
  <2>1. TypeOK'
    BY <1>14 DEF ReadNext, Goto, table, history, TypeInv, TypeOK, CallShape, Freeing, Entries
  <2>2. CallShape'
    BY <1>14 DEF ReadNext, Goto, TypeInv, TypeOK, CallShape, Reserving, Freeing, Entries
  <2>3. QED
    BY <2>1, <2>2 DEF TypeInv
<1>15. ASSUME NEW t \in Threads, FreeLoad(t) PROVE TypeInv'
  <2>1. TypeOK'
    <3>1. expected' \in [Threads -> SUBSET Bits]
      <4>1. Load(index[t]) \in SUBSET Bits
        BY DEF Load, TypeInv, TypeOK
      <4>2. expected' = expected \/ expected' = [expected EXCEPT ![t] = Load(index[t])]
        BY <1>15 DEF FreeLoad
      <4>3. QED
        BY <4>1, <4>2 DEF TypeInv, TypeOK
    <3>2. QED
      BY <1>15, <3>1 DEF FreeLoad, Goto, table, history, TypeInv, TypeOK
  <2>2. CallShape'
    BY <1>15 DEF FreeLoad, Goto, TypeInv, TypeOK, CallShape, Reserving, Freeing
  <2>3. QED
    BY <2>1, <2>2 DEF TypeInv
<1>16. ASSUME NEW t \in Threads, FreeCas(t) PROVE TypeInv'
  <2>1. state' \subseteq Bits /\ clobbered' \in BOOLEAN
    BY <1>16 DEF FreeCas, FreeStore, Bucket, TypeInv, TypeOK
  <2>2. TypeOK'
    BY <1>16, <2>1 DEF FreeCas, Goto, TypeInv, TypeOK
  <2>3. CallShape'
    BY <1>16 DEF FreeCas, Goto, TypeInv, TypeOK, CallShape, Reserving, Freeing
  <2>4. QED
    BY <2>2, <2>3 DEF TypeInv
<1>17. ASSUME NEW t \in Threads, FreeLast(t) PROVE TypeInv'
  BY <1>17 DEF FreeLast, Goto, history, TypeInv, TypeOK, CallShape, Reserving, Freeing, Entries
<1>18. ASSUME NEW t \in Threads, FreeAvail(t) PROVE TypeInv'
  <2>0. entry_avail + 1 \in Int
    BY DEF TypeInv, TypeOK
  <2>1. entry_avail' \in 0 .. Word - 1
    BY <1>18, <2>0, WordRange DEF FreeAvail
  <2>2. (IF entries[t] = <<>> THEN entries[t] ELSE Tail(entries[t])) \in Seq(Entries)
    BY DEF TypeInv, TypeOK
  <2>3. TypeOK'
    <3>1. next_index[t] \in 0 .. Capacity + 1
      BY DEF TypeInv, TypeOK, Entries, NULL_INDEX
    <3>2. QED
      BY <1>18, <2>1, <2>2, <3>1 DEF FreeAvail, Goto, history, TypeInv, TypeOK
  <2>4. CallShape'
    BY <1>18 DEF FreeAvail, Goto, TypeInv, TypeOK, CallShape, Reserving, Freeing
  <2>5. QED
    BY <2>3, <2>4 DEF TypeInv
<1>19. ASSUME NEW t \in Threads, FreeMin(t) PROVE TypeInv'
  <2>1. last_free_entry' \in 1 .. Capacity + 1
    BY <1>19 DEF FreeMin, TypeInv, CallShape, Entries
  <2>2. QED
    BY <1>19, <2>1, EndCallType DEF FreeMin, history, TypeInv, TypeOK
<1>20. ASSUME NEW t \in Threads, NEW n \in Counts, ReserveRefused(t, n) PROVE TypeInv'
  BY <1>20, <1>1 DEF ReserveRefused
<1>21. QED
  BY <1>1, <1>2, <1>3, <1>4, <1>5, <1>6, <1>7, <1>8, <1>9, <1>10, <1>11, <1>12,
     <1>13, <1>14, <1>15, <1>16, <1>17, <1>18, <1>19, <1>20 DEF Next, Reserve, Free

\* A scan at its compare-and-swap is at an entry.
LEMMA CasIndex ==
    ASSUME TypeInv, NEW t \in Threads, pc[t] = "cas"
    PROVE  index[t] \in Entries
<1>1. index[t] \in 0 .. Capacity + 1 /\ index[t] >= 1 /\ index[t] < Capacity
  BY DEF TypeInv, TypeOK, CallShape
<1>2. QED
  BY <1>1, JumpCapacityAssumption DEF Entries

-----------------------------------------------------------------------------
(* Until the first free: the pool fills from the front.  A scan at index i   *)
(* knows the entries before i taken, so the bits other calls set in its byte *)
(* since it loaded it lie at i or behind; as the bitmap has no gap, bit i is *)
(* set too whenever the compare-and-swap fails, and may be skipped.          *)

FirstPhase ==
    /\ \A t \in Threads : pc[t] \in Reserving
    /\ state \subseteq Entries
    /\ \A e \in state, d \in Entries : d < e => d \in state
    /\ \A t \in Threads : pc[t] = "cas" =>
         /\ index[t] \notin expected[t]
         /\ expected[t] \subseteq Load(index[t])
         /\ \A e \in Entries \cap Bucket(index[t]) : e < index[t] => e \in expected[t]
    /\ \A t \in Threads : pc[t] = "hint" =>
         \A e \in Entries : e <= index[t] => e \in state

FirstInv == /\ TypeInv
            /\ frees = 0 => FirstPhase
            /\ NoGapBehindHint
            /\ ShortOnlyWhenFull

LEMMA FirstInit == Init => FirstInv
BY TypeInit DEF Init, FirstInv, FirstPhase, Reserving, NoGapBehindHint,
   ShortOnlyWhenFull, TypeInv, TypeOK, Entries

\* A step of t that changes neither the bitmap nor the hint, and after which t
\* is not in a scan.
LEMMA QuietStep ==
    ASSUME FirstInv, frees = 0, TypeInv', NEW t \in Threads,
           UNCHANGED <<state, last_free_entry, short, frees>>,
           pc'[t] \in Reserving \ {"probe", "cas", "hint"},
           \A u \in Threads \ {t} : /\ pc'[u] = pc[u] /\ index'[u] = index[u]
                                    /\ expected'[u] = expected[u]
    PROVE  FirstInv'
<1>1. FirstPhase'
  <2>1. \A u \in Threads : pc'[u] \in {"cas", "hint"} =>
          /\ u # t /\ pc'[u] = pc[u] /\ index'[u] = index[u] /\ expected'[u] = expected[u]
    OBVIOUS
  <2>2. \A u \in Threads : pc'[u] \in Reserving
    BY DEF FirstInv, FirstPhase
  <2>3. QED
    BY <2>1, <2>2 DEF FirstInv, FirstPhase, Load
<1>2. NoGapBehindHint'
  BY DEF FirstInv, NoGapBehindHint
<1>3. ShortOnlyWhenFull'
  BY DEF FirstInv, ShortOnlyWhenFull
<1>4. QED
  BY <1>1, <1>2, <1>3 DEF FirstInv

\* The entry whose byte changed is taken.
LEMMA FailedCasTaken ==
    ASSUME FirstInv, frees = 0, NEW t \in Threads, pc[t] = "cas",
           Load(index[t]) # expected[t]
    PROVE  index[t] \in state
<1>1. PICK e \in Load(index[t]) : e \notin expected[t]
  BY DEF FirstInv, FirstPhase
<1>2. e \in state /\ e \in Entries \cap Bucket(index[t])
  BY <1>1 DEF FirstInv, FirstPhase, Load
<1>3. index[t] \in Entries
  BY CasIndex DEF FirstInv
<1>4. ~(e < index[t])
  BY <1>1, <1>2 DEF FirstInv, FirstPhase
<1>5. index[t] < e \/ index[t] = e
  BY <1>2, <1>3, <1>4, JumpCapacityAssumption DEF Entries
<1>6. QED
  BY <1>2, <1>3, <1>5 DEF FirstInv, FirstPhase

\* A scan that finds its entry taken, or loses it, leaves no gap behind.
LEMMA MoveOn ==
    ASSUME FirstInv, frees = 0, TypeInv', NEW t \in Threads,
           pc[t] \in {"probe", "cas"}, index[t] \in state,
           UNCHANGED <<state, last_free_entry, short, frees>>,
           pc'[t] = "probe", index'[t] = index[t] + 1,
           \A u \in Threads \ {t} : /\ pc'[u] = pc[u] /\ index'[u] = index[u]
                                    /\ expected'[u] = expected[u]
    PROVE  FirstInv'
<1>1. \A u \in Threads : IF u = t THEN pc'[u] = "probe" /\ index'[u] = index[u] + 1
                         ELSE pc'[u] = pc[u] /\ index'[u] = index[u]
  OBVIOUS
<1>2. FirstPhase'
  <2>1. \A u \in Threads : pc'[u] \in {"cas", "hint"} =>
          /\ pc'[u] = pc[u] /\ index'[u] = index[u] /\ expected'[u] = expected[u]
    BY <1>1
  <2>2. \A u \in Threads : pc'[u] \in Reserving
    BY <1>1 DEF FirstInv, FirstPhase, Reserving
  <2>3. QED
    BY <2>1, <2>2 DEF FirstInv, FirstPhase, Load
<1>3. NoGapBehindHint'
  <2>1. \A e \in Entries : e < index[t] + 1 => e \in state
    <3>1. index[t] \in Nat
      BY JumpCapacityAssumption DEF FirstInv, TypeInv, TypeOK
    <3>2. \A e \in Entries : e < index[t] => e \in state
      BY DEF FirstInv, NoGapBehindHint
    <3>3. QED
      BY <3>1, <3>2, JumpCapacityAssumption DEF Entries
  <2>2. QED
    BY <1>1, <2>1 DEF FirstInv, NoGapBehindHint
<1>4. QED
  BY <1>2, <1>3 DEF FirstInv, ShortOnlyWhenFull

LEMMA ProbeFreeFirst ==
    ASSUME FirstInv, frees = 0, TypeInv', NEW t \in Threads, ProbeFree(t)
    PROVE  FirstInv'
<1>1. \A u \in Threads :
        /\ index'[u] = index[u]
        /\ IF u = t THEN pc'[u] = "cas" /\ expected'[u] = Load(index[u])
           ELSE pc'[u] = pc[u] /\ expected'[u] = expected[u]
  BY DEF ProbeFree, Goto, FirstInv, TypeInv, TypeOK
<1>2. UNCHANGED <<state, last_free_entry, short, frees>>
  BY DEF ProbeFree, table, history
<1>3. FirstPhase'
  <2>1. \A e \in Entries \cap Bucket(index[t]) : e < index[t] => e \in Load(index[t])
    BY DEF ProbeFree, FirstInv, NoGapBehindHint, Load
  <2>2. index[t] \notin Load(index[t])
    BY DEF ProbeFree, Load
  <2>3. \A u \in Threads : pc'[u] \in Reserving
    BY <1>1 DEF FirstInv, FirstPhase, Reserving
  <2>4. \A u \in Threads : pc'[u] = "cas" =>
          /\ index'[u] \notin expected'[u]
          /\ expected'[u] \subseteq Load(index[u])
          /\ \A e \in Entries \cap Bucket(index[u]) : e < index[u] => e \in expected'[u]
    BY <1>1, <2>1, <2>2 DEF FirstInv, FirstPhase
  <2>5. \A u \in Threads : pc'[u] = "hint" => pc[u] = "hint"
    BY <1>1
  <2>6. QED
    BY <1>1, <1>2, <2>3, <2>4, <2>5 DEF FirstInv, FirstPhase, Load
<1>4. NoGapBehindHint'
  <2>1. \A u \in Threads : pc'[u] \in {"probe", "cas", "hint"} => pc[u] \in {"probe", "cas", "hint"}
    BY <1>1 DEF ProbeFree
  <2>2. QED
    BY <1>1, <1>2, <2>1 DEF FirstInv, NoGapBehindHint
<1>5. QED
  BY <1>2, <1>3, <1>4 DEF FirstInv, ShortOnlyWhenFull

LEMMA CasAcquireFirst ==
    ASSUME FirstInv, frees = 0, TypeInv', NEW t \in Threads, CasAcquire(t)
    PROVE  FirstInv'
<1> DEFINE i == index[t]
<1>1. i \in Entries /\ pc[t] = "cas"
  BY CasIndex DEF CasAcquire, FirstInv
<1>2. /\ state' = state \cup {i}
      /\ UNCHANGED <<last_free_entry, short, frees>>
  BY DEF CasAcquire, Take, history
<1>3. \A u \in Threads :
        IF u = t THEN \/ pc'[u] = "hint" /\ index'[u] = i
                      \/ pc'[u] = "probe" /\ index'[u] = i + 1
        ELSE pc'[u] = pc[u] /\ index'[u] = index[u] /\ expected'[u] = expected[u]
  <2>1. \/ pc' = [pc EXCEPT ![t] = "hint"] /\ index' = index
        \/ pc' = [pc EXCEPT ![t] = "probe"] /\ index' = [index EXCEPT ![t] = i + 1]
    BY DEF CasAcquire, Take, Goto
  <2>2. expected' = [expected EXCEPT ![t] = {}]
    BY DEF CasAcquire, Take
  <2>3. QED
    BY <2>1, <2>2 DEF FirstInv, TypeInv, TypeOK
<1>4. \A e \in Entries : e < i => e \in state
  BY <1>1 DEF FirstInv, NoGapBehindHint
<1>5. \A e \in Entries : e <= i => e \in state'
  BY <1>1, <1>2, <1>4, JumpCapacityAssumption DEF Entries
<1> HIDE DEF i
<1>6. FirstPhase'
  <2>1. \A u \in Threads : pc'[u] \in Reserving
    BY <1>3 DEF FirstInv, FirstPhase, Reserving
  <2>2. \A e \in state', d \in Entries : d < e => d \in state'
    BY <1>1, <1>2, <1>4 DEF FirstInv, FirstPhase
  <2>3. \A u \in Threads : pc'[u] = "cas" =>
          /\ index'[u] \notin expected'[u]
          /\ expected'[u] \subseteq state' \cap Bucket(index'[u])
          /\ \A e \in Entries \cap Bucket(index'[u]) : e < index'[u] => e \in expected'[u]
    <3> SUFFICES ASSUME NEW u \in Threads, pc'[u] = "cas"
                 PROVE  /\ index'[u] \notin expected'[u]
                        /\ expected'[u] \subseteq state' \cap Bucket(index'[u])
                        /\ \A e \in Entries \cap Bucket(index'[u]) :
                             e < index'[u] => e \in expected'[u]
      OBVIOUS
    <3>1. pc[u] = "cas" /\ index'[u] = index[u] /\ expected'[u] = expected[u]
      BY <1>3
    <3>2. QED
      BY <1>2, <3>1 DEF FirstInv, FirstPhase, Load
  <2>4. \A u \in Threads : pc'[u] = "hint" =>
          \A e \in Entries : e <= index'[u] => e \in state'
    BY <1>2, <1>3, <1>5 DEF FirstInv, FirstPhase
  <2>5. state' \subseteq Entries
    BY <1>1, <1>2 DEF FirstInv, FirstPhase
  <2>6. QED
    BY <2>1, <2>2, <2>3, <2>4, <2>5 DEF FirstPhase, Load
<1>7. NoGapBehindHint'
  <2>1. \A e \in Entries : e < i + 1 => e \in state'
    BY <1>1, <1>5, JumpCapacityAssumption DEF Entries
  <2>2. ASSUME NEW u \in Threads, pc'[u] \in {"probe", "cas", "hint"}, NEW e \in Entries,
               e < index'[u]
        PROVE  e \in state'
    <3>1. CASE u = t
      BY <1>1, <1>2, <1>3, <1>4, <2>1, <2>2, <3>1
    <3>2. CASE u # t
      BY <1>2, <1>3, <2>2, <3>2 DEF FirstInv, NoGapBehindHint
    <3>3. QED
      BY <3>1, <3>2
  <2>3. QED
    BY <1>2, <2>2 DEF FirstInv, NoGapBehindHint
<1>8. QED
  BY <1>2, <1>6, <1>7 DEF FirstInv, ShortOnlyWhenFull

LEMMA ScanShortFirst ==
    ASSUME FirstInv, frees = 0, TypeInv', NEW t \in Threads, ScanShort(t)
    PROVE  FirstInv'
<1>1. \A u \in Threads :
        /\ index'[u] = index[u] /\ expected'[u] = expected[u]
        /\ pc'[u] = IF u = t THEN "hint" ELSE pc[u]
  BY DEF ScanShort, Goto, FirstInv, TypeInv, TypeOK
<1>2. UNCHANGED <<state, last_free_entry, frees>>
  BY DEF ScanShort, table
<1>3. \A e \in Entries : e < index[t] /\ e <= index[t]
  <2>1. index[t] \in 0 .. Capacity + 1 /\ index[t] >= Capacity
    BY DEF ScanShort, FirstInv, TypeInv, TypeOK
  <2>2. QED
    BY <2>1, JumpCapacityAssumption DEF Entries
<1>4. Entries \subseteq state
  BY <1>3 DEF ScanShort, FirstInv, NoGapBehindHint
<1>5. FirstPhase'
  <2>1. \A u \in Threads : pc'[u] \in Reserving
    BY <1>1 DEF FirstInv, FirstPhase, Reserving
  <2>2. \A u \in Threads : pc'[u] = "cas" => pc[u] = "cas"
    BY <1>1
  <2>3. QED
    BY <1>1, <1>2, <1>4, <2>1, <2>2 DEF FirstInv, FirstPhase, Load
<1>6. NoGapBehindHint' /\ ShortOnlyWhenFull'
  BY <1>2, <1>4 DEF NoGapBehindHint, ShortOnlyWhenFull
<1>7. QED
  BY <1>5, <1>6 DEF FirstInv

\* The hint moves behind the last entry taken.
LEMMA UpdateHintFirst ==
    ASSUME FirstInv, frees = 0, TypeInv', NEW t \in Threads, UpdateHint(t)
    PROVE  FirstInv'
<1>1. \A u \in Threads :
        /\ index'[u] = index[u] /\ expected'[u] = expected[u]
        /\ pc'[u] = IF u = t THEN "chain" ELSE pc[u]
  BY DEF UpdateHint, Goto, FirstInv, TypeInv, TypeOK
<1>2. UNCHANGED <<state, short, frees>>
  BY DEF UpdateHint, history
<1>3. FirstPhase'
  <2>1. \A u \in Threads : pc'[u] \in Reserving
    BY <1>1 DEF FirstInv, FirstPhase, Reserving
  <2>2. \A u \in Threads : pc'[u] \in {"cas", "hint"} => pc'[u] = pc[u]
    BY <1>1
  <2>3. QED
    BY <1>1, <1>2, <2>1, <2>2 DEF FirstInv, FirstPhase, Load
<1>4. NoGapBehindHint'
  <2>1. \A e \in Entries : e < last_free_entry' => e <= index[t]
    BY DEF UpdateHint, FirstInv, TypeInv, TypeOK, Entries
  <2>2. \A e \in Entries : e < last_free_entry' => e \in state
    BY <2>1 DEF UpdateHint, FirstInv, FirstPhase
  <2>3. \A u \in Threads : pc'[u] \in {"probe", "cas", "hint"} => pc'[u] = pc[u]
    BY <1>1
  <2>4. QED
    BY <1>1, <1>2, <2>2, <2>3 DEF FirstInv, NoGapBehindHint
<1>5. QED
  BY <1>2, <1>3, <1>4 DEF FirstInv, ShortOnlyWhenFull

LEMMA StartScanFirst ==
    ASSUME FirstInv, frees = 0, TypeInv', NEW t \in Threads, StartScan(t)
    PROVE  FirstInv'
<1>1. \A u \in Threads :
        /\ expected'[u] = expected[u]
        /\ IF u = t THEN pc'[u] = "probe" /\ index'[u] = last_free_entry
           ELSE pc'[u] = pc[u] /\ index'[u] = index[u]
  BY DEF StartScan, Goto, FirstInv, TypeInv, TypeOK
<1>2. UNCHANGED <<state, last_free_entry, short, frees>>
  BY DEF StartScan, table, history
<1>3. FirstPhase'
  <2>1. \A u \in Threads : pc'[u] \in Reserving
    BY <1>1 DEF FirstInv, FirstPhase, Reserving
  <2>2. \A u \in Threads : pc'[u] \in {"cas", "hint"} =>
          pc'[u] = pc[u] /\ index'[u] = index[u]
    BY <1>1
  <2>3. QED
    BY <1>1, <1>2, <2>1, <2>2 DEF FirstInv, FirstPhase, Load
<1>4. NoGapBehindHint'
  BY <1>1, <1>2 DEF FirstInv, NoGapBehindHint
<1>5. QED
  BY <1>2, <1>3, <1>4 DEF FirstInv, ShortOnlyWhenFull

LEMMA FirstStep == FirstInv /\ [Next]_vars => FirstInv'
<1> SUFFICES ASSUME FirstInv, [Next]_vars PROVE FirstInv'
  OBVIOUS
<1>1. TypeInv'
  BY TypeStep DEF FirstInv
<1>2. frees \in Nat /\ frees' \in Nat
  BY <1>1, MaxFreesAssumption DEF FirstInv, TypeInv, TypeOK
<1>3. CASE frees' # 0
  BY <1>1, <1>3 DEF FirstInv, NoGapBehindHint, ShortOnlyWhenFull
<1>4. CASE frees' = 0
  <2>1. CASE UNCHANGED vars
    BY <1>1, <2>1 DEF vars, table, history, locals, FirstInv, FirstPhase, Load,
       NoGapBehindHint, ShortOnlyWhenFull
  <2>2. ASSUME NEW t \in Threads, Reserve(t) PROVE FirstInv'
    <3>1. frees = 0
      BY <1>4, <2>2 DEF Reserve, ReserveEntries, ReserveRefused, Claim, StartScan,
         ProbeTaken, ProbeFree, CasAcquire, Take, CasFail, ScanThrows, ScanShort,
         UpdateHint, ChainEntries, history, vars
    <3>2. ASSUME NEW o \in Objects, NEW n \in Counts, ReserveEntries(t, o, n)
          PROVE  FirstInv'
      BY <1>1, <3>1, <3>2, QuietStep
         DEF ReserveEntries, Goto, table, history, FirstInv, TypeInv, TypeOK, Reserving
    <3>3. CASE Claim(t)
      BY <1>1, <3>1, <3>3, QuietStep
         DEF Claim, Goto, history, FirstInv, TypeInv, TypeOK, Reserving
    <3>4. CASE StartScan(t)
      BY <1>1, <3>1, <3>4, StartScanFirst
    <3>5. CASE ProbeTaken(t)
      BY <1>1, <3>1, <3>5, MoveOn
         DEF ProbeTaken, table, history, FirstInv, TypeInv, TypeOK
    <3>6. CASE ProbeFree(t)
      BY <1>1, <3>1, <3>6, ProbeFreeFirst
    <3>7. CASE CasAcquire(t)
      BY <1>1, <3>1, <3>7, CasAcquireFirst
    <3>8. CASE CasFail(t)
      BY <1>1, <3>1, <3>8, MoveOn, FailedCasTaken
         DEF CasFail, Goto, table, history, FirstInv, TypeInv, TypeOK
    <3>9. CASE ScanThrows(t)
      BY <1>1, <3>1, <3>9, QuietStep
         DEF ScanThrows, EndCall, Goto, table, FirstInv, TypeInv, TypeOK, Reserving
    <3>10. CASE ScanShort(t)
      BY <1>1, <3>1, <3>10, ScanShortFirst
    <3>11. CASE UpdateHint(t)
      BY <1>1, <3>1, <3>11, UpdateHintFirst
    <3>12. CASE ChainEntries(t)
      BY <1>1, <3>1, <3>12, QuietStep
         DEF ChainEntries, EndCall, Goto, FirstInv, TypeInv, TypeOK, Reserving
    <3>13. CASE \E n \in Counts : ReserveRefused(t, n)
      BY <2>1, <3>13 DEF ReserveRefused
    <3>14. QED
      BY <2>2, <3>2, <3>3, <3>4, <3>5, <3>6, <3>7, <3>8, <3>9, <3>10, <3>11, <3>12,
         <3>13 DEF Reserve
  <2>3. ASSUME NEW t \in Threads, Free(t) PROVE FirstInv'
    <3>1. frees = 0 /\ pc[t] \in Freeing \cup {"freemin"}
      BY <1>2, <1>4, <2>3 DEF Free, FreeEntries, ReadNext, FreeLoad, FreeCas, FreeLast,
         FreeAvail, FreeMin, history, Freeing
    <3>2. pc[t] \in Reserving
      BY <3>1 DEF FirstInv, FirstPhase
    <3>3. QED
      BY <3>1, <3>2 DEF Reserving, Freeing
  <2>4. QED
    BY <2>1, <2>2, <2>3 DEF Next
<1>5. QED
  BY <1>3, <1>4

LEMMA FirstInvariant == Spec => []FirstInv
BY FirstInit, FirstStep, PTL DEF Spec

\* Every shared word and local of the pool keeps its type; a scan never leaves
\* the bitmap, whatever entries calls free behind it.
THEOREM JumpTypeCorrect == Spec => []TypeOK
<1>1. FirstInv => TypeOK
  BY DEF FirstInv, TypeInv
<1>2. QED
  BY <1>1, FirstInvariant, PTL

\* Until the first free, neither last_free_entry nor a scan leaves a free entry
\* behind, although a failed compare-and-swap skips its entry.
THEOREM JumpNoGap == Spec => []NoGapBehindHint
<1>1. FirstInv => NoGapBehindHint
  BY DEF FirstInv
<1>2. QED
  BY <1>1, FirstInvariant, PTL

\* Until the first free, reserve_entries returns a short chain only when every
\* entry is taken.
THEOREM JumpShortOnlyWhenFull == Spec => []ShortOnlyWhenFull
<1>1. FirstInv => ShortOnlyWhenFull
  BY DEF FirstInv
<1>2. QED
  BY <1>1, FirstInvariant, PTL

-----------------------------------------------------------------------------
(* With frees, as long as each cleared its own bit only: chains stay apart   *)
(* and linked.  A scan acquires a bit that was clear when it was loaded and  *)
(* is when it is set; a free reads the link of an entry before it clears its *)
(* bit, and the entries behind it are still its own.                         *)

Succ(c, n) == IF n = Len(c) THEN NULL_INDEX ELSE c[n + 1]

\* What the locals of a call know of the bitmap and of the links.
Walk(t) ==
    /\ pc[t] = "cas" => index[t] \notin expected[t]
    /\ pc[t] \in Freeing => entries[t] # <<>> /\ index[t] = entries[t][1]
    /\ pc[t] = "next" => next[entries[t][1]] = Succ(entries[t], 1)
    /\ pc[t] \in Freeing \ {"next"} => next_index[t] = Succ(entries[t], 1)
    /\ pc[t] \in Freeing => \A n \in DOMAIN entries[t] \ {1} :
         next[entries[t][n]] = Succ(entries[t], n)
    /\ pc[t] = "freemin" => entries[t] = <<>>

\* A step that is not one of t.
Still(t) == /\ pc'[t] = pc[t] /\ index'[t] = index[t] /\ expected'[t] = expected[t]
            /\ entries'[t] = entries[t] /\ next_index'[t] = next_index[t]

ChainInv == /\ TypeInv
            /\ ChainsApart
            /\ ChainsLinked
            /\ ~clobbered => \A t \in Threads : Walk(t)

LEMMA ChainInit == Init => ChainInv
<1> SUFFICES ASSUME Init PROVE ChainInv
  OBVIOUS
<1>1. \A t \in Threads : Walk(t)
  BY DEF Init, Walk, Freeing
<1>2. /\ \A u \in Threads : InHand(u) = <<>>
      /\ \A o \in Objects : chains[o] = <<>>
  BY DEF Init, InHand
<1>3. ChainsApart /\ ChainsLinked
  BY <1>2 DEF ChainsApart, ChainsLinked, Range
<1>4. QED
  BY <1>1, <1>3, TypeInit DEF ChainInv

LEMMA HandType ==
    ASSUME TypeInv, NEW t \in Threads
    PROVE  InHand(t) \in Seq(Entries)
<1>1. entries[t] \in Seq(Entries)
  BY DEF TypeInv, TypeOK
<1>2. entries[t] # <<>> => Tail(entries[t]) \in Seq(Entries)
  BY <1>1
<1>3. QED
  BY <1>1, <1>2 DEF InHand

\* Behind its first entry a call that frees holds all of its entries.
LEMMA BehindHead ==
    ASSUME NEW u \in Threads, entries[u] \in Seq(Entries),
           NEW n \in DOMAIN entries[u] \ {1}
    PROVE  entries[u][n] \in Entries /\ entries[u][n] \in Range(InHand(u))
<1>1. entries[u][n] \in Entries /\ n \in Nat /\ n - 1 \in 1 .. Len(entries[u]) - 1
  OBVIOUS
<1>2. CASE InHand(u) = entries[u]
  BY <1>1, <1>2 DEF Range
<1>3. CASE InHand(u) = Tail(entries[u])
  <2>1. n - 1 \in DOMAIN Tail(entries[u]) /\ Tail(entries[u])[n - 1] = entries[u][n]
    BY <1>1
  <2>2. QED
    BY <1>1, <1>3, <2>1 DEF Range
<1>4. QED
  BY <1>2, <1>3 DEF InHand

\* A step that moves nothing: each call and each object keeps its entries.
LEMMA NothingMoves ==
    ASSUME ChainInv, ~clobbered, TypeInv', UNCHANGED <<state, next, chains>>,
           \A u \in Threads : InHand(u)' = InHand(u), \A u \in Threads : Walk(u)'
    PROVE  ChainInv'
<1>1. ChainsApart'
  BY DEF ChainInv, ChainsApart
<1>2. ChainsLinked'
  BY DEF ChainInv, ChainsLinked
<1>3. QED
  BY <1>1, <1>2 DEF ChainInv

\* A call at rest goes on knowing what it knew.
LEMMA StillWalks ==
    ASSUME ChainInv, ~clobbered, next' = next, NEW u \in Threads, Still(u)
    PROVE  Walk(u)'
<1>1. Walk(u)
  BY DEF ChainInv
<1>2. QED
  BY <1>1 DEF Walk, Still, Succ, NULL_INDEX

\* A step of t inside reserve_entries that moves nothing.
LEMMA QuietReserve ==
    ASSUME ChainInv, ~clobbered, TypeInv', NEW t \in Threads,
           UNCHANGED <<state, next, chains>>,
           pc[t] \in Reserving, pc'[t] \in Reserving, entries'[t] = entries[t],
           pc'[t] = "cas" => index'[t] \notin expected'[t],
           \A u \in Threads \ {t} : Still(u)
    PROVE  ChainInv'
<1>1. \A u \in Threads : InHand(u)' = InHand(u)
  BY DEF InHand, Reserving, Still
<1>2. \A u \in Threads : Walk(u)'
  BY StillWalks DEF Walk, Reserving, Freeing
<1>3. QED
  BY <1>1, <1>2, NothingMoves

\* An entry whose byte did not change since its bit was clear is free.
LEMMA CasAcquireChain ==
    ASSUME ChainInv, ~clobbered, TypeInv', NEW t \in Threads, CasAcquire(t)
    PROVE  ChainInv'
<1> DEFINE i == index[t]
           s == Append(entries[t], i)
<1>1. i \in Entries
  BY CasIndex DEF CasAcquire, ChainInv
<1>2. i \notin state
  <2>1. i \notin Load(i)
    BY DEF CasAcquire, ChainInv, Walk
  <2>2. i \in Bucket(i)
    BY <1>1, JumpCapacityAssumption, JumpBucketAssumption DEF Bucket, Bits, Entries
  <2>3. QED
    BY <2>1, <2>2 DEF Load
<1>3. /\ state' = state \cup {i} /\ UNCHANGED <<next, chains, clobbered, next_index>>
      /\ pc[t] = "cas" /\ pc'[t] \in {"hint", "probe"} /\ entries'[t] = s
      /\ \A u \in Threads \ {t} : Still(u)
  <2>1. /\ state' = state \cup {i} /\ UNCHANGED <<next, chains, clobbered, next_index>>
        /\ pc[t] = "cas" /\ entries' = [entries EXCEPT ![t] = s]
        /\ expected' = [expected EXCEPT ![t] = {}]
    BY DEF CasAcquire, Take, history
  <2>2. \/ pc' = [pc EXCEPT ![t] = "hint"] /\ index' = index
        \/ pc' = [pc EXCEPT ![t] = "probe"] /\ index' = [index EXCEPT ![t] = i + 1]
    BY DEF CasAcquire, Take, Goto
  <2> HIDE DEF i, s
  <2>3. QED
    BY <2>1, <2>2 DEF Still, ChainInv, TypeInv, TypeOK
<1>4. /\ entries[t] \in Seq(Entries) /\ InHand(t) = entries[t]
      /\ \A u \in Threads : InHand(u)' = IF u = t THEN s ELSE InHand(u)
  BY <1>3 DEF InHand, Still, ChainInv, TypeInv, TypeOK
<1>5. \A n \in DOMAIN s : \/ n \in DOMAIN entries[t] /\ s[n] = entries[t][n]
                          \/ n = Len(s) /\ s[n] = i
  BY <1>1, <1>4
<1> HIDE DEF i, s
<1>6. ChainsApart'
  <2>1. \A u \in Threads : \A n \in DOMAIN InHand(u) : InHand(u)[n] # i
    BY <1>2 DEF ChainInv, ChainsApart, Range
  <2>2. \A o \in Objects : \A n \in DOMAIN chains[o] : chains[o][n] # i
    BY <1>2 DEF ChainInv, ChainsApart, Range
  <2>3. ASSUME NEW u \in Threads, NEW v \in Threads,
               NEW m \in DOMAIN InHand(u)', NEW n \in DOMAIN InHand(v)',
               InHand(u)'[m] = InHand(v)'[n]
        PROVE  u = v /\ m = n
    <3>1. \A x, y \in Threads : \A a \in DOMAIN InHand(x), b \in DOMAIN InHand(y) :
            InHand(x)[a] = InHand(y)[b] => x = y /\ a = b
      BY DEF ChainInv, ChainsApart
    <3>2. CASE u # t /\ v # t
      BY <1>4, <2>3, <3>1, <3>2
    <3>3. CASE u = t /\ v # t
      <4>1. InHand(u)' = s /\ InHand(v)' = InHand(v)
        BY <1>4, <3>3
      <4>2. s[m] # i
        BY <2>1, <2>3, <4>1
      <4>3. m \in DOMAIN InHand(t) /\ s[m] = InHand(t)[m]
        BY <1>4, <1>5, <2>3, <4>1, <4>2
      <4>4. QED
        BY <2>3, <3>1, <3>3, <4>1, <4>3
    <3>4. CASE u # t /\ v = t
      <4>1. InHand(v)' = s /\ InHand(u)' = InHand(u)
        BY <1>4, <3>4
      <4>2. s[n] # i
        BY <2>1, <2>3, <4>1
      <4>3. n \in DOMAIN InHand(t) /\ s[n] = InHand(t)[n]
        BY <1>4, <1>5, <2>3, <4>1, <4>2
      <4>4. QED
        BY <2>3, <3>1, <3>4, <4>1, <4>3
    <3>5. CASE u = t /\ v = t
      <4>1. m \in DOMAIN s /\ n \in DOMAIN s /\ s[m] = s[n]
        BY <1>4, <2>3, <3>5
      <4>2. \A a \in DOMAIN entries[t] : entries[t][a] # i
        BY <1>4, <2>1
      <4>3. \A a, b \in DOMAIN entries[t] : entries[t][a] = entries[t][b] => a = b
        BY <1>4, <3>1
      <4>4. QED
        BY <1>5, <3>5, <4>1, <4>2, <4>3
    <3>6. QED
      BY <3>2, <3>3, <3>4, <3>5
  <2>4. ASSUME NEW u \in Threads PROVE Range(InHand(u)') \subseteq Range(InHand(u)) \cup {i}
    <3>1. CASE u = t
      <4>1. InHand(u)' = s /\ InHand(u) = entries[t]
        BY <1>4, <3>1
      <4>2. Range(s) \subseteq Range(entries[t]) \cup {i}
        BY <1>5 DEF Range
      <4>3. QED
        BY <4>1, <4>2
    <3>2. CASE u # t
      BY <1>4, <3>2
    <3>3. QED
      BY <3>1, <3>2
  <2>5. \A u \in Threads, o \in Objects : Range(InHand(u)') \cap Range(chains[o]) = {}
    BY <2>2, <2>4 DEF ChainInv, ChainsApart, Range
  <2>6. \A u \in Threads : Range(InHand(u)') \subseteq state'
    BY <1>3, <2>4 DEF ChainInv, ChainsApart
  <2>7. QED
    BY <1>3, <2>3, <2>5, <2>6 DEF ChainInv, ChainsApart
<1>7. ChainsLinked'
  BY <1>3 DEF ChainInv, ChainsLinked
<1>8. \A u \in Threads : Walk(u)'
  BY <1>3, StillWalks DEF Walk, Freeing
<1>9. QED
  BY <1>6, <1>7, <1>8 DEF ChainInv

\* Linked gives the entries of a chain their links, and changes no other.
LEMMA LinkedOn ==
    ASSUME NEW c \in Seq(Entries), \A m, n \in DOMAIN c : c[m] = c[n] => m = n,
           NEW n \in DOMAIN c
    PROVE  Linked(c)[c[n]] = Succ(c, n)
<1> DEFINE k == CHOOSE m \in DOMAIN c : c[m] = c[n]
<1>1. k = n
  OBVIOUS
<1>2. c[n] \in Entries
  OBVIOUS
<1>3. Linked(c)[c[n]] = IF k = Len(c) THEN NULL_INDEX ELSE c[k + 1]
  BY <1>2 DEF Linked
<1> HIDE DEF k
<1>4. QED
  BY <1>1, <1>3 DEF Succ

LEMMA LinkedOff ==
    ASSUME NEW c \in Seq(Entries), NEW e \in Entries, e \notin Range(c)
    PROVE  Linked(c)[e] = next[e]
BY DEF Linked, Range

\* The chain a call hands over is its own; linking it breaks no other.
LEMMA ChainEntriesChain ==
    ASSUME ChainInv, ~clobbered, TypeInv', NEW t \in Threads, ChainEntries(t)
    PROVE  ChainInv'
<1> DEFINE c == entries[t]
           o == owner[t]
<1>1. o \in Objects /\ c \in Seq(Entries)
  BY DEF ChainEntries, ChainInv, TypeInv, TypeOK, CallShape, Reserving
<1>2. /\ next' = Linked(c) /\ UNCHANGED <<state, clobbered>>
      /\ \A p \in Objects : chains'[p] = IF p = o THEN c ELSE chains[p]
      /\ pc[t] = "chain" /\ pc'[t] = "idle" /\ entries'[t] = <<>>
      /\ \A u \in Threads \ {t} : Still(u)
  BY DEF ChainEntries, EndCall, Goto, Still, ChainInv, TypeInv, TypeOK
<1>3. /\ InHand(t) = c
      /\ \A u \in Threads : InHand(u)' = IF u = t THEN <<>> ELSE InHand(u)
  BY <1>2 DEF InHand, Still
<1>4. /\ \A m, n \in DOMAIN c : c[m] = c[n] => m = n
      /\ \A p \in Objects : Range(c) \cap Range(chains[p]) = {}
      /\ Range(c) \subseteq state
      /\ \A u \in Threads \ {t} : Range(c) \cap Range(InHand(u)) = {}
  <2>1. /\ \A m, n \in DOMAIN InHand(t) : InHand(t)[m] = InHand(t)[n] => m = n
        /\ \A p \in Objects : Range(InHand(t)) \cap Range(chains[p]) = {}
        /\ Range(InHand(t)) \subseteq state
    BY DEF ChainInv, ChainsApart
  <2>2. \A u \in Threads \ {t} : Range(InHand(t)) \cap Range(InHand(u)) = {}
    BY DEF ChainInv, ChainsApart, Range
  <2>3. QED
    BY <1>3, <2>1, <2>2
<1> HIDE DEF c, o
<1>5. ChainsApart'
  <2>1. ASSUME NEW p \in Objects, NEW q \in Objects,
               NEW m \in DOMAIN chains'[p], NEW n \in DOMAIN chains'[q],
               chains'[p][m] = chains'[q][n]
        PROVE  p = q /\ m = n
    BY <1>2, <1>4, <2>1 DEF ChainInv, ChainsApart, Range
  <2>2. ASSUME NEW u \in Threads, NEW v \in Threads,
               NEW m \in DOMAIN InHand(u)', NEW n \in DOMAIN InHand(v)',
               InHand(u)'[m] = InHand(v)'[n]
        PROVE  u = v /\ m = n
    BY <1>3, <2>2 DEF ChainInv, ChainsApart
  <2>3. ASSUME NEW u \in Threads, NEW p \in Objects
        PROVE  Range(InHand(u)') \cap Range(chains'[p]) = {}
    BY <1>2, <1>3, <1>4 DEF ChainInv, ChainsApart, Range
  <2>4. /\ \A p \in Objects : Range(chains'[p]) \subseteq state
        /\ \A u \in Threads : Range(InHand(u)') \subseteq state
    BY <1>2, <1>3, <1>4 DEF ChainInv, ChainsApart, Range
  <2>5. QED
    BY <1>2, <2>1, <2>2, <2>3, <2>4 DEF ChainsApart
<1>6. ChainsLinked'
  <2> SUFFICES ASSUME NEW p \in Objects, NEW n \in DOMAIN chains'[p]
               PROVE  next'[chains'[p][n]] = Succ(chains'[p], n)
    BY DEF ChainsLinked, Succ, NULL_INDEX
  <2>1. CASE p = o
    BY <1>1, <1>2, <1>4, <2>1, LinkedOn
  <2>2. CASE p # o
    <3>1. chains'[p] = chains[p] /\ n \in DOMAIN chains[p]
      BY <1>2, <2>2
    <3>2. chains[p][n] \in Entries /\ chains[p][n] \notin Range(c)
      <4>1. chains[p] \in Seq(Entries)
        BY DEF ChainInv, TypeInv, TypeOK
      <4>2. chains[p][n] \in Range(chains[p])
        BY <3>1 DEF Range
      <4>3. QED
        BY <1>4, <3>1, <4>1, <4>2
    <3>3. next'[chains[p][n]] = next[chains[p][n]]
      BY <1>1, <1>2, <3>2, LinkedOff
    <3>4. QED
      BY <3>1, <3>3 DEF ChainInv, ChainsLinked, Succ
  <2>3. QED
    BY <2>1, <2>2
<1>7. ASSUME NEW u \in Threads PROVE Walk(u)'
  <2>1. CASE u = t
    BY <1>2, <2>1 DEF Walk, Freeing
  <2>2. CASE u # t
    <3>1. Walk(u) /\ Still(u)
      BY <1>2, <2>2 DEF ChainInv
    <3>2. entries[u] \in Seq(Entries)
      BY DEF ChainInv, TypeInv, TypeOK
    <3>3. ASSUME pc[u] = "next"
          PROVE  next'[entries[u][1]] = next[entries[u][1]]
      <4>1. 1 \in DOMAIN entries[u] /\ InHand(u) = entries[u]
        BY <3>1, <3>2, <3>3 DEF Walk, Freeing, InHand
      <4>2. entries[u][1] \in Entries /\ entries[u][1] \notin Range(c)
        BY <1>4, <2>2, <3>2, <4>1 DEF Range
      <4>3. QED
        BY <1>1, <1>2, <4>2, LinkedOff
    <3>4. ASSUME pc[u] \in Freeing, NEW n \in DOMAIN entries[u] \ {1}
          PROVE  next'[entries[u][n]] = next[entries[u][n]]
      <4>1. entries[u][n] \in Entries /\ entries[u][n] \in Range(InHand(u))
        BY <3>2, <3>4, BehindHead
      <4>2. entries[u][n] \notin Range(c)
        BY <1>4, <2>2, <4>1
      <4>3. QED
        BY <1>1, <1>2, <4>1, <4>2, LinkedOff
    <3>5. QED
      BY <3>1, <3>3, <3>4 DEF Walk, Still, Succ, NULL_INDEX
  <2>3. QED
    BY <2>1, <2>2
<1>8. QED
  BY <1>2, <1>5, <1>6, <1>7 DEF ChainInv

\* A chain passes from its object to the call that frees it.
LEMMA FreeEntriesChain ==
    ASSUME ChainInv, ~clobbered, TypeInv', NEW t \in Threads, NEW o \in Objects,
           FreeEntries(t, o)
    PROVE  ChainInv'
<1> DEFINE c == chains[o]
<1>1. /\ c \in Seq(Entries) /\ c # <<>> /\ entries'[t] = c /\ pc'[t] = "next"
      /\ index'[t] = c[1] /\ UNCHANGED <<next, state, clobbered>>
      /\ \A p \in Objects : chains'[p] = IF p = o THEN <<>> ELSE chains[p]
      /\ pc[t] = "idle" /\ entries[t] = <<>>
      /\ \A u \in Threads \ {t} : Still(u)
  BY DEF FreeEntries, Goto, Still, table, ChainInv, TypeInv, TypeOK, CallShape
<1>2. \A u \in Threads : InHand(u)' = IF u = t THEN c ELSE InHand(u)
  BY <1>1 DEF InHand, Still
<1>3. ChainsApart'
  <2>1. /\ \A m, n \in DOMAIN c : c[m] = c[n] => m = n
        /\ Range(c) \subseteq state
        /\ \A u \in Threads : Range(InHand(u)) \cap Range(c) = {}
    BY DEF ChainInv, ChainsApart
  <2>2. \A p \in Objects \ {o} : Range(c) \cap Range(chains[p]) = {}
    BY DEF ChainInv, ChainsApart, Range
  <2> HIDE DEF c
  <2>3. ASSUME NEW p \in Objects, NEW q \in Objects,
               NEW m \in DOMAIN chains'[p], NEW n \in DOMAIN chains'[q],
               chains'[p][m] = chains'[q][n]
        PROVE  p = q /\ m = n
    BY <1>1, <2>3 DEF ChainInv, ChainsApart
  <2>4. ASSUME NEW u \in Threads, NEW v \in Threads,
               NEW m \in DOMAIN InHand(u)', NEW n \in DOMAIN InHand(v)',
               InHand(u)'[m] = InHand(v)'[n]
        PROVE  u = v /\ m = n
    BY <1>2, <2>1, <2>4 DEF ChainInv, ChainsApart, Range
  <2>5. ASSUME NEW u \in Threads, NEW p \in Objects
        PROVE  Range(InHand(u)') \cap Range(chains'[p]) = {}
    BY <1>1, <1>2, <2>2 DEF ChainInv, ChainsApart, Range
  <2>6. /\ \A p \in Objects : Range(chains'[p]) \subseteq state
        /\ \A u \in Threads : Range(InHand(u)') \subseteq state
    BY <1>1, <1>2, <2>1 DEF ChainInv, ChainsApart, Range
  <2>7. QED
    BY <1>1, <2>3, <2>4, <2>5, <2>6 DEF ChainsApart
<1>4. ChainsLinked'
  BY <1>1 DEF ChainInv, ChainsLinked
<1>5. Walk(t)'
  <2>1. \A n \in DOMAIN c : next[c[n]] = Succ(c, n)
    BY DEF ChainInv, ChainsLinked, Succ
  <2>2. 1 \in DOMAIN c
    BY <1>1
  <2> HIDE DEF c
  <2>3. QED
    BY <1>1, <2>1, <2>2 DEF Walk, Freeing, Succ, NULL_INDEX
<1>6. \A u \in Threads : Walk(u)'
  BY <1>1, <1>5, StillWalks
<1>7. QED
  BY <1>3, <1>4, <1>6 DEF ChainInv

\* A free that clears its own bit lets one entry go.
LEMMA FreeCasChain ==
    ASSUME ChainInv, ~clobbered, TypeInv', NEW t \in Threads, FreeCas(t), ~clobbered'
    PROVE  ChainInv'
<1> DEFINE c == entries[t]
           i == index[t]
<1>1. c \in Seq(Entries) /\ c # <<>> /\ i = c[1] /\ pc[t] = "freecas" /\ InHand(t) = c
  BY DEF FreeCas, ChainInv, Walk, Freeing, InHand, TypeInv, TypeOK
<1>2. /\ UNCHANGED <<next, chains, index, entries, next_index>>
      /\ \A u \in Threads \ {t} : Still(u)
  BY DEF FreeCas, Goto, Still, ChainInv, TypeInv, TypeOK
<1>3. CASE Load(i) # expected[t]
  <2>1. state' = state /\ pc'[t] = "freeload"
    BY <1>3 DEF FreeCas, Goto, ChainInv, TypeInv, TypeOK
  <2>2. \A u \in Threads : InHand(u)' = InHand(u)
    BY <1>1, <1>2, <2>1 DEF InHand, Still
  <2>3. Walk(t)'
    BY <1>1, <1>2, <2>1 DEF ChainInv, Walk, Freeing, Succ, NULL_INDEX
  <2>4. QED
    BY <1>2, <2>1, <2>2, <2>3, NothingMoves, StillWalks
<1>4. CASE Load(i) = expected[t]
  <2>1. pc'[t] = "freelast" /\ state' = state \ {i}
    <3>1. PICK byte \in SUBSET (Bucket(i) \ {i}) :
            state' = (state \ Bucket(i)) \cup byte /\ clobbered' = (clobbered \/ byte # Load(i) \ {i})
      BY <1>4 DEF FreeCas, FreeStore
    <3>2. byte = Load(i) \ {i}
      BY <3>1
    <3>3. i \in Bucket(i)
      BY <1>1, JumpCapacityAssumption, JumpBucketAssumption DEF Bucket, Bits, Entries
    <3>4. state' = state \ {i}
      BY <3>1, <3>2, <3>3 DEF Load
    <3>5. pc'[t] = "freelast"
      BY <1>4 DEF FreeCas, Goto, ChainInv, TypeInv, TypeOK
    <3>6. QED
      BY <3>4, <3>5
  <2>2. \A u \in Threads : InHand(u)' = IF u = t THEN Tail(c) ELSE InHand(u)
    BY <1>1, <1>2, <2>1 DEF InHand, Still
  <2>3. /\ DOMAIN Tail(c) = 1 .. Len(c) - 1
        /\ \A n \in DOMAIN Tail(c) : n + 1 \in DOMAIN c /\ n + 1 # 1 /\ Tail(c)[n] = c[n + 1]
        /\ 1 \in DOMAIN c
    BY <1>1
  <2>4. /\ \A m, n \in DOMAIN c : c[m] = c[n] => m = n
        /\ \A p \in Objects : Range(c) \cap Range(chains[p]) = {}
        /\ Range(c) \subseteq state
    <3>1. /\ \A m, n \in DOMAIN InHand(t) : InHand(t)[m] = InHand(t)[n] => m = n
          /\ \A p \in Objects : Range(InHand(t)) \cap Range(chains[p]) = {}
          /\ Range(InHand(t)) \subseteq state
      BY DEF ChainInv, ChainsApart
    <3>2. QED
      BY <1>1, <3>1
  <2>5. \A u \in Threads \ {t} : Range(c) \cap Range(InHand(u)) = {}
    <3>1. \A u \in Threads \ {t} : Range(InHand(t)) \cap Range(InHand(u)) = {}
      BY DEF ChainInv, ChainsApart, Range
    <3>2. QED
      BY <1>1, <3>1
  <2>6. i \in Range(c) /\ Range(Tail(c)) \subseteq Range(c) \ {i}
    <3>1. i \in Range(c)
      BY <1>1, <2>3 DEF Range
    <3>2. \A n \in DOMAIN Tail(c) : Tail(c)[n] \in Range(c) /\ Tail(c)[n] # i
      BY <1>1, <2>3, <2>4 DEF Range
    <3>3. QED
      BY <3>1, <3>2 DEF Range
  <2>7. ChainsApart'
    <3> HIDE DEF c, i
    <3>1. ASSUME NEW u \in Threads, NEW v \in Threads,
                 NEW m \in DOMAIN InHand(u)', NEW n \in DOMAIN InHand(v)',
                 InHand(u)'[m] = InHand(v)'[n]
          PROVE  u = v /\ m = n
      <4>1. CASE u # t /\ v # t
        BY <2>2, <3>1, <4>1 DEF ChainInv, ChainsApart
      <4>2. CASE u = t /\ v = t
        <5>1. m \in DOMAIN Tail(c) /\ n \in DOMAIN Tail(c) /\ Tail(c)[m] = Tail(c)[n]
          BY <2>2, <3>1, <4>2
        <5>2. m + 1 = n + 1
          BY <2>3, <2>4, <5>1
        <5>3. QED
          BY <2>3, <4>2, <5>1, <5>2
      <4>3. CASE u # t /\ v = t
        <5>1. InHand(u)'[m] \in Range(InHand(u)) /\ InHand(v)'[n] \in Range(c)
          BY <2>2, <2>6, <3>1, <4>3 DEF Range
        <5>2. QED
          BY <2>5, <3>1, <4>3, <5>1
      <4>4. CASE u = t /\ v # t
        <5>1. InHand(v)'[n] \in Range(InHand(v)) /\ InHand(u)'[m] \in Range(c)
          BY <2>2, <2>6, <3>1, <4>4 DEF Range
        <5>2. QED
          BY <2>5, <3>1, <4>4, <5>1
      <4>5. QED
        BY <4>1, <4>2, <4>3, <4>4
    <3>2. \A u \in Threads, p \in Objects : Range(InHand(u)') \cap Range(chains[p]) = {}
      <4>1. \A u \in Threads, p \in Objects : Range(InHand(u)) \cap Range(chains[p]) = {}
        BY DEF ChainInv, ChainsApart
      <4>2. QED
        BY <2>2, <2>4, <2>6, <4>1
    <3>3. \A p \in Objects : Range(chains[p]) \subseteq state'
      BY <2>1, <2>4, <2>6 DEF ChainInv, ChainsApart
    <3>4. \A u \in Threads : Range(InHand(u)') \subseteq state'
      <4>1. \A u \in Threads : Range(InHand(u)) \subseteq state
        BY DEF ChainInv, ChainsApart
      <4>2. QED
        BY <2>1, <2>2, <2>4, <2>5, <2>6, <4>1
    <3>5. QED
      BY <1>2, <3>1, <3>2, <3>3, <3>4 DEF ChainInv, ChainsApart
  <2>8. ChainsLinked'
    BY <1>2 DEF ChainInv, ChainsLinked
  <2>9. Walk(t)'
    BY <1>1, <1>2, <2>1 DEF ChainInv, Walk, Freeing, Succ, NULL_INDEX
  <2>10. QED
    BY <1>2, <2>7, <2>8, <2>9, StillWalks DEF ChainInv
<1>5. QED
  BY <1>3, <1>4

LEMMA ReadNextChain ==
    ASSUME ChainInv, ~clobbered, TypeInv', NEW t \in Threads, ReadNext(t)
    PROVE  ChainInv'
<1>1. /\ UNCHANGED <<state, next, chains>> /\ entries'[t] = entries[t] /\ index'[t] = index[t]
      /\ next_index'[t] = next[index[t]] /\ pc[t] = "next" /\ pc'[t] = "freeload"
      /\ \A u \in Threads \ {t} : Still(u)
  BY DEF ReadNext, Goto, Still, table, history, ChainInv, TypeInv, TypeOK
<1>2. \A u \in Threads : InHand(u)' = InHand(u)
  BY <1>1 DEF InHand, Still
<1>3. Walk(t)'
  BY <1>1 DEF ChainInv, Walk, Freeing, Succ, NULL_INDEX
<1>4. QED
  BY <1>1, <1>2, <1>3, NothingMoves, StillWalks

\* The bit of the entry to free is set: nobody else can have cleared it.
LEMMA FreeLoadChain ==
    ASSUME ChainInv, ~clobbered, TypeInv', NEW t \in Threads, FreeLoad(t)
    PROVE  ChainInv'
<1>1. index[t] \in state
  <2>1. /\ entries[t] \in Seq(Entries) /\ entries[t] # <<>>
        /\ index[t] = entries[t][1] /\ InHand(t) = entries[t]
    BY DEF FreeLoad, ChainInv, Walk, Freeing, InHand, TypeInv, TypeOK
  <2>2. index[t] \in Range(InHand(t))
    BY <2>1 DEF Range
  <2>3. QED
    BY <2>2 DEF ChainInv, ChainsApart
<1>2. /\ UNCHANGED <<state, next, chains>> /\ entries'[t] = entries[t] /\ index'[t] = index[t]
      /\ next_index'[t] = next_index[t] /\ pc[t] = "freeload" /\ pc'[t] = "freecas"
      /\ \A u \in Threads \ {t} : Still(u)
  BY <1>1 DEF FreeLoad, Goto, Still, table, history, ChainInv, TypeInv, TypeOK
<1>3. \A u \in Threads : InHand(u)' = InHand(u)
  BY <1>2 DEF InHand, Still
<1>4. Walk(t)'
  BY <1>2 DEF ChainInv, Walk, Freeing, Succ, NULL_INDEX
<1>5. QED
  BY <1>2, <1>3, <1>4, NothingMoves, StillWalks

LEMMA FreeLastChain ==
    ASSUME ChainInv, ~clobbered, TypeInv', NEW t \in Threads, FreeLast(t)
    PROVE  ChainInv'
<1>1. /\ UNCHANGED <<state, next, chains>> /\ entries'[t] = entries[t] /\ index'[t] = index[t]
      /\ next_index'[t] = next_index[t] /\ pc[t] = "freelast" /\ pc'[t] = "freeavail"
      /\ \A u \in Threads \ {t} : Still(u)
  BY DEF FreeLast, Goto, Still, history, ChainInv, TypeInv, TypeOK
<1>2. \A u \in Threads : InHand(u)' = InHand(u)
  BY <1>1 DEF InHand, Still
<1>3. Walk(t)'
  BY <1>1 DEF ChainInv, Walk, Freeing, Succ, NULL_INDEX
<1>4. QED
  BY <1>1, <1>2, <1>3, NothingMoves, StillWalks

\* The walk goes on with the entry behind the one freed, or is at its end.
LEMMA FreeAvailChain ==
    ASSUME ChainInv, ~clobbered, TypeInv', NEW t \in Threads, FreeAvail(t)
    PROVE  ChainInv'
<1> DEFINE c == entries[t]
<1>1. /\ c \in Seq(Entries) /\ c # <<>> /\ next_index[t] = Succ(c, 1)
      /\ pc[t] = "freeavail" /\ InHand(t) = Tail(c)
      /\ \A n \in DOMAIN c \ {1} : next[c[n]] = Succ(c, n)
  BY DEF FreeAvail, ChainInv, Walk, Freeing, InHand, TypeInv, TypeOK
<1>2. /\ UNCHANGED <<state, next, chains>> /\ entries'[t] = Tail(c)
      /\ index'[t] = next_index[t]
      /\ pc'[t] = IF next_index[t] = NULL_INDEX THEN "freemin" ELSE "next"
      /\ \A u \in Threads \ {t} : Still(u)
  BY <1>1 DEF FreeAvail, Goto, Still, history, ChainInv, TypeInv, TypeOK
<1>3. \A u \in Threads : InHand(u)' = InHand(u)
  BY <1>1, <1>2 DEF InHand, Still
<1>4. /\ Tail(c) \in Seq(Entries) /\ Len(c) \in Nat \ {0} /\ Len(Tail(c)) = Len(c) - 1
      /\ DOMAIN Tail(c) = 1 .. Len(c) - 1
      /\ \A n \in DOMAIN Tail(c) : n + 1 \in DOMAIN c \ {1} /\ Tail(c)[n] = c[n + 1]
      /\ \A n \in DOMAIN c : c[n] \in Entries
  BY <1>1
<1> HIDE DEF c
<1>5. CASE Len(c) = 1
  <2>1. Tail(c) = <<>> /\ next_index[t] = NULL_INDEX
    BY <1>1, <1>4, <1>5 DEF Succ
  <2>2. Walk(t)'
    BY <1>2, <2>1 DEF Walk, Freeing
  <2>3. QED
    BY <1>2, <1>3, <2>2, NothingMoves, StillWalks
<1>6. CASE Len(c) # 1
  <2>1. 1 \in DOMAIN Tail(c) /\ 2 \in DOMAIN c /\ Tail(c)[1] = c[2]
    BY <1>1, <1>4, <1>6
  <2>2. next_index[t] = Tail(c)[1] /\ next_index[t] # NULL_INDEX
    BY <1>1, <1>4, <1>6, <2>1, JumpCapacityAssumption DEF Succ, Entries, NULL_INDEX
  <2>3. ASSUME NEW n \in DOMAIN Tail(c)
        PROVE  next[Tail(c)[n]] = Succ(Tail(c), n)
    <3>1. next[c[n + 1]] = Succ(c, n + 1)
      BY <1>1, <1>4
    <3>2. n # Len(Tail(c)) => n + 1 \in DOMAIN Tail(c)
      BY <1>4
    <3>3. Succ(Tail(c), n) = Succ(c, n + 1)
      BY <1>4, <3>2 DEF Succ
    <3>4. QED
      BY <1>4, <3>1, <3>3
  <2>4. Walk(t)'
    <3>1. /\ pc'[t] = "next" /\ index'[t] = Tail(c)[1] /\ next' = next
          /\ entries'[t] = Tail(c)
      BY <1>2, <2>2
    <3>2. Tail(c) # <<>>
      <4>1. Len(Tail(c)) # 0
        BY <1>4, <1>6
      <4>2. QED
        BY <4>1, EmptySeq
    <3>3. \A n \in DOMAIN entries'[t] : next'[entries'[t][n]] = Succ(entries'[t], n)
      BY <2>3, <3>1
    <3>4. 1 \in DOMAIN entries'[t]
      BY <2>1, <3>1
    <3>5. QED
      BY <3>1, <3>2, <3>3, <3>4 DEF Walk, Freeing, Succ, NULL_INDEX
  <2>5. QED
    BY <1>2, <1>3, <2>4, NothingMoves, StillWalks
<1>7. QED
  BY <1>5, <1>6

LEMMA FreeMinChain ==
    ASSUME ChainInv, ~clobbered, TypeInv', NEW t \in Threads, FreeMin(t)
    PROVE  ChainInv'
<1>1. entries[t] = <<>> /\ pc[t] = "freemin"
  BY DEF FreeMin, ChainInv, Walk
<1>2. /\ UNCHANGED <<state, next, chains>> /\ entries'[t] = <<>> /\ pc'[t] = "idle"
      /\ \A u \in Threads \ {t} : Still(u)
  BY DEF FreeMin, EndCall, Goto, Still, history, ChainInv, TypeInv, TypeOK
<1>3. \A u \in Threads : InHand(u)' = InHand(u)
  BY <1>1, <1>2 DEF InHand, Still
<1>4. Walk(t)'
  BY <1>2 DEF Walk, Freeing
<1>5. QED
  BY <1>2, <1>3, <1>4, NothingMoves, StillWalks

LEMMA ChainStep == ChainInv /\ [Next]_vars => ChainInv'
<1> SUFFICES ASSUME ChainInv, [Next]_vars PROVE ChainInv'
  OBVIOUS
<1>1. TypeInv'
  BY TypeStep DEF ChainInv
<1>2. CASE clobbered'
  BY <1>1, <1>2 DEF ChainInv, ChainsApart, ChainsLinked
<1>3. CASE ~clobbered'
  <2>1. CASE UNCHANGED vars
    <3>1. /\ UNCHANGED <<state, next, chains, pc, index, expected, entries, next_index>>
          /\ ~clobbered
      BY <1>3, <2>1 DEF vars, table, history, locals
    <3>2. \A u \in Threads : Still(u) /\ InHand(u)' = InHand(u)
      BY <3>1 DEF Still, InHand
    <3>3. QED
      BY <1>1, <3>1, <3>2, NothingMoves, StillWalks
  <2>2. ASSUME NEW t \in Threads, Reserve(t) PROVE ChainInv'
    <3>1. ~clobbered
      BY <1>3, <2>2 DEF Reserve, ReserveEntries, ReserveRefused, Claim, StartScan,
         ProbeTaken, ProbeFree, CasAcquire, Take, CasFail, ScanThrows, ScanShort,
         UpdateHint, ChainEntries, history, vars
    <3>2. ASSUME NEW o \in Objects, NEW n \in Counts, ReserveEntries(t, o, n)
          PROVE  ChainInv'
      BY <1>1, <3>1, <3>2, QuietReserve
         DEF ReserveEntries, Goto, table, history, Still, ChainInv, TypeInv, TypeOK, Reserving
    <3>3. CASE Claim(t)
      BY <1>1, <3>1, <3>3, QuietReserve
         DEF Claim, Goto, history, Still, ChainInv, TypeInv, TypeOK, Reserving
    <3>4. CASE StartScan(t)
      BY <1>1, <3>1, <3>4, QuietReserve
         DEF StartScan, Goto, table, history, Still, ChainInv, TypeInv, TypeOK, Reserving
    <3>5. CASE ProbeTaken(t)
      BY <1>1, <3>1, <3>5, QuietReserve
         DEF ProbeTaken, table, history, Still, ChainInv, TypeInv, TypeOK, Reserving
    <3>6. CASE ProbeFree(t)
      BY <1>1, <3>1, <3>6, QuietReserve
         DEF ProbeFree, Load, Goto, table, history, Still, ChainInv, TypeInv, TypeOK, Reserving
    <3>7. CASE CasAcquire(t)
      BY <1>1, <3>1, <3>7, CasAcquireChain
    <3>8. CASE CasFail(t)
      BY <1>1, <3>1, <3>8, QuietReserve
         DEF CasFail, Goto, table, history, Still, ChainInv, TypeInv, TypeOK, Reserving
    <3>9. CASE ScanThrows(t)
      <4>1. /\ UNCHANGED <<state, next, chains>> /\ entries'[t] = entries[t]
            /\ pc[t] = "probe" /\ pc'[t] = "idle" /\ \A u \in Threads \ {t} : Still(u)
        BY <3>9 DEF ScanThrows, EndCall, Goto, table, Still, ChainInv, TypeInv, TypeOK
      <4>2. QED
        BY <1>1, <3>1, <4>1, QuietReserve DEF Reserving
    <3>10. CASE ScanShort(t)
      BY <1>1, <3>1, <3>10, QuietReserve
         DEF ScanShort, Goto, table, Still, ChainInv, TypeInv, TypeOK, Reserving
    <3>11. CASE UpdateHint(t)
      BY <1>1, <3>1, <3>11, QuietReserve
         DEF UpdateHint, Goto, history, Still, ChainInv, TypeInv, TypeOK, Reserving
    <3>12. CASE ChainEntries(t)
      BY <1>1, <3>1, <3>12, ChainEntriesChain
    <3>13. CASE \E n \in Counts : ReserveRefused(t, n)
      BY <2>1, <3>13 DEF ReserveRefused
    <3>14. QED
      BY <2>2, <3>2, <3>3, <3>4, <3>5, <3>6, <3>7, <3>8, <3>9, <3>10, <3>11, <3>12,
         <3>13 DEF Reserve
  <2>3. ASSUME NEW t \in Threads, Free(t) PROVE ChainInv'
    <3>1. ~clobbered
      BY <1>3, <2>3 DEF Free, FreeEntries, ReadNext, FreeLoad, FreeCas, FreeStore, FreeLast,
         FreeAvail, FreeMin, history
    <3>2. QED
      BY <1>1, <1>3, <2>3, <3>1, FreeEntriesChain, ReadNextChain, FreeLoadChain,
         FreeCasChain, FreeLastChain, FreeAvailChain, FreeMinChain DEF Free
  <2>4. QED
    BY <2>1, <2>2, <2>3 DEF Next
<1>4. QED
  BY <1>2, <1>3

LEMMA ChainInvariant == Spec => []ChainInv
BY ChainInit, ChainStep, PTL DEF Spec

\* Whatever calls reserve and free at the same time: as long as each free
\* cleared its own bit only, no entry is in two chains or in the hands of two
\* calls, and each is marked as taken.
THEOREM JumpChainsApart == Spec => []ChainsApart
<1>1. ChainInv => ChainsApart
  BY DEF ChainInv
<1>2. QED
  BY <1>1, ChainInvariant, PTL

\* As long as each free cleared its own bit only, the links of a chain lead
\* through all its entries and end.
THEOREM JumpChainsLinked == Spec => []ChainsLinked
<1>1. ChainInv => ChainsLinked
  BY DEF ChainInv
<1>2. QED
  BY <1>1, ChainInvariant, PTL
=============================================================================
