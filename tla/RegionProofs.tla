---------------------------- MODULE RegionProofs ----------------------------
(***************************************************************************)
(* Proofs about the layout of a region's file and of a FragmentTable, and  *)
(* about a region, for any number of threads, fragments, keys and bits per *)
(* byte: one that is filled (FillSpec), and one that is filled and freed   *)
(* (Spec).                                                                 *)
(*                                                                         *)
(* The argument about filling: scans start at 0 and leave no free fragment *)
(* behind (NoGapBehindScan), so a scan at index i knows i fragments taken; *)
(* the counter owes it one more (CounterMatchesBitmap), so i < Capacity,   *)
(* and i + 1 < Capacity where fragment i is taken.  Hence no scan gives    *)
(* up, and every index delivered is one whose bit the thread itself set.   *)
(*                                                                         *)
(* The argument about freeing: a key is reserved by one call at a time and *)
(* before anything is delivered for it (Fresh), so handing fragments over  *)
(* never overwrites any; each step moves as many fragments out of one of   *)
(* the counter, the calls, the objects and the lost ones as it moves into  *)
(* another (Balance); and a bit that is set is that of a fragment in one   *)
(* of them (NoOrphan), until a free stores bits it never read.             *)
(***************************************************************************)
EXTENDS RegionProps, FiniteSetTheorems, SequenceTheorems, TLAPS

-----------------------------------------------------------------------------
(* What the offsets of Layout.tla keep apart, and where they fail to.      *)

\* The sizes on x86-64.
BuildSizes ==
    /\ WordSize = 4294967296 /\ HalfSize = 65536 /\ Sector = 512
    /\ RegionHeader = 2097200 /\ TimeHeader = 16 /\ TimeEntrySize = 8 /\ MaxTimes = 1048576
    /\ TableHeader = 40 /\ FragmentEntrySize = 16
    /\ JumpHeader = 131092 /\ StateOffset = 16 /\ JumpEntrySize = 16

\* The whole file of a region of n fragments has a size of 32 bits.
Fits(n) == MemSize(n) + n * FragmentSize < WordSize

LEMMA MemSizeInWord == ASSUME NEW n \in Nat PROVE MemSize(n) \in 0 .. WordSize - 1
<1>1. \A s : s \in Int => s % WordSize \in 0 .. WordSize - 1
  BY LayoutAssumption
<1>2. TimeTableSize(n) \in Nat
  BY <1>1, LayoutAssumption DEF TimesOf, TimeTableSize
<1> DEFINE size == (RegionHeader + TimeTableSize(n)) % WordSize
<1>3. size \in Nat
  BY <1>1, <1>2, LayoutAssumption
<1>4. RoundUp(size) \in 0 .. WordSize - 1
  <2>1. CASE size = 0
    BY <2>1, LayoutAssumption DEF RoundUp
  <2>2. CASE size # 0
    <3> DEFINE up == (((size - 1) \div Sector) + 1) * Sector
    <3>1. (size - 1) \div Sector \in Int
      BY <1>3, <2>2, LayoutAssumption
    <3>2. up \in Int
      BY <3>1, LayoutAssumption
    <3>3. RoundUp(size) = up % WordSize
      BY <2>2 DEF RoundUp
    <3> HIDE DEF up
    <3> QED
      BY <3>2, <3>3, <1>1
  <2> QED
    BY <2>1, <2>2
<1> QED
  BY <1>4 DEF MemSize

LEMMA Spacing ==
    ASSUME NEW s \in Nat, NEW i \in Nat, NEW j \in Nat, i < j
    PROVE  i * s + s <= j * s
<1>1. PICK d \in Nat : j = i + 1 + d
  <2>1. j - i - 1 \in Nat /\ j = i + 1 + (j - i - 1)
    OBVIOUS
  <2> QED
    BY <2>1
<1>2. j * s = i * s + s + d * s
  BY <1>1
<1>3. d * s \in Nat
  OBVIOUS
<1>4. i * s \in Nat
  OBVIOUS
<1> QED
  BY <1>2, <1>3, <1>4

\* As long as the file stays below 4 GB, the fragments lie behind the part
\* that is mapped, one behind the other, and inside the file: what
\* write_fragment writes at one index it writes nowhere else.
THEOREM FragmentsApart ==
    ASSUME NEW n \in Nat, Fits(n), NEW i \in 0 .. n - 1
    PROVE  /\ MemSize(n) <= Offset(n, i)
           /\ Offset(n, i) + FragmentSize <= FileSize(n)
           /\ \A j \in i + 1 .. n - 1 : Offset(n, i) + FragmentSize <= Offset(n, j)
<1>1. MemSize(n) \in 0 .. WordSize - 1
  BY MemSizeInWord
<1>2. \A k \in 0 .. n : /\ k * FragmentSize \in Nat
                        /\ k * FragmentSize + MemSize(n) < WordSize
                        /\ k < n => Offset(n, k) = k * FragmentSize + MemSize(n)
  <2> SUFFICES ASSUME NEW k \in 0 .. n
               PROVE  /\ k * FragmentSize \in Nat
                      /\ k * FragmentSize + MemSize(n) < WordSize
                      /\ k < n => Offset(n, k) = k * FragmentSize + MemSize(n)
    OBVIOUS
  <2>1. k * FragmentSize \in Nat /\ n * FragmentSize \in Nat
    BY LayoutAssumption
  <2>2. k * FragmentSize <= n * FragmentSize
    <3>1. CASE k = n
      BY <3>1, <2>1
    <3>2. CASE k < n
      BY <3>2, <2>1, Spacing, LayoutAssumption
    <3> QED
      BY <3>1, <3>2
  <2>3. k * FragmentSize + MemSize(n) < WordSize
    BY <2>1, <2>2, <1>1, LayoutAssumption DEF Fits
  <2>4. Offset(n, k) = k * FragmentSize + MemSize(n)
    <3> DEFINE at == k * FragmentSize + MemSize(n)
    <3>1. at \in 0 .. WordSize - 1
      BY <2>1, <2>3, <1>1, LayoutAssumption
    <3>2. Offset(n, k) = at % WordSize
      BY DEF Offset
    <3> HIDE DEF at
    <3>3. at % WordSize = at
      BY <3>1, LayoutAssumption
    <3> QED
      BY <3>2, <3>3 DEF at
  <2> QED
    BY <2>1, <2>3, <2>4
<1>3. FileSize(n) = n * FragmentSize + MemSize(n)
  <2> DEFINE end == n * FragmentSize + MemSize(n)
  <2>1. end \in 0 .. WordSize - 1
    BY <1>1, <1>2, LayoutAssumption
  <2>2. FileSize(n) = end % WordSize
    BY <1>1, <1>2, LayoutAssumption DEF FileSize
  <2> HIDE DEF end
  <2>3. end % WordSize = end
    BY <2>1, LayoutAssumption
  <2> QED
    BY <2>2, <2>3 DEF end
<1> DEFINE at(k) == k * FragmentSize
<1>4. /\ \A k \in 0 .. n : at(k) \in Nat
      /\ \A k \in 0 .. n - 1 : Offset(n, k) = at(k) + MemSize(n)
      /\ FileSize(n) = at(n) + MemSize(n)
  BY <1>2, <1>3
<1>5. \A j \in i + 1 .. n : at(i) + FragmentSize <= at(j)
  BY Spacing, LayoutAssumption
<1> HIDE DEF at
<1>6. at(i) \in Nat /\ Offset(n, i) = at(i) + MemSize(n)
  BY <1>4
<1>7. Offset(n, i) + FragmentSize <= FileSize(n)
  BY <1>1, <1>4, <1>5, <1>6, LayoutAssumption
<1>8. ASSUME NEW j \in i + 1 .. n - 1 PROVE Offset(n, i) + FragmentSize <= Offset(n, j)
  BY <1>1, <1>4, <1>5, <1>6, LayoutAssumption
<1> QED
  BY <1>1, <1>6, <1>7, <1>8

\* Beyond 4 GB they do not: some index below the capacity is written over the
\* header and the time table, because reserved_index * size is a product of
\* 32 bits.
THEOREM FragmentsWrap ==
    ASSUME NEW n \in Nat \ {0}, FragmentSize <= MemSize(n),
           WordSize <= MemSize(n) + (n - 1) * FragmentSize
    PROVE  \E i \in 0 .. n - 1 : Offset(n, i) < MemSize(n)
<1> DEFINE room == WordSize - MemSize(n)
           q    == (room - 1) \div FragmentSize
<1>1. MemSize(n) \in 0 .. WordSize - 1
  BY MemSizeInWord
<1>2. room \in Nat \ {0}
  BY <1>1, LayoutAssumption
<1> HIDE DEF room
<1>3. q \in Nat /\ q * FragmentSize <= room - 1 /\ room - 1 < q * FragmentSize + FragmentSize
  BY <1>2, LayoutAssumption
<1> HIDE DEF q
<1> DEFINE i == q + 1
<1>4. i * FragmentSize = q * FragmentSize + FragmentSize
  BY <1>3, LayoutAssumption
<1>5. room <= (n - 1) * FragmentSize
  BY <1>1, LayoutAssumption DEF room
<1>6. i \in 0 .. n - 1
  <2>1. CASE q < n - 1
    BY <2>1, <1>3
  <2>2. CASE n - 1 <= q
    <3>1. (n - 1) * FragmentSize <= q * FragmentSize
      <4>1. CASE n - 1 = q
        BY <4>1, LayoutAssumption
      <4>2. CASE n - 1 < q
        BY <4>2, <1>3, Spacing, LayoutAssumption
      <4> QED
        BY <4>1, <4>2, <2>2, <1>3
    <3> QED
      BY <3>1, <1>2, <1>3, <1>5, LayoutAssumption
  <2> QED
    BY <2>1, <2>2, <1>3
<1>7. Offset(n, i) = i * FragmentSize - room
  <2> DEFINE past == i * FragmentSize - room
  <2>1. past \in 0 .. WordSize - 1 /\ past < FragmentSize
    BY <1>1, <1>2, <1>3, <1>4, LayoutAssumption
  <2>2. i * FragmentSize + MemSize(n) = past + WordSize
    BY <1>1, <1>3, <1>4, LayoutAssumption DEF room
  <2>3. Offset(n, i) = (past + WordSize) % WordSize
    BY <2>2 DEF Offset
  <2> HIDE DEF past
  <2>4. (past + WordSize) % WordSize = past
    BY <2>1, LayoutAssumption
  <2> QED
    BY <2>3, <2>4 DEF past
<1>8. Offset(n, i) < MemSize(n)
  BY <1>1, <1>2, <1>3, <1>4, <1>7, LayoutAssumption
<1> QED
  BY <1>6, <1>8

\* get_entry adds sizeof (TimeTable) time tables to `this`: the entries begin
\* 240 bytes behind their place, and the last of them lie over the first
\* fragment unless the rounding to sectors happens to leave room for them,
\* which it does for little more than half of the capacities.
THEOREM TimesSpill ==
    ASSUME BuildSizes, NEW n \in Nat, 0 < n, n <= MaxTimes
    PROVE  TimeEntryAt(n - 1) + TimeEntrySize <= MemSize(n) <=> (n + 8) % 64 \in 1 .. 34
<1>1. TimeTableSize(n) = 16 + 8 * n
  BY SMT DEF BuildSizes, TimesOf, TimeTableSize
<1>2. MemSize(n) = RoundUp(2097216 + 8 * n)
  BY <1>1, SMT DEF BuildSizes, MemSize
<1> DEFINE q == (n + 7) \div 64
           r == (n + 7) % 64
<1>3. q \in Nat /\ q <= 16385 /\ r \in 0 .. 63 /\ n + 7 = 64 * q + r
  BY SMT DEF BuildSizes
<1> HIDE DEF q, r
<1>4. 2097216 + 8 * n - 1 = 512 * (4096 + q) + (8 * r + 7)
  BY <1>3, SMT
<1>5. (2097216 + 8 * n - 1) \div 512 = 4096 + q
  BY <1>3, <1>4, SMT
<1>6. MemSize(n) = 512 * (4097 + q)
  BY <1>2, <1>3, <1>5, SMT DEF BuildSizes, RoundUp
<1>7. TimeEntryAt(n - 1) + TimeEntrySize = 2097456 + 8 * n
  BY SMT DEF BuildSizes, TimeEntryAt
<1>8. TimeEntryAt(n - 1) + TimeEntrySize <= MemSize(n) <=> r <= 33
  BY <1>3, <1>6, <1>7, SMT
<1>9. (n + 8) % 64 = IF r = 63 THEN 0 ELSE r + 1
  BY <1>3, SMT
<1> QED
  BY <1>3, <1>8, <1>9, SMT

\* A table of legal capacities keeps heads, tails, the bitmap in use and the
\* jump entries apart, although header_size keeps 20 of the 131092 bytes of a
\* JumpTable's header: the entries begin inside `state`, behind its used part.
THEOREM TablePlacesApart ==
    ASSUME BuildSizes, NEW h \in Nat, NEW t \in Nat, NEW c \in Nat,
           h <= 1048576, t <= 65536, 0 < c, c <= 1048576
    PROVE  /\ TableHeader <= HeadAt(0)
           /\ \A i \in 0 .. h - 1 : HeadAt(i) + FragmentEntrySize <= TailAt(h, 0)
           /\ \A i \in 0 .. t - 1 : TailAt(h, i) + FragmentEntrySize <= StateAt(h, t, 0)
           /\ \A i \in 0 .. c - 1 : StateAt(h, t, i) < JumpEntryAt(h, t, c, 0)
           /\ c <= 1048568 =>
                \A i \in 0 .. c - 1 : JumpEntryAt(h, t, c, i) + JumpEntrySize <= TableSize(h, t, c)
<1>1. /\ TailAt(h, 0) = 40 + 16 * h
      /\ JumpSection(h, t) = 40 + 16 * (h + t)
      /\ TableSize(h, t, c) = 40 + 16 * (h + t) + 131092 + 16 * c
  BY SMT DEF BuildSizes, TailAt, TailSection, JumpSection, JumpTableSize, TableSize
<1>2. \A i \in Nat : HeadAt(i) = 40 + 16 * i
  BY SMT DEF BuildSizes, HeadAt, HeadSection
<1>3. \A i \in 0 .. t - 1 : TailAt(h, i) = 40 + 16 * h + 16 * i
  BY SMT DEF BuildSizes, TailAt, TailSection
<1>4. \A i \in 0 .. c - 1 : /\ StateAt(h, t, i) = 56 + 16 * (h + t) + (i \div 8)
                            /\ JumpEntryAt(h, t, c, i) = 61 + 16 * (h + t) + (c \div 8) + 16 * i
  BY <1>1, SMT DEF BuildSizes, StateAt, EntrySection, JumpEntryAt
<1>5. \A i \in 0 .. c - 1 : i \div 8 <= c \div 8 /\ i \div 8 \in Nat
  BY SMT
<1>6. c <= 1048568 => c \div 8 <= 131071
  BY SMT
<1>7. c \div 8 \in Nat
  BY SMT
<1>8. TableHeader <= HeadAt(0) /\ \A i \in 0 .. h - 1 : HeadAt(i) + FragmentEntrySize <= TailAt(h, 0)
  BY <1>1, <1>2, SMT DEF BuildSizes
<1>9. \A i \in 0 .. t - 1 : TailAt(h, i) + FragmentEntrySize <= StateAt(h, t, 0)
  BY <1>3, <1>4, SMT DEF BuildSizes
<1>10. \A i \in 0 .. c - 1 : StateAt(h, t, i) < JumpEntryAt(h, t, c, 0)
  BY <1>4, <1>5, <1>7, SMT
<1>11. c <= 1048568 =>
         \A i \in 0 .. c - 1 : JumpEntryAt(h, t, c, i) + JumpEntrySize <= TableSize(h, t, c)
  BY <1>1, <1>4, <1>6, <1>7, SMT DEF BuildSizes
<1> QED
  BY <1>8, <1>9, <1>10, <1>11, SMT

\* With MAX_INT20 jumps, the default and the value of conf.json, the last
\* jump entry ends one byte behind the table.
THEOREM LastJumpOutside ==
    ASSUME BuildSizes, NEW h \in Nat, NEW t \in Nat, h <= 1048576, t <= 65536
    PROVE  JumpEntryAt(h, t, 1048576, 1048575) + JumpEntrySize = TableSize(h, t, 1048576) + 1
<1>1. /\ JumpSection(h, t) = 40 + 16 * (h + t)
      /\ TableSize(h, t, 1048576) = 40 + 16 * (h + t) + 131092 + 16777216
  BY SMT DEF BuildSizes, JumpSection, JumpTableSize, TableSize
<1>2. JumpEntryAt(h, t, 1048576, 1048575) = 61 + 16 * (h + t) + 131072 + 16777200
  BY <1>1, SMT DEF BuildSizes, EntrySection, JumpEntryAt
<1> QED
  BY <1>1, <1>2, SMT DEF BuildSizes

-----------------------------------------------------------------------------
(* A region that is filled.                                                *)

Scanning(t) == pc[t] \in {"load", "cas"}

\* What the locals of a thread inside a reservation or a write hold.
CallShape ==
    \A t \in Threads :
      /\ pc[t] \in {"idle", "start", "load", "cas", "entry", "store"}
      /\ op[t] \in {"reserve", "write"}
      /\ num[t] <= Capacity
      /\ pc[t] = "idle" => reserved[t] = <<>>
      /\ pc[t] # "idle" => key[t] \in Keys
      /\ pc[t] # "idle" /\ op[t] = "write" => num[t] = 1
      /\ pc[t] \in {"start", "load", "cas"} => Len(reserved[t]) < num[t]
      /\ pc[t] = "store" => Len(reserved[t]) = 1
      /\ Scanning(t) => count[t] = index[t]

\* The byte a scan has loaded: bit index[t] was clear, those below were set,
\* and no bit has been cleared since.
LoadedByte ==
    \A t \in Threads : pc[t] = "cas" =>
      /\ index[t] \in Bits
      /\ index[t] \notin expected[t]
      /\ expected[t] \subseteq Load(index[t])
      /\ \A j \in Bucket(index[t]) : j < index[t] => j \in expected[t]

FillInv == /\ TypeOK
           /\ last_free_fragment = 0
           /\ CallShape
           /\ LoadedByte
           /\ NoGapBehindScan
           /\ CounterMatchesBitmap
           /\ DeliveredTaken
           /\ Exclusive

-----------------------------------------------------------------------------
(* Finite sets and cardinalities *)

\* The bitmap and the fragments owed are finite.
LEMMA Finiteness ==
    ASSUME TypeOK
    PROVE  /\ IsFiniteSet(Bits) /\ IsFiniteSet(state) /\ IsFiniteSet(Owed)
           /\ Cardinality(state) \in Nat /\ Cardinality(Owed) \in Nat
<1>1. IsFiniteSet(Bits)
  BY FS_Interval, CapacityAssumption, BucketAssumption DEF Bits
<1>2. IsFiniteSet(state)
  BY <1>1, FS_Subset DEF TypeOK
<1>3. IsFiniteSet(1 .. Capacity)
  BY FS_Interval, CapacityAssumption
<1>4. IsFiniteSet(Threads \X (1 .. Capacity))
  BY <1>3, FS_Product, ThreadsAssumption
<1>5. Owed \in SUBSET (Threads \X (1 .. Capacity))
  BY DEF Owed
<1>6. IsFiniteSet(Owed)
  BY <1>4, <1>5, FS_Subset
<1>7. QED
  BY <1>1, <1>2, <1>6, FS_CardinalityType

\* A finite set that holds 0 .. n - 1 has n elements or more.
LEMMA InitialSegment ==
    ASSUME NEW n \in Nat, NEW S, IsFiniteSet(S), 0 .. n - 1 \subseteq S
    PROVE  Cardinality(S) >= n
<1>1. IsFiniteSet(0 .. n - 1)
  BY FS_Interval
<1>2. Cardinality(0 .. n - 1) = IF 0 > n - 1 THEN 0 ELSE (n - 1) - 0 + 1
  BY FS_Interval
<1>3. Cardinality(0 .. n - 1) = n
  BY <1>2
<1>4. Cardinality(0 .. n - 1) <= Cardinality(S)
  BY FS_Subset
<1>5. QED
  BY <1>3, <1>4, FS_CardinalityType

\* A scan stays inside the region, and has a fragment ahead of it wherever the
\* one it looks at is taken.
LEMMA ScanInRange ==
    ASSUME FillInv, NEW t \in Threads, Scanning(t)
    PROVE  /\ index[t] \in Fragments
           /\ index[t] \in state => index[t] + 1 < Capacity
<1>1. /\ index[t] \in Nat /\ Len(reserved[t]) \in Nat /\ num[t] \in Nat
      /\ Len(reserved[t]) < num[t] /\ num[t] <= Capacity
  BY DEF FillInv, TypeOK, CallShape, Scanning
<1>2. <<t, Len(reserved[t]) + 1>> \in Owed
  BY <1>1, CapacityAssumption DEF Owed, Owes, Scanning
<1>3. Owed # {}
  BY <1>2
<1>4. Cardinality(Owed) >= 1
  BY <1>3, Finiteness, FS_EmptySet DEF FillInv
<1>5. Cardinality(state) + Cardinality(Owed) <= Capacity
  BY Finiteness, CapacityAssumption DEF FillInv, CounterMatchesBitmap, TypeOK
<1>6. 0 .. index[t] - 1 \subseteq state
  BY DEF FillInv, NoGapBehindScan, Scanning
<1>7. IsFiniteSet(state)
  BY Finiteness DEF FillInv
<1>8. Cardinality(state) >= index[t]
  BY <1>1, <1>6, <1>7, InitialSegment
<1>9. index[t] < Capacity
  BY <1>1, <1>4, <1>5, <1>8, Finiteness, CapacityAssumption DEF FillInv
<1>10. ASSUME index[t] \in state PROVE index[t] + 1 < Capacity
  <2>1. 0 .. (index[t] + 1) - 1 \subseteq state
    BY <1>1, <1>10 DEF FillInv, NoGapBehindScan
  <2>2. index[t] + 1 \in Nat
    BY <1>1
  <2>3. Cardinality(state) >= index[t] + 1
    BY <2>1, <2>2, <1>7, InitialSegment
  <2>4. QED
    BY <1>1, <1>4, <1>5, <2>3, Finiteness, CapacityAssumption DEF FillInv
<1>11. QED
  BY <1>1, <1>9, <1>10, CapacityAssumption DEF Fragments

\* A thread whose compare-and-swap fails has lost its fragment: the bits that
\* changed lie at or above it, and the bitmap has no gap.
LEMMA FailedCasTaken ==
    ASSUME FillInv, NEW t \in Threads, pc[t] = "cas",
           Load(index[t]) # expected[t]
    PROVE  index[t] \in state
<1>1. PICK j \in Load(index[t]) : j \notin expected[t]
  BY DEF FillInv, LoadedByte
<1>2. j \in state /\ j \in Bucket(index[t]) /\ j \in Nat /\ index[t] \in Nat
  BY <1>1, CapacityAssumption, BucketAssumption DEF Load, Bucket, Bits, FillInv, TypeOK
<1>3. ~(j < index[t])
  BY <1>1, <1>2 DEF FillInv, LoadedByte
<1>4. index[t] \in 0 .. j
  BY <1>2, <1>3
<1>5. QED
  BY <1>2, <1>4 DEF FillInv, NoGapBehindScan

\* So the next probe goes on with the scan; it never gives up.
LEMMA NextProbeGoesOn ==
    ASSUME FillInv, NEW t \in Threads, Scanning(t), index[t] \in state,
           NextProbe(t)
    PROVE  /\ Goto(t, "load") /\ UNCHANGED reserved
           /\ index' = [index EXCEPT ![t] = @ + 1]
           /\ count' = [count EXCEPT ![t] = @ + 1]
<1>1. index[t] + 1 < Capacity /\ index[t] \in Nat /\ count[t] = index[t]
  BY ScanInRange DEF FillInv, CallShape, TypeOK
<1>2. Successor(index[t]) = index[t] + 1
  BY <1>1, CapacityAssumption DEF Successor
<1>3. QED
  BY <1>1, <1>2 DEF NextProbe, Advance

-----------------------------------------------------------------------------
(* The invariant is inductive: the scan *)

LEMMA StartScanStep ==
    ASSUME FillInv, NEW t \in Threads, StartScan(t)
    PROVE  FillInv'
<1>1. TypeOK' /\ (last_free_fragment = 0)'
  BY DEF FillInv, TypeOK, StartScan, Goto, shared, history
<1>2. CallShape'
  BY DEF FillInv, TypeOK, CallShape, Scanning, StartScan, Goto, shared, history
<1>3. LoadedByte'
  BY DEF FillInv, TypeOK, LoadedByte, Load, Bucket, StartScan, Goto, shared, history
<1>4. NoGapBehindScan'
  BY DEF FillInv, TypeOK, NoGapBehindScan, StartScan, Goto, shared, history
<1>5. CounterMatchesBitmap'
  <2>1. Owed' = Owed
    BY DEF FillInv, TypeOK, Owed, Owes, StartScan, Goto, shared, history
  <2>2. QED
    BY <2>1 DEF FillInv, CounterMatchesBitmap, StartScan, shared, history
<1>6. DeliveredTaken' /\ Exclusive'
  BY DEF FillInv, DeliveredTaken, Exclusive, InHand, StartScan, shared, history
<1>7. QED
  BY <1>1, <1>2, <1>3, <1>4, <1>5, <1>6 DEF FillInv

LEMMA ProbeFreeStep ==
    ASSUME FillInv, NEW t \in Threads, ProbeFree(t)
    PROVE  FillInv'
<1>1. Scanning(t) /\ index[t] \in Fragments /\ index[t] \in Bits
  BY ScanInRange, CapacityAssumption, BucketAssumption
     DEF Scanning, ProbeFree, Fragments, Bits
<1>2. TypeOK' /\ (last_free_fragment = 0)'
  BY DEF FillInv, TypeOK, ProbeFree, Goto, Load, shared, history
<1>3. CallShape'
  BY DEF FillInv, TypeOK, CallShape, Scanning, ProbeFree, Goto, shared, history
<1>4. LoadedByte'
  <2>1. \A j \in Bucket(index[t]) : j < index[t] => j \in Load(index[t])
    BY <1>1 DEF FillInv, NoGapBehindScan, Scanning, Load, Bucket, Bits, TypeOK
  <2>2. index[t] \notin Load(index[t])
    BY DEF ProbeFree, Load
  <2>3. QED
    BY <1>1, <2>1, <2>2
       DEF FillInv, TypeOK, LoadedByte, Load, ProbeFree, Goto, shared, history
<1>5. NoGapBehindScan'
  BY DEF FillInv, TypeOK, NoGapBehindScan, ProbeFree, Goto, shared, history
<1>6. CounterMatchesBitmap'
  <2>1. Owed' = Owed
    BY DEF FillInv, TypeOK, Owed, Owes, ProbeFree, Goto, shared, history
  <2>2. QED
    BY <2>1 DEF FillInv, CounterMatchesBitmap, ProbeFree, shared, history
<1>7. DeliveredTaken' /\ Exclusive'
  BY DEF FillInv, DeliveredTaken, Exclusive, InHand, ProbeFree, shared, history
<1>8. QED
  BY <1>2, <1>3, <1>4, <1>5, <1>6, <1>7 DEF FillInv

\* A probe that finds its fragment taken, or loses it, only moves on.
LEMMA MoveOn ==
    ASSUME FillInv, NEW t \in Threads, Scanning(t), index[t] \in state,
           NextProbe(t), UNCHANGED <<shared, history, op, key, num>>,
           expected' = expected \/ expected' = [expected EXCEPT ![t] = {}]
    PROVE  FillInv'
<1>1. /\ pc' = [pc EXCEPT ![t] = "load"] /\ UNCHANGED reserved
      /\ index' = [index EXCEPT ![t] = @ + 1]
      /\ count' = [count EXCEPT ![t] = @ + 1]
  BY NextProbeGoesOn DEF Goto
<1>2. UNCHANGED <<state, fragment_avail, last_free_fragment, time_table,
                  objects, lost, clobbered, op, key, num>>
  BY DEF shared, history
<1>3. TypeOK' /\ (last_free_fragment = 0)'
  <2>1. expected' \in [Threads -> SUBSET Bits]
    BY DEF FillInv, TypeOK
  <2>2. index' \in [Threads -> Nat] /\ count' \in [Threads -> Nat]
    BY <1>1 DEF FillInv, TypeOK
  <2>3. QED
    BY <1>1, <1>2, <2>1, <2>2 DEF FillInv, TypeOK
<1>4. CallShape'
  BY <1>1, <1>2 DEF FillInv, TypeOK, CallShape, Scanning
<1>5. LoadedByte'
  <2>1. ASSUME NEW u \in Threads, pc'[u] = "cas"
        PROVE  u # t /\ pc[u] = "cas" /\ index'[u] = index[u]
               /\ expected'[u] = expected[u]
    BY <1>1, <2>1 DEF FillInv, TypeOK
  <2>2. QED
    BY <1>2, <2>1 DEF FillInv, LoadedByte, Load
<1>6. NoGapBehindScan'
  <2>1. \A j \in 0 .. index[t] : j \in state
    BY DEF FillInv, NoGapBehindScan
  <2>2. ASSUME NEW u \in Threads, pc'[u] \in {"load", "cas"},
               NEW j \in 0 .. index'[u] - 1
        PROVE  j \in state
    <3>1. CASE u = t
      <4>1. index'[t] = index[t] + 1 /\ index[t] \in Nat
        BY <1>1 DEF FillInv, TypeOK
      <4>2. QED
        BY <2>1, <2>2, <3>1, <4>1
    <3>2. CASE u # t
      BY <1>1, <2>2, <3>2 DEF FillInv, TypeOK, NoGapBehindScan
    <3>3. QED
      BY <3>1, <3>2
  <2>3. QED
    BY <1>2, <2>2 DEF FillInv, NoGapBehindScan
<1>7. CounterMatchesBitmap'
  <2>1. Owed' = Owed
    BY <1>1, <1>2 DEF FillInv, TypeOK, Owed, Owes, Scanning
  <2>2. QED
    BY <1>2, <2>1 DEF FillInv, CounterMatchesBitmap
<1>8. DeliveredTaken' /\ Exclusive'
  BY <1>1, <1>2 DEF FillInv, DeliveredTaken, Exclusive, InHand
<1>9. QED
  BY <1>3, <1>4, <1>5, <1>6, <1>7, <1>8 DEF FillInv

LEMMA ProbeTakenStep ==
    ASSUME FillInv, NEW t \in Threads, ProbeTaken(t)
    PROVE  FillInv'
BY MoveOn DEF ProbeTaken, Scanning

LEMMA CasFailStep ==
    ASSUME FillInv, NEW t \in Threads, CasFail(t)
    PROVE  FillInv'
BY MoveOn, FailedCasTaken DEF CasFail, Scanning

\* A successful compare-and-swap acquires a fragment nobody had.
LEMMA CasAcquireStep ==
    ASSUME FillInv, NEW t \in Threads, CasAcquire(t)
    PROVE  FillInv'
<1> DEFINE i == index[t]
           s == Append(reserved[t], i)
<1>1. Scanning(t) /\ i \in Fragments /\ i \in Bits /\ i \in Nat
  BY ScanInRange, CapacityAssumption, BucketAssumption
     DEF Scanning, CasAcquire, Fragments, Bits
<1>2. i \notin state
  <2>1. i \in Bucket(i)
    BY <1>1 DEF Bucket
  <2>2. i \notin Load(i)
    BY DEF CasAcquire, FillInv, LoadedByte
  <2>3. QED
    BY <2>1, <2>2 DEF Load
<1>3. /\ state' = state \cup {i}
      /\ expected' = [expected EXCEPT ![t] = {}]
      /\ reserved' = [reserved EXCEPT ![t] = s]
      /\ pc' = [pc EXCEPT ![t] = IF Len(reserved[t]) + 1 < num[t] THEN "start"
                  ELSE IF op[t] = "write" THEN "store" ELSE "entry"]
      /\ UNCHANGED <<fragment_avail, last_free_fragment, time_table, objects,
                     lost, clobbered, op, key, num, index, count>>
  BY DEF CasAcquire, Return, Goto, history
<1>4. /\ s \in Seq(Nat) /\ Len(s) = Len(reserved[t]) + 1
      /\ Len(reserved[t]) \in Nat /\ reserved[t] \in Seq(Nat)
      /\ \A n \in DOMAIN s : s[n] = i \/ (n \in DOMAIN reserved[t] /\ s[n] = reserved[t][n])
      /\ \A n \in DOMAIN s : n \in DOMAIN reserved[t] \/ n = Len(s)
      /\ \A n \in DOMAIN reserved[t] : s[n] = reserved[t][n]
      /\ s[Len(s)] = i
  BY <1>1 DEF FillInv, TypeOK
<1> HIDE DEF s
<1>5. TypeOK' /\ (last_free_fragment = 0)'
  BY <1>1, <1>3, <1>4 DEF FillInv, TypeOK
<1>6. CallShape'
  <2>1. /\ num[t] \in Nat /\ Len(reserved[t]) < num[t]
        /\ op[t] = "write" => num[t] = 1
    BY <1>1 DEF FillInv, TypeOK, CallShape, Scanning
  <2>2. QED
    BY <1>1, <1>3, <1>4, <2>1 DEF FillInv, TypeOK, CallShape, Scanning
<1>7. LoadedByte'
  <2>1. ASSUME NEW u \in Threads, pc'[u] = "cas"
        PROVE  u # t /\ pc[u] = "cas" /\ index'[u] = index[u]
               /\ expected'[u] = expected[u]
    BY <1>3, <2>1 DEF FillInv, TypeOK
  <2>2. QED
    BY <1>3, <2>1 DEF FillInv, LoadedByte, Load
<1>8. NoGapBehindScan'
  <2>1. ASSUME NEW k \in state', NEW j \in 0 .. k PROVE j \in state'
    BY <1>1, <1>3, <2>1 DEF FillInv, NoGapBehindScan, Scanning
  <2>2. ASSUME NEW u \in Threads, pc'[u] \in {"load", "cas"}
        PROVE  \A j \in 0 .. index'[u] - 1 : j \in state'
    <3>1. pc[u] \in {"load", "cas"} /\ index'[u] = index[u]
      BY <1>3, <2>2 DEF FillInv, TypeOK
    <3>2. QED
      BY <1>3, <3>1 DEF FillInv, NoGapBehindScan
  <2>3. QED
    BY <2>1, <2>2 DEF NoGapBehindScan
<1>9. CounterMatchesBitmap'
  <2>1. <<t, Len(reserved[t]) + 1>> \in Owed
    <3>1. num[t] \in Nat /\ num[t] <= Capacity /\ Len(reserved[t]) < num[t]
      BY <1>1 DEF FillInv, TypeOK, CallShape, Scanning
    <3>2. QED
      BY <1>1, <1>4, <3>1, CapacityAssumption DEF Owed, Owes, Scanning
  <2>2. Owed' = Owed \ {<<t, Len(reserved[t]) + 1>>}
    <3>1. ASSUME NEW u \in Threads, NEW n \in 1 .. Capacity
          PROVE  Owes(u, n)' <=> Owes(u, n) /\ <<u, n>> # <<t, Len(reserved[t]) + 1>>
      BY <1>1, <1>3, <1>4 DEF FillInv, TypeOK, Owes, Scanning
    <3>2. QED
      BY <3>1 DEF Owed
  <2>3. Cardinality(Owed') = Cardinality(Owed) - 1
    BY <2>1, <2>2, Finiteness, FS_RemoveElement DEF FillInv
  <2>4. Cardinality(state') = Cardinality(state) + 1
    BY <1>2, <1>3, Finiteness, FS_AddElement DEF FillInv
  <2>5. QED
    BY <1>3, <2>3, <2>4, Finiteness DEF FillInv, CounterMatchesBitmap
<1>10. DeliveredTaken'
  BY <1>1, <1>3, <1>4 DEF FillInv, TypeOK, CallShape, DeliveredTaken, InHand
<1>11. Exclusive'
  <2>1. \A u \in Threads : InHand(u) = reserved[u] /\ InHand(u)' = reserved'[u]
    BY <1>3 DEF FillInv, CallShape, InHand
  <2>2. \A u \in Threads : \A n \in DOMAIN reserved[u] : reserved[u][n] # i
    BY <1>2, <2>1 DEF FillInv, DeliveredTaken
  <2>3. \A k \in Keys : \A n \in DOMAIN objects[k] : objects[k][n] # i
    BY <1>2 DEF FillInv, DeliveredTaken
  <2>4. \A u \in Threads : reserved'[u] = IF u = t THEN s ELSE reserved[u]
    BY <1>3 DEF FillInv, TypeOK
  <2>5. \A u, v \in Threads :
          \A n \in DOMAIN reserved'[u], m \in DOMAIN reserved'[v] :
            reserved'[u][n] = reserved'[v][m] => u = v /\ n = m
    <3> SUFFICES ASSUME NEW u \in Threads, NEW v \in Threads,
                        NEW n \in DOMAIN reserved'[u], NEW m \in DOMAIN reserved'[v],
                        reserved'[u][n] = reserved'[v][m]
                 PROVE  u = v /\ n = m
      OBVIOUS
    <3>1. \A x, y \in Threads :
            \A a \in DOMAIN reserved[x], b \in DOMAIN reserved[y] :
              reserved[x][a] = reserved[y][b] => x = y /\ a = b
      BY <2>1 DEF FillInv, Exclusive
    <3>2. CASE u # t /\ v # t
      BY <2>4, <3>1, <3>2
    <3>3. CASE u = t /\ v # t
      <4>1. reserved'[u] = s /\ reserved'[v] = reserved[v]
        BY <2>4, <3>3
      <4>2. s[n] # i
        BY <2>2, <4>1
      <4>3. n \in DOMAIN reserved[t] /\ s[n] = reserved[t][n]
        BY <1>4, <4>1, <4>2
      <4>4. QED
        BY <3>1, <3>3, <4>1, <4>3
    <3>4. CASE u # t /\ v = t
      <4>1. reserved'[v] = s /\ reserved'[u] = reserved[u]
        BY <2>4, <3>4
      <4>2. s[m] # i
        BY <2>2, <4>1
      <4>3. m \in DOMAIN reserved[t] /\ s[m] = reserved[t][m]
        BY <1>4, <4>1, <4>2
      <4>4. QED
        BY <3>1, <3>4, <4>1, <4>3
    <3>5. CASE u = t /\ v = t
      <4>1. n \in DOMAIN s /\ m \in DOMAIN s /\ s[n] = s[m]
        BY <2>4, <3>5
      <4>2. CASE n \in DOMAIN reserved[t] /\ m \in DOMAIN reserved[t]
        BY <1>4, <3>1, <3>5, <4>1, <4>2
      <4>3. CASE n \in DOMAIN reserved[t] /\ m = Len(s)
        BY <1>4, <2>2, <4>1, <4>3
      <4>4. CASE n = Len(s) /\ m \in DOMAIN reserved[t]
        BY <1>4, <2>2, <4>1, <4>4
      <4>5. QED
        BY <1>4, <3>5, <4>1, <4>2, <4>3, <4>4
    <3>6. QED
      BY <3>2, <3>3, <3>4, <3>5
  <2>6. \A u \in Threads, k \in Keys :
          \A n \in DOMAIN reserved'[u], m \in DOMAIN objects[k] :
            reserved'[u][n] # objects[k][m]
    BY <1>4, <2>1, <2>3, <2>4 DEF FillInv, Exclusive
  <2>7. QED
    BY <1>3, <2>1, <2>5, <2>6 DEF FillInv, Exclusive
<1>12. QED
  BY <1>5, <1>6, <1>7, <1>8, <1>9, <1>10, <1>11 DEF FillInv

-----------------------------------------------------------------------------
(* The invariant is inductive: the calls begin and end *)

\* A call that ends hands over what it collected, or drops it.
LEMMA EndCallStep ==
    ASSUME FillInv, NEW t \in Threads, pc[t] \in {"entry", "store"},
           EndCall(t), TypeOK', clobbered' = clobbered,
           UNCHANGED <<state, fragment_avail, last_free_fragment>>,
           objects' = objects \/ objects' = [objects EXCEPT ![key[t]] = reserved[t]]
    PROVE  FillInv'
<1>1. /\ pc' = [pc EXCEPT ![t] = "idle"] /\ op' = [op EXCEPT ![t] = "reserve"]
      /\ key' = [key EXCEPT ![t] = NoKey] /\ num' = [num EXCEPT ![t] = 0]
      /\ index' = [index EXCEPT ![t] = 0] /\ count' = [count EXCEPT ![t] = 0]
      /\ expected' = [expected EXCEPT ![t] = {}]
      /\ reserved' = [reserved EXCEPT ![t] = <<>>]
  BY DEF EndCall, Goto
<1>2. (last_free_fragment = 0)'
  BY DEF FillInv
<1>3. CallShape'
  BY <1>1, CapacityAssumption DEF FillInv, TypeOK, CallShape, Scanning
<1>4. LoadedByte'
  <2>1. ASSUME NEW u \in Threads, pc'[u] = "cas"
        PROVE  pc[u] = "cas" /\ index'[u] = index[u]
               /\ expected'[u] = expected[u]
    BY <1>1, <2>1 DEF FillInv, TypeOK
  <2>2. QED
    BY <2>1 DEF FillInv, LoadedByte, Load
<1>5. NoGapBehindScan'
  <2>1. ASSUME NEW u \in Threads, pc'[u] \in {"load", "cas"}
        PROVE  pc[u] \in {"load", "cas"} /\ index'[u] = index[u]
    BY <1>1, <2>1 DEF FillInv, TypeOK
  <2>2. QED
    BY <2>1 DEF FillInv, NoGapBehindScan
<1>6. CounterMatchesBitmap'
  <2>1. Owed' = Owed
    BY <1>1 DEF FillInv, TypeOK, Owed, Owes
  <2>2. QED
    BY <2>1 DEF FillInv, CounterMatchesBitmap
<1>7. \A u \in Threads : /\ InHand(u) = reserved[u]
                         /\ InHand(u)' = IF u = t THEN <<>> ELSE reserved[u]
  <2>1. \A u \in Threads : op[u] # "free" /\ op'[u] # "free"
    BY <1>3 DEF FillInv, CallShape
  <2>2. \A u \in Threads : reserved'[u] = IF u = t THEN <<>> ELSE reserved[u]
    BY <1>1 DEF FillInv, TypeOK
  <2>3. QED
    BY <2>1, <2>2 DEF InHand
<1>8. \A k \in Keys : \/ objects'[k] = objects[k]
                      \/ k = key[t] /\ objects'[k] = reserved[t]
  BY DEF FillInv, TypeOK
<1>9. DeliveredTaken'
  <2>1. \A k \in Keys : \A n \in DOMAIN objects'[k] :
          objects'[k][n] \in Fragments \cap state
    BY <1>7, <1>8 DEF FillInv, DeliveredTaken
  <2>2. QED
    BY <1>7, <2>1 DEF FillInv, DeliveredTaken
<1>10. Exclusive'
  <2>1. ASSUME NEW k \in Keys, NEW l \in Keys,
               NEW n \in DOMAIN objects'[k], NEW m \in DOMAIN objects'[l],
               objects'[k][n] = objects'[l][m]
        PROVE  k = l /\ n = m
    BY <1>7, <1>8, <2>1 DEF FillInv, Exclusive
  <2>2. ASSUME NEW u \in Threads, NEW k \in Keys,
               NEW n \in DOMAIN InHand(u)', NEW m \in DOMAIN objects'[k]
        PROVE  InHand(u)'[n] # objects'[k][m]
    BY <1>7, <1>8, <2>2 DEF FillInv, Exclusive
  <2>3. \A u, v \in Threads :
          \A n \in DOMAIN InHand(u)', m \in DOMAIN InHand(v)' :
            InHand(u)'[n] = InHand(v)'[m] => u = v /\ n = m
    BY <1>7 DEF FillInv, Exclusive
  <2>4. QED
    BY <2>1, <2>2, <2>3 DEF Exclusive
<1>11. QED
  BY <1>2, <1>3, <1>4, <1>5, <1>6, <1>9, <1>10 DEF FillInv

\* The next slot of the time table is one of its slots.
LEMMA NextSlotInRange ==
    ASSUME NEW n \in Fragments
    PROVE  NextSlot(n, Capacity) \in Fragments
BY CapacityAssumption, SMT DEF NextSlot, Fragments

LEMMA WriteEntryStep ==
    ASSUME FillInv, NEW t \in Threads, WriteEntry(t)
    PROVE  FillInv'
<1>1. key[t] \in Keys /\ pc[t] = "entry" /\ EndCall(t)
  BY DEF FillInv, CallShape, WriteEntry
<1>2. time_table' \in [first : Fragments, last : Fragments,
                       entry : [Fragments -> Keys \cup {NoKey}]]
  BY <1>1, NextSlotInRange DEF FillInv, TypeOK, WriteEntry
<1>3. TypeOK'
  BY <1>1, <1>2 DEF FillInv, TypeOK, WriteEntry, EndCall, Goto
<1>4. QED
  BY <1>1, <1>3, EndCallStep DEF WriteEntry

LEMMA WriteEntryThrowsStep ==
    ASSUME FillInv, NEW t \in Threads, WriteEntryThrows(t)
    PROVE  FillInv'
<1>1. lost' \in Seq(Nat)
  BY DEF FillInv, TypeOK, WriteEntryThrows
<1>2. TypeOK'
  BY <1>1 DEF FillInv, TypeOK, WriteEntryThrows, EndCall, Goto, shared
<1>3. QED
  BY <1>2, EndCallStep DEF WriteEntryThrows, shared

LEMMA StoreStep ==
    ASSUME FillInv, NEW t \in Threads, Store(t)
    PROVE  FillInv'
<1>1. key[t] \in Keys
  BY DEF FillInv, CallShape, Store
<1>2. TypeOK'
  BY <1>1 DEF FillInv, TypeOK, Store, EndCall, Goto, shared
<1>3. QED
  BY <1>2, EndCallStep DEF Store, shared

LEMMA StoreThrowsStep ==
    ASSUME FillInv, NEW t \in Threads, StoreThrows(t)
    PROVE  FillInv'
<1>1. lost' \in Seq(Nat)
  BY DEF FillInv, TypeOK, StoreThrows
<1>2. TypeOK'
  BY <1>1 DEF FillInv, TypeOK, StoreThrows, EndCall, Goto, shared
<1>3. QED
  BY <1>2, EndCallStep DEF StoreThrows, shared

\* Claiming n fragments of the counter makes them owed.
LEMMA ClaimStep ==
    ASSUME FillInv, NEW t \in Threads, NEW o \in {"reserve", "write"},
           NEW k \in Keys, NEW n \in Nat, o = "write" => n = 1,
           Claim(t, o, k, n)
    PROVE  FillInv'
<1>1. /\ pc[t] = "idle" /\ n <= fragment_avail
      /\ fragment_avail' = fragment_avail - n
      /\ key' = [key EXCEPT ![t] = k] /\ num' = [num EXCEPT ![t] = n]
      /\ op' = [op EXCEPT ![t] = o]
      /\ pc' = [pc EXCEPT ![t] = IF n = 0 THEN "entry" ELSE "start"]
      /\ UNCHANGED <<state, last_free_fragment, time_table, objects, lost,
                     clobbered, index, count, expected, reserved>>
  BY DEF Claim, Admit, Goto, history
<1>2. reserved[t] = <<>> /\ n <= Capacity /\ n \in 0 .. Capacity
  BY <1>1, CapacityAssumption DEF FillInv, TypeOK, CallShape
<1>3. TypeOK' /\ (last_free_fragment = 0)'
  BY <1>1, CapacityAssumption DEF FillInv, TypeOK
<1>4. CallShape'
  BY <1>1, <1>2 DEF FillInv, TypeOK, CallShape, Scanning
<1>5. LoadedByte'
  BY <1>1 DEF FillInv, TypeOK, LoadedByte, Load
<1>6. NoGapBehindScan'
  BY <1>1 DEF FillInv, TypeOK, NoGapBehindScan
<1>7. CounterMatchesBitmap'
  <2> DEFINE New == {t} \X (1 .. n)
  <2>1. Owed' = Owed \cup New
    <3>1. ASSUME NEW u \in Threads, NEW m \in 1 .. Capacity
          PROVE  Owes(u, m)' <=> Owes(u, m) \/ (u = t /\ m \in 1 .. n)
      BY <1>1, <1>2 DEF FillInv, TypeOK, Owes
    <3>2. New \subseteq Threads \X (1 .. Capacity)
      BY <1>2, CapacityAssumption
    <3>3. QED
      BY <3>1, <3>2 DEF Owed
  <2>2. Owed \cap New = {}
    BY <1>1 DEF Owed, Owes
  <2>3. IsFiniteSet(New) /\ Cardinality(New) = n
    <3>1. IsFiniteSet(1 .. n) /\ Cardinality(1 .. n) = n
      <4>1. Cardinality(1 .. n) = IF 1 > n THEN 0 ELSE n - 1 + 1
        BY FS_Interval
      <4>2. QED
        BY <4>1, FS_Interval
    <3>2. IsFiniteSet({t}) /\ Cardinality({t}) = 1
      BY FS_Singleton
    <3>3. IsFiniteSet(New) /\ Cardinality(New) = Cardinality({t}) * Cardinality(1 .. n)
      BY <3>1, <3>2, FS_Product
    <3>4. QED
      BY <3>1, <3>2, <3>3
  <2>4. Cardinality(Owed \cup New)
          = Cardinality(Owed) + Cardinality(New) - Cardinality(Owed \cap New)
    BY <2>3, Finiteness, FS_Union DEF FillInv
  <2>5. Cardinality(Owed') = Cardinality(Owed) + n
    <3>1. Cardinality(Owed \cap New) = 0
      BY <2>2, FS_EmptySet
    <3>2. Cardinality(Owed) \in Nat
      BY Finiteness DEF FillInv
    <3> HIDE DEF New
    <3>3. QED
      BY <2>1, <2>3, <2>4, <3>1, <3>2
  <2>6. QED
    <3>1. /\ Cardinality(state) \in Nat /\ Cardinality(Owed) \in Nat
          /\ fragment_avail \in Int /\ Capacity \in Int
      BY Finiteness, CapacityAssumption DEF FillInv, TypeOK
    <3>2. Cardinality(state) + Cardinality(Owed) = Capacity - fragment_avail
      BY DEF FillInv, CounterMatchesBitmap
    <3>3. state' = state /\ fragment_avail' = fragment_avail - n
      BY <1>1
    <3> HIDE DEF New
    <3>4. Cardinality(state') + Cardinality(Owed') = Capacity - fragment_avail'
      BY <2>5, <3>1, <3>2, <3>3
    <3>5. QED
      BY <3>4 DEF CounterMatchesBitmap
<1>8. DeliveredTaken' /\ Exclusive'
  <2>1. \A u \in Threads : InHand(u)' = InHand(u)
    BY <1>1 DEF FillInv, TypeOK, CallShape, InHand
  <2>2. QED
    BY <1>1, <2>1 DEF FillInv, DeliveredTaken, Exclusive
<1>9. QED
  BY <1>3, <1>4, <1>5, <1>6, <1>7, <1>8 DEF FillInv

-----------------------------------------------------------------------------
(* The theorems *)

LEMMA FillInit == Init => FillInv
<1> SUFFICES ASSUME Init PROVE FillInv
  OBVIOUS
<1>1. TypeOK /\ last_free_fragment = 0
  BY CapacityAssumption DEF Init, TypeOK, Fragments
<1>2. CallShape
  BY CapacityAssumption DEF Init, CallShape, Scanning
<1>3. LoadedByte /\ NoGapBehindScan
  BY DEF Init, LoadedByte, NoGapBehindScan
<1>4. CounterMatchesBitmap
  <2>1. Owed = {}
    BY DEF Init, Owed, Owes
  <2>2. QED
    BY <2>1, FS_EmptySet, CapacityAssumption DEF Init, CounterMatchesBitmap
<1>5. DeliveredTaken /\ Exclusive
  BY DEF Init, DeliveredTaken, Exclusive, InHand
<1>6. QED
  BY <1>1, <1>2, <1>3, <1>4, <1>5 DEF FillInv

LEMMA FillStep == FillInv /\ [FillNext]_vars => FillInv'
<1> SUFFICES ASSUME FillInv, [FillNext]_vars PROVE FillInv'
  OBVIOUS
<1>1. CASE UNCHANGED vars
  BY <1>1 DEF vars, shared, locals, history, FillInv, TypeOK, CallShape,
     LoadedByte, Load, NoGapBehindScan, CounterMatchesBitmap, Owed, Owes,
     DeliveredTaken, Exclusive, InHand, Scanning
<1>2. ASSUME NEW t \in Threads, CallReserve(t) PROVE FillInv'
  <2>1. ASSUME NEW k \in Keys, NEW n \in Requests, ReserveFragments(t, k, n)
        PROVE  FillInv'
    BY <2>1, ClaimStep, RequestsAssumption DEF ReserveFragments
  <2>2. ASSUME NEW k \in Keys, WriteFragment(t, k) PROVE FillInv'
    BY <2>2, ClaimStep DEF WriteFragment
  <2>3. ASSUME NEW n \in Requests, ReserveRefused(t, n) PROVE FillInv'
    BY <2>3, <1>1 DEF ReserveRefused
  <2>4. QED
    BY <1>2, <2>1, <2>2, <2>3 DEF CallReserve
<1>3. ASSUME NEW t \in Threads, Acquire(t) PROVE FillInv'
  BY <1>3, StartScanStep, ProbeTakenStep, ProbeFreeStep, CasAcquireStep,
     CasFailStep, WriteEntryStep, WriteEntryThrowsStep, StoreStep,
     StoreThrowsStep DEF Acquire
<1>4. QED
  BY <1>1, <1>2, <1>3 DEF FillNext

LEMMA FillInvariant == FillSpec => []FillInv
BY FillInit, FillStep, PTL DEF FillSpec

\* Every shared word and local of the allocator keeps its type.
THEOREM FillTypeCorrect == FillSpec => []TypeOK
<1>1. FillInv => TypeOK
  BY DEF FillInv
<1>2. QED
  BY <1>1, FillInvariant, PTL

\* Whatever the number of threads and their interleaving, filling a region
\* never delivers a fragment twice.
THEOREM FillExclusive == FillSpec => []Exclusive
<1>1. FillInv => Exclusive
  BY DEF FillInv
<1>2. QED
  BY <1>1, FillInvariant, PTL

\* Every fragment delivered while filling is inside the region and its bit is
\* set: the bounded scan of _acquire_free_fragment never gives up.
THEOREM FillDeliversTaken == FillSpec => []DeliveredTaken
<1>1. FillInv => DeliveredTaken
  BY DEF FillInv
<1>2. QED
  BY <1>1, FillInvariant, PTL

\* A failed compare-and-swap, which skips its index, leaves no free fragment
\* behind the scan.
THEOREM FillNoGap == FillSpec => []NoGapBehindScan
<1>1. FillInv => NoGapBehindScan
  BY DEF FillInv
<1>2. QED
  BY <1>1, FillInvariant, PTL

\* fragment_avail, the bitmap and the fragments still owed agree at every step.
THEOREM FillCounter == FillSpec => []CounterMatchesBitmap
<1>1. FillInv => CounterMatchesBitmap
  BY DEF FillInv
<1>2. QED
  BY <1>1, FillInvariant, PTL

\* While the file of a region fits its 32 bits, filling it never lets the
\* writes of two fragments meet, nor a write reach the mapped header: no index
\* is delivered twice, and different indices lie apart.
THEOREM FillBytesApart == ASSUME Fits(Capacity) PROVE FillSpec => []BytesApart
<1>1. FillInv => BytesApart
  <2> SUFFICES ASSUME FillInv,
                      NEW k \in Keys, NEW l \in Keys,
                      NEW i \in DOMAIN objects[k], NEW j \in DOMAIN objects[l]
               PROVE  /\ MemSize(Capacity) <= Offset(Capacity, objects[k][i])
                      /\ Offset(Capacity, objects[k][i]) + FragmentSize <= FileSize(Capacity)
                      /\ \/ k = l /\ i = j
                         \/ Offset(Capacity, objects[k][i]) + FragmentSize <= Offset(Capacity, objects[l][j])
                         \/ Offset(Capacity, objects[l][j]) + FragmentSize <= Offset(Capacity, objects[k][i])
    BY DEF BytesApart
  <2>1. objects[k][i] \in 0 .. Capacity - 1 /\ objects[l][j] \in 0 .. Capacity - 1
    BY DEF FillInv, DeliveredTaken, Fragments
  <2>2. objects[k][i] = objects[l][j] => k = l /\ i = j
    BY DEF FillInv, Exclusive
  <2>3. Capacity \in Nat
    BY CapacityAssumption
  <2>4. /\ MemSize(Capacity) <= Offset(Capacity, objects[k][i])
        /\ Offset(Capacity, objects[k][i]) + FragmentSize <= FileSize(Capacity)
    BY <2>1, <2>3, FragmentsApart
  <2>5. CASE objects[k][i] = objects[l][j]
    BY <2>2, <2>4, <2>5
  <2>6. CASE objects[k][i] < objects[l][j]
    <3>1. objects[l][j] \in objects[k][i] + 1 .. Capacity - 1
      BY <2>1, <2>3, <2>6
    <3> QED
      BY <3>1, <2>1, <2>3, <2>4, FragmentsApart
  <2>7. CASE objects[l][j] < objects[k][i]
    <3>1. objects[k][i] \in objects[l][j] + 1 .. Capacity - 1
      BY <2>1, <2>3, <2>7
    <3> QED
      BY <3>1, <2>1, <2>3, <2>4, FragmentsApart
  <2> QED
    BY <2>1, <2>3, <2>5, <2>6, <2>7
<1>2. QED
  BY <1>1, FillInvariant, PTL

-----------------------------------------------------------------------------
(* Filling and freeing: types and locals                                   *)

\* The indices that a scan may end on: it wraps only past Capacity + 1.
Reach == 0 .. Capacity + 1

\* What the locals of a thread hold when fragments are freed as well.
RecycleShape ==
    /\ last_free_fragment \in Reach
    /\ lost \in Seq(Reach)
    /\ \A k \in Keys : objects[k] \in Seq(Reach)
    /\ \A t \in Threads :
      /\ index[t] \in Reach /\ reserved[t] \in Seq(Reach)
      /\ pc[t] \in {"start", "load", "cas", "entry", "store"} => key[t] \in Keys
      /\ pc[t] = "idle" => num[t] = 0 /\ reserved[t] = <<>>
      /\ pc[t] \in {"start", "load", "cas"} => Len(reserved[t]) < num[t]
      /\ pc[t] \in {"load", "cas"} => count[t] < Capacity
      /\ pc[t] \in {"entry", "store"} => Len(reserved[t]) = num[t]
      /\ pc[t] \in {"freeload", "freecas", "freelast"} => reserved[t] # <<>>
      /\ pc[t] = "freeavail" => reserved[t] = <<>>

RecycleTypes == TypeOK /\ RecycleShape

LEMMA HeadAndTail ==
    ASSUME NEW S, NEW s \in Seq(S), s # <<>>
    PROVE  /\ Head(s) \in S /\ Tail(s) \in Seq(S)
           /\ Len(s) = 1 <=> Tail(s) = <<>>
           /\ Range(s) = {Head(s)} \cup Range(Tail(s))
<1>1. /\ Head(s) \in S /\ Tail(s) \in Seq(S) /\ Len(Tail(s)) = Len(s) - 1
      /\ \A i \in 1 .. Len(Tail(s)) : Tail(s)[i] = s[i + 1]
  BY HeadTailProperties
<1>2. Len(s) \in Nat /\ Len(s) >= 1 /\ DOMAIN s = 1 .. Len(s) /\ Head(s) = s[1]
  BY LenProperties, EmptySeq
<1>3. Tail(s) # <<>> => Len(Tail(s)) \in Nat \ {0}
  BY <1>1, EmptySeq
<1>4. Len(<<>>) = 0
  BY EmptySeq
<1>5. DOMAIN Tail(s) = 1 .. Len(Tail(s))
  BY <1>1, LenProperties
<1>6. ASSUME NEW x PROVE x \in Range(s) <=> x \in {Head(s)} \cup Range(Tail(s))
  <2>1. ASSUME NEW i \in 1 .. Len(s), s[i] = x, i # 1 PROVE x \in Range(Tail(s))
    <3>1. i - 1 \in 1 .. Len(Tail(s)) /\ (i - 1) + 1 = i
      BY <2>1, <1>1, <1>2
    <3>2. Tail(s)[i - 1] = x
      BY <3>1, <2>1, <1>1
    <3> QED
      BY <3>1, <3>2, <1>5 DEF Range
  <2>2. ASSUME NEW i \in 1 .. Len(Tail(s)), Tail(s)[i] = x PROVE x \in Range(s)
    <3>1. i + 1 \in 1 .. Len(s) /\ s[i + 1] = x
      BY <2>2, <1>1, <1>2
    <3> QED
      BY <3>1, <1>2 DEF Range
  <2>3. Head(s) \in Range(s)
    BY <1>2 DEF Range
  <2> QED
    BY <2>1, <2>2, <2>3, <1>2, <1>5 DEF Range
<1> QED
  BY <1>1, <1>2, <1>3, <1>4, <1>6

\* A scan that ends hands its index over; another one goes on.
LEMMA ReturnShape ==
    ASSUME RecycleTypes, NEW t \in Threads, pc[t] \in {"load", "cas"}, NEW i \in Reach, Return(t, i)
    PROVE  /\ reserved' \in [Threads -> Seq(Nat)] /\ reserved'[t] \in Seq(Reach)
           /\ \A u \in Threads \ {t} : reserved'[u] = reserved[u] /\ pc'[u] = pc[u]
           /\ pc' \in [Threads -> {"idle", "start", "load", "cas", "entry", "store",
                                   "freeload", "freecas", "freelast", "freeavail"}]
           /\ \/ pc'[t] = "start" /\ Len(reserved'[t]) < num[t]
              \/ pc'[t] \in {"entry", "store"} /\ Len(reserved'[t]) = num[t]
<1>1. /\ reserved[t] \in Seq(Reach) /\ Len(reserved[t]) \in Nat /\ Len(reserved[t]) < num[t]
      /\ num[t] \in Nat /\ reserved \in [Threads -> Seq(Nat)]
  BY DEF RecycleTypes, TypeOK, RecycleShape
<1>2. Append(reserved[t], i) \in Seq(Reach) /\ Len(Append(reserved[t], i)) = Len(reserved[t]) + 1
  BY <1>1, AppendProperties
<1>3. Append(reserved[t], i) \in Seq(Nat)
  BY <1>1, CapacityAssumption, AppendProperties DEF Reach
<1>4. reserved' = [reserved EXCEPT ![t] = Append(reserved[t], i)]
  BY DEF Return
<1>5. pc' = [pc EXCEPT ![t] = IF Len(reserved[t]) + 1 < num[t] THEN "start"
               ELSE IF op[t] = "write" THEN "store" ELSE "entry"]
  BY DEF Return, Goto
<1> QED
  BY <1>1, <1>2, <1>3, <1>4, <1>5 DEF RecycleTypes, TypeOK

\* A probe moves on, or was the last one of its scan.
LEMMA NextProbeShape ==
    ASSUME RecycleTypes, NEW t \in Threads, pc[t] \in {"load", "cas"}, NextProbe(t),
           UNCHANGED <<shared, history, op, key, num>>,
           expected' \in [Threads -> SUBSET Bits]
    PROVE  RecycleTypes'
<1>1. /\ index[t] \in Reach /\ count[t] \in Nat /\ count[t] < Capacity
      /\ index \in [Threads -> Nat] /\ count \in [Threads -> Nat]
  BY DEF RecycleTypes, TypeOK, RecycleShape
<1>2. Successor(index[t]) \in Reach
  BY <1>1, CapacityAssumption DEF Successor, Reach
<1>3. /\ index' = [index EXCEPT ![t] = Successor(index[t])] /\ count' = [count EXCEPT ![t] = count[t] + 1]
  BY DEF NextProbe, Advance
<1>4. index' \in [Threads -> Nat] /\ count' \in [Threads -> Nat]
  BY <1>1, <1>2, <1>3, CapacityAssumption DEF Reach
<1>5. UNCHANGED <<state, fragment_avail, last_free_fragment, time_table, objects, lost, clobbered, op, key, num>>
  BY DEF shared, history
<1>6. CASE count[t] + 1 < Capacity
  <2>1. pc' = [pc EXCEPT ![t] = "load"] /\ reserved' = reserved
    BY <1>6 DEF NextProbe, Advance, Goto
  <2>2. TypeOK'
    BY <1>4, <1>5, <2>1 DEF RecycleTypes, TypeOK
  <2>3. RecycleShape'
    BY <1>1, <1>2, <1>3, <1>5, <1>6, <2>1 DEF RecycleTypes, TypeOK, RecycleShape
  <2> QED
    BY <2>2, <2>3 DEF RecycleTypes
<1>7. CASE ~(count[t] + 1 < Capacity)
  <2>1. Return(t, Successor(index[t]))
    BY <1>7 DEF NextProbe, Advance
  <2>2. /\ reserved' \in [Threads -> Seq(Nat)] /\ reserved'[t] \in Seq(Reach)
        /\ \A u \in Threads \ {t} : reserved'[u] = reserved[u] /\ pc'[u] = pc[u]
        /\ pc' \in [Threads -> {"idle", "start", "load", "cas", "entry", "store",
                                "freeload", "freecas", "freelast", "freeavail"}]
        /\ \/ pc'[t] = "start" /\ Len(reserved'[t]) < num[t]
           \/ pc'[t] \in {"entry", "store"} /\ Len(reserved'[t]) = num[t]
    BY <1>2, <2>1, ReturnShape
  <2>3. TypeOK'
    BY <1>4, <1>5, <2>2 DEF RecycleTypes, TypeOK
  <2>4. RecycleShape'
    BY <1>1, <1>2, <1>3, <1>5, <2>2 DEF RecycleTypes, TypeOK, RecycleShape
  <2> QED
    BY <2>3, <2>4 DEF RecycleTypes
<1> QED
  BY <1>6, <1>7

\* A call that ends leaves its locals as they were before it.
LEMMA EndCallShape ==
    ASSUME RecycleTypes, NEW t \in Threads, EndCall(t), clobbered' = clobbered,
           state' = state, last_free_fragment' = last_free_fragment, fragment_avail' \in 0 .. Capacity,
           time_table' \in [first : Fragments, last : Fragments, entry : [Fragments -> Keys \cup {NoKey}]],
           lost' = lost \/ lost' = lost \o reserved[t],
           objects' = objects \/ (key[t] \in Keys /\ objects' = [objects EXCEPT ![key[t]] = reserved[t]])
    PROVE  RecycleTypes'
<1>1. /\ pc' = [pc EXCEPT ![t] = "idle"] /\ op' = [op EXCEPT ![t] = "reserve"]
      /\ key' = [key EXCEPT ![t] = NoKey] /\ num' = [num EXCEPT ![t] = 0]
      /\ index' = [index EXCEPT ![t] = 0] /\ count' = [count EXCEPT ![t] = 0]
      /\ expected' = [expected EXCEPT ![t] = {}]
      /\ reserved' = [reserved EXCEPT ![t] = <<>>]
  BY DEF EndCall, Goto
<1>2. /\ reserved[t] \in Seq(Reach) /\ reserved[t] \in Seq(Nat) /\ lost \in Seq(Reach) /\ lost \in Seq(Nat)
      /\ 0 \in Reach /\ <<>> \in Seq(Reach) /\ <<>> \in Seq(Nat)
  BY CapacityAssumption DEF RecycleTypes, TypeOK, RecycleShape, Reach
<1>3. lost' \in Seq(Reach) /\ lost' \in Seq(Nat)
  <2>1. lost \o reserved[t] \in Seq(Reach) /\ lost \o reserved[t] \in Seq(Nat)
    BY <1>2, ConcatProperties
  <2> QED
    BY <1>2, <2>1
<1>4. objects' \in [Keys -> Seq(Nat)] /\ \A k \in Keys : objects'[k] \in Seq(Reach)
  BY <1>2 DEF RecycleTypes, TypeOK, RecycleShape
<1>5. TypeOK'
  BY <1>1, <1>2, <1>3, <1>4 DEF RecycleTypes, TypeOK
<1>6. RecycleShape'
  BY <1>1, <1>2, <1>3, <1>4 DEF RecycleTypes, TypeOK, RecycleShape
<1> QED
  BY <1>5, <1>6 DEF RecycleTypes

LEMMA RecycleTypesInit == Init => RecycleTypes
BY CapacityAssumption DEF Init, RecycleTypes, TypeOK, RecycleShape, Fragments, Reach

LEMMA RecycleTypesNext == RecycleTypes /\ [Next]_vars => RecycleTypes'
<1> SUFFICES ASSUME RecycleTypes, [Next]_vars PROVE RecycleTypes'
  OBVIOUS
<1> USE CapacityAssumption, BucketAssumption
<1>1. CASE UNCHANGED vars
  BY <1>1 DEF vars, shared, locals, history, RecycleTypes, TypeOK, RecycleShape
<1>2. ASSUME NEW t \in Threads, NEW o \in {"reserve", "write"}, NEW k \in Keys, NEW n \in Nat, Claim(t, o, k, n)
      PROVE  RecycleTypes'
  <2>1. /\ pc[t] = "idle" /\ n <= fragment_avail /\ fragment_avail' = fragment_avail - n
        /\ key' = [key EXCEPT ![t] = k] /\ num' = [num EXCEPT ![t] = n] /\ op' = [op EXCEPT ![t] = o]
        /\ pc' = [pc EXCEPT ![t] = IF n = 0 THEN "entry" ELSE "start"]
        /\ UNCHANGED <<state, last_free_fragment, time_table, objects, lost, clobbered, index, count,
                       expected, reserved>>
    BY <1>2 DEF Claim, Admit, Goto, history
  <2>2. TypeOK'
    BY <2>1 DEF RecycleTypes, TypeOK
  <2>3. RecycleShape'
    BY <2>1 DEF RecycleTypes, TypeOK, RecycleShape
  <2> QED
    BY <2>2, <2>3 DEF RecycleTypes
<1>3. ASSUME NEW t \in Threads, StartScan(t) PROVE RecycleTypes'
  <2>1. TypeOK'
    BY <1>3 DEF StartScan, Goto, shared, history, RecycleTypes, TypeOK, RecycleShape
  <2>2. RecycleShape'
    BY <1>3 DEF StartScan, Goto, shared, history, RecycleTypes, TypeOK, RecycleShape
  <2> QED
    BY <2>1, <2>2 DEF RecycleTypes
<1>4. ASSUME NEW t \in Threads, ProbeTaken(t) PROVE RecycleTypes'
  BY <1>4, NextProbeShape DEF ProbeTaken, RecycleTypes, TypeOK
<1>5. ASSUME NEW t \in Threads, ProbeFree(t) PROVE RecycleTypes'
  <2>1. TypeOK'
    BY <1>5 DEF ProbeFree, Load, Goto, shared, history, RecycleTypes, TypeOK
  <2>2. RecycleShape'
    BY <1>5 DEF ProbeFree, Goto, shared, history, RecycleTypes, TypeOK, RecycleShape
  <2> QED
    BY <2>1, <2>2 DEF RecycleTypes
<1>6. ASSUME NEW t \in Threads, CasAcquire(t) PROVE RecycleTypes'
  <2>1. index[t] \in Reach /\ index[t] \in Bits
    BY DEF RecycleTypes, RecycleShape, Reach, Bits
  <2>2. state' \subseteq Bits /\ expected' \in [Threads -> SUBSET Bits]
    BY <1>6, <2>1 DEF CasAcquire, RecycleTypes, TypeOK
  <2>3. UNCHANGED <<fragment_avail, last_free_fragment, time_table, objects, lost, clobbered, op, key, num,
                    index, count>>
    BY <1>6 DEF CasAcquire, history
  <2>4. pc[t] = "cas" /\ Return(t, index[t])
    BY <1>6 DEF CasAcquire
  <2> QED
    BY ZenonT(30), <2>1, <2>2, <2>3, <2>4, ReturnShape DEF RecycleTypes, TypeOK, RecycleShape
<1>7. ASSUME NEW t \in Threads, CasFail(t) PROVE RecycleTypes'
  BY <1>7, NextProbeShape DEF CasFail, RecycleTypes, TypeOK
<1>8. ASSUME NEW t \in Threads, WriteEntry(t) PROVE RecycleTypes'
  <2>1. NextSlot(time_table.last, Capacity) \in Fragments
    BY SMT DEF NextSlot, Fragments, RecycleTypes, TypeOK
  <2>2. key[t] \in Keys
    BY <1>8 DEF WriteEntry, RecycleTypes, RecycleShape
  <2>3. time_table' \in [first : Fragments, last : Fragments, entry : [Fragments -> Keys \cup {NoKey}]]
    BY <1>8, <2>1, <2>2 DEF WriteEntry, RecycleTypes, TypeOK
  <2> QED
    BY <1>8, <2>2, <2>3, EndCallShape DEF WriteEntry, RecycleTypes, TypeOK
<1>9. ASSUME NEW t \in Threads, WriteEntryThrows(t) PROVE RecycleTypes'
  BY <1>9, EndCallShape DEF WriteEntryThrows, shared, RecycleTypes, TypeOK
<1>10. ASSUME NEW t \in Threads, Store(t) PROVE RecycleTypes'
  BY <1>10, EndCallShape DEF Store, shared, RecycleTypes, TypeOK, RecycleShape
<1>11. ASSUME NEW t \in Threads, StoreThrows(t) PROVE RecycleTypes'
  BY <1>11, EndCallShape DEF StoreThrows, shared, RecycleTypes, TypeOK
<1>12. ASSUME NEW t \in Threads, NEW k \in Keys \cup {NoKey}, pc[t] = "idle", BeginFree(t, k),
              time_table' \in [first : Fragments, last : Fragments, entry : [Fragments -> Keys \cup {NoKey}]]
       PROVE  RecycleTypes'
  <2>1. FragmentsOf(k) \in Seq(Reach) /\ FragmentsOf(k) \in Seq(Nat) /\ Len(FragmentsOf(k)) \in Nat
    BY DEF FragmentsOf, RecycleTypes, TypeOK, RecycleShape
  <2>2. /\ key' = [key EXCEPT ![t] = k] /\ reserved' = [reserved EXCEPT ![t] = FragmentsOf(k)]
        /\ num' = [num EXCEPT ![t] = Len(FragmentsOf(k))] /\ op' = [op EXCEPT ![t] = "free"]
        /\ objects' = [x \in Keys |-> IF x = k THEN <<>> ELSE objects[x]]
        /\ pc' = [pc EXCEPT ![t] = IF FragmentsOf(k) = <<>> THEN "freeavail" ELSE "freeload"]
        /\ UNCHANGED <<state, fragment_avail, last_free_fragment, lost, clobbered, index, count, expected>>
    BY <1>12 DEF BeginFree, Goto
  <2>3. <<>> \in Seq(Nat) /\ <<>> \in Seq(Reach)
    BY EmptySeq
  <2>4. objects' \in [Keys -> Seq(Nat)] /\ \A x \in Keys : objects'[x] \in Seq(Reach)
    BY <2>2, <2>3 DEF RecycleTypes, TypeOK, RecycleShape
  <2>5. TypeOK'
    BY <1>12, <2>1, <2>2, <2>4 DEF RecycleTypes, TypeOK
  <2>6. RecycleShape'
    BY <2>1, <2>2, <2>4 DEF RecycleTypes, TypeOK, RecycleShape
  <2> QED
    BY <2>5, <2>6 DEF RecycleTypes
<1>13. ASSUME NEW t \in Threads, FreeOldest(t) PROVE RecycleTypes'
  <2>1. NextSlot(time_table.first, Capacity) \in Fragments
    BY SMT DEF NextSlot, Fragments, RecycleTypes, TypeOK
  <2>2. /\ time_table' \in [first : Fragments, last : Fragments, entry : [Fragments -> Keys \cup {NoKey}]]
        /\ time_table.entry[time_table.first] \in Keys \cup {NoKey}
    BY <1>13, <2>1 DEF FreeOldest, RecycleTypes, TypeOK
  <2> QED
    BY <1>12, <1>13, <2>2 DEF FreeOldest
<1>14. ASSUME NEW t \in Threads, NEW k \in Keys, FreeWritten(t, k) PROVE RecycleTypes'
  BY <1>12, <1>14 DEF FreeWritten, RecycleTypes, TypeOK
<1>15. ASSUME NEW t \in Threads, FreeLoad(t) PROVE RecycleTypes'
  <2>0. /\ pc[t] = "freeload"
        /\ pc' = [pc EXCEPT ![t] = "freecas"] \/ pc' = [pc EXCEPT ![t] = "freelast"]
        /\ expected' = [expected EXCEPT ![t] = Load(Head(reserved[t]))] \/ expected' = expected
        /\ UNCHANGED <<shared, history, op, key, num, index, count, reserved>>
    BY <1>15 DEF FreeLoad, Goto
  <2>a. Load(Head(reserved[t])) \in SUBSET Bits
    BY DEF Load, Bucket
  <2>b. expected' \in [Threads -> SUBSET Bits]
    BY <2>0, <2>a DEF RecycleTypes, TypeOK
  <2>1. TypeOK'
    BY <2>0, <2>b DEF shared, history, RecycleTypes, TypeOK
  <2>2. RecycleShape'
    BY SMTT(30), <2>0 DEF shared, history, RecycleTypes, TypeOK, RecycleShape
  <2> QED
    BY <2>1, <2>2 DEF RecycleTypes
<1>16. ASSUME NEW t \in Threads, FreeCas(t) PROVE RecycleTypes'
  <2>1. state' \subseteq Bits /\ clobbered' \in BOOLEAN
    <3>1. CASE FreeStore(Head(reserved[t]))
      BY <3>1 DEF FreeStore, Desired, Bucket, RecycleTypes, TypeOK
    <3>2. CASE UNCHANGED <<state, clobbered>>
      BY <3>2 DEF RecycleTypes, TypeOK
    <3> QED
      BY <1>16, <3>1, <3>2 DEF FreeCas
  <2>2. pc[t] = "freecas" /\ (pc' = [pc EXCEPT ![t] = "freelast"] \/ pc' = [pc EXCEPT ![t] = "freeload"])
    BY <1>16 DEF FreeCas, Goto
  <2>3. TypeOK'
    BY <1>16, <2>1, <2>2 DEF FreeCas, RecycleTypes, TypeOK
  <2>4. RecycleShape'
    BY SMTT(30), <1>16, <2>2 DEF FreeCas, RecycleTypes, TypeOK, RecycleShape
  <2> QED
    BY <2>3, <2>4 DEF RecycleTypes
<1>17. ASSUME NEW t \in Threads, FreeLast(t) PROVE RecycleTypes'
  <2>1. pc[t] = "freelast" /\ reserved[t] \in Seq(Reach) /\ reserved[t] \in Seq(Nat) /\ reserved[t] # <<>>
    BY <1>17 DEF FreeLast, RecycleTypes, TypeOK, RecycleShape
  <2>2. /\ Head(reserved[t]) \in Reach /\ Head(reserved[t]) \in Nat
        /\ Tail(reserved[t]) \in Seq(Reach) /\ Tail(reserved[t]) \in Seq(Nat)
        /\ Len(reserved[t]) = 1 <=> Tail(reserved[t]) = <<>>
    BY <2>1, HeadAndTail
  <2>3. /\ last_free_fragment' = Head(reserved[t]) /\ reserved' = [reserved EXCEPT ![t] = Tail(reserved[t])]
        /\ pc' = [pc EXCEPT ![t] = IF Len(reserved[t]) = 1 THEN "freeavail" ELSE "freeload"]
        /\ UNCHANGED <<state, fragment_avail, time_table, objects, lost, clobbered, op, key, num, index, count,
                       expected>>
    BY <1>17 DEF FreeLast, Goto, history
  <2>4. TypeOK'
    BY <2>2, <2>3 DEF RecycleTypes, TypeOK
  <2>5. RecycleShape'
    BY <2>1, <2>2, <2>3 DEF RecycleTypes, TypeOK, RecycleShape
  <2> QED
    BY <2>4, <2>5 DEF RecycleTypes
<1>18. ASSUME NEW t \in Threads, FreeAvail(t) PROVE RecycleTypes'
  <2>1. fragment_avail' \in 0 .. Capacity
    BY <1>18 DEF FreeAvail, RecycleTypes, TypeOK
  <2> QED
    BY <1>18, <2>1, EndCallShape DEF FreeAvail, history, RecycleTypes, TypeOK
<1> QED
  BY <1>1, <1>2, <1>3, <1>4, <1>5, <1>6, <1>7, <1>8, <1>9, <1>10, <1>11, <1>13, <1>14, <1>15, <1>16, <1>17,
     <1>18, RequestsAssumption
  DEF Next, CallReserve, CallFree, Acquire, Release, ReserveFragments, WriteFragment, ReserveRefused,
      FreeOldestRefused

-----------------------------------------------------------------------------
(* Filling and freeing: the counter                                        *)

\* A value of f is no more than the sum, which changes with it.
LEMMA TotalChanges ==
    ASSUME NEW S, NEW f \in [S -> Nat], IsFiniteSet(Units(f)), NEW x \in S, NEW n \in Nat
    PROVE  /\ Total(f) \in Nat /\ f[x] <= Total(f)
           /\ IsFiniteSet(Units([f EXCEPT ![x] = n]))
           /\ Total([f EXCEPT ![x] = n]) = Total(f) - f[x] + n
<1> DEFINE Of(m) == {x} \X (1 .. m)
           Rest == Units(f) \ Of(f[x])
           g == [f EXCEPT ![x] = n]
<1>1. ASSUME NEW m \in Nat PROVE IsFiniteSet(Of(m)) /\ Cardinality(Of(m)) = m
  <2>1. IsFiniteSet(1 .. m) /\ Cardinality(1 .. m) = m
    <3>1. IsFiniteSet(1 .. m) /\ Cardinality(1 .. m) = IF 1 > m THEN 0 ELSE m - 1 + 1
      BY FS_Interval
    <3> QED
      BY <3>1
  <2>2. IsFiniteSet({x}) /\ Cardinality({x}) = 1
    BY FS_Singleton
  <2>3. IsFiniteSet(Of(m)) /\ Cardinality(Of(m)) = Cardinality({x}) * Cardinality(1 .. m)
    BY <2>1, <2>2, FS_Product
  <2> QED
    BY <2>1, <2>2, <2>3
<1>2. f[x] \in Nat
  OBVIOUS
<1>3. Units(f) = Rest \cup Of(f[x]) /\ Rest \cap Of(f[x]) = {}
  BY DEF Units
<1>4. Units(g) = Rest \cup Of(n) /\ Rest \cap Of(n) = {}
  <2>1. g \in [S -> Nat] /\ g[x] = n /\ \A y \in S \ {x} : g[y] = f[y]
    OBVIOUS
  <2> HIDE DEF g
  <2>2. Rest = UNION {{y} \X (1 .. f[y]) : y \in S \ {x}}
    BY DEF Units
  <2>3. Units(g) = Of(n) \cup UNION {{y} \X (1 .. g[y]) : y \in S \ {x}}
    BY <2>1 DEF Units
  <2>4. Units(g) = Of(n) \cup Rest
    BY <2>1, <2>2, <2>3
  <2>5. Rest \cap Of(n) = {}
    BY <2>2
  <2> QED
    BY <2>4, <2>5
<1>5. IsFiniteSet(Rest) /\ Cardinality(Rest) \in Nat
  BY FS_Subset, FS_CardinalityType
<1> HIDE DEF Of, Rest, g
<1>6. Cardinality(Units(f)) = Cardinality(Rest) + f[x]
  <2>1. Cardinality(Rest \cup Of(f[x])) = Cardinality(Rest) + Cardinality(Of(f[x])) - Cardinality(Rest \cap Of(f[x]))
    BY <1>1, <1>2, <1>5, FS_Union
  <2> QED
    BY <2>1, <1>1, <1>2, <1>3, <1>5, FS_EmptySet
<1>7. IsFiniteSet(Units(g)) /\ Cardinality(Units(g)) = Cardinality(Rest) + n
  <2>1. /\ IsFiniteSet(Rest \cup Of(n))
        /\ Cardinality(Rest \cup Of(n)) = Cardinality(Rest) + Cardinality(Of(n)) - Cardinality(Rest \cap Of(n))
    BY <1>1, <1>5, FS_Union
  <2>2. Cardinality(Rest \cap Of(n)) = 0
    BY <1>4, FS_EmptySet
  <2>3. Cardinality(Of(n)) = n
    BY <1>1
  <2> QED
    BY <2>1, <2>2, <2>3, <1>4, <1>5
<1> QED
  BY <1>2, <1>5, <1>6, <1>7 DEF Total, g

\* The fragments delivered for each key.
Delivered == [k \in Keys |-> Len(objects[k])]

\* A call that reserves has a key of its own, for which nothing was delivered yet.
Reserving(t) == pc[t] \in {"start", "load", "cas", "entry", "store"}
Fresh ==
    \A t \in Threads : Reserving(t) =>
      /\ objects[key[t]] = <<>>
      /\ \A u \in Threads : Reserving(u) /\ key[u] = key[t] => u = t

Balance ==
    /\ IsFiniteSet(Units(num)) /\ IsFiniteSet(Units(Delivered))
    /\ fragment_avail + Len(lost) + Total(num) + Total(Delivered) = Capacity

LEMMA DeliveredChanges ==
    ASSUME RecycleTypes, IsFiniteSet(Units(Delivered)), NEW k \in Keys, NEW s \in Seq(Nat),
           objects' = [objects EXCEPT ![k] = s]
    PROVE  /\ Len(s) \in Nat /\ Len(objects[k]) \in Nat /\ Len(objects[k]) <= Total(Delivered)
           /\ Total(Delivered) \in Nat
           /\ IsFiniteSet(Units(Delivered'))
           /\ Total(Delivered') = Total(Delivered) - Len(objects[k]) + Len(s)
<1>1. Delivered \in [Keys -> Nat] /\ Len(s) \in Nat /\ Delivered[k] = Len(objects[k])
  BY LenProperties DEF Delivered, RecycleTypes, TypeOK
<1>2. Delivered' = [Delivered EXCEPT ![k] = Len(s)]
  BY DEF Delivered, RecycleTypes, TypeOK
<1>3. /\ Total(Delivered) \in Nat /\ Delivered[k] <= Total(Delivered)
      /\ IsFiniteSet(Units([Delivered EXCEPT ![k] = Len(s)]))
      /\ Total([Delivered EXCEPT ![k] = Len(s)]) = Total(Delivered) - Delivered[k] + Len(s)
  <2> HIDE DEF Delivered
  <2> QED
    BY <1>1, TotalChanges
<1>4. Units(Delivered') = Units([Delivered EXCEPT ![k] = Len(s)])
  BY <1>2
<1>5. Total(Delivered') = Total([Delivered EXCEPT ![k] = Len(s)])
  BY <1>4 DEF Total
<1> QED
  BY <1>1, <1>3, <1>4, <1>5

LEMMA BalanceInit == Init => Fresh /\ Balance
<1> SUFFICES ASSUME Init PROVE Fresh /\ Balance
  OBVIOUS
<1>1. Fresh
  BY DEF Init, Fresh, Reserving
<1>2. Units(num) = {} /\ Units(Delivered) = {}
  <2>1. \A k \in Keys : Len(objects[k]) = 0
    BY DEF Init
  <2>2. Units(Delivered) = UNION {{k} \X (1 .. Len(objects[k])) : k \in Keys}
    BY DEF Units, Delivered
  <2>3. Units(num) = UNION {{t} \X (1 .. 0) : t \in Threads}
    BY DEF Units, Init
  <2>4. 1 .. 0 = {}
    OBVIOUS
  <2> QED
    BY <2>1, <2>2, <2>3, <2>4
<1>3. Cardinality({}) = 0 /\ IsFiniteSet({})
  BY FS_EmptySet
<1>4. Total(num) = 0 /\ Total(Delivered) = 0
  BY <1>2, <1>3 DEF Total
<1>5. fragment_avail + Len(lost) + Total(num) + Total(Delivered) = Capacity
  BY <1>4, CapacityAssumption DEF Init
<1> QED
  BY <1>1, <1>2, <1>3, <1>5 DEF Balance

\* A step of t other than a claim: t begins no reservation, and a key that has
\* fragments now had some before or is that of the reservation t ends.
LEMMA FreshStep ==
    ASSUME Fresh, NEW t \in Threads,
           \A u \in Threads \ {t} : pc'[u] = pc[u] /\ key'[u] = key[u],
           Reserving(t)' => Reserving(t) /\ key'[t] = key[t],
           \A k \in Keys : \/ objects'[k] = objects[k] \/ objects'[k] = <<>>
                           \/ k = key[t] /\ Reserving(t) /\ ~Reserving(t)',
           \A u \in Threads : Reserving(u) => key[u] \in Keys
    PROVE  Fresh'
<1>1. ASSUME NEW u \in Threads, Reserving(u)' PROVE Reserving(u) /\ key'[u] = key[u]
  BY <1>1 DEF Reserving
<1>2. ASSUME NEW u \in Threads, Reserving(u)' PROVE objects'[key'[u]] = <<>>
  BY <1>1, <1>2 DEF Fresh
<1> QED
  BY <1>1, <1>2 DEF Fresh

\* Claiming moves fragments from the counter to the call.
LEMMA ClaimBalance ==
    ASSUME RecycleTypes, Fresh, Balance, NEW t \in Threads, NEW o, NEW k \in Keys, NEW n \in Nat,
           Claim(t, o, k, n)
    PROVE  Fresh' /\ Balance'
<1>1. /\ pc[t] = "idle" /\ Unused(k) /\ fragment_avail' = fragment_avail - n
      /\ key' = [key EXCEPT ![t] = k] /\ num' = [num EXCEPT ![t] = n]
      /\ pc' = [pc EXCEPT ![t] = IF n = 0 THEN "entry" ELSE "start"]
      /\ objects' = objects /\ lost' = lost
  BY DEF Claim, Admit, Goto, history
<1>2. num[t] = 0 /\ num \in [Threads -> Nat] /\ fragment_avail \in Nat /\ lost \in Seq(Nat)
  BY <1>1, CapacityAssumption DEF RecycleTypes, TypeOK, RecycleShape
<1>3. /\ Total(num) \in Nat /\ IsFiniteSet(Units([num EXCEPT ![t] = n]))
      /\ Total([num EXCEPT ![t] = n]) = Total(num) - num[t] + n
  BY <1>2, TotalChanges DEF Balance
<1>4. Delivered' = Delivered
  BY <1>1 DEF Delivered
<1>5. Total(Delivered') = Total(Delivered) /\ Total(num') = Total(num) + n
  BY <1>1, <1>2, <1>3, <1>4
<1>6. Total(Delivered) \in Nat /\ Len(lost) \in Nat
  BY <1>2, FS_CardinalityType, LenProperties DEF Balance, Total
<1>7. Balance'
  BY <1>1, <1>2, <1>3, <1>4, <1>5, <1>6 DEF Balance
<1>8. Fresh'
  <2>1. objects[k] = <<>> /\ \A u \in Threads : key[u] # k
    BY <1>1 DEF Unused
  <2>2. key \in [Threads -> Keys \cup {NoKey}] /\ DOMAIN pc = Threads
    BY DEF RecycleTypes, TypeOK
  <2>3. \A u \in Threads \ {t} : pc'[u] = pc[u] /\ key'[u] = key[u]
    BY <1>1
  <2>4. key'[t] = k
    BY <1>1, <2>2
  <2> QED
    BY <1>1, <2>1, <2>3, <2>4 DEF Fresh, Reserving
<1> QED
  BY <1>7, <1>8

\* A call that ends hands its fragments to its object, loses them, or gives
\* them back to the counter, where they always fit.
LEMMA EndBalance ==
    ASSUME RecycleTypes, Fresh, Balance, NEW t \in Threads, EndCall(t),
           \/ /\ Reserving(t) /\ Len(reserved[t]) = num[t] /\ key[t] \in Keys
              /\ objects' = [objects EXCEPT ![key[t]] = reserved[t]]
              /\ UNCHANGED <<fragment_avail, lost>>
           \/ /\ Len(reserved[t]) = num[t]
              /\ lost' = lost \o reserved[t]
              /\ UNCHANGED <<fragment_avail, objects>>
           \/ /\ fragment_avail' = IF fragment_avail + num[t] <= Capacity
                                     THEN fragment_avail + num[t] ELSE fragment_avail
              /\ UNCHANGED <<lost, objects>>
    PROVE  Fresh' /\ Balance'
<1>1. /\ pc' = [pc EXCEPT ![t] = "idle"] /\ key' = [key EXCEPT ![t] = NoKey]
      /\ num' = [num EXCEPT ![t] = 0]
  BY DEF EndCall, Goto
<1>2. /\ num \in [Threads -> Nat] /\ num[t] \in Nat /\ fragment_avail \in Nat /\ lost \in Seq(Nat)
      /\ reserved[t] \in Seq(Nat) /\ objects \in [Keys -> Seq(Nat)]
      /\ Len(reserved[t]) \in Nat /\ Len(lost) \in Nat
  BY CapacityAssumption, LenProperties DEF RecycleTypes, TypeOK
<1>3. /\ Total(num) \in Nat /\ num[t] <= Total(num) /\ IsFiniteSet(Units(num'))
      /\ Total(num') = Total(num) - num[t]
  <2>1. ASSUME NEW n \in Nat
        PROVE  /\ Total(num) \in Nat /\ num[t] <= Total(num) /\ IsFiniteSet(Units([num EXCEPT ![t] = n]))
               /\ Total([num EXCEPT ![t] = n]) = Total(num) - num[t] + n
    BY <1>2, TotalChanges DEF Balance
  <2>2. /\ Total(num) \in Nat /\ num[t] <= Total(num) /\ IsFiniteSet(Units([num EXCEPT ![t] = 0]))
        /\ Total([num EXCEPT ![t] = 0]) = Total(num) - num[t] + 0
    BY <2>1
  <2> QED
    BY <2>2, <1>1, <1>2
<1>4. Total(Delivered) \in Nat
  BY FS_CardinalityType DEF Balance, Total
<1>5. \A u \in Threads : Reserving(u) => key[u] \in Keys
  BY DEF RecycleTypes, RecycleShape, Reserving
<1>6. ~Reserving(t)' /\ \A u \in Threads \ {t} : pc'[u] = pc[u] /\ key'[u] = key[u]
  BY <1>1 DEF RecycleTypes, TypeOK, Reserving
<1>7. Fresh'
  <2>1. \A k \in Keys : objects'[k] = objects[k] \/ (k = key[t] /\ Reserving(t))
    BY <1>2
  <2> QED
    BY <2>1, <1>5, <1>6, FreshStep
<1>8. CASE /\ Reserving(t) /\ Len(reserved[t]) = num[t] /\ key[t] \in Keys
           /\ objects' = [objects EXCEPT ![key[t]] = reserved[t]]
           /\ UNCHANGED <<fragment_avail, lost>>
  <2>1. objects[key[t]] = <<>> /\ Len(objects[key[t]]) = 0
    BY <1>8, EmptySeq DEF Fresh
  <2>2. /\ IsFiniteSet(Units(Delivered'))
        /\ Total(Delivered') = Total(Delivered) - Len(objects[key[t]]) + Len(reserved[t])
    BY <1>2, <1>8, DeliveredChanges DEF Balance
  <2> QED
    BY <1>2, <1>3, <1>4, <1>7, <1>8, <2>1, <2>2 DEF Balance
<1>9. ASSUME objects' = objects PROVE Delivered' = Delivered /\ Total(Delivered') = Total(Delivered)
  BY <1>9 DEF Delivered
<1>10. CASE /\ Len(reserved[t]) = num[t] /\ lost' = lost \o reserved[t]
            /\ UNCHANGED <<fragment_avail, objects>>
  <2>1. Len(lost') = Len(lost) + Len(reserved[t])
    BY <1>2, <1>10, ConcatProperties
  <2> QED
    BY <1>2, <1>3, <1>4, <1>7, <1>9, <1>10, <2>1 DEF Balance
<1>11. CASE /\ fragment_avail' = IF fragment_avail + num[t] <= Capacity
                                   THEN fragment_avail + num[t] ELSE fragment_avail
            /\ UNCHANGED <<lost, objects>>
  <2>1. fragment_avail + num[t] <= Capacity
    BY <1>2, <1>3, <1>4 DEF Balance
  <2> QED
    BY <1>2, <1>3, <1>4, <1>7, <1>9, <1>11, <2>1 DEF Balance
<1> QED
  BY <1>8, <1>10, <1>11

\* A free moves the fragments of an object to the call.
LEMMA FreeBalance ==
    ASSUME RecycleTypes, Fresh, Balance, NEW t \in Threads, NEW k \in Keys \cup {NoKey},
           pc[t] = "idle", BeginFree(t, k)
    PROVE  Fresh' /\ Balance'
<1>1. /\ key' = [key EXCEPT ![t] = k] /\ num' = [num EXCEPT ![t] = Len(FragmentsOf(k))]
      /\ objects' = [x \in Keys |-> IF x = k THEN <<>> ELSE objects[x]]
      /\ pc' = [pc EXCEPT ![t] = IF FragmentsOf(k) = <<>> THEN "freeavail" ELSE "freeload"]
      /\ fragment_avail' = fragment_avail /\ lost' = lost
  BY DEF BeginFree, Goto
<1>2. /\ num \in [Threads -> Nat] /\ num[t] = 0 /\ fragment_avail \in Nat /\ lost \in Seq(Nat)
      /\ objects \in [Keys -> Seq(Nat)] /\ FragmentsOf(k) \in Seq(Nat) /\ Len(FragmentsOf(k)) \in Nat
      /\ Len(lost) \in Nat
  BY CapacityAssumption, LenProperties, EmptySeq DEF RecycleTypes, TypeOK, RecycleShape, FragmentsOf
<1>3. /\ Total(num) \in Nat /\ IsFiniteSet(Units(num'))
      /\ Total(num') = Total(num) + Len(FragmentsOf(k))
  <2>1. /\ Total(num) \in Nat /\ IsFiniteSet(Units([num EXCEPT ![t] = Len(FragmentsOf(k))]))
        /\ Total([num EXCEPT ![t] = Len(FragmentsOf(k))]) = Total(num) - num[t] + Len(FragmentsOf(k))
    BY <1>2, TotalChanges DEF Balance
  <2> QED
    BY <2>1, <1>1, <1>2
<1>4. /\ Total(Delivered) \in Nat /\ IsFiniteSet(Units(Delivered'))
      /\ Total(Delivered') = Total(Delivered) - Len(FragmentsOf(k))
  <2>1. Total(Delivered) \in Nat
    BY FS_CardinalityType DEF Balance, Total
  <2>2. CASE k \in Keys
    <3>1. objects' = [objects EXCEPT ![k] = <<>>]
      BY <1>1, <1>2, <2>2
    <3>2. <<>> \in Seq(Nat) /\ Len(<<>>) = 0 /\ FragmentsOf(k) = objects[k]
      BY <2>2, EmptySeq DEF FragmentsOf
    <3>3. /\ IsFiniteSet(Units(Delivered'))
          /\ Total(Delivered') = Total(Delivered) - Len(objects[k]) + Len(<<>>)
      BY <2>2, <3>1, <3>2, DeliveredChanges DEF Balance
    <3> QED
      BY <2>1, <3>2, <3>3, <1>2
  <2>3. CASE k \notin Keys
    <3>1. objects' = objects /\ Len(FragmentsOf(k)) = 0
      BY <1>1, <1>2, <2>3, EmptySeq DEF FragmentsOf
    <3>2. Delivered' = Delivered
      BY <3>1 DEF Delivered
    <3>3. Total(Delivered') = Total(Delivered)
      BY <3>2
    <3> QED
      BY <2>1, <3>1, <3>2, <3>3 DEF Balance
  <2> QED
    BY <2>2, <2>3
<1>5. Fresh'
  <2>1. \A u \in Threads : Reserving(u) => key[u] \in Keys
    BY DEF RecycleTypes, RecycleShape, Reserving
  <2>2. \A u \in Threads \ {t} : pc'[u] = pc[u] /\ key'[u] = key[u]
    BY <1>1
  <2>3. ~Reserving(t)'
    BY <1>1 DEF RecycleTypes, TypeOK, Reserving
  <2>4. \A x \in Keys : objects'[x] = objects[x] \/ objects'[x] = <<>>
    BY <1>1
  <2> QED
    BY <2>1, <2>2, <2>3, <2>4, FreshStep
<1> QED
  BY <1>1, <1>2, <1>3, <1>4, <1>5 DEF Balance

\* Any other step leaves all of it alone.
LEMMA SameBalance ==
    ASSUME RecycleTypes, Fresh, Balance, UNCHANGED <<fragment_avail, lost, num, objects, key>>,
           \A t \in Threads : Reserving(t)' => Reserving(t)
    PROVE  Fresh' /\ Balance'
<1>1. Total(Delivered') = Total(Delivered) /\ Units(Delivered') = Units(Delivered)
  BY DEF Delivered
<1> QED
  BY <1>1 DEF Fresh, Balance

LEMMA BalanceNext == RecycleTypes /\ Fresh /\ Balance /\ [Next]_vars => Fresh' /\ Balance'
<1> SUFFICES ASSUME RecycleTypes, Fresh, Balance, [Next]_vars PROVE Fresh' /\ Balance'
  OBVIOUS
<1>0. DOMAIN pc = Threads
  BY DEF RecycleTypes, TypeOK
<1>1. CASE UNCHANGED vars
  BY <1>1, SameBalance DEF vars, shared, locals, history, Reserving
<1>3. ASSUME NEW t \in Threads, CallReserve(t) PROVE Fresh' /\ Balance'
  BY <1>1, <1>3, ClaimBalance, RequestsAssumption
  DEF CallReserve, ReserveFragments, WriteFragment, ReserveRefused
<1>4. ASSUME NEW t \in Threads, StartScan(t) \/ ProbeTaken(t) \/ ProbeFree(t) \/ CasAcquire(t) \/ CasFail(t)
      PROVE  Fresh' /\ Balance'
  <2>1. UNCHANGED <<fragment_avail, lost, num, objects, key>> /\ Reserving(t)
    BY <1>4 DEF StartScan, ProbeTaken, ProbeFree, CasAcquire, CasFail, shared, history, Reserving
  <2>2. \A u \in Threads \ {t} : pc'[u] = pc[u]
    BY <1>4, <1>0 DEF StartScan, ProbeTaken, ProbeFree, CasAcquire, CasFail, NextProbe, Advance, Return, Goto
  <2> QED
    BY <2>1, <2>2, SameBalance DEF Reserving
<1>5. ASSUME NEW t \in Threads, WriteEntry(t) \/ WriteEntryThrows(t) \/ Store(t) \/ StoreThrows(t)
      PROVE  Fresh' /\ Balance'
  <2>1. Reserving(t) /\ Len(reserved[t]) = num[t] /\ key[t] \in Keys /\ EndCall(t)
    BY <1>5 DEF WriteEntry, WriteEntryThrows, Store, StoreThrows, Reserving, RecycleTypes, RecycleShape
  <2> QED
    BY <1>5, <2>1, EndBalance DEF WriteEntry, WriteEntryThrows, Store, StoreThrows, shared
<1>6. ASSUME NEW t \in Threads, CallFree(t) PROVE Fresh' /\ Balance'
  <2>1. time_table.entry[time_table.first] \in Keys \cup {NoKey}
    BY DEF RecycleTypes, TypeOK
  <2> QED
    BY <1>1, <1>6, <2>1, FreeBalance DEF CallFree, FreeOldest, FreeOldestRefused, FreeWritten
<1>7. ASSUME NEW t \in Threads, FreeLoad(t) \/ FreeCas(t) \/ FreeLast(t) PROVE Fresh' /\ Balance'
  <2>1. UNCHANGED <<fragment_avail, lost, num, objects, key>>
    BY <1>7 DEF FreeLoad, FreeCas, FreeLast, shared, history
  <2>2. \A u \in Threads \ {t} : pc'[u] = pc[u]
    BY <1>7, <1>0 DEF FreeLoad, FreeCas, FreeLast, Goto
  <2>3. ~Reserving(t)'
    BY <1>7, <1>0 DEF FreeLoad, FreeCas, FreeLast, Goto, Reserving
  <2> QED
    BY <2>1, <2>2, <2>3, SameBalance DEF Reserving
<1>8. ASSUME NEW t \in Threads, FreeAvail(t) PROVE Fresh' /\ Balance'
  BY <1>8, EndBalance DEF FreeAvail, history
<1> QED
  BY <1>1, <1>3, <1>4, <1>5, <1>6, <1>7, <1>8 DEF Next, Acquire, Release

-----------------------------------------------------------------------------
(* Filling and freeing: no bit is orphaned                                 *)

LEMMA RangeOfAppend ==
    ASSUME NEW S, NEW s \in Seq(S), NEW x \in S
    PROVE  x \in Range(Append(s, x)) /\ Range(s) \subseteq Range(Append(s, x))
<1>1. /\ Append(s, x) \in Seq(S) /\ Len(Append(s, x)) = Len(s) + 1
      /\ \A i \in 1 .. Len(s) : Append(s, x)[i] = s[i]
      /\ Append(s, x)[Len(s) + 1] = x
  BY AppendProperties
<1>2. Len(s) \in Nat /\ DOMAIN s = 1 .. Len(s) /\ DOMAIN Append(s, x) = 1 .. Len(s) + 1
  BY <1>1, LenProperties
<1> QED
  BY <1>1, <1>2 DEF Range

LEMMA RangeOfConcat ==
    ASSUME NEW S, NEW s \in Seq(S), NEW r \in Seq(S)
    PROVE  Range(s) \subseteq Range(s \o r) /\ Range(r) \subseteq Range(s \o r)
<1>1. /\ s \o r \in Seq(S) /\ Len(s \o r) = Len(s) + Len(r)
      /\ \A i \in 1 .. Len(s) + Len(r) : (s \o r)[i] = IF i <= Len(s) THEN s[i] ELSE r[i - Len(s)]
  BY ConcatProperties
<1>2. /\ Len(s) \in Nat /\ Len(r) \in Nat /\ DOMAIN s = 1 .. Len(s) /\ DOMAIN r = 1 .. Len(r)
      /\ DOMAIN (s \o r) = 1 .. Len(s) + Len(r)
  BY <1>1, LenProperties
<1>3. ASSUME NEW i \in 1 .. Len(r) PROVE r[i] \in Range(s \o r)
  <2>1. Len(s) + i \in 1 .. Len(s) + Len(r) /\ ~(Len(s) + i <= Len(s)) /\ (Len(s) + i) - Len(s) = i
    BY <1>2
  <2>2. (s \o r)[Len(s) + i] = r[i]
    BY <2>1, <1>1
  <2> QED
    BY <2>1, <2>2, <1>2 DEF Range
<1>4. ASSUME NEW i \in 1 .. Len(s) PROVE s[i] \in Range(s \o r)
  <2>1. i \in 1 .. Len(s) + Len(r) /\ i <= Len(s)
    BY <1>2
  <2>2. (s \o r)[i] = s[i]
    BY <2>1, <1>1
  <2> QED
    BY <2>1, <2>2, <1>2 DEF Range
<1> QED
  BY <1>2, <1>3, <1>4 DEF Range

\* The fragments whose bits the call of t acquired or has yet to clear: the
\* bit of the first one is clear once the counter is to follow.
InCall(t) == IF pc[t] = "freelast" THEN Range(Tail(reserved[t])) ELSE Range(reserved[t])

Home(i) == \/ \E k \in Keys : i \in Range(objects[k])
           \/ \E t \in Threads : i \in InCall(t)
           \/ i \in Range(lost)

NoOrphan == clobbered \/ \A i \in state : Home(i)

\* A step of t moves fragments only of its own call or of one object.
LEMMA HomeKept ==
    ASSUME NEW t \in Threads, \A u \in Threads \ {t} : pc'[u] = pc[u] /\ reserved'[u] = reserved[u],
           NEW i, Home(i), i \in InCall(t) => Home(i)',
           \A k \in Keys : i \in Range(objects[k]) => Home(i)',
           Range(lost) \subseteq Range(lost)'
    PROVE  Home(i)'
<1>1. ASSUME NEW u \in Threads \ {t}, i \in InCall(u) PROVE i \in InCall(u)'
  BY <1>1 DEF InCall
<1> QED
  BY <1>1 DEF Home

\* A step that moves no fragment of an object and drops none of its call.
LEMMA OrphanKept ==
    ASSUME NoOrphan, NEW t \in Threads, clobbered' = clobbered, objects' = objects, lost' = lost,
           \A u \in Threads \ {t} : pc'[u] = pc[u] /\ reserved'[u] = reserved[u],
           \A i \in state' : i \in InCall(t)' \/ (i \in state /\ i \notin InCall(t))
    PROVE  NoOrphan'
<1> SUFFICES ASSUME ~clobbered', NEW i \in state' PROVE Home(i)'
  BY DEF NoOrphan
<1>1. CASE i \in InCall(t)'
  BY <1>1 DEF Home
<1>2. CASE i \in state /\ i \notin InCall(t)
  <2>1. Home(i)
    BY <1>2 DEF NoOrphan
  <2>2. \A k \in Keys : i \in Range(objects[k]) => Home(i)'
    BY DEF Home
  <2> QED
    BY <1>2, <2>1, <2>2, HomeKept
<1> QED
  BY <1>1, <1>2

LEMMA NoOrphanNext == RecycleTypes /\ Fresh /\ NoOrphan /\ [Next]_vars => NoOrphan'
<1> SUFFICES ASSUME RecycleTypes, Fresh, NoOrphan, [Next]_vars PROVE NoOrphan'
  OBVIOUS
<1>0. /\ DOMAIN pc = Threads /\ reserved \in [Threads -> Seq(Nat)]
      /\ objects \in [Keys -> Seq(Nat)] /\ lost \in Seq(Nat)
  BY DEF RecycleTypes, TypeOK
<1>1. CASE UNCHANGED vars
  BY <1>1 DEF vars, shared, locals, history, NoOrphan, Home, InCall
<1>2. ASSUME NEW t \in Threads, NEW o, NEW k, NEW n, Claim(t, o, k, n) PROVE NoOrphan'
  BY <1>0, <1>2, OrphanKept DEF Claim, Admit, Goto, history, InCall
<1>3. ASSUME NEW t \in Threads, StartScan(t) \/ ProbeFree(t) PROVE NoOrphan'
  BY <1>0, <1>3, OrphanKept DEF StartScan, ProbeFree, Goto, shared, history, InCall
<1>4. ASSUME NEW t \in Threads, NEW i \in Nat, Return(t, i), pc[t] \in {"load", "cas"}
      PROVE  /\ \A u \in Threads \ {t} : pc'[u] = pc[u] /\ reserved'[u] = reserved[u]
             /\ i \in InCall(t)' /\ InCall(t) \subseteq InCall(t)'
  <2>1. i \in Range(Append(reserved[t], i)) /\ Range(reserved[t]) \subseteq Range(Append(reserved[t], i))
    BY <1>0, RangeOfAppend
  <2>2. /\ reserved'[t] = Append(reserved[t], i) /\ pc'[t] \in {"start", "store", "entry"}
        /\ \A u \in Threads \ {t} : pc'[u] = pc[u] /\ reserved'[u] = reserved[u]
    BY <1>0, <1>4 DEF Return, Goto
  <2> QED
    BY <2>1, <2>2, <1>4 DEF InCall
<1>5. ASSUME NEW t \in Threads, ProbeTaken(t) \/ CasFail(t) PROVE NoOrphan'
  <2>1. /\ pc[t] \in {"load", "cas"} /\ NextProbe(t) /\ Successor(index[t]) \in Nat
        /\ UNCHANGED <<state, clobbered, objects, lost>>
    BY <1>5, CapacityAssumption DEF ProbeTaken, CasFail, shared, history, Successor, RecycleTypes, TypeOK
  <2>2. /\ \A u \in Threads \ {t} : pc'[u] = pc[u] /\ reserved'[u] = reserved[u]
        /\ InCall(t) \subseteq InCall(t)'
    <3>1. CASE Goto(t, "load") /\ UNCHANGED reserved
      BY <1>0, <2>1, <3>1 DEF Goto, InCall
    <3>2. CASE Return(t, Successor(index[t]))
      BY <1>4, <2>1, <3>2
    <3> QED
      BY <2>1, <3>1, <3>2 DEF NextProbe, Advance
  <2> QED
    BY <2>1, <2>2, OrphanKept
<1>6. ASSUME NEW t \in Threads, CasAcquire(t) PROVE NoOrphan'
  <2>1. /\ \A u \in Threads \ {t} : pc'[u] = pc[u] /\ reserved'[u] = reserved[u]
        /\ index[t] \in InCall(t)' /\ InCall(t) \subseteq InCall(t)'
    BY <1>4, <1>6 DEF CasAcquire, RecycleTypes, TypeOK
  <2>2. state' = state \cup {index[t]} /\ UNCHANGED <<clobbered, objects, lost>>
    BY <1>6 DEF CasAcquire, history
  <2> QED
    BY <2>1, <2>2, OrphanKept
<1>7. ASSUME NEW t \in Threads, WriteEntry(t) \/ WriteEntryThrows(t) \/ Store(t) \/ StoreThrows(t) \/ FreeAvail(t)
      PROVE  NoOrphan'
  <2>1. /\ EndCall(t) /\ UNCHANGED <<state, clobbered>> /\ pc[t] # "freelast"
        /\ \/ /\ pc[t] \in {"entry", "store"} /\ lost' = lost
              /\ objects' = [objects EXCEPT ![key[t]] = reserved[t]]
           \/ lost' = lost \o reserved[t] /\ objects' = objects
           \/ reserved[t] = <<>> /\ objects' = objects /\ lost' = lost
    BY <1>7 DEF WriteEntry, WriteEntryThrows, Store, StoreThrows, FreeAvail, shared, history,
                RecycleTypes, RecycleShape
  <2>2. \A u \in Threads \ {t} : pc'[u] = pc[u] /\ reserved'[u] = reserved[u]
    BY <1>0, <2>1 DEF EndCall, Goto
  <2>3. Range(<<>>) = {} /\ InCall(t) = Range(reserved[t])
    BY <2>1 DEF InCall, Range
  <2>4. Range(lost) \subseteq Range(lost)' /\ \A i \in InCall(t) : Home(i)'
    <3>1. CASE /\ pc[t] \in {"entry", "store"} /\ lost' = lost
               /\ objects' = [objects EXCEPT ![key[t]] = reserved[t]]
      <4>1. key[t] \in Keys
        BY <3>1 DEF RecycleTypes, RecycleShape
      <4>2. objects'[key[t]] = reserved[t]
        BY <1>0, <3>1, <4>1
      <4> QED
        BY <2>3, <3>1, <4>1, <4>2 DEF Home
    <3>2. CASE lost' = lost \o reserved[t] /\ objects' = objects
      <4>1. Range(lost) \subseteq Range(lost \o reserved[t]) /\ Range(reserved[t]) \subseteq Range(lost \o reserved[t])
        BY <1>0, RangeOfConcat
      <4> QED
        BY <2>3, <3>2, <4>1 DEF Home
    <3>3. CASE reserved[t] = <<>> /\ objects' = objects /\ lost' = lost
      BY <2>3, <3>3
    <3> QED
      BY <2>1, <3>1, <3>2, <3>3
  <2>5. ASSUME NEW i, NEW k \in Keys, i \in Range(objects[k]) PROVE Home(i)'
    <3>1. objects[k] # <<>>
      BY <2>3, <2>5
    <3>2. objects'[k] = objects[k]
      BY <1>0, <2>1, <3>1 DEF Fresh, Reserving
    <3> QED
      BY <2>5, <3>2 DEF Home
  <2>6. ASSUME ~clobbered', NEW i \in state' PROVE Home(i)'
    <3>1. Home(i)
      BY <2>1, <2>6 DEF NoOrphan
    <3> QED
      BY <2>2, <2>4, <2>5, <3>1, HomeKept
  <2> QED
    BY <2>6 DEF NoOrphan
<1>8. ASSUME NEW t \in Threads, NEW k, pc[t] = "idle", BeginFree(t, k) PROVE NoOrphan'
  <2>1. /\ reserved[t] = <<>> /\ reserved' = [reserved EXCEPT ![t] = FragmentsOf(k)]
        /\ objects' = [x \in Keys |-> IF x = k THEN <<>> ELSE objects[x]]
        /\ pc' = [pc EXCEPT ![t] = IF FragmentsOf(k) = <<>> THEN "freeavail" ELSE "freeload"]
        /\ UNCHANGED <<state, clobbered, lost>>
    BY <1>8 DEF BeginFree, Goto, RecycleTypes, RecycleShape
  <2>2. \A u \in Threads \ {t} : pc'[u] = pc[u] /\ reserved'[u] = reserved[u]
    BY <1>0, <2>1
  <2>3. InCall(t) = {}
    BY <2>1, <1>8 DEF InCall, Range
  <2>4. InCall(t)' = Range(FragmentsOf(k))
    BY <1>0, <2>1 DEF InCall
  <2>5. ASSUME NEW i, NEW x \in Keys, i \in Range(objects[x]) PROVE Home(i)'
    <3>1. CASE x = k
      BY <2>4, <2>5, <3>1 DEF Home, FragmentsOf
    <3>2. CASE x # k
      <4>1. objects'[x] = objects[x]
        BY <2>1, <3>2
      <4> QED
        BY <2>5, <4>1 DEF Home
    <3> QED
      BY <3>1, <3>2
  <2>6. ASSUME ~clobbered', NEW i \in state' PROVE Home(i)'
    <3>1. Home(i)
      BY <2>1, <2>6 DEF NoOrphan
    <3> QED
      BY <2>1, <2>2, <2>3, <2>5, <3>1, HomeKept
  <2> QED
    BY <2>6 DEF NoOrphan
<1>9. ASSUME NEW t \in Threads, pc[t] \in {"freeload", "freecas", "freelast"}
      PROVE  Range(reserved[t]) = {Head(reserved[t])} \cup Range(Tail(reserved[t]))
  <2>1. reserved[t] # <<>>
    BY <1>9 DEF RecycleTypes, RecycleShape
  <2> QED
    BY <1>0, <2>1, HeadAndTail
<1>10. ASSUME NEW t \in Threads, FreeLoad(t) PROVE NoOrphan'
  <2>1. /\ pc[t] = "freeload" /\ UNCHANGED <<state, clobbered, objects, lost, reserved>>
        /\ \/ pc' = [pc EXCEPT ![t] = "freecas"]
           \/ Head(reserved[t]) \notin state /\ pc' = [pc EXCEPT ![t] = "freelast"]
    BY <1>10 DEF FreeLoad, Goto, shared, history
  <2>2. InCall(t) = {Head(reserved[t])} \cup Range(Tail(reserved[t]))
    BY <1>9, <2>1 DEF InCall
  <2>3. \/ InCall(t)' = InCall(t)
        \/ Head(reserved[t]) \notin state /\ InCall(t)' = Range(Tail(reserved[t]))
    BY <1>0, <2>1 DEF InCall
  <2> QED
    BY <1>0, <2>1, <2>2, <2>3, OrphanKept
<1>11. ASSUME NEW t \in Threads, FreeCas(t) PROVE NoOrphan'
  <2>1. /\ pc[t] = "freecas" /\ UNCHANGED <<objects, lost, reserved>>
        /\ \/ FreeStore(Head(reserved[t])) /\ pc' = [pc EXCEPT ![t] = "freelast"]
           \/ UNCHANGED <<state, clobbered>> /\ pc' = [pc EXCEPT ![t] = "freeload"]
    BY <1>11 DEF FreeCas, Goto
  <2>2. InCall(t) = {Head(reserved[t])} \cup Range(Tail(reserved[t]))
    BY <1>9, <2>1 DEF InCall
  <2>3. CASE UNCHANGED <<state, clobbered>> /\ pc' = [pc EXCEPT ![t] = "freeload"]
    <3>1. InCall(t)' = InCall(t)
      BY <1>0, <2>1, <2>3 DEF InCall
    <3> QED
      BY <1>0, <2>1, <2>3, <3>1, OrphanKept
  <2>4. CASE FreeStore(Head(reserved[t])) /\ pc' = [pc EXCEPT ![t] = "freelast"]
    <3>1. InCall(t)' = Range(Tail(reserved[t]))
      BY <1>0, <2>1, <2>4 DEF InCall
    <3>2. clobbered' \/ (clobbered' = clobbered /\ state' = state \ {Head(reserved[t])})
      <4>1. PICK byte : /\ state' = (state \ Bucket(Head(reserved[t]))) \cup byte
                        /\ clobbered' = (clobbered \/ byte # Load(Head(reserved[t])) \ {Head(reserved[t])})
        BY <2>4 DEF FreeStore
      <4>2. CASE byte = Load(Head(reserved[t])) \ {Head(reserved[t])}
        <5>1. Head(reserved[t]) \in state => Head(reserved[t]) \in Bucket(Head(reserved[t]))
          BY DEF Bucket, RecycleTypes, TypeOK
        <5> QED
          BY <4>1, <4>2, <5>1 DEF Load, RecycleTypes, TypeOK
      <4>3. CASE byte # Load(Head(reserved[t])) \ {Head(reserved[t])}
        BY <4>1, <4>3
      <4> QED
        BY <4>2, <4>3
    <3>3. CASE clobbered'
      BY <3>3 DEF NoOrphan
    <3>4. CASE clobbered' = clobbered /\ state' = state \ {Head(reserved[t])}
      BY <1>0, <2>1, <2>2, <2>4, <3>1, <3>4, OrphanKept
    <3> QED
      BY <3>2, <3>3, <3>4
  <2> QED
    BY <2>1, <2>3, <2>4
<1>12. ASSUME NEW t \in Threads, FreeLast(t) PROVE NoOrphan'
  <2>1. /\ pc[t] = "freelast" /\ UNCHANGED <<state, clobbered, objects, lost>>
        /\ reserved' = [reserved EXCEPT ![t] = Tail(reserved[t])]
        /\ pc' = [pc EXCEPT ![t] = IF Len(reserved[t]) = 1 THEN "freeavail" ELSE "freeload"]
    BY <1>12 DEF FreeLast, Goto, history
  <2>2. InCall(t)' = InCall(t)
    BY <1>0, <2>1 DEF InCall
  <2> QED
    BY <1>0, <2>1, <2>2, OrphanKept
<1> QED
  BY <1>1, <1>2, <1>3, <1>5, <1>6, <1>7, <1>8, <1>10, <1>11, <1>12
  DEF Next, CallReserve, CallFree, Acquire, Release, ReserveFragments, WriteFragment, ReserveRefused,
      FreeOldest, FreeWritten, FreeOldestRefused

-----------------------------------------------------------------------------
(* Filling and freeing: the theorems                                       *)

RecycleInv == RecycleTypes /\ Fresh /\ Balance /\ NoOrphan

\* Filling and freeing at once keep the types, the freshness of what scans hold, the balance of the
\* counter and the owner of every bit. (Region::_reserve_fragments, Region::_free_fragments)
THEOREM RecycleInvHolds == Spec => []RecycleInv
<1>1. Init => RecycleInv
  <2>1. Init => NoOrphan
    BY DEF Init, NoOrphan
  <2> QED
    BY <2>1, RecycleTypesInit, BalanceInit DEF RecycleInv
<1>2. RecycleInv /\ [Next]_vars => RecycleInv'
  BY RecycleTypesNext, BalanceNext, NoOrphanNext DEF RecycleInv
<1> QED
  BY <1>1, <1>2, PTL DEF Spec

\* Every shared word and every local keeps its type, whoever frees what.
THEOREM RecycleTypeOK == Spec => []TypeOK
<1>1. RecycleInv => TypeOK
  BY DEF RecycleInv, RecycleTypes
<1> QED
  BY <1>1, RecycleInvHolds, PTL

\* The counter, the calls, the objects and the lost fragments make up the
\* region, and no bit is orphaned before a free clobbers its byte.
THEOREM AccountingHolds == Spec => []Accounting
<1>1. RecycleInv => Accounting
  <2> SUFFICES ASSUME RecycleInv PROVE Accounting
    OBVIOUS
  <2>1. fragment_avail + Len(lost) + Total(num) + Total([k \in Keys |-> Len(objects[k])]) = Capacity
    BY DEF RecycleInv, Balance, Delivered
  <2>2. ASSUME NEW t \in Threads PROVE InCall(t) \subseteq Range(reserved[t])
    <3>1. CASE pc[t] = "freelast"
      <4>1. reserved[t] # <<>> /\ reserved[t] \in Seq(Nat)
        BY <3>1 DEF RecycleInv, RecycleTypes, RecycleShape, TypeOK
      <4>2. Range(reserved[t]) = {Head(reserved[t])} \cup Range(Tail(reserved[t]))
        BY <4>1, HeadAndTail
      <4> QED
        BY <3>1, <4>2 DEF InCall
    <3>2. CASE pc[t] # "freelast"
      BY <3>2 DEF InCall
    <3> QED
      BY <3>1, <3>2
  <2> QED
    BY <2>1, <2>2 DEF RecycleInv, NoOrphan, Home, Accounting
<1> QED
  BY <1>1, RecycleInvHolds, PTL

FreesFit == \A t \in Threads : pc[t] = "freeavail" => fragment_avail + num[t] <= Capacity

\* What a free gives back fits the counter: _update_fragment_avail(true, size)
\* never takes its "Fragments overflow" branch.
THEOREM FreesFitHolds == Spec => []FreesFit
<1>1. RecycleInv => FreesFit
  <2> SUFFICES ASSUME RecycleInv, NEW t \in Threads PROVE fragment_avail + num[t] <= Capacity
    BY DEF FreesFit
  <2>1. num \in [Threads -> Nat] /\ 0 \in Nat /\ fragment_avail \in Nat /\ lost \in Seq(Nat)
    BY CapacityAssumption DEF RecycleInv, RecycleTypes, TypeOK
  <2>2. Total(num) \in Nat /\ num[t] <= Total(num)
    BY <2>1, TotalChanges DEF RecycleInv, Balance
  <2>3. Total(Delivered) \in Nat /\ Len(lost) \in Nat
    BY <2>1, FS_CardinalityType, LenProperties DEF RecycleInv, Balance, Total
  <2> QED
    BY <2>1, <2>2, <2>3, CapacityAssumption DEF RecycleInv, Balance
<1> QED
  BY <1>1, RecycleInvHolds, PTL

-----------------------------------------------------------------------------
(* The scans of a reservation are bounded                                  *)

\* The work of n scans: one more costs one scan more.
LEMMA ScanWork ==
    ASSUME NEW n \in Nat \ {0}, NEW scan \in Nat
    PROVE  (n - 1) * scan \in Nat /\ n * scan = (n - 1) * scan + scan
OBVIOUS

\* A scan that ends leaves less to do than the probes it still had.
LEMMA ReturnNearer ==
    ASSUME RecycleTypes, NEW t \in Threads, pc[t] \in {"load", "cas"}, NEW i \in Nat, Return(t, i), num' = num
    PROVE  /\ StepsLeft(t)' \in Nat
           /\ StepsLeft(t)' <= (num[t] - Len(reserved[t]) - 1) * (2 * Capacity + 1)
<1> DEFINE scan == 2 * Capacity + 1
           m == num[t] - Len(reserved[t]) - 1
<1>1. /\ num[t] \in Nat /\ Len(reserved[t]) \in Nat /\ Len(reserved[t]) < num[t]
      /\ reserved \in [Threads -> Seq(Nat)] /\ scan \in Nat
      /\ DOMAIN pc = Threads
  BY CapacityAssumption, LenProperties DEF RecycleTypes, TypeOK, RecycleShape
<1>2. Len(Append(reserved[t], i)) = Len(reserved[t]) + 1
  BY <1>1, AppendProperties
<1>3. reserved'[t] = Append(reserved[t], i) /\ pc'[t] \in {"start", "store", "entry"}
  BY <1>1 DEF Return, Goto
<1>4. m \in Nat /\ num'[t] - Len(reserved'[t]) = m
  BY <1>1, <1>2, <1>3
<1>5. m * scan \in Nat
  BY <1>1, <1>4
<1>6. StepsLeft(t)' = IF pc'[t] = "start" THEN (num'[t] - Len(reserved'[t])) * scan ELSE 0
  BY <1>3 DEF StepsLeft
<1>7. StepsLeft(t)' = IF pc'[t] = "start" THEN m * scan ELSE 0
  BY <1>4, <1>6
<1> HIDE DEF m, scan
<1>8. StepsLeft(t)' \in Nat /\ StepsLeft(t)' <= m * scan
  BY <1>5, <1>7
<1> QED
  BY <1>8 DEF m, scan

\* The scans of a reservation are bounded, although the bitmap changes
\* meanwhile: a scan counts its probes and never retries an index.
THEOREM ScansAreBounded == Spec => ScansBounded
<1> DEFINE Nearer(t) ==
             pc[t] \in {"start", "load", "cas"}
               => \/ UNCHANGED <<pc[t], num[t], reserved[t], count[t]>>
                  \/ StepsLeft(t)' < StepsLeft(t)
<1>1. ASSUME RecycleTypes, [Next]_vars, NEW t \in Threads, Reserving(t) PROVE Nearer(t)
  <2> DEFINE Stays(u) == UNCHANGED <<pc[u], num[u], reserved[u], count[u]>>
             scan == 2 * Capacity + 1
             rest == (num[t] - Len(reserved[t]) - 1) * scan
  <2>0. /\ DOMAIN pc = Threads /\ DOMAIN num = Threads /\ DOMAIN reserved = Threads /\ DOMAIN count = Threads
        /\ num[t] \in Nat /\ Len(reserved[t]) \in Nat /\ count[t] \in Nat /\ index[t] \in Nat
        /\ pc[t] \in {"start", "load", "cas"} => Len(reserved[t]) < num[t]
        /\ pc[t] \in {"load", "cas"} => count[t] < Capacity
        /\ Successor(index[t]) \in Nat
    BY <1>1, CapacityAssumption, LenProperties DEF RecycleTypes, TypeOK, RecycleShape, Successor
  <2>a. ASSUME pc[t] \in {"start", "load", "cas"}
        PROVE  /\ rest \in Nat /\ scan \in Nat
               /\ (num[t] - Len(reserved[t])) * scan = rest + scan
    <3>1. num[t] - Len(reserved[t]) \in Nat \ {0} /\ scan \in Nat
      BY <2>0, <2>a, CapacityAssumption
    <3> QED
      BY <3>1, ScanWork
  <2>b. pc[t] = "start" => StepsLeft(t) = (num[t] - Len(reserved[t])) * scan
    BY DEF StepsLeft
  <2>c. pc[t] = "load" => StepsLeft(t) = rest + 2 * (Capacity - count[t])
    BY DEF StepsLeft
  <2>d. pc[t] = "cas" => StepsLeft(t) = rest + 2 * (Capacity - count[t]) - 1
    BY DEF StepsLeft
  <2>e. ASSUME num'[t] = num[t], reserved'[t] = reserved[t]
        PROVE  /\ pc'[t] = "load" => StepsLeft(t)' = rest + 2 * (Capacity - count'[t])
               /\ pc'[t] = "cas" => StepsLeft(t)' = rest + 2 * (Capacity - count'[t]) - 1
    BY <2>e DEF StepsLeft
  <2>f. ASSUME pc[t] \in {"load", "cas"}, NEW i \in Nat, Return(t, i), num' = num
        PROVE  StepsLeft(t)' \in Nat /\ StepsLeft(t)' <= rest
    BY <1>1, <2>f, ReturnNearer
  <2> HIDE DEF rest, scan
  <2>1. ASSUME NEW u \in Threads, u # t,
               \/ CallReserve(u) \/ Acquire(u) \/ CallFree(u) \/ Release(u)
        PROVE  Stays(t)
    <3>1. CASE CallReserve(u)
      BY <2>0, <2>1, <3>1 DEF CallReserve, ReserveFragments, WriteFragment, ReserveRefused, Claim, Admit, Goto,
         vars, locals
    <3>2. CASE CallFree(u)
      BY <2>0, <2>1, <3>2 DEF CallFree, FreeOldest, FreeWritten, FreeOldestRefused, BeginFree, Goto, vars, locals
    <3>3. CASE StartScan(u) \/ ProbeTaken(u) \/ ProbeFree(u) \/ CasAcquire(u) \/ CasFail(u)
      BY <2>0, <2>1, <3>3 DEF StartScan, ProbeTaken, ProbeFree, CasAcquire, CasFail, NextProbe, Advance, Return, Goto
    <3>4. CASE WriteEntry(u) \/ WriteEntryThrows(u) \/ Store(u) \/ StoreThrows(u) \/ FreeAvail(u)
      BY <2>0, <2>1, <3>4 DEF WriteEntry, WriteEntryThrows, Store, StoreThrows, FreeAvail, EndCall, Goto
    <3>5. CASE FreeLoad(u) \/ FreeCas(u) \/ FreeLast(u)
      BY <2>0, <2>1, <3>5 DEF FreeLoad, FreeCas, FreeLast, Goto
    <3> QED
      BY <2>1, <3>1, <3>2, <3>3, <3>4, <3>5 DEF Acquire, Release
  <2>2. CASE CallReserve(t) \/ CallFree(t) \/ Release(t)
    <3>1. CASE CallReserve(t) \/ CallFree(t)
      BY <1>1, <3>1 DEF CallReserve, CallFree, ReserveFragments, WriteFragment, ReserveRefused, Claim, Admit,
         FreeOldest, FreeWritten, FreeOldestRefused, Reserving, vars, locals
    <3>2. CASE Release(t)
      BY <1>1, <3>2 DEF Release, FreeLoad, FreeCas, FreeLast, FreeAvail, Reserving
    <3> QED
      BY <2>2, <3>1, <3>2
  <2>3. CASE StartScan(t)
    <3>1. /\ pc[t] = "start" /\ pc'[t] = "load" /\ count'[t] = 0
          /\ num'[t] = num[t] /\ reserved'[t] = reserved[t]
      BY <2>0, <2>3 DEF StartScan, Goto
    <3>2. StepsLeft(t)' = rest + 2 * (Capacity - 0)
      BY <2>e, <3>1
    <3>3. StepsLeft(t) = rest + (2 * Capacity + 1)
      BY <2>a, <2>b, <3>1 DEF scan
    <3>4. StepsLeft(t)' < StepsLeft(t)
      BY <2>a, <3>1, <3>2, <3>3, CapacityAssumption
    <3> QED
      BY <3>4
  <2>4. CASE ProbeTaken(t) \/ CasFail(t)
    <3>1. pc[t] \in {"load", "cas"} /\ num' = num /\ NextProbe(t)
      BY <2>4 DEF ProbeTaken, CasFail
    <3>3. CASE Goto(t, "load") /\ UNCHANGED reserved
      <4>1. pc'[t] = "load" /\ count'[t] = count[t] + 1 /\ num'[t] = num[t] /\ reserved'[t] = reserved[t]
        BY <2>0, <3>1, <3>3 DEF NextProbe, Advance, Goto
      <4>2. StepsLeft(t)' = rest + 2 * (Capacity - (count[t] + 1))
        BY <2>e, <4>1
      <4>3. StepsLeft(t)' < StepsLeft(t)
        <5>1. StepsLeft(t) = rest + 2 * (Capacity - count[t]) \/ StepsLeft(t) = rest + 2 * (Capacity - count[t]) - 1
          BY <2>c, <2>d, <3>1
        <5>2. rest \in Nat /\ count[t] \in Nat /\ Capacity \in Nat
          BY <2>0, <2>a, <3>1, CapacityAssumption
        <5> QED
          BY <4>2, <5>1, <5>2
      <4> QED
        BY <4>3
    <3>4. CASE Return(t, Successor(index[t]))
      <4>1. StepsLeft(t)' \in Nat /\ StepsLeft(t)' <= rest
        BY <2>0, <2>f, <3>1, <3>4
      <4>2. StepsLeft(t) = rest + 2 * (Capacity - count[t]) \/ StepsLeft(t) = rest + 2 * (Capacity - count[t]) - 1
        BY <2>c, <2>d, <3>1
      <4>3. StepsLeft(t)' < StepsLeft(t)
        BY SMTT(30), <2>0, <2>a, <3>1, <4>1, <4>2, CapacityAssumption
      <4> QED
        BY <4>3
    <3> QED
      BY <3>1, <3>3, <3>4 DEF NextProbe, Advance
  <2>5. CASE ProbeFree(t)
    <3>1. /\ pc[t] = "load" /\ pc'[t] = "cas" /\ count'[t] = count[t]
          /\ num'[t] = num[t] /\ reserved'[t] = reserved[t]
      BY <2>0, <2>5 DEF ProbeFree, Goto
    <3>2. StepsLeft(t)' < StepsLeft(t)
      BY <2>0, <2>a, <2>c, <2>e, <3>1, CapacityAssumption
    <3> QED
      BY <3>2
  <2>6. CASE CasAcquire(t)
    <3>1. pc[t] = "cas" /\ num' = num /\ Return(t, index[t])
      BY <2>6 DEF CasAcquire
    <3>2. StepsLeft(t)' \in Nat /\ StepsLeft(t)' <= rest
      BY <2>0, <2>f, <3>1
    <3>3. StepsLeft(t)' < StepsLeft(t)
      BY SMTT(30), <2>0, <2>a, <2>d, <3>1, <3>2, CapacityAssumption
    <3> QED
      BY <3>3
  <2>7. CASE WriteEntry(t) \/ WriteEntryThrows(t) \/ Store(t) \/ StoreThrows(t)
    BY <2>7 DEF WriteEntry, WriteEntryThrows, Store, StoreThrows
  <2>8. CASE UNCHANGED vars
    BY <2>8 DEF vars, locals
  <2> QED
    BY <1>1, <2>1, <2>2, <2>3, <2>4, <2>5, <2>6, <2>7, <2>8 DEF Next, Acquire
<1>2. RecycleInv /\ [Next]_vars => [\A t \in Threads : Nearer(t)]_vars
  BY <1>1 DEF RecycleInv, Reserving
<1> QED
  BY <1>2, RecycleInvHolds, PTL DEF Spec, ScansBounded
=============================================================================
