------------------------- MODULE EventEmitterProofs -------------------------
(***************************************************************************)
(* What SeqLock.tla and EventEmitter.tla guarantee for every number of     *)
(* threads, calls, listeners, versions and values.                         *)
(*                                                                         *)
(* The lock: writers exclude one another and leave a whole version behind, *)
(* and a reference that read returned neither early nor a whole round of   *)
(* the pool ago shows a value that was current since the call.             *)
(*                                                                         *)
(* The emitter: a call that changes the map holds no lock from its read to *)
(* its write, so everything rests on what `mishaps` excludes: as long as   *)
(* changes do not overlap, the one that runs has copied the last version   *)
(* (Lossless); and as long as emits do not overlap either, an id used once *)
(* that was invoked is walked by the one emit that runs, or is being       *)
(* written away by it, or is in no version that a later emit can read      *)
(* (Settling).                                                             *)
(***************************************************************************)
EXTENDS EventEmitter, SequenceTheorems, FiniteSetTheorems, TLAPS

-----------------------------------------------------------------------------
(* The lock.                                                               *)

\* "count" and "wild" are labels of a caller outside read and write (EventEmitter.tla).
LockTypeOK ==
    /\ current \in Slots
    /\ seq \in [Slots -> Nat] /\ data \in [Slots -> Values \cup {Torn}]
    /\ _lock_write \in BOOLEAN
    /\ pc \in [Threads -> {"idle", "load", "check", "have", "lock", "publish", "odd", "assign",
                           "assigned", "even", "unlock"} \cup {"count", "wild"}]
    /\ ptr \in [Threads -> Slots] /\ arg \in [Threads -> Values]
    /\ versions \in Seq(Values) /\ versions # <<>>
    /\ from \in [Threads -> Nat] /\ laps \in [Threads -> 0..PoolSize]
    /\ early \in [Threads -> BOOLEAN]

Published(t) == pc[t] \in {"odd", "assign", "assigned", "even", "unlock"}
Odd(t) == pc[t] \in {"assign", "assigned", "even"}
Unsettled(t) == pc[t] \in {"odd", "assign", "assigned"}

\* One writer at a time holds the lock, and what it has published is current.
OneWriter ==
    \A t \in Threads :
        /\ Writing(t) => _lock_write /\ \A r \in Threads : Writing(r) => r = t
        /\ Published(t) => ptr[t] = current

\* Only the version that a writer marks is odd, and only the one it assigns is torn.
Marked ==
    \A s \in Slots :
        /\ seq[s] % 2 = 0 <=> ~ \E t \in Threads : Odd(t) /\ ptr[t] = s
        /\ data[s] = Torn => \E t \in Threads : pc[t] = "assigned" /\ ptr[t] = s

\* Between two assignments the current version is the last one.
Settled == (\A t \in Threads : ~Unsettled(t)) => data[current] = Last

WriteInv == LockTypeOK /\ OneWriter /\ Marked /\ Settled

-----------------------------------------------------------------------------
(* Lemmas on the pool and on the versions.                                 *)

LEMMA NextVersion ==
  ASSUME NEW s \in Slots
  PROVE  /\ (s + 1) % PoolSize \in Slots
         /\ (s + 1) % PoolSize = IF s = PoolSize - 1 THEN 0 ELSE s + 1
<1>1. CASE s = PoolSize - 1
  BY <1>1, PoolAssumption DEF Slots
<1>2. CASE s < PoolSize - 1
  BY <1>2, PoolAssumption DEF Slots
<1> QED
  BY <1>1, <1>2, PoolAssumption DEF Slots

LEMMA Parity ==
  ASSUME NEW n \in Nat PROVE (n + 1) % 2 = 0 <=> ~(n % 2 = 0)
<1>1. ASSUME n % 2 = 0, (n + 1) % 2 = 0 PROVE FALSE
  BY <1>1
<1>2. ASSUME n % 2 # 0, (n + 1) % 2 # 0 PROVE FALSE
  BY <1>2
<1> QED
  BY <1>1, <1>2

LEMMA Appended ==
  ASSUME NEW v \in Values, versions \in Seq(Values), versions' = Append(versions, v)
  PROVE  /\ versions' \in Seq(Values) /\ versions' # <<>>
         /\ Len(versions') = Len(versions) + 1
         /\ Last' = v
         /\ \A i \in 1..Len(versions) : versions'[i] = versions[i]
  BY DEF Last

-----------------------------------------------------------------------------
(* The writers.                                                            *)

LEMMA WriteInit == Init => WriteInv
<1> SUFFICES ASSUME Init PROVE WriteInv
  OBVIOUS
<1>1. 0 \in Slots /\ 2 % 2 = 0 /\ 0 % 2 = 0
  BY PoolAssumption DEF Slots
<1>2. LockTypeOK
  <2>1. versions \in Seq(Values) /\ versions # <<>>
    BY ValuesAssumption DEF Init
  <2>2. 0 \in 0..PoolSize
    BY PoolAssumption
  <2> QED
    BY <1>1, <2>1, <2>2, ValuesAssumption DEF Init, LockTypeOK
<1>3. OneWriter
  BY DEF Init, OneWriter, Writing, Published
<1>4. Marked
  BY <1>1, ValuesAssumption DEF Init, Marked, Odd
<1>5. Settled
  BY <1>1 DEF Init, Settled, Last
<1> QED
  BY <1>2, <1>3, <1>4, <1>5 DEF WriteInv

\* A step of a thread that is not between publish and unlock, before or after, disturbs nothing.
LEMMA OutsideStep ==
  ASSUME WriteInv, LockTypeOK', NEW t \in Threads,
         UNCHANGED <<current, seq, data, _lock_write, versions>>,
         ~Writing(t), ~Writing(t)',
         \A r \in Threads \ {t} : pc'[r] = pc[r] /\ ptr'[r] = ptr[r]
  PROVE  WriteInv'
<1>1. \A r \in Threads : /\ Writing(r)' <=> Writing(r)
                         /\ Published(r)' <=> Published(r)
                         /\ Odd(r)' <=> Odd(r)
                         /\ Unsettled(r)' <=> Unsettled(r)
                         /\ pc'[r] = "assigned" <=> pc[r] = "assigned"
  BY DEF Writing, Published, Odd, Unsettled
<1>2. \A r \in Threads : Published(r) \/ Odd(r) \/ pc[r] = "assigned" => ptr'[r] = ptr[r]
  BY DEF Writing, Published, Odd
<1>3. OneWriter'
  BY <1>1, <1>2 DEF WriteInv, OneWriter
<1>4. Marked'
  BY <1>1, <1>2 DEF WriteInv, Marked
<1>5. Settled'
  BY <1>1 DEF WriteInv, Settled, Last
<1> QED
  BY <1>3, <1>4, <1>5 DEF WriteInv

LEMMA WriteNext == WriteInv /\ [LockNext]_lockVars => WriteInv'
<1> SUFFICES ASSUME WriteInv, [LockNext]_lockVars PROVE WriteInv'
  OBVIOUS
<1> USE PoolAssumption, ValuesAssumption
<1>0. CASE UNCHANGED lockVars
  BY <1>0 DEF lockVars, WriteInv, LockTypeOK, OneWriter, Marked, Settled, Writing, Published, Odd,
              Unsettled, Last
<1>. SUFFICES ASSUME NEW t \in Threads,
                     \/ Read(t) \/ ReadStep(t) \/ Release(t)
                     \/ \E value \in Values : Write(t, value)
                     \/ WriteStep(t) \/ Unlock(t)
              PROVE  WriteInv'
  BY <1>0 DEF LockNext
<1>1. CASE Read(t)
  <2>1. LockTypeOK'
    BY <1>1 DEF Read, Goto, WriteInv, LockTypeOK
  <2>2. UNCHANGED <<current, seq, data, _lock_write, versions>> /\ ~Writing(t) /\ ~Writing(t)'
    BY <1>1 DEF Read, Goto, WriteInv, LockTypeOK, Writing
  <2>3. \A r \in Threads \ {t} : pc'[r] = pc[r] /\ ptr'[r] = ptr[r]
    BY <1>1 DEF Read, Goto, WriteInv, LockTypeOK
  <2> QED
    BY <2>1, <2>2, <2>3, OutsideStep
<1>2. CASE LoadPtr(t)
  <2>1. LockTypeOK'
    BY <1>2 DEF LoadPtr, Goto, WriteInv, LockTypeOK
  <2>2. UNCHANGED <<current, seq, data, _lock_write, versions>> /\ ~Writing(t) /\ ~Writing(t)'
    BY <1>2 DEF LoadPtr, Goto, WriteInv, LockTypeOK, Writing
  <2>3. \A r \in Threads \ {t} : pc'[r] = pc[r] /\ ptr'[r] = ptr[r]
    BY <1>2 DEF LoadPtr, Goto, WriteInv, LockTypeOK
  <2> QED
    BY <2>1, <2>2, <2>3, OutsideStep
<1>3. CASE LoadSeq(t)
  <2>1. LockTypeOK'
    BY <1>3 DEF LoadSeq, Goto, WriteInv, LockTypeOK
  <2>2. UNCHANGED <<current, seq, data, _lock_write, versions>> /\ ~Writing(t) /\ ~Writing(t)'
    BY <1>3 DEF LoadSeq, Goto, WriteInv, LockTypeOK, Writing
  <2>3. \A r \in Threads \ {t} : pc'[r] = pc[r] /\ ptr'[r] = ptr[r]
    BY <1>3 DEF LoadSeq, Goto, WriteInv, LockTypeOK
  <2> QED
    BY <2>1, <2>2, <2>3, OutsideStep
<1>4. CASE ReadRetry(t)
  <2>1. LockTypeOK'
    BY <1>4 DEF ReadRetry, Goto, WriteInv, LockTypeOK
  <2>2. UNCHANGED <<current, seq, data, _lock_write, versions>> /\ ~Writing(t) /\ ~Writing(t)'
    BY <1>4 DEF ReadRetry, Goto, WriteInv, LockTypeOK, Writing
  <2>3. \A r \in Threads \ {t} : pc'[r] = pc[r] /\ ptr'[r] = ptr[r]
    BY <1>4 DEF ReadRetry, Goto, WriteInv, LockTypeOK
  <2> QED
    BY <2>1, <2>2, <2>3, OutsideStep
<1>5. CASE Release(t)
  <2>1. LockTypeOK'
    BY <1>5 DEF Release, Goto, WriteInv, LockTypeOK
  <2>2. UNCHANGED <<current, seq, data, _lock_write, versions>> /\ ~Writing(t) /\ ~Writing(t)'
    BY <1>5 DEF Release, Goto, WriteInv, LockTypeOK, Writing
  <2>3. \A r \in Threads \ {t} : pc'[r] = pc[r] /\ ptr'[r] = ptr[r]
    BY <1>5 DEF Release, Goto, WriteInv, LockTypeOK
  <2> QED
    BY <2>1, <2>2, <2>3, OutsideStep
<1>6. ASSUME NEW value \in Values, Write(t, value) PROVE WriteInv'
  <2>1. LockTypeOK'
    BY <1>6 DEF Write, Goto, WriteInv, LockTypeOK
  <2>2. UNCHANGED <<current, seq, data, _lock_write, versions>> /\ ~Writing(t) /\ ~Writing(t)'
    BY <1>6 DEF Write, Goto, WriteInv, LockTypeOK, Writing
  <2>3. \A r \in Threads \ {t} : pc'[r] = pc[r] /\ ptr'[r] = ptr[r]
    BY <1>6 DEF Write, Goto, WriteInv, LockTypeOK
  <2> QED
    BY <2>1, <2>2, <2>3, OutsideStep
<1>7. CASE Lock(t)
  <2>1. LockTypeOK'
    BY <1>7 DEF Lock, Goto, WriteInv, LockTypeOK
  <2> QED
    BY <1>7, <2>1 DEF Lock, Goto, WriteInv, LockTypeOK, OneWriter, Marked, Settled, Writing,
                      Published, Odd, Unsettled, Last
<1>8. CASE Publish(t)
  <2>1. current' \in Slots /\ ptr' = [ptr EXCEPT ![t] = current']
    BY <1>8, NextVersion DEF Publish, WriteInv, LockTypeOK
  <2>2. laps' \in [Threads -> 0..PoolSize]
    BY <1>8 DEF Publish, WriteInv, LockTypeOK
  <2>3. LockTypeOK'
    BY <1>8, <2>1, <2>2 DEF Publish, Goto, WriteInv, LockTypeOK
  <2>4. OneWriter'
    BY <1>8, <2>1 DEF Publish, Goto, WriteInv, LockTypeOK, OneWriter, Writing, Published
  <2>5. Marked'
    <3>1. \A r \in Threads : (Odd(r) <=> Odd(r)') /\ (pc[r] = "assigned" <=> pc'[r] = "assigned")
      BY <1>8 DEF Publish, Goto, WriteInv, LockTypeOK, Odd
    <3>2. \A r \in Threads : Odd(r) \/ pc[r] = "assigned" => ptr'[r] = ptr[r]
      BY <1>8, <2>1 DEF Publish, Goto, WriteInv, LockTypeOK, Odd
    <3>3. seq' = seq /\ data' = data
      BY <1>8 DEF Publish
    <3> QED
      BY <3>1, <3>2, <3>3 DEF WriteInv, Marked
  <2>6. Settled'
    BY <1>8 DEF Publish, Goto, WriteInv, LockTypeOK, Settled, Unsettled
  <2> QED
    BY <2>3, <2>4, <2>5, <2>6 DEF WriteInv
<1>9. CASE StartWriting(t)
  <2>1. LockTypeOK'
    BY <1>9 DEF StartWriting, Goto, WriteInv, LockTypeOK
  <2>2. OneWriter'
    BY <1>9 DEF StartWriting, Goto, WriteInv, LockTypeOK, OneWriter, Writing, Published
  <2>3. ~ \E r \in Threads : Odd(r) /\ ptr[r] = ptr[t]
    BY <1>9 DEF StartWriting, Goto, WriteInv, OneWriter, Writing, Odd
  <2>4. (seq[ptr[t]] + 1) % 2 # 0
    BY <2>3, Parity DEF WriteInv, LockTypeOK, Marked
  <2>5. Marked'
    BY <1>9, <2>4 DEF StartWriting, Goto, WriteInv, LockTypeOK, Marked, Odd
  <2>6. Settled'
    BY <1>9 DEF StartWriting, Goto, WriteInv, LockTypeOK, Settled, Unsettled
  <2> QED
    BY <2>1, <2>2, <2>5, <2>6 DEF WriteInv
<1>10. CASE Assign(t)
  <2>1. LockTypeOK'
    BY <1>10 DEF Assign, Goto, WriteInv, LockTypeOK
  <2>2. OneWriter'
    BY <1>10 DEF Assign, Goto, WriteInv, LockTypeOK, OneWriter, Writing, Published
  <2>3. Marked'
    BY <1>10 DEF Assign, Goto, WriteInv, LockTypeOK, Marked, Odd
  <2>4. Settled'
    BY <1>10 DEF Assign, Goto, WriteInv, LockTypeOK, Settled, Unsettled
  <2> QED
    BY <2>1, <2>2, <2>3, <2>4 DEF WriteInv
<1>11. CASE Assigned(t)
  <2>0. arg[t] \in Values /\ versions \in Seq(Values)
    BY DEF WriteInv, LockTypeOK
  <2>1. versions' \in Seq(Values) /\ versions' # <<>> /\ Last' = arg[t]
    BY <1>11, <2>0, Appended DEF Assigned
  <2>2. LockTypeOK'
    BY <1>11, <2>1 DEF Assigned, Goto, WriteInv, LockTypeOK
  <2>3. OneWriter'
    BY <1>11 DEF Assigned, Goto, WriteInv, LockTypeOK, OneWriter, Writing, Published
  <2>4. Marked'
    BY <1>11, <2>0 DEF Assigned, Goto, WriteInv, LockTypeOK, OneWriter, Marked, Odd, Writing
  <2>5. Settled'
    <3>1. ptr[t] = current
      BY <1>11 DEF Assigned, Goto, WriteInv, OneWriter, Published
    <3>2. data'[current'] = arg[t]
      BY <1>11, <3>1 DEF Assigned, WriteInv, LockTypeOK
    <3> QED
      BY <3>2, <2>1 DEF Settled
  <2> QED
    BY <2>2, <2>3, <2>4, <2>5 DEF WriteInv
<1>12. CASE EndWriting(t)
  <2>1. LockTypeOK'
    BY <1>12 DEF EndWriting, Goto, WriteInv, LockTypeOK
  <2>2. OneWriter'
    BY <1>12 DEF EndWriting, Goto, WriteInv, LockTypeOK, OneWriter, Writing, Published
  <2>3. (seq[ptr[t]] + 1) % 2 = 0
    BY <1>12, Parity DEF EndWriting, Goto, WriteInv, LockTypeOK, Marked, Odd
  <2>4. Marked'
    BY <1>12, <2>3 DEF EndWriting, Goto, WriteInv, LockTypeOK, OneWriter, Marked, Odd, Writing
  <2>5. Settled'
    BY <1>12 DEF EndWriting, Goto, WriteInv, LockTypeOK, Settled, Unsettled, Last
  <2> QED
    BY <2>1, <2>2, <2>4, <2>5 DEF WriteInv
<1>13. CASE Unlock(t)
  <2>1. LockTypeOK'
    BY <1>13 DEF Unlock, Goto, WriteInv, LockTypeOK
  <2>2. OneWriter'
    BY <1>13 DEF Unlock, Goto, WriteInv, LockTypeOK, OneWriter, Writing, Published
  <2>3. Marked'
    BY <1>13 DEF Unlock, Goto, WriteInv, LockTypeOK, Marked, Odd
  <2>4. Settled'
    BY <1>13 DEF Unlock, Goto, WriteInv, LockTypeOK, Settled, Unsettled, Last
  <2> QED
    BY <2>1, <2>2, <2>3, <2>4 DEF WriteInv
<1> QED
  BY <1>1, <1>2, <1>3, <1>4, <1>5, <1>6, <1>7, <1>8, <1>9, <1>10, <1>11, <1>12, <1>13
  DEF ReadStep, WriteStep

LEMMA WriteInvariant == LockSpec => []WriteInv
  BY WriteInit, WriteNext, PTL DEF LockSpec

LEMMA WriteInvWhole == WriteInv => WholeWhenFree
<1> SUFFICES ASSUME WriteInv, ~_lock_write PROVE WholeWhenFree
  BY DEF WholeWhenFree
<1>1. \A t \in Threads : ~Writing(t)
  BY DEF WriteInv, OneWriter
<1>2. \A t \in Threads : ~Odd(t) /\ ~Unsettled(t) /\ pc[t] # "assigned"
  BY <1>1 DEF Writing, Odd, Unsettled
<1>3. data[current] = Last
  BY <1>2 DEF WriteInv, Settled
<1>4. \A s \in Slots : seq[s] % 2 = 0 /\ data[s] \in Values
  BY <1>2 DEF WriteInv, LockTypeOK, Marked
<1> QED
  BY <1>3, <1>4 DEF WholeWhenFree

\* However writers interleave, one at a time is between the lock and the unlock, and what they leave
\* behind when the lock is free is whole and is the last value. (SeqLock::write)
THEOREM LockWholeWhenFree == LockSpec => []WholeWhenFree
  BY WriteInvWhole, WriteInvariant, PTL

-----------------------------------------------------------------------------
(* The readers.                                                            *)

Loaded(r) == pc[r] \in {"check", "have"} /\ laps[r] < PoolSize

\* No writer is about to assign the version that r has loaded.
Calm(r) == \A w \in Threads : Unsettled(w) => ptr[w] # ptr[r]

Current(r) == \E i \in from[r]..Len(versions) : data[ptr[r]] = versions[i]

\* laps tells how far the current version is ahead of the one that r has loaded.
Ahead(r) == laps[r] = IF current >= ptr[r] THEN current - ptr[r] ELSE current - ptr[r] + PoolSize

Kept(r) ==
    /\ from[r] \in 1..Len(versions)
    /\ Loaded(r) => Ahead(r)
    /\ Loaded(r) /\ Calm(r) => Current(r)
    /\ pc[r] = "have" /\ Loaded(r) /\ ~early[r] => Calm(r)

ReadInv == \A r \in Threads : Kept(r)

LEMMA ReadInit == Init => ReadInv
  BY DEF Init, ReadInv, Kept, Loaded

\* A step that neither publishes nor assigns, and a reader that it does not move.
LEMMA ReaderStays ==
  ASSUME WriteInv, WriteInv', ReadInv, NEW r \in Threads,
         UNCHANGED <<current, data, versions>>,
         ptr'[r] = ptr[r], from'[r] = from[r], laps'[r] = laps[r], early'[r] = early[r],
         pc'[r] = pc[r] \/ (~Loaded(r)' /\ from'[r] \in 1..Len(versions')),
         \A w \in Threads : Unsettled(w) <=> Unsettled(w)',
         \A w \in Threads : Unsettled(w) => ptr'[w] = ptr[w]
  PROVE  Kept(r)'
  BY DEF ReadInv, Kept, Loaded, Ahead, Calm, Current

LEMMA ReadNext == WriteInv /\ WriteInv' /\ ReadInv /\ [LockNext]_lockVars => ReadInv'
<1> SUFFICES ASSUME WriteInv, WriteInv', ReadInv, [LockNext]_lockVars, NEW r \in Threads
             PROVE  Kept(r)'
  BY DEF ReadInv
<1> USE PoolAssumption
<1>a. /\ versions \in Seq(Values) /\ Len(versions) \in Nat /\ Len(versions) >= 1
      /\ from[r] \in 1..Len(versions)
  BY DEF WriteInv, LockTypeOK, ReadInv, Kept
<1>0. CASE UNCHANGED lockVars
  BY <1>0 DEF lockVars, ReadInv, Kept, Loaded, Ahead, Calm, Current, Unsettled
<1>. SUFFICES ASSUME NEW t \in Threads,
                     \/ Read(t) \/ ReadStep(t) \/ Release(t)
                     \/ \E value \in Values : Write(t, value)
                     \/ WriteStep(t) \/ Unlock(t)
              PROVE  Kept(r)'
  BY <1>0 DEF LockNext
<1>1. CASE Read(t)
  <2>1. CASE r = t
    BY <1>1, <2>1, <1>a DEF Read, Goto, Kept, Loaded, WriteInv, LockTypeOK, ReadInv
  <2>2. CASE r # t
    BY <1>1, <2>2, ReaderStays DEF Read, Goto, WriteInv, LockTypeOK, Unsettled
  <2> QED
    BY <2>1, <2>2
<1>2. CASE LoadPtr(t)
  <2>1. CASE r = t
    <3>1. /\ ptr'[r] = current /\ current' = current /\ laps'[r] = 0 /\ pc'[r] = "check"
          /\ from'[r] = from[r] /\ versions' = versions /\ data' = data
      BY <1>2, <2>1 DEF LoadPtr, Goto, WriteInv, LockTypeOK
    <3>2. Ahead(r)'
      BY <3>1 DEF Ahead, WriteInv, LockTypeOK, Slots
    <3>3. ASSUME Calm(r)' PROVE Current(r)'
      <4>1. \A w \in Threads : Unsettled(w) => Unsettled(w)' /\ ptr'[w] = ptr[w] /\ ptr[w] = current
        BY <1>2 DEF LoadPtr, Goto, Unsettled, WriteInv, LockTypeOK, OneWriter, Published
      <4>2. \A w \in Threads : ~Unsettled(w)
        BY <4>1, <3>1, <3>3 DEF Calm
      <4>3. data[current] = versions[Len(versions)]
        BY <4>2 DEF WriteInv, Settled, Last
      <4> QED
        BY <4>3, <3>1, <1>a DEF Current
    <3> QED
      BY <3>1, <3>2, <3>3, <1>a DEF Kept
  <2>2. CASE r # t
    BY <1>2, <2>2, ReaderStays DEF LoadPtr, Goto, Kept, WriteInv, LockTypeOK, Unsettled
  <2> QED
    BY <2>1, <2>2
<1>3. CASE LoadSeq(t)
  <2>1. CASE r = t
    <3>1. /\ pc[r] = "check" /\ pc'[r] = "have" /\ seq[ptr[r]] % 2 = 0
          /\ early'[r] = \E w \in Threads : pc[w] = "odd" /\ ptr[w] = ptr[r]
          /\ UNCHANGED <<current, ptr, laps, from, versions, data>>
      BY <1>3, <2>1 DEF LoadSeq, Goto, WriteInv, LockTypeOK
    <3>2. \A w \in Threads : Unsettled(w) <=> Unsettled(w)'
      BY <1>3 DEF LoadSeq, Goto, Unsettled, WriteInv, LockTypeOK
    <3>3. Loaded(r)' => Ahead(r)'
      BY <3>1 DEF ReadInv, Kept, Loaded, Ahead
    <3>4. Loaded(r)' /\ Calm(r)' => Current(r)'
      BY <3>1, <3>2 DEF ReadInv, Kept, Loaded, Calm, Current
    <3>5. ASSUME ~early'[r] PROVE Calm(r)'
      <4> SUFFICES ASSUME NEW w \in Threads, Unsettled(w), ptr[w] = ptr[r] PROVE FALSE
        BY <3>1, <3>2 DEF Calm
      <4>1. Odd(w)
        BY <3>1, <3>5 DEF Unsettled, Odd
      <4> QED
        BY <4>1, <3>1 DEF WriteInv, LockTypeOK, Marked
    <3> QED
      BY <3>1, <3>3, <3>4, <3>5, <1>a DEF Kept
  <2>2. CASE r # t
    BY <1>3, <2>2, ReaderStays DEF LoadSeq, Goto, Kept, WriteInv, LockTypeOK, Unsettled
  <2> QED
    BY <2>1, <2>2
<1>4. CASE ReadRetry(t)
  <2>1. CASE r = t
    BY <1>4, <2>1 DEF ReadRetry, Goto, Kept, Loaded, WriteInv, LockTypeOK, ReadInv
  <2>2. CASE r # t
    BY <1>4, <2>2, ReaderStays DEF ReadRetry, Goto, WriteInv, LockTypeOK, Unsettled
  <2> QED
    BY <2>1, <2>2
<1>5. CASE Release(t)
  <2>1. CASE r = t
    BY <1>5, <2>1 DEF Release, Goto, Kept, Loaded, WriteInv, LockTypeOK, ReadInv
  <2>2. CASE r # t
    BY <1>5, <2>2, ReaderStays DEF Release, Goto, WriteInv, LockTypeOK, Unsettled
  <2> QED
    BY <2>1, <2>2
<1>6. ASSUME NEW value \in Values, Write(t, value) PROVE Kept(r)'
  <2>1. CASE r = t
    BY <1>6, <2>1 DEF Write, Goto, Kept, Loaded, WriteInv, LockTypeOK, ReadInv
  <2>2. CASE r # t
    BY <1>6, <2>2, ReaderStays DEF Write, Goto, WriteInv, LockTypeOK, Unsettled
  <2> QED
    BY <2>1, <2>2
<1>7. CASE Lock(t)
  <2>1. CASE r = t
    BY <1>7, <2>1 DEF Lock, Goto, Kept, Loaded, WriteInv, LockTypeOK, ReadInv
  <2>2. CASE r # t
    BY <1>7, <2>2, ReaderStays DEF Lock, Goto, WriteInv, LockTypeOK, Unsettled
  <2> QED
    BY <2>1, <2>2
<1>8. CASE Publish(t)
  <2>1. CASE r = t
    BY <1>8, <2>1, <1>a DEF Publish, Goto, Kept, Loaded, WriteInv, LockTypeOK
  <2>2. CASE r # t
    <3>1. /\ pc'[r] = pc[r] /\ ptr'[r] = ptr[r] /\ ptr'[t] = current'
          /\ current' = IF current = PoolSize - 1 THEN 0 ELSE current + 1
          /\ UNCHANGED <<data, versions, from, early>>
      BY <1>8, <2>2, NextVersion DEF Publish, Goto, WriteInv, LockTypeOK
    <3>2. ASSUME Loaded(r)' PROVE Loaded(r) /\ laps'[r] = laps[r] + 1
      BY <1>8, <3>1, <3>2 DEF Publish, Loaded, WriteInv, LockTypeOK
    <3>3. ASSUME Loaded(r)' PROVE Ahead(r)' /\ ptr'[r] # current'
      <4>1. laps[r] = IF current >= ptr[r] THEN current - ptr[r] ELSE current - ptr[r] + PoolSize
        BY <3>2, <3>3 DEF ReadInv, Kept, Ahead
      <4>2. current \in Slots /\ ptr[r] \in Slots /\ laps[r] + 1 < PoolSize /\ laps[r] \in Nat
        BY <3>2, <3>3 DEF Loaded, WriteInv, LockTypeOK
      <4> QED
        BY <3>1, <3>2, <3>3, <4>1, <4>2 DEF Ahead, Slots
    <3>4. \A w \in Threads : w # t => (Unsettled(w) <=> Unsettled(w)') /\ ptr'[w] = ptr[w]
      BY <1>8 DEF Publish, Goto, Unsettled, WriteInv, LockTypeOK
    <3>5. ~Unsettled(t)
      BY <1>8 DEF Publish, Goto, Unsettled
    <3>6. ASSUME Loaded(r)' PROVE Calm(r) <=> Calm(r)'
      BY <3>1, <3>3, <3>4, <3>5, <3>6 DEF Calm
    <3>7. Loaded(r)' /\ Calm(r)' => Current(r)'
      BY <3>1, <3>2, <3>6 DEF ReadInv, Kept, Current
    <3> QED
      BY <3>1, <3>2, <3>3, <3>6, <3>7, <1>a DEF Kept, ReadInv
  <2> QED
    BY <2>1, <2>2
<1>9. CASE StartWriting(t)
  <2>1. CASE r = t
    BY <1>9, <2>1 DEF StartWriting, Goto, Kept, Loaded, WriteInv, LockTypeOK, ReadInv
  <2>2. CASE r # t
    BY <1>9, <2>2, ReaderStays DEF StartWriting, Goto, WriteInv, LockTypeOK, Unsettled
  <2> QED
    BY <2>1, <2>2
<1>10. CASE Assign(t)
  <2>1. CASE r = t
    BY <1>10, <2>1, <1>a DEF Assign, Goto, Kept, Loaded, WriteInv, LockTypeOK
  <2>2. CASE r # t
    <3>1. /\ pc'[r] = pc[r] /\ UNCHANGED <<current, ptr, versions, from, laps, early>>
          /\ \A s \in Slots : s # ptr[t] => data'[s] = data[s]
      BY <1>10, <2>2 DEF Assign, Goto, WriteInv, LockTypeOK
    <3>2. \A w \in Threads : Unsettled(w) <=> Unsettled(w)'
      BY <1>10 DEF Assign, Goto, Unsettled, WriteInv, LockTypeOK
    <3>3. Calm(r) <=> Calm(r)'
      BY <3>1, <3>2 DEF Calm
    <3>4. Calm(r) => data'[ptr[r]] = data[ptr[r]]
      BY <1>10, <3>1 DEF Assign, Goto, Calm, Unsettled, WriteInv, LockTypeOK
    <3>5. Loaded(r)' /\ Calm(r)' => Current(r)'
      BY <3>1, <3>3, <3>4 DEF ReadInv, Kept, Loaded, Current
    <3> QED
      BY <3>1, <3>3, <3>5, <1>a DEF Kept, ReadInv, Loaded, Ahead
  <2> QED
    BY <2>1, <2>2
<1>11. CASE Assigned(t)
  <2>0. /\ Len(versions') = Len(versions) + 1 /\ versions'[Len(versions')] = arg[t]
        /\ \A i \in 1..Len(versions) : versions'[i] = versions[i]
    BY <1>11, Appended DEF Assigned, Last, WriteInv, LockTypeOK
  <2>1. CASE r = t
    BY <1>11, <2>0, <2>1, <1>a DEF Assigned, Goto, Kept, Loaded, WriteInv, LockTypeOK
  <2>2. CASE r # t
    <3>1. /\ pc'[r] = pc[r] /\ UNCHANGED <<current, ptr, from, laps, early>>
          /\ \A s \in Slots : data'[s] = IF s = ptr[t] THEN arg[t] ELSE data[s]
      BY <1>11, <2>2 DEF Assigned, Goto, WriteInv, LockTypeOK
    <3>2. \A w \in Threads : Unsettled(w)' <=> Unsettled(w) /\ w # t
      BY <1>11 DEF Assigned, Goto, Unsettled, WriteInv, LockTypeOK
    <3>3. Calm(r) => Calm(r)'
      BY <3>1, <3>2 DEF Calm
    <3>4. CASE ptr[r] = ptr[t]
      <4>1. data'[ptr'[r]] = versions'[Len(versions')]
        BY <2>0, <3>1, <3>4 DEF WriteInv, LockTypeOK
      <4>2. Current(r)'
        BY <4>1, <2>0, <3>1, <1>a DEF Current
      <4> QED
        BY <3>1, <3>3, <4>2, <2>0, <1>a DEF Kept, ReadInv, Loaded, Ahead
    <3>5. CASE ptr[r] # ptr[t]
      <4>1. Calm(r)' => Calm(r)
        BY <3>1, <3>2, <3>5 DEF Calm
      <4>2. Current(r) => Current(r)'
        BY <2>0, <3>1, <3>5, <1>a DEF Current, WriteInv, LockTypeOK
      <4> QED
        BY <3>1, <3>3, <4>1, <4>2, <2>0, <1>a DEF Kept, ReadInv, Loaded, Ahead
    <3> QED
      BY <3>4, <3>5
  <2> QED
    BY <2>1, <2>2
<1>12. CASE EndWriting(t)
  <2>1. CASE r = t
    BY <1>12, <2>1 DEF EndWriting, Goto, Kept, Loaded, WriteInv, LockTypeOK, ReadInv
  <2>2. CASE r # t
    BY <1>12, <2>2, ReaderStays DEF EndWriting, Goto, WriteInv, LockTypeOK, Unsettled
  <2> QED
    BY <2>1, <2>2
<1>13. CASE Unlock(t)
  <2>1. CASE r = t
    BY <1>13, <2>1 DEF Unlock, Goto, Kept, Loaded, WriteInv, LockTypeOK, ReadInv
  <2>2. CASE r # t
    BY <1>13, <2>2, ReaderStays DEF Unlock, Goto, WriteInv, LockTypeOK, Unsettled
  <2> QED
    BY <2>1, <2>2
<1> QED
  BY <1>1, <1>2, <1>3, <1>4, <1>5, <1>6, <1>7, <1>8, <1>9, <1>10, <1>11, <1>12, <1>13
  DEF ReadStep, WriteStep

LEMMA ReadInvRegular == ReadInv => ReadsRegular
  BY DEF ReadInv, Kept, ReadsRegular, Loaded, Current

\* A reference that read has returned, not early and less than a round of the pool ago, shows a value
\* that was current at some time since the call. (SeqLock::read, SeqLock::write)
THEOREM LockReadsRegular == LockSpec => []ReadsRegular
  BY ReadInvRegular, WriteInit, WriteNext, ReadInit, ReadNext, PTL DEF LockSpec

-----------------------------------------------------------------------------
(* The emitter.                                                            *)

Reading == {"load", "check", "have"}
Filing  == {"lock", "publish", "odd", "assign", "assigned"}
Filed   == {"even", "unlock"}

\* The calls of on that have taken no id yet.
Counting == {t \in Threads : pc[t] = "count"}

EmitterTypes ==
    /\ _counter \in Nat /\ calls \in Nat
    /\ IsFiniteSet(Counting) /\ _counter + Cardinality(Counting) <= MaxIds
    /\ op \in [Threads -> {"none", "on", "remove", "remove_all", "emit", "remove_onces"}]
    /\ id \in [Threads -> Nat]
    /\ walked \in [Threads -> SUBSET Ids] /\ onces \subseteq Ids /\ live \subseteq Ids
    /\ invoked \in [Ids -> Nat]
    /\ mishaps \subseteq {"early", "overlap", "emits", "half", "wild"}

\* Where in read and write the calls can be.
Stage ==
    \A t \in Threads :
        /\ op[t] = "none" => pc[t] \in {"idle", "wild"}
        /\ op[t] = "on" => pc[t] \in {"count"} \cup Reading \cup Filing \cup Filed
        /\ op[t] = "remove" => pc[t] \in Reading \cup Filing \cup Filed
        /\ op[t] = "remove_all" => pc[t] \in Filing \cup Filed
        /\ op[t] = "emit" => pc[t] \in Reading
        /\ op[t] = "remove_onces" => pc[t] \in {"idle"} \cup Reading \cup Filing \cup Filed
        /\ op[t] = "on" /\ pc[t] # "count" => id[t] < _counter

EmitterShape == EmitterTypes /\ Stage

-----------------------------------------------------------------------------
(* Where a step takes its thread.                                          *)

\* A step of t inside read or write.
LEMMA LockStepMoves ==
  ASSUME LockTypeOK, NEW t \in Threads, LockSteps(t)
  PROVE  /\ UNCHANGED emitterVars
         /\ \A r \in Threads \ {t} : pc'[r] = pc[r]
         /\ \/ pc[t] \in {"load", "check"} /\ pc'[t] \in Reading
            \/ pc[t] \in Filing /\ pc'[t] \in Filing
            \/ pc[t] \in {"assigned", "even"} /\ pc'[t] \in Filed
  BY DEF LockSteps, ReadStep, WriteStep, LoadPtr, LoadSeq, ReadRetry, Lock, Publish, StartWriting, Assign,
         Assigned, EndWriting, Goto, LockTypeOK, Reading, Filing, Filed

LEMMA CopiedMoves ==
  ASSUME LockTypeOK, NEW t \in Threads, NEW map, Copied(t, map)
  PROVE  /\ pc[t] = "have" /\ pc'[t] = "lock" /\ \A r \in Threads \ {t} : pc'[r] = pc[r]
         /\ arg'[t] = map /\ \A r \in Threads \ {t} : arg'[r] = arg[r]
         /\ UNCHANGED <<current, seq, data, _lock_write, ptr, versions, from>>
  BY DEF Copied, Goto, LockTypeOK

-----------------------------------------------------------------------------
(* Types and stages.                                                       *)

LEMMA ShapeInit == EmitterInit => EmitterShape
<1> SUFFICES ASSUME EmitterInit PROVE EmitterShape
  OBVIOUS
<1>1. Counting = {}
  BY DEF EmitterInit, Init, Counting
<1>2. IsFiniteSet(Counting) /\ Cardinality(Counting) = 0
  BY <1>1, FS_EmptySet
<1>3. EmitterTypes
  BY <1>2, EmitterBounds DEF EmitterInit, EmitterTypes
<1>4. Stage
  BY DEF EmitterInit, Init, Stage
<1> QED
  BY <1>3, <1>4 DEF EmitterShape

LEMMA CountingKept ==
  ASSUME EmitterTypes, NEW t \in Threads, pc[t] # "count", pc'[t] # "count",
         \A r \in Threads \ {t} : pc'[r] = pc[r], _counter' = _counter
  PROVE  IsFiniteSet(Counting') /\ _counter' + Cardinality(Counting') <= MaxIds
<1>1. Counting' = Counting
  BY DEF Counting
<1> QED
  BY <1>1 DEF EmitterTypes

LEMMA EnterTypes ==
  ASSUME EmitterTypes, LockTypeOK, NEW t \in Threads, NEW what, Enter(t, what),
         what \in {"on", "remove", "remove_all", "emit", "remove_onces"}
  PROVE  /\ op' \in [Threads -> {"none", "on", "remove", "remove_all", "emit", "remove_onces"}]
         /\ mishaps' \subseteq {"early", "overlap", "emits", "half", "wild"}
         /\ op'[t] = what /\ \A r \in Threads \ {t} : op'[r] = op[r]
  BY DEF Enter, EmitterTypes, Early

\* A call that ends: its thread is idle, or will never call again.
LEMMA ShapeNext == EmitterShape /\ LockTypeOK /\ [Next]_vars => EmitterShape'
<1> SUFFICES ASSUME EmitterShape, LockTypeOK, [Next]_vars PROVE EmitterShape'
  OBVIOUS
<1> USE EmitterBounds
<1>a. /\ DOMAIN pc = Threads /\ DOMAIN op = Threads /\ DOMAIN id = Threads
      /\ EmitterTypes /\ Stage /\ IsFiniteSet(Counting) /\ Cardinality(Counting) \in Nat
  BY FS_CardinalityType DEF EmitterShape, EmitterTypes, LockTypeOK
<1>0. CASE UNCHANGED vars
  BY <1>0, <1>a DEF vars, lockVars, emitterVars, EmitterShape, EmitterTypes, Stage, Counting
<1>. SUFFICES ASSUME NEW t \in Threads, Starts(t) \/ Runs(t) PROVE EmitterShape'
  BY <1>0 DEF Next
<1>1. CASE pc[t] = "idle" /\ op[t] = "none" /\ On(t)
  <2>1. /\ pc' = [pc EXCEPT ![t] = "count"] /\ id' = [id EXCEPT ![t] = _counter] /\ calls' = calls + 1
        /\ Enter(t, "on") /\ UNCHANGED <<_counter, walked, onces, live, invoked>>
        /\ _counter + Cardinality(Counting) < MaxIds
    BY <1>1 DEF On, Call, Counting
  <2>2. Counting' = Counting \cup {t} /\ t \notin Counting
    BY <2>1, <1>1, <1>a DEF Counting
  <2>3. IsFiniteSet(Counting') /\ Cardinality(Counting') = Cardinality(Counting) + 1
    BY <2>2, <1>a, FS_AddElement
  <2>4. _counter \in Nat /\ MaxIds \in Nat
    BY <1>a DEF EmitterTypes
  <2>5. EmitterTypes'
    BY <1>a, <2>1, <2>3, <2>4, EnterTypes DEF EmitterTypes
  <2>6. Stage'
    BY <1>a, <2>1, EnterTypes DEF Stage
  <2> QED
    BY <2>5, <2>6 DEF EmitterShape
<1>2. CASE pc[t] = "idle" /\ op[t] = "none" /\ (RemoveListener(t) \/ Emit(t))
  <2>1. PICK what \in {"remove", "emit"} :
           /\ Enter(t, what) /\ pc' = [pc EXCEPT ![t] = "load"] /\ calls' = calls + 1
           /\ UNCHANGED <<_counter, walked, onces, live, invoked>>
           /\ id' = id \/ \E i \in 0..(_counter - 1) : id' = [id EXCEPT ![t] = i]
    <3>1. CASE RemoveListener(t)
      BY <3>1 DEF RemoveListener, Call, Read, Goto
    <3>2. CASE Emit(t)
      BY <3>2 DEF Emit, Call, Read, Goto
    <3> QED
      BY <1>2, <3>1, <3>2
  <2>2. id' \in [Threads -> Nat] /\ \A r \in Threads \ {t} : id'[r] = id[r]
    BY <1>a, <2>1 DEF EmitterTypes
  <2>3. IsFiniteSet(Counting') /\ _counter' + Cardinality(Counting') <= MaxIds
    BY <1>a, <1>2, <2>1, CountingKept
  <2>a. /\ op' \in [Threads -> {"none", "on", "remove", "remove_all", "emit", "remove_onces"}]
        /\ mishaps' \subseteq {"early", "overlap", "emits", "half", "wild"}
        /\ op'[t] = what /\ \A r \in Threads \ {t} : op'[r] = op[r]
    BY <1>a, <2>1, EnterTypes
  <2>b. UNCHANGED <<_counter, walked, onces, live, invoked>> /\ calls' = calls + 1
    BY <2>1
  <2>4. EmitterTypes'
    BY <1>a, <2>2, <2>3, <2>a, <2>b DEF EmitterTypes
  <2>5. Stage'
    BY <1>a, <2>1, <2>2, <2>a DEF Stage, Reading
  <2> QED
    BY <2>4, <2>5 DEF EmitterShape
<1>3. CASE pc[t] = "idle" /\ op[t] = "none" /\ RemoveAllListeners(t)
  <2>1. /\ Enter(t, "remove_all") /\ pc' = [pc EXCEPT ![t] = "lock"] /\ calls' = calls + 1 /\ live' = {}
        /\ UNCHANGED <<_counter, id, walked, onces, invoked>>
    BY <1>3 DEF RemoveAllListeners, Call, Write, Goto
  <2>2. IsFiniteSet(Counting') /\ _counter' + Cardinality(Counting') <= MaxIds
    BY <1>a, <1>3, <2>1, CountingKept
  <2>3. EmitterTypes'
    BY <1>a, <2>1, <2>2, EnterTypes DEF EmitterTypes
  <2>4. Stage'
    BY <1>a, <2>1, EnterTypes DEF Stage, Filing
  <2> QED
    BY <2>3, <2>4 DEF EmitterShape
<1>4. CASE Count(t)
  <2>1. /\ pc[t] = "count" /\ pc' = [pc EXCEPT ![t] = "load"] /\ _counter = id[t] /\ _counter' = _counter + 1
        /\ onces' = onces \/ onces' = onces \cup {id[t]}
        /\ UNCHANGED <<op, id, walked, live, invoked, calls, mishaps>>
    BY <1>4 DEF Count, Goto
  <2>2. Counting' = Counting \ {t} /\ t \in Counting
    BY <2>1, <1>a DEF Counting
  <2>3. IsFiniteSet(Counting') /\ Cardinality(Counting') = Cardinality(Counting) - 1
    BY <2>2, <1>a, FS_RemoveElement
  <2>4. Cardinality(Counting) # 0
    BY <2>2, <1>a, FS_EmptySet
  <2>5. _counter' + Cardinality(Counting') <= MaxIds /\ id[t] \in Ids /\ _counter' \in Nat
    BY SMTT(30), <1>a, <2>1, <2>3, <2>4 DEF EmitterTypes, Ids
  <2>6. EmitterTypes'
    BY <1>a, <2>1, <2>3, <2>5 DEF EmitterTypes
  <2>7. Stage'
    <3> SUFFICES ASSUME NEW r \in Threads
                 PROVE  /\ op'[r] = op[r] /\ id'[r] = id[r]
                        /\ pc'[r] = pc[r] \/ (pc[r] = "count" /\ pc'[r] = "load")
                        /\ op[r] = "on" /\ pc'[r] # "count" => id[r] < _counter'
      BY <1>a, <2>1 DEF Stage, Reading, Filing, Filed
    <3>1. id[r] < _counter => id[r] < _counter'
      BY <1>a, <2>1 DEF EmitterTypes
    <3> QED
      BY <1>a, <2>1, <3>1 DEF Stage, EmitterTypes
  <2> QED
    BY <2>6, <2>7 DEF EmitterShape
<1>5. CASE CountRetry(t)
  <2>1. /\ pc[t] = "count" /\ pc' = pc /\ id' = [id EXCEPT ![t] = _counter]
        /\ UNCHANGED <<_counter, op, walked, onces, live, invoked, calls, mishaps>>
    BY <1>5 DEF CountRetry, lockVars
  <2>2. EmitterTypes'
    BY <1>a, <2>1 DEF EmitterTypes, Counting
  <2>3. Stage'
    BY <1>a, <2>1 DEF Stage
  <2> QED
    BY <2>2, <2>3 DEF EmitterShape
<1>6. CASE RemoveListeners(t)
  <2>1. /\ op[t] = "remove_onces" /\ pc[t] = "idle" /\ pc' = [pc EXCEPT ![t] = "load"] /\ UNCHANGED emitterVars
    BY <1>6 DEF RemoveListeners, Read, Goto
  <2>2. IsFiniteSet(Counting') /\ _counter' + Cardinality(Counting') <= MaxIds
    BY <1>a, <2>1, CountingKept DEF emitterVars
  <2>3. EmitterTypes'
    BY <1>a, <2>1, <2>2 DEF EmitterTypes, emitterVars
  <2>4. Stage'
    BY <1>a, <2>1 DEF Stage, Reading, emitterVars
  <2> QED
    BY <2>3, <2>4 DEF EmitterShape
<1>7. CASE LockSteps(t)
  <2>1. /\ UNCHANGED emitterVars
        /\ \A r \in Threads \ {t} : pc'[r] = pc[r]
        /\ \/ pc[t] \in {"load", "check"} /\ pc'[t] \in Reading
           \/ pc[t] \in Filing /\ pc'[t] \in Filing
           \/ pc[t] \in {"assigned", "even"} /\ pc'[t] \in Filed
    BY <1>7, LockStepMoves
  <2>2. pc[t] # "count" /\ pc'[t] # "count"
    BY <2>1 DEF Reading, Filing, Filed
  <2>3. IsFiniteSet(Counting') /\ _counter' + Cardinality(Counting') <= MaxIds
    BY <1>a, <2>1, <2>2, CountingKept DEF emitterVars
  <2>4. EmitterTypes'
    BY <1>a, <2>1, <2>3 DEF EmitterTypes, emitterVars
  <2>5. Stage'
    BY <1>a, <2>1, <2>2 DEF Stage, Reading, Filing, Filed, emitterVars
  <2> QED
    BY <2>4, <2>5 DEF EmitterShape
<1>8. CASE Insert(t) \/ Erase(t) \/ EraseOnces(t)
  <2>1. /\ pc[t] = "have" /\ pc'[t] = "lock" /\ \A r \in Threads \ {t} : pc'[r] = pc[r]
        /\ op[t] \in {"on", "remove", "remove_onces"}
        /\ UNCHANGED <<_counter, op, id, onces, invoked, calls>>
    BY <1>8, CopiedMoves DEF Insert, Erase, EraseOnces, Holds, emitterVars
  <2>2. /\ live' \subseteq live /\ mishaps' \subseteq mishaps \cup {"half"}
        /\ walked' = walked \/ walked' = [walked EXCEPT ![t] = {}]
    BY <1>8 DEF Insert, Erase, EraseOnces, emitterVars
  <2>3. IsFiniteSet(Counting') /\ _counter' + Cardinality(Counting') <= MaxIds
    BY <1>a, <2>1, CountingKept
  <2>4. EmitterTypes'
    BY <1>a, <2>1, <2>2, <2>3 DEF EmitterTypes
  <2>5. Stage'
    BY <1>a, <2>1 DEF Stage, Reading, Filing
  <2> QED
    BY <2>4, <2>5 DEF EmitterShape
<1>9. CASE NotFound(t)
  <2>1. /\ pc[t] = "have" /\ pc' = [pc EXCEPT ![t] = "idle"] /\ op' = [op EXCEPT ![t] = "none"]
        /\ walked' = [walked EXCEPT ![t] = {}] /\ id' = [id EXCEPT ![t] = 0]
        /\ UNCHANGED <<_counter, onces, live, invoked, calls, mishaps>>
    BY <1>9 DEF NotFound, Release, Return, Goto
  <2>2. IsFiniteSet(Counting') /\ _counter' + Cardinality(Counting') <= MaxIds
    BY <1>a, <2>1, CountingKept
  <2>3. EmitterTypes'
    BY <1>a, <2>1, <2>2 DEF EmitterTypes
  <2>4. Stage'
    BY <1>a, <2>1 DEF Stage
  <2> QED
    BY <2>3, <2>4 DEF EmitterShape
<1>10. CASE Invoke(t)
  <2>1. /\ UNCHANGED <<pc, _counter, op, id, onces, live, calls>> /\ mishaps' = mishaps \cup Early(t)
    BY <1>10 DEF Invoke, lockVars
  <2>2. PICK i \in data[ptr[t]] \ walked[t] :
            /\ walked' = [walked EXCEPT ![t] = walked[t] \cup {i}]
            /\ invoked' = [invoked EXCEPT ![i] = invoked[i] + 1]
    BY <1>10 DEF Invoke
  <2>3. i \in Ids
    <3>1. data[ptr[t]] \in Values
      BY <1>10 DEF Invoke, Holds, LockTypeOK
    <3> QED
      BY <2>2, <3>1, MapsAssumption
  <2>4. walked' \in [Threads -> SUBSET Ids] /\ invoked' \in [Ids -> Nat]
    BY <1>a, <2>2, <2>3 DEF EmitterTypes
  <2>5. EmitterTypes'
    BY <1>a, <2>1, <2>4 DEF EmitterTypes, Counting, Early
  <2>6. Stage'
    BY <1>a, <2>1 DEF Stage
  <2> QED
    BY <2>5, <2>6 DEF EmitterShape
<1>11. CASE WalkEnds(t)
  <2>1. /\ pc[t] = "have" /\ pc' = [pc EXCEPT ![t] = "idle"] /\ Enter(t, "remove_onces")
        /\ UNCHANGED <<_counter, id, walked, onces, live, invoked, calls>>
    BY <1>11 DEF WalkEnds, Release, Goto
  <2>2. IsFiniteSet(Counting') /\ _counter' + Cardinality(Counting') <= MaxIds
    BY <1>a, <2>1, CountingKept
  <2>3. EmitterTypes'
    BY <1>a, <2>1, <2>2, EnterTypes DEF EmitterTypes
  <2>4. Stage'
    BY <1>a, <2>1, EnterTypes DEF Stage
  <2> QED
    BY <2>3, <2>4 DEF EmitterShape
<1>12. CASE RunsWild(t)
  <2>1. /\ pc[t] = "have" /\ pc' = [pc EXCEPT ![t] = "wild"] /\ op' = [op EXCEPT ![t] = "none"]
        /\ mishaps' = mishaps \cup {"wild"}
        /\ UNCHANGED <<_counter, id, walked, onces, live, invoked, calls>>
    BY <1>12 DEF RunsWild, Goto
  <2>2. IsFiniteSet(Counting') /\ _counter' + Cardinality(Counting') <= MaxIds
    BY <1>a, <2>1, CountingKept
  <2>3. EmitterTypes'
    BY <1>a, <2>1, <2>2 DEF EmitterTypes
  <2>4. Stage'
    BY <1>a, <2>1 DEF Stage
  <2> QED
    BY <2>3, <2>4 DEF EmitterShape
<1>13. CASE Returns(t)
  <2>1. /\ pc[t] = "unlock" /\ pc' = [pc EXCEPT ![t] = "idle"] /\ op' = [op EXCEPT ![t] = "none"]
        /\ live' = IF op[t] = "on" THEN live \cup {id[t]} ELSE live
        /\ id' = [id EXCEPT ![t] = 0]
        /\ UNCHANGED <<_counter, walked, onces, invoked, calls, mishaps>>
    BY <1>13 DEF Returns, Unlock, Return, Goto
  <2>2. op[t] = "on" => id[t] \in Ids
    BY <1>a, <2>1 DEF Stage, EmitterTypes, Ids
  <2>3. IsFiniteSet(Counting') /\ _counter' + Cardinality(Counting') <= MaxIds
    BY <1>a, <2>1, CountingKept
  <2>4. EmitterTypes'
    BY <1>a, <2>1, <2>2, <2>3 DEF EmitterTypes
  <2>5. Stage'
    BY <1>a, <2>1 DEF Stage
  <2> QED
    BY <2>4, <2>5 DEF EmitterShape
<1> QED
  BY <1>1, <1>2, <1>3, <1>4, <1>5, <1>6, <1>7, <1>8, <1>9, <1>10, <1>11, <1>12, <1>13 DEF Starts, Runs

-----------------------------------------------------------------------------
(* The lock under its callers.                                             *)

\* What the calls do outside read and write: taking an id, handing a changed
\* copy to write, and running wild.
Outside(t) ==
    \/ On(t)
    \/ \E map \in Values : Copied(t, map)
    \/ RunsWild(t)

LEMMA OutsideKept ==
  ASSUME WriteInv, ReadInv, NEW t \in Threads, pc[t] \in {"idle", "have"}, Outside(t)
  PROVE  WriteInv' /\ ReadInv'
<1> USE PoolAssumption
<1>1. /\ UNCHANGED <<current, seq, data, _lock_write, ptr, versions, from>>
      /\ \A r \in Threads \ {t} : pc'[r] = pc[r] /\ laps'[r] = laps[r] /\ early'[r] = early[r]
      /\ pc'[t] \in {"count", "lock", "wild"}
  BY DEF Outside, On, Copied, RunsWild, Goto, WriteInv, LockTypeOK
<1>2. LockTypeOK'
  <2>1. CASE On(t)
    BY <2>1 DEF On, WriteInv, LockTypeOK
  <2>2. ASSUME NEW map \in Values, Copied(t, map) PROVE LockTypeOK'
    BY <2>2 DEF Copied, Goto, WriteInv, LockTypeOK
  <2>3. CASE RunsWild(t)
    BY <2>3 DEF RunsWild, Goto, WriteInv, LockTypeOK
  <2> QED
    BY <2>1, <2>2, <2>3 DEF Outside
<1>3. ~Writing(t) /\ ~Writing(t)'
  BY <1>1 DEF Writing
<1>4. WriteInv'
  BY <1>1, <1>2, <1>3, OutsideStep
<1>5. \A w \in Threads : Unsettled(w) <=> Unsettled(w)'
  BY <1>1 DEF Unsettled
<1>6. ASSUME NEW r \in Threads PROVE Kept(r)'
  <2>1. CASE r = t
    BY <1>1, <2>1 DEF ReadInv, Kept, Loaded
  <2>2. CASE r # t
    BY <1>1, <1>4, <1>5, <2>2, ReaderStays
  <2> QED
    BY <2>1, <2>2
<1> QED
  BY <1>4, <1>6 DEF ReadInv

\* Count calls read: its thread was idle for the lock.
LEMMA CountKept ==
  ASSUME WriteInv, ReadInv, NEW t \in Threads, Count(t)
  PROVE  WriteInv' /\ ReadInv'
<1> USE PoolAssumption
<1>1. /\ UNCHANGED <<current, seq, data, _lock_write, ptr, arg, versions, laps, early>>
      /\ pc[t] = "count" /\ pc' = [pc EXCEPT ![t] = "load"]
      /\ from' = [from EXCEPT ![t] = Len(versions)]
  BY DEF Count, Goto
<1>2. versions \in Seq(Values) /\ Len(versions) \in Nat /\ Len(versions) >= 1
  BY DEF WriteInv, LockTypeOK
<1>3. LockTypeOK'
  BY <1>1, <1>2 DEF WriteInv, LockTypeOK
<1>4. ~Writing(t) /\ ~Writing(t)' /\ \A r \in Threads \ {t} : pc'[r] = pc[r]
  BY <1>1 DEF Writing, WriteInv, LockTypeOK
<1>5. WriteInv'
  BY <1>1, <1>3, <1>4, OutsideStep
<1>6. \A w \in Threads : Unsettled(w) <=> Unsettled(w)'
  BY <1>1, <1>4 DEF Unsettled, WriteInv, LockTypeOK
<1>7. ASSUME NEW r \in Threads PROVE Kept(r)'
  <2>1. CASE r = t
    BY <1>1, <1>2, <2>1 DEF Kept, Loaded, WriteInv, LockTypeOK
  <2>2. CASE r # t
    <3>1. from'[r] = from[r]
      BY <1>1, <2>2 DEF WriteInv, LockTypeOK
    <3> QED
      BY <1>1, <1>4, <1>5, <1>6, <2>2, <3>1, ReaderStays
  <2> QED
    BY <2>1, <2>2
<1> QED
  BY <1>5, <1>7 DEF ReadInv

\* The maps handed to write are maps: nothing torn is copied.
LEMMA MapsWritten ==
  ASSUME EmitterShape, LockTypeOK, NEW t \in Threads, Insert(t) \/ Erase(t) \/ EraseOnces(t)
  PROVE  \E map \in Values : Copied(t, map)
<1>1. data[ptr[t]] \in SUBSET Ids
  BY MapsAssumption DEF Insert, Erase, EraseOnces, Holds, LockTypeOK
<1>2. CASE Insert(t)
  <2>1. op[t] = "on" /\ pc[t] = "have" /\ id[t] < _counter /\ id[t] \in Nat
    BY <1>2 DEF Insert, Holds, EmitterShape, EmitterTypes, Stage
  <2>2. id[t] \in Ids
    <3>1. Cardinality(Counting) \in Nat /\ _counter \in Nat /\ _counter + Cardinality(Counting) <= MaxIds
      BY FS_CardinalityType DEF EmitterShape, EmitterTypes
    <3> QED
      BY <2>1, <3>1, EmitterBounds DEF Ids
  <2> QED
    BY <1>1, <1>2, <2>2, MapsAssumption DEF Insert
<1>3. CASE Erase(t)
  BY <1>1, <1>3, MapsAssumption DEF Erase
<1>4. CASE EraseOnces(t)
  BY <1>1, <1>4, MapsAssumption DEF EraseOnces
<1> QED
  BY <1>2, <1>3, <1>4

LEMMA LockKept ==
  ASSUME EmitterShape, WriteInv, ReadInv, [Next]_vars
  PROVE  WriteInv' /\ ReadInv'
<1>0. [LockNext]_lockVars => WriteInv' /\ ReadInv'
  BY WriteNext, ReadNext
<1>1. CASE UNCHANGED vars
  BY <1>0, <1>1 DEF vars
<1>2. CASE UNCHANGED lockVars
  BY <1>0, <1>2
<1>. SUFFICES ASSUME NEW t \in Threads, Starts(t) \/ Runs(t) PROVE WriteInv' /\ ReadInv'
  BY <1>1 DEF Next
<1>3. CASE pc[t] = "idle" /\ On(t)
  BY <1>3, OutsideKept DEF Outside
<1>4. CASE RemoveListener(t) \/ Emit(t) \/ RemoveListeners(t)
  BY <1>0, <1>4 DEF RemoveListener, Emit, RemoveListeners, LockNext
<1>5. CASE RemoveAllListeners(t)
  <2>1. Write(t, {}) /\ {} \in Values
    BY <1>5, MapsAssumption DEF RemoveAllListeners
  <2> QED
    BY <1>0, <2>1 DEF LockNext
<1>6. CASE Count(t)
  BY <1>6, CountKept
<1>7. CASE CountRetry(t) \/ Invoke(t)
  BY <1>2, <1>7 DEF CountRetry, Invoke
<1>8. CASE LockSteps(t)
  BY <1>0, <1>8 DEF LockSteps, LockNext
<1>9. CASE Insert(t) \/ Erase(t) \/ EraseOnces(t)
  <2>1. \E map \in Values : Copied(t, map)
    BY <1>9, MapsWritten DEF WriteInv
  <2>2. pc[t] = "have"
    BY <2>1 DEF Copied, Goto
  <2> QED
    BY <2>1, <2>2, OutsideKept DEF Outside
<1>10. CASE NotFound(t) \/ WalkEnds(t)
  BY <1>0, <1>10 DEF NotFound, WalkEnds, LockNext
<1>11. CASE RunsWild(t)
  BY <1>11, OutsideKept DEF Outside, RunsWild, Goto
<1>12. CASE Returns(t)
  BY <1>0, <1>12 DEF Returns, LockNext
<1> QED
  BY <1>3, <1>4, <1>5, <1>6, <1>7, <1>8, <1>9, <1>10, <1>11, <1>12 DEF Starts, Runs

EmitterLock == EmitterShape /\ WriteInv /\ ReadInv

LEMMA EmitterLockInvariant == Spec => []EmitterLock
<1>1. EmitterInit => EmitterLock
  BY ShapeInit, WriteInit, ReadInit DEF EmitterInit, EmitterLock
<1>2. EmitterLock /\ [Next]_vars => EmitterLock'
  BY ShapeNext, LockKept DEF EmitterLock, WriteInv
<1> QED
  BY <1>1, <1>2, PTL DEF Spec

\* Listeners registered, removed and invoked keep their types, and every call
\* is where its code can be. (EventEmitter)
THEOREM EmitterShapeHolds == Spec => []EmitterShape
<1>1. EmitterLock => EmitterShape
  BY DEF EmitterLock
<1> QED
  BY <1>1, EmitterLockInvariant, PTL

\* The map of listeners is whole whenever its lock is free, and a reference to
\* it shows a version current since the read, under every use that the calls
\* of the emitter make of the lock. (SeqLock in EventEmitter)
THEOREM EmitterMapRegular == Spec => [](WholeWhenFree /\ ReadsRegular)
<1>1. EmitterLock => WholeWhenFree /\ ReadsRegular
  BY WriteInvWhole, ReadInvRegular DEF EmitterLock
<1> QED
  BY <1>1, EmitterLockInvariant, PTL

-----------------------------------------------------------------------------
(* Changes that do not overlap lose nothing.                               *)

OneChange ==
    "overlap" \notin mishaps =>
        \A t, r \in Threads : op[t] \in Changing /\ op[r] \in Changing => t = r

\* The change that runs has copied the last version, and writes back all that
\* is live and what it adds.
Lossless ==
    "overlap" \notin mishaps =>
        /\ live \subseteq Last
        /\ \A t \in Threads : op[t] \in Changing =>
              /\ pc[t] \in {"check", "have"} => ptr[t] = current
              /\ pc[t] \in Filing => live \subseteq arg[t] /\ (op[t] = "on" => id[t] \in arg[t])
              /\ pc[t] \in Filed /\ op[t] = "on" => id[t] \in Last

LEMMA MishapsStay == ASSUME [Next]_vars PROVE mishaps \subseteq mishaps'
<1>1. CASE UNCHANGED vars
  BY <1>1 DEF vars, emitterVars
<1>2. ASSUME NEW t \in Threads, Starts(t) PROVE mishaps \subseteq mishaps'
  BY <1>2 DEF Starts, On, RemoveListener, RemoveAllListeners, Emit, Call, Enter
<1>3. ASSUME NEW t \in Threads, Runs(t) PROVE mishaps \subseteq mishaps'
  BY <1>3 DEF Runs, Count, CountRetry, RemoveListeners, LockSteps, Insert, Erase, NotFound, Invoke, WalkEnds,
              EraseOnces, RunsWild, Returns, Return, Enter, emitterVars
<1> QED
  BY <1>1, <1>2, <1>3 DEF Next

\* Only a start and the end of a walk give a thread something to do.
LEMMA OpMoves ==
  ASSUME EmitterShape, [Next]_vars
  PROVE  op' = op \/ \E t \in Threads :
            \/ op' = [op EXCEPT ![t] = "none"]
            \/ Enter(t, "on") \/ Enter(t, "remove") \/ Enter(t, "remove_all")
            \/ Enter(t, "emit") /\ pc[t] = "idle"
            \/ Enter(t, "remove_onces") /\ op[t] = "emit"
<1>1. CASE UNCHANGED vars
  BY <1>1 DEF vars, emitterVars
<1>2. ASSUME NEW t \in Threads, Starts(t)
      PROVE  \/ Enter(t, "on") \/ Enter(t, "remove") \/ Enter(t, "remove_all")
             \/ Enter(t, "emit") /\ pc[t] = "idle"
  BY <1>2 DEF Starts, On, RemoveListener, RemoveAllListeners, Emit, Call
<1>3. ASSUME NEW t \in Threads, Runs(t)
      PROVE  \/ op' = op \/ op' = [op EXCEPT ![t] = "none"]
             \/ Enter(t, "remove_onces") /\ op[t] = "emit"
  <2>1. CASE \/ Count(t) \/ CountRetry(t) \/ RemoveListeners(t) \/ LockSteps(t) \/ Insert(t) \/ Erase(t)
             \/ Invoke(t) \/ EraseOnces(t)
    BY <2>1 DEF Count, CountRetry, RemoveListeners, LockSteps, Insert, Erase, Invoke, EraseOnces, emitterVars
  <2>2. CASE NotFound(t) \/ RunsWild(t) \/ Returns(t)
    BY <2>2 DEF NotFound, RunsWild, Returns, Return
  <2>3. CASE WalkEnds(t)
    BY <2>3 DEF WalkEnds, Holds
  <2> QED
    BY <1>3, <2>1, <2>2, <2>3 DEF Runs
<1> QED
  BY <1>1, <1>2, <1>3 DEF Next

LEMMA OneChangeNext == ASSUME EmitterShape, OneChange, [Next]_vars PROVE OneChange'
<1> SUFFICES ASSUME "overlap" \notin mishaps',
                    NEW t \in Threads, NEW r \in Threads, op'[t] \in Changing, op'[r] \in Changing
             PROVE  t = r
  BY DEF OneChange
<1>1. "overlap" \notin mishaps /\ DOMAIN op = Threads
  BY MishapsStay DEF EmitterShape, EmitterTypes
<1>2. CASE op' = op
  BY <1>1, <1>2 DEF OneChange
<1>3. ASSUME NEW u \in Threads, op' = [op EXCEPT ![u] = "none"] PROVE t = r
  BY <1>1, <1>3 DEF OneChange, Changing
<1>4. ASSUME NEW u \in Threads, NEW what \in {"on", "remove", "remove_all", "remove_onces"}, Enter(u, what)
      PROVE  t = r
  <2>1. what \in Changing /\ op' = [op EXCEPT ![u] = what]
    BY <1>4 DEF Enter, Changing
  <2>2. \A w \in Threads \ {u} : op[w] \notin Changing
    BY <1>4, <2>1 DEF Enter
  <2> QED
    BY <1>1, <2>1, <2>2
<1>5. ASSUME NEW u \in Threads, Enter(u, "emit") PROVE t = r
  BY <1>1, <1>5 DEF OneChange, Enter, Changing
<1> QED
  BY <1>2, <1>3, <1>4, <1>5, OpMoves

\* Whoever is in write changes the map.
LEMMA WritersChange ==
  ASSUME EmitterShape, LockTypeOK, NEW t \in Threads, pc[t] \in Filing \cup Filed \/ Writing(t) \/ Unsettled(t)
  PROVE  op[t] \in Changing
  BY DEF EmitterShape, EmitterTypes, Stage, Changing, Filing, Filed, Reading, Writing, Unsettled

LEMMA ChangerReads ==
  ASSUME EmitterLock, OneChange, Lossless, "overlap" \notin mishaps,
         NEW t \in Threads, op[t] \in Changing, pc[t] = "have"
  PROVE  data[ptr[t]] = Last
<1>1. ptr[t] = current
  BY DEF Lossless
<1>2. \A w \in Threads : ~Unsettled(w)
  BY WritersChange DEF EmitterLock, WriteInv, OneChange, Unsettled
<1> QED
  BY <1>1, <1>2 DEF EmitterLock, WriteInv, Settled

\* A step of t that leaves the other changes, what is live and the last version alone.
LEMMA LosslessAside ==
  ASSUME Lossless, "overlap" \notin mishaps, NEW t \in Threads, UNCHANGED <<live, versions>>,
         op'[t] \notin Changing,
         \A r \in Threads \ {t} : /\ op'[r] = op[r] /\ pc'[r] = pc[r] /\ arg'[r] = arg[r] /\ id'[r] = id[r]
                                  /\ ptr'[r] = ptr[r],
         current' = current
  PROVE  Lossless'
<1>1. Last' = Last
  BY DEF Last
<1> QED
  BY <1>1 DEF Lossless

\* A step of t, which changes the map and is alone in that.
LEMMA LosslessAlone ==
  ASSUME OneChange', "overlap" \notin mishaps', NEW t \in Threads, op'[t] \in Changing, live' \subseteq Last',
         pc'[t] \in {"check", "have"} => ptr'[t] = current',
         pc'[t] \in Filing => live' \subseteq arg'[t] /\ (op'[t] = "on" => id'[t] \in arg'[t]),
         pc'[t] \in Filed /\ op'[t] = "on" => id'[t] \in Last'
  PROVE  Lossless'
  BY DEF OneChange, Lossless

LEMMA LosslessNext ==
  ASSUME EmitterLock, OneChange, Lossless, [Next]_vars PROVE Lossless'
<1> SUFFICES ASSUME "overlap" \notin mishaps' PROVE Lossless'
  BY DEF Lossless
<1>a. /\ "overlap" \notin mishaps /\ OneChange' /\ live \subseteq Last
      /\ LockTypeOK /\ EmitterTypes /\ Stage /\ EmitterShape
      /\ DOMAIN pc = Threads /\ DOMAIN op = Threads /\ DOMAIN id = Threads /\ DOMAIN arg = Threads
      /\ DOMAIN ptr = Threads
  BY MishapsStay, OneChangeNext DEF EmitterLock, WriteInv, LockTypeOK, EmitterShape, EmitterTypes, Lossless
<1>0. CASE UNCHANGED vars
  BY <1>0 DEF vars, lockVars, emitterVars, Lossless, Last
<1>. SUFFICES ASSUME NEW t \in Threads, Starts(t) \/ Runs(t) PROVE Lossless'
  BY <1>0 DEF Next
<1>1. CASE On(t) \/ RemoveListener(t)
  <2>1. /\ op'[t] \in Changing /\ pc'[t] \in {"count", "load"} /\ UNCHANGED <<live, versions>>
    BY <1>1, <1>a DEF On, RemoveListener, Call, Enter, Read, Goto, Changing
  <2>2. Last' = Last
    BY <2>1 DEF Last
  <2> QED
    BY <1>a, <2>1, <2>2, LosslessAlone DEF Filing, Filed
<1>2. CASE RemoveAllListeners(t)
  <2>1. op'[t] = "remove_all" /\ pc'[t] = "lock" /\ live' = {}
    BY <1>2, <1>a DEF RemoveAllListeners, Call, Enter, Write, Goto
  <2> QED
    BY <1>a, <2>1, LosslessAlone DEF Filing, Filed, Changing
<1>3. CASE Emit(t)
  <2>1. /\ UNCHANGED <<live, versions, current, arg, id, ptr>> /\ op' = [op EXCEPT ![t] = "emit"]
        /\ pc' = [pc EXCEPT ![t] = "load"]
    BY <1>3 DEF Emit, Call, Enter, Read, Goto
  <2> QED
    BY <1>a, <2>1, LosslessAside DEF Changing
<1>4. CASE Count(t) \/ CountRetry(t) \/ RemoveListeners(t)
  <2>1. /\ op'[t] \in Changing /\ pc'[t] \in {"count", "load"} /\ UNCHANGED <<live, versions>>
    <3>1. op[t] \in Changing
      BY <1>4, <1>a DEF Count, CountRetry, RemoveListeners, Goto, Stage, EmitterTypes, Changing, Reading, Filing, Filed
    <3> QED
      BY <1>4, <1>a, <3>1 DEF Count, CountRetry, RemoveListeners, Read, Goto, lockVars, emitterVars
  <2>2. Last' = Last
    BY <2>1 DEF Last
  <2> QED
    BY <1>a, <2>1, <2>2, LosslessAlone DEF Filing, Filed
<1>5. CASE LockSteps(t)
  <2>0. UNCHANGED <<live, op, id>> /\ \A r \in Threads \ {t} : pc'[r] = pc[r]
    BY <1>5, <1>a, LockStepMoves DEF emitterVars
  <2>1. CASE op[t] \notin Changing
    <3>1. pc[t] \in Reading
      BY <1>5, <1>a, <2>1, LockStepMoves DEF Stage, EmitterTypes, Changing, Filing, Filed, Reading
    <3>2. LoadPtr(t) \/ LoadSeq(t) \/ ReadRetry(t)
      BY <1>5, <3>1 DEF LockSteps, ReadStep, WriteStep, Lock, Publish, StartWriting, Assign, Assigned, EndWriting,
                        Goto, Reading
    <3>3. UNCHANGED <<current, arg, versions>> /\ \A r \in Threads \ {t} : ptr'[r] = ptr[r]
      BY <1>a, <3>2 DEF LoadPtr, LoadSeq, ReadRetry
    <3> QED
      BY <1>a, <2>0, <2>1, <3>3, LosslessAside
  <2>2. CASE op[t] \in Changing
    <3>0. /\ pc[t] \in {"check", "have"} => ptr[t] = current
          /\ pc[t] \in Filing => live \subseteq arg[t] /\ (op[t] = "on" => id[t] \in arg[t])
          /\ pc[t] \in Filed /\ op[t] = "on" => id[t] \in Last
      BY <1>a, <2>2 DEF Lossless
    <3>1. CASE Assigned(t)
      <4>1. Last' = arg[t]
        BY <1>a, <3>1, Appended DEF Assigned, LockTypeOK
      <4>2. pc[t] = "assigned" /\ pc'[t] = "even"
        BY <1>a, <3>1 DEF Assigned, Goto
      <4> QED
        BY <1>a, <2>0, <2>2, <3>0, <4>1, <4>2, LosslessAlone DEF Filing, Filed
    <3>2. CASE LoadPtr(t) \/ LoadSeq(t) \/ ReadRetry(t)
      <4>1. /\ versions' = versions /\ current' = current /\ pc'[t] \in Reading
            /\ \/ ptr'[t] = current \/ pc'[t] = "load"
               \/ pc[t] = "check" /\ ptr'[t] = ptr[t]
        BY <1>a, <3>2 DEF LoadPtr, LoadSeq, ReadRetry, Goto, LockTypeOK, Reading
      <4>2. Last' = Last
        BY <4>1 DEF Last
      <4> QED
        BY <1>a, <2>0, <2>2, <3>0, <4>1, <4>2, LosslessAlone DEF Filing, Filed, Reading
    <3>3. CASE Lock(t) \/ Publish(t) \/ StartWriting(t) \/ Assign(t) \/ EndWriting(t)
      <4>1. /\ versions' = versions /\ arg' = arg
            /\ \/ pc[t] \in Filing /\ pc'[t] \in Filing
               \/ pc[t] = "even" /\ pc'[t] = "unlock"
        BY <1>a, <3>3 DEF Lock, Publish, StartWriting, Assign, EndWriting, Goto, Filing
      <4>2. Last' = Last
        BY <4>1 DEF Last
      <4> QED
        BY <1>a, <2>0, <2>2, <3>0, <4>1, <4>2, LosslessAlone DEF Filing, Filed
    <3> QED
      BY <1>5, <3>1, <3>2, <3>3 DEF LockSteps, ReadStep, WriteStep
  <2> QED
    BY <2>1, <2>2
<1>6. CASE Insert(t) \/ Erase(t) \/ EraseOnces(t)
  <2>1. op[t] \in Changing /\ pc[t] = "have" /\ UNCHANGED <<op, id>>
    BY <1>6 DEF Insert, Erase, EraseOnces, Holds, Changing, emitterVars
  <2>2. data[ptr[t]] = Last
    BY <1>a, <2>1, ChangerReads
  <2>3. pc'[t] = "lock" /\ versions' = versions
    BY <1>6, <1>a, CopiedMoves DEF Insert, Erase, EraseOnces
  <2>4. Last' = Last
    BY <2>3 DEF Last
  <2>5. live' \subseteq live /\ live' \subseteq arg'[t] /\ (op'[t] = "on" => id'[t] \in arg'[t])
    <3>1. CASE Insert(t)
      BY <1>a, <2>2, <3>1, CopiedMoves DEF Insert, Holds, emitterVars
    <3>2. CASE Erase(t)
      BY <1>a, <2>2, <3>2, CopiedMoves DEF Erase, Holds
    <3>3. CASE EraseOnces(t)
      <4>1. PICK erased : /\ Copied(t, data[ptr[t]] \ erased) /\ live' = live \ erased
        BY <3>3 DEF EraseOnces
      <4>2. arg'[t] = data[ptr[t]] \ erased
        BY <1>a, <4>1, CopiedMoves
      <4>3. op'[t] = "remove_onces"
        BY <3>3 DEF EraseOnces, Holds
      <4> QED
        BY <1>a, <2>2, <4>1, <4>2, <4>3
    <3> QED
      BY <1>6, <3>1, <3>2, <3>3
  <2> QED
    BY <1>a, <2>1, <2>3, <2>4, <2>5, LosslessAlone DEF Filing, Filed
<1>7. CASE NotFound(t) \/ RunsWild(t)
  <2>1. /\ UNCHANGED <<live, versions, current, arg, ptr>> /\ op' = [op EXCEPT ![t] = "none"]
        /\ \A r \in Threads \ {t} : pc'[r] = pc[r] /\ id'[r] = id[r]
    BY <1>7, <1>a DEF NotFound, RunsWild, Release, Return, Goto
  <2> QED
    BY <1>a, <2>1, LosslessAside DEF Changing
<1>8. CASE Invoke(t)
  BY <1>8, <1>a DEF Invoke, lockVars, Lossless, Last
<1>9. CASE WalkEnds(t)
  <2>1. /\ op'[t] = "remove_onces" /\ pc'[t] = "idle" /\ UNCHANGED <<live, versions>>
    BY <1>9, <1>a DEF WalkEnds, Enter, Release, Goto
  <2>2. Last' = Last
    BY <2>1 DEF Last
  <2> QED
    BY <1>a, <2>1, <2>2, LosslessAlone DEF Filing, Filed, Changing
<1>10. CASE Returns(t)
  <2>1. /\ pc[t] = "unlock" /\ pc'[t] = "idle" /\ versions' = versions /\ op' = [op EXCEPT ![t] = "none"]
        /\ live' = IF op[t] = "on" THEN live \cup {id[t]} ELSE live
    BY <1>10, <1>a DEF Returns, Unlock, Return, Goto
  <2>2. op[t] \in Changing
    BY <1>a, <2>1, WritersChange DEF Filed
  <2>3. op[t] = "on" => id[t] \in Last
    BY <1>a, <2>1, <2>2 DEF Lossless, Filed
  <2>4. Last' = Last
    BY <2>1 DEF Last
  <2>5. \A r \in Threads : op'[r] \notin Changing
    BY <1>a, <2>1, <2>2 DEF OneChange, Changing
  <2> QED
    BY <1>a, <2>1, <2>3, <2>4, <2>5 DEF Lossless
<1> QED
  BY <1>1, <1>2, <1>3, <1>4, <1>5, <1>6, <1>7, <1>8, <1>9, <1>10 DEF Starts, Runs

ChangeInv == EmitterLock /\ OneChange /\ Lossless

LEMMA ChangeInvariant == Spec => []ChangeInv
<1>1. EmitterInit => ChangeInv
  <2> SUFFICES ASSUME EmitterInit PROVE ChangeInv
    OBVIOUS
  <2>1. EmitterLock
    BY ShapeInit, WriteInit, ReadInit DEF EmitterInit, EmitterLock
  <2>2. OneChange /\ Lossless
    BY DEF EmitterInit, OneChange, Lossless, Changing
  <2> QED
    BY <2>1, <2>2 DEF ChangeInv
<1>2. ChangeInv /\ [Next]_vars => ChangeInv'
  BY ShapeNext, LockKept, OneChangeNext, LosslessNext DEF ChangeInv, EmitterLock, WriteInv
<1> QED
  BY <1>1, <1>2, PTL DEF Spec

\* Whatever emits walk and however many calls run, changes that do not overlap
\* lose no listener, although none of them holds the lock from its read to its
\* write. (EventEmitter::on, remove_listener, remove_listeners)
THEOREM EmitterLosesNothing == Spec => []NothingLost
<1>1. ChangeInv => NothingLost
  BY DEF ChangeInv, Lossless, NothingLost
<1> QED
  BY <1>1, ChangeInvariant, PTL

-----------------------------------------------------------------------------
(* An emit reaches every listener that stays.                              *)

\* A step of t leaves the locals of the others alone.
LEMMA Aside ==
  ASSUME EmitterLock, NEW t \in Threads, Starts(t) \/ Runs(t), NEW r \in Threads \ {t}
  PROVE  /\ op'[r] = op[r] /\ pc'[r] = pc[r] /\ id'[r] = id[r] /\ walked'[r] = walked[r]
         /\ ptr'[r] = ptr[r] /\ arg'[r] = arg[r] /\ from'[r] = from[r]
<1>1. CASE Starts(t)
  BY <1>1 DEF Starts, On, RemoveListener, RemoveAllListeners, Emit, Call, Enter, Read, Write, Goto,
              EmitterLock, EmitterShape, EmitterTypes, WriteInv, LockTypeOK
<1>2. CASE LockSteps(t)
  BY <1>2 DEF LockSteps, ReadStep, WriteStep, LoadPtr, LoadSeq, ReadRetry, Lock, Publish, StartWriting, Assign,
              Assigned, EndWriting, Goto, EmitterLock, WriteInv, LockTypeOK, emitterVars
<1>3. CASE Count(t) \/ CountRetry(t) \/ RemoveListeners(t) \/ Invoke(t)
  BY <1>3 DEF Count, CountRetry, RemoveListeners, Invoke, Read, Goto, lockVars, emitterVars, EmitterLock,
              EmitterShape, EmitterTypes, WriteInv, LockTypeOK
<1>4. CASE Insert(t) \/ Erase(t) \/ EraseOnces(t)
  BY <1>4 DEF Insert, Erase, EraseOnces, Copied, Goto, emitterVars, EmitterLock, EmitterShape, EmitterTypes,
              WriteInv, LockTypeOK
<1>5. CASE NotFound(t) \/ WalkEnds(t) \/ RunsWild(t) \/ Returns(t)
  BY <1>5 DEF NotFound, WalkEnds, RunsWild, Returns, Release, Unlock, Return, Enter, Goto, EmitterLock,
              EmitterShape, EmitterTypes, WriteInv, LockTypeOK
<1> QED
  BY <1>1, <1>2, <1>3, <1>4, <1>5 DEF Runs

\* A step adds one version, that of a writer at the end of its assignment, or none.
LEMMA VersionsGrow ==
  ASSUME EmitterLock, NEW t \in Threads, Starts(t) \/ Runs(t)
  PROVE  /\ Len(versions) \in Nat /\ Len(versions) >= 1
         /\ \A v \in 1..Len(versions) : versions'[v] = versions[v]
         /\ \/ versions' = versions
            \/ /\ LockSteps(t) /\ pc[t] = "assigned" /\ pc'[t] = "even"
               /\ Len(versions') = Len(versions) + 1 /\ versions'[Len(versions')] = arg[t]
<1>0. versions \in Seq(Values) /\ arg[t] \in Values /\ Len(versions) \in Nat /\ Len(versions) >= 1
  BY DEF EmitterLock, WriteInv, LockTypeOK
<1>1. CASE Assigned(t) /\ LockSteps(t)
  <2>1. versions' = Append(versions, arg[t]) /\ pc[t] = "assigned" /\ pc'[t] = "even"
    BY <1>1 DEF Assigned, Goto, EmitterLock, WriteInv, LockTypeOK
  <2> QED
    BY <1>0, <1>1, <2>1, Appended DEF Last
<1>2. CASE Starts(t)
  BY <1>0, <1>2 DEF Starts, On, RemoveListener, RemoveAllListeners, Emit, Read, Write
<1>3. CASE Runs(t) /\ ~(Assigned(t) /\ LockSteps(t))
  <2>1. versions' = versions
    BY <1>3 DEF Runs, Count, CountRetry, RemoveListeners, LockSteps, ReadStep, WriteStep, LoadPtr, LoadSeq,
                ReadRetry, Lock, Publish, StartWriting, Assign, EndWriting, Insert, Erase, EraseOnces, Copied,
                NotFound, Invoke, WalkEnds, RunsWild, Returns, Release, Unlock, Read, lockVars
  <2> QED
    BY <1>0, <2>1
<1> QED
  BY <1>1, <1>2, <1>3

LEMMA EmitReachesNext ==
  ASSUME EmitterLock, EmitReaches, [Next]_vars PROVE EmitReaches'
<1>0. CASE UNCHANGED vars
  BY <1>0 DEF vars, lockVars, emitterVars, EmitReaches
<1>. SUFFICES ASSUME NEW t \in Threads, Starts(t) \/ Runs(t),
                     NEW r \in Threads, op'[r] = "remove_onces", pc'[r] = "idle", mishaps' \cap {"early"} = {},
                     NEW i \in Ids, \A v \in from'[r]..Len(versions') : i \in versions'[v]
              PROVE  i \in walked'[r]
  BY <1>0 DEF Next, EmitReaches
<1>1. /\ "early" \notin mishaps
      /\ Len(versions) \in Nat /\ \A v \in 1..Len(versions) : versions'[v] = versions[v]
      /\ Len(versions') \in Nat /\ Len(versions) <= Len(versions') /\ from[r] \in 1..Len(versions)
  BY MishapsStay, VersionsGrow DEF Next, EmitterLock, ReadInv, Kept
<1>2. ASSUME from'[r] = from[r] PROVE \A v \in from[r]..Len(versions) : i \in versions[v]
  BY <1>1, <1>2
<1>3. CASE r # t
  <2>1. /\ op[r] = "remove_onces" /\ pc[r] = "idle" /\ walked'[r] = walked[r] /\ from'[r] = from[r]
    BY <1>3, Aside
  <2> QED
    BY <1>1, <1>2, <2>1 DEF EmitReaches
<1>4. CASE r = t
  <2>1. WalkEnds(t)
    <3>1. CASE Starts(t)
      BY <3>1, <1>4 DEF Starts, On, RemoveListener, RemoveAllListeners, Emit, Read, Write, Goto, EmitterLock,
                        WriteInv, LockTypeOK
    <3>2. CASE Count(t) \/ CountRetry(t) \/ RemoveListeners(t) \/ Invoke(t) \/ RunsWild(t)
      BY <3>2, <1>4 DEF Count, CountRetry, RemoveListeners, Invoke, RunsWild, Holds, Read, Goto, lockVars,
                        EmitterLock, WriteInv, LockTypeOK
    <3>3. CASE LockSteps(t)
      BY <3>3, <1>4, LockStepMoves DEF EmitterLock, WriteInv, Reading, Filing, Filed
    <3>4. CASE Insert(t) \/ Erase(t) \/ EraseOnces(t)
      BY <3>4, <1>4, CopiedMoves DEF Insert, Erase, EraseOnces, EmitterLock, WriteInv
    <3>5. CASE NotFound(t) \/ Returns(t)
      BY <3>5, <1>4 DEF NotFound, Returns, Return, EmitterLock, EmitterShape, EmitterTypes
    <3> QED
      BY <3>1, <3>2, <3>3, <3>4, <3>5 DEF Runs
  <2>2. /\ pc[t] = "have" /\ laps[t] < PoolSize /\ data[ptr[t]] \subseteq walked[t]
        /\ walked' = walked /\ from' = from /\ Early(t) \subseteq mishaps'
    BY <2>1 DEF WalkEnds, Holds, Release, Enter
  <2>3. ~early[t]
    BY <2>2 DEF Early
  <2>4. PICK v \in from[t]..Len(versions) : data[ptr[t]] = versions[v]
    BY <2>2, <2>3, ReadInvRegular DEF EmitterLock, ReadsRegular
  <2>5. i \in versions[v]
    BY <1>2, <1>4, <2>2, <2>4
  <2> QED
    BY <1>4, <2>2, <2>4, <2>5
<1> QED
  BY <1>3, <1>4

\* An emit that reaches the end has invoked every listener that was in the map
\* since it was called, whatever changes ran meanwhile, unless its read was
\* early. (the walk over a reference in EventEmitter's constructor)
THEOREM EmitterReaches == Spec => []EmitReaches
<1>1. EmitterInit => EmitReaches
  BY DEF EmitterInit, EmitReaches
<1>2. EmitterLock /\ EmitReaches /\ [Next]_vars => EmitReaches'
  BY EmitReachesNext
<1> QED
  BY <1>1, <1>2, EmitterLockInvariant, PTL DEF Spec

-----------------------------------------------------------------------------
(* A listener that is used once is invoked once.                           *)

Emitting(t) == op[t] \in {"emit", "remove_onces"}

\* A call of on that has its id and has not yet put it in a map.
Pending(t) == op[t] = "on" /\ pc[t] \in Reading

OneEmit == mishaps = {} => \A t, r \in Threads : Emitting(t) /\ Emitting(r) => t = r

\* The ids that have been in a map.
Known(i) ==
    \/ invoked[i] > 0
    \/ \E v \in 1..Len(versions) : i \in versions[v]
    \/ \E t \in Threads : i \in arg[t]

\* The id that a call of on is about to insert is new.
NewIds ==
    mishaps = {} =>
        /\ \A i \in Ids : Known(i) => i < _counter /\ \A t \in Threads : Pending(t) => id[t] # i
        /\ \A t, r \in Threads : Pending(t) /\ Pending(r) /\ id[t] = id[r] => t = r

\* Once remove_listeners writes, the walk is forgotten.
WalkForgotten ==
    \A t \in Threads : op[t] = "remove_onces" /\ pc[t] \in Filing \cup Filed => walked[t] = {}

\* No emit, running or to come, can find i.
Gone(i) ==
    /\ i \notin Last
    /\ \A t \in Threads : pc[t] \in Filing => i \notin arg[t]
    /\ \A t \in Threads : op[t] = "emit" => \A v \in from[t]..Len(versions) : i \notin versions[v]

\* i is walked by the emit that runs, or being written away by it, or gone.
Settling(i) ==
    \/ \E t \in Threads : Emitting(t) /\ i \in walked[t]
    \/ \E t \in Threads : op[t] = "remove_onces" /\ pc[t] \in Filing /\ i \notin arg[t]
    \/ Gone(i)

InvokedOnce ==
    mishaps = {} => \A i \in onces : invoked[i] <= 1 /\ (invoked[i] = 1 => Settling(i))

LEMMA OneEmitNext == ASSUME EmitterShape, OneEmit, [Next]_vars PROVE OneEmit'
<1> SUFFICES ASSUME mishaps' = {}, NEW t \in Threads, NEW r \in Threads, Emitting(t)', Emitting(r)'
             PROVE  t = r
  BY DEF OneEmit
<1>1. mishaps = {} /\ DOMAIN op = Threads
  BY MishapsStay DEF EmitterShape, EmitterTypes
<1>2. CASE op' = op
  BY <1>1, <1>2 DEF OneEmit, Emitting
<1>3. ASSUME NEW u \in Threads, NEW what \in {"none", "on", "remove", "remove_all"}, op' = [op EXCEPT ![u] = what]
      PROVE  t = r
  BY <1>1, <1>3 DEF OneEmit, Emitting
<1>4. ASSUME NEW u \in Threads, Enter(u, "remove_onces"), op[u] = "emit" PROVE t = r
  BY <1>1, <1>4 DEF OneEmit, Emitting, Enter
<1>5. ASSUME NEW u \in Threads, Enter(u, "emit") PROVE t = r
  <2>1. op' = [op EXCEPT ![u] = "emit"] /\ \A w \in Threads \ {u} : ~Emitting(w)
    BY <1>5 DEF Enter, Emitting
  <2> QED
    BY <1>1, <2>1 DEF Emitting
<1> QED
  BY <1>2, <1>3, <1>4, <1>5, OpMoves DEF Enter

\* What a step of t hands to write, if it hands anything.
LEMMA ArgMoves ==
  ASSUME ChangeInv, mishaps = {}, NEW t \in Threads, Starts(t) \/ Runs(t)
  PROVE  \/ arg'[t] = arg[t] /\ (pc'[t] \in Filing => pc[t] \in Filing)
         \/ arg'[t] = {}
         \/ Insert(t) /\ arg'[t] = Last \cup {id[t]}
         \/ (Erase(t) \/ EraseOnces(t)) /\ arg'[t] \subseteq Last
<1>a. LockTypeOK /\ DOMAIN pc = Threads /\ DOMAIN arg = Threads
  BY DEF ChangeInv, EmitterLock, WriteInv, LockTypeOK
<1>1. CASE Starts(t) /\ ~RemoveAllListeners(t)
  BY <1>a, <1>1 DEF Starts, On, RemoveListener, Emit, Read, Goto, Filing
<1>2. CASE RemoveAllListeners(t)
  BY <1>a, <1>2 DEF RemoveAllListeners, Write
<1>3. CASE Count(t) \/ CountRetry(t) \/ RemoveListeners(t) \/ Invoke(t) \/ RunsWild(t) \/ NotFound(t) \/ WalkEnds(t)
  BY <1>a, <1>3 DEF Count, CountRetry, RemoveListeners, Invoke, RunsWild, NotFound, WalkEnds, Read, Release, Goto,
                    lockVars, Filing
<1>4. CASE LockSteps(t)
  <2>1. arg' = arg
    BY <1>4 DEF LockSteps, ReadStep, WriteStep, LoadPtr, LoadSeq, ReadRetry, Lock, Publish, StartWriting, Assign,
                Assigned, EndWriting
  <2>2. pc'[t] \in Filing => pc[t] \in Filing
    BY <1>a, <1>4, LockStepMoves DEF Reading, Filing, Filed
  <2> QED
    BY <2>1, <2>2
<1>5. CASE Insert(t) \/ Erase(t) \/ EraseOnces(t)
  <2>1. data[ptr[t]] = Last
    BY <1>5, ChangerReads DEF ChangeInv, Insert, Erase, EraseOnces, Holds, Changing
  <2>2. CASE Insert(t)
    BY <1>a, <2>1, <2>2, CopiedMoves DEF Insert
  <2>3. CASE Erase(t)
    BY <1>a, <2>1, <2>3, CopiedMoves DEF Erase
  <2>4. CASE EraseOnces(t)
    <3>1. PICK erased : Copied(t, data[ptr[t]] \ erased)
      BY <2>4 DEF EraseOnces
    <3>2. arg'[t] = data[ptr[t]] \ erased
      BY <1>a, <3>1, CopiedMoves
    <3> QED
      BY <2>1, <2>4, <3>2
  <2> QED
    BY <1>5, <2>2, <2>3, <2>4
<1>6. CASE Returns(t)
  BY <1>a, <1>6, MapsAssumption DEF Returns, Unlock
<1> QED
  BY <1>1, <1>2, <1>3, <1>4, <1>5, <1>6 DEF Starts, Runs

\* Without mishaps a walk is through a version that was current since the emit was called.
LEMMA InvokedVersion ==
  ASSUME EmitterLock, NEW t \in Threads, Invoke(t), mishaps' = {}
  PROVE  \E v \in from[t]..Len(versions) : data[ptr[t]] = versions[v]
<1>1. pc[t] = "have" /\ laps[t] < PoolSize /\ ~early[t]
  BY DEF Invoke, Holds, Early
<1> QED
  BY <1>1, ReadInvRegular DEF EmitterLock, ReadsRegular

\* A step makes no id known but those of a map that is known, and the one it inserts.
LEMMA KnownNext ==
  ASSUME ChangeInv, mishaps = {}, mishaps' = {}, NEW t \in Threads, Starts(t) \/ Runs(t), NEW i \in Ids, Known(i)'
  PROVE  Known(i) \/ (Insert(t) /\ i = id[t])
<1>a. /\ EmitterLock /\ \A j \in Last : Known(j)
      /\ Len(versions) \in Nat /\ Len(versions) >= 1
      /\ \A v \in 1..Len(versions) : versions'[v] = versions[v]
  <2>1. /\ EmitterLock /\ Len(versions) \in Nat /\ Len(versions) >= 1
        /\ \A v \in 1..Len(versions) : versions'[v] = versions[v]
    BY VersionsGrow DEF ChangeInv
  <2>2. Len(versions) \in 1..Len(versions)
    BY <2>1
  <2> QED
    BY <2>1, <2>2 DEF Known, Last
<1>1. CASE invoked'[i] > 0
  <2>1. CASE Invoke(t)
    <3>1. PICK j \in data[ptr[t]] \ walked[t] : invoked' = [invoked EXCEPT ![j] = invoked[j] + 1]
      BY <2>1 DEF Invoke
    <3>2. PICK v \in from[t]..Len(versions) : data[ptr[t]] = versions[v]
      BY <1>a, <2>1, InvokedVersion
    <3>3. v \in 1..Len(versions)
      BY <1>a DEF EmitterLock, ReadInv, Kept
    <3>4. CASE i = j
      BY <3>1, <3>2, <3>3, <3>4 DEF Known
    <3>5. CASE i # j
      BY <1>1, <3>1, <3>5 DEF Known
    <3> QED
      BY <3>4, <3>5
  <2>2. CASE ~Invoke(t)
    <3>1. invoked' = invoked
      BY <2>2 DEF Starts, On, RemoveListener, RemoveAllListeners, Emit, Runs, Count, CountRetry, RemoveListeners,
                  LockSteps, Insert, Erase, NotFound, WalkEnds, EraseOnces, RunsWild, Returns, emitterVars
    <3> QED
      BY <1>1, <3>1 DEF Known
  <2> QED
    BY <2>1, <2>2
<1>2. CASE \E v \in 1..Len(versions') : i \in versions'[v]
  <2>1. PICK v \in 1..Len(versions') : i \in versions'[v]
    BY <1>2
  <2>2. CASE v \in 1..Len(versions)
    BY <1>a, <2>1, <2>2 DEF Known
  <2>3. CASE v \notin 1..Len(versions)
    <3>1. versions'[v] = arg[t]
      BY <1>a, <2>1, <2>3, VersionsGrow
    <3> QED
      BY <2>1, <3>1 DEF Known
  <2> QED
    BY <2>2, <2>3
<1>3. CASE \E u \in Threads : i \in arg'[u]
  <2>1. PICK u \in Threads : i \in arg'[u]
    BY <1>3
  <2>2. CASE u # t
    BY <1>a, <2>1, <2>2, Aside DEF Known
  <2>3. CASE u = t
    BY <1>a, <2>1, <2>3, ArgMoves DEF Known
  <2> QED
    BY <2>2, <2>3
<1> QED
  BY <1>1, <1>2, <1>3 DEF Known

LEMMA NewIdsNext == ASSUME ChangeInv, NewIds, [Next]_vars PROVE NewIds'
<1>0. CASE UNCHANGED vars
  BY <1>0 DEF vars, lockVars, emitterVars, NewIds, Known, Pending
<1>. SUFFICES ASSUME mishaps' = {}, NEW t \in Threads, Starts(t) \/ Runs(t)
              PROVE  /\ \A i \in Ids : Known(i)' => i < _counter' /\ \A r \in Threads : Pending(r)' => id'[r] # i
                     /\ \A u, r \in Threads : Pending(u)' /\ Pending(r)' /\ id'[u] = id'[r] => u = r
  BY <1>0 DEF NewIds, Next
<1>a. /\ mishaps = {} /\ EmitterLock /\ EmitterShape /\ LockTypeOK /\ _counter \in Nat /\ Ids \subseteq Nat
      /\ DOMAIN op = Threads /\ DOMAIN pc = Threads /\ DOMAIN id = Threads
  <2>1. mishaps = {}
    BY MishapsStay DEF Next
  <2> QED
    BY <2>1 DEF ChangeInv, EmitterLock, WriteInv, LockTypeOK, EmitterShape, EmitterTypes, Ids
<1>b. /\ \A i \in Ids : Known(i) => i < _counter /\ \A r \in Threads : Pending(r) => id[r] # i
      /\ \A u, r \in Threads : Pending(u) /\ Pending(r) /\ id[u] = id[r] => u = r
  BY <1>a DEF NewIds
\* A call that is pending was so before, or has just taken the counter for its id.
<1>1. ASSUME NEW r \in Threads, Pending(r)'
      PROVE  \/ Pending(r) /\ id'[r] = id[r] /\ ~(r = t /\ Insert(t))
             \/ r = t /\ Count(t) /\ id'[r] = _counter
  <2>1. CASE r # t
    BY <1>a, <1>1, <2>1, Aside DEF Pending
  <2>2. CASE r = t
    <3>1. CASE Starts(t)
      BY <1>a, <1>1, <2>2, <3>1 DEF Pending, Reading, Starts, On, RemoveListener, RemoveAllListeners, Emit, Call,
                                    Enter, Goto
    <3>2. CASE Count(t)
      BY <1>a, <1>1, <2>2, <3>2 DEF Count
    <3>3. CASE CountRetry(t) \/ RemoveListeners(t)
      BY <1>a, <1>1, <2>2, <3>3 DEF CountRetry, RemoveListeners, lockVars, emitterVars, Pending, Reading
    <3>4. CASE LockSteps(t)
      <4>1. pc'[t] \in Reading => pc[t] \in Reading
        BY <1>a, <3>4, LockStepMoves DEF Reading, Filing, Filed
      <4>2. ~Insert(t)
        BY <1>a, <3>4, LockStepMoves DEF Insert, Holds, Filing
      <4>3. UNCHANGED emitterVars
        BY <3>4 DEF LockSteps
      <4> QED
        BY <1>1, <2>2, <4>1, <4>2, <4>3 DEF Pending, emitterVars
    <3>5. CASE Insert(t) \/ Erase(t) \/ EraseOnces(t)
      BY <1>a, <1>1, <2>2, <3>5, CopiedMoves DEF Insert, Erase, EraseOnces, Pending, Reading
    <3>6. CASE NotFound(t) \/ WalkEnds(t) \/ RunsWild(t) \/ Returns(t)
      BY <1>a, <1>1, <2>2, <3>6 DEF NotFound, WalkEnds, RunsWild, Returns, Return, Enter, Pending
    <3>7. CASE Invoke(t)
      BY <1>1, <2>2, <3>7 DEF Invoke, Holds, Pending
    <3> QED
      BY <3>1, <3>2, <3>3, <3>4, <3>5, <3>6, <3>7 DEF Runs
  <2> QED
    BY <2>1, <2>2
<1>2. _counter' = _counter \/ (Count(t) /\ _counter' = _counter + 1)
  BY DEF Starts, On, RemoveListener, RemoveAllListeners, Emit, Runs, Count, CountRetry, RemoveListeners, LockSteps,
         Insert, Erase, NotFound, Invoke, WalkEnds, EraseOnces, RunsWild, Returns, emitterVars
<1>3. ASSUME NEW r \in Threads, Pending(r) PROVE id[r] < _counter
  BY <1>a, <1>3 DEF EmitterShape, Stage, Pending, Reading
<1>4. ASSUME Insert(t) PROVE Pending(t) /\ ~Count(t)
  BY <1>4 DEF Insert, Holds, Pending, Reading, Count, Goto
<1>5. ASSUME NEW i \in Ids, Known(i)' PROVE i < _counter' /\ \A r \in Threads : Pending(r)' => id'[r] # i
  <2>1. CASE Known(i)
    <3>1. i < _counter
      BY <1>b, <2>1
    <3> QED
      BY <1>a, <1>b, <1>1, <1>2, <2>1, <3>1
  <2>2. CASE Insert(t) /\ i = id[t]
    BY <1>a, <1>b, <1>1, <1>2, <1>3, <1>4, <2>2
  <2> QED
    BY <1>a, <1>5, <2>1, <2>2, KnownNext
<1>6. ASSUME NEW u \in Threads, NEW r \in Threads, Pending(u)', Pending(r)', id'[u] = id'[r] PROVE u = r
  <2>1. id[u] \in Nat /\ id[r] \in Nat
    BY <1>a DEF EmitterShape, EmitterTypes
  <2> QED
    BY <1>a, <1>b, <1>1, <1>3, <1>6, <2>1
<1> QED
  BY <1>5, <1>6

LEMMA WalkForgottenNext == ASSUME EmitterLock, WalkForgotten, [Next]_vars PROVE WalkForgotten'
<1>0. CASE UNCHANGED vars
  BY <1>0 DEF vars, lockVars, emitterVars, WalkForgotten
<1>. SUFFICES ASSUME NEW t \in Threads, Starts(t) \/ Runs(t),
                     NEW r \in Threads, op'[r] = "remove_onces", pc'[r] \in Filing \cup Filed
              PROVE  walked'[r] = {}
  BY <1>0 DEF WalkForgotten, Next
<1>a. /\ LockTypeOK /\ DOMAIN op = Threads /\ DOMAIN pc = Threads /\ DOMAIN walked = Threads
  BY DEF EmitterLock, WriteInv, LockTypeOK, EmitterShape, EmitterTypes
<1>1. CASE r # t
  BY <1>1, Aside DEF WalkForgotten
<1>2. CASE r = t
  <2>1. CASE Starts(t)
    BY <1>a, <1>2, <2>1 DEF Starts, On, RemoveListener, RemoveAllListeners, Emit, Call, Enter
  <2>2. CASE Count(t) \/ CountRetry(t) \/ RemoveListeners(t) \/ Invoke(t) \/ WalkEnds(t)
    BY <1>a, <1>2, <2>2 DEF Count, CountRetry, RemoveListeners, Invoke, WalkEnds, Holds, Read, Release, Goto,
                            lockVars, Filing, Filed
  <2>3. CASE LockSteps(t)
    <3>1. pc[t] \in Filing \cup Filed /\ op' = op /\ walked' = walked
      BY <1>a, <1>2, <2>3, LockStepMoves DEF Reading, Filing, Filed, emitterVars
    <3> QED
      BY <1>2, <3>1 DEF WalkForgotten
  <2>4. CASE Insert(t) \/ Erase(t) \/ EraseOnces(t)
    BY <1>a, <1>2, <2>4 DEF Insert, Erase, EraseOnces, Holds, emitterVars
  <2>5. CASE NotFound(t) \/ RunsWild(t) \/ Returns(t)
    BY <1>a, <1>2, <2>5 DEF NotFound, RunsWild, Returns, Return
  <2> QED
    BY <2>1, <2>2, <2>3, <2>4, <2>5 DEF Runs
<1> QED
  BY <1>1, <1>2

\* What is gone stays gone: nobody inserts an id twice, and whoever writes has
\* copied the last version.
LEMMA GoneKept ==
  ASSUME ChangeInv, NewIds, mishaps = {}, NEW t \in Threads, Starts(t) \/ Runs(t),
         NEW i \in Ids, Known(i), Gone(i)
  PROVE  Gone(i)'
<1>a. /\ EmitterLock /\ DOMAIN op = Threads /\ DOMAIN pc = Threads
      /\ Len(versions) \in Nat /\ Len(versions) >= 1
      /\ \A v \in 1..Len(versions) : versions'[v] = versions[v]
  BY VersionsGrow DEF ChangeInv, EmitterLock, WriteInv, LockTypeOK, EmitterShape, EmitterTypes
<1>1. /\ \A v \in 1..Len(versions') : v \in 1..Len(versions) \/ i \notin versions'[v]
      /\ i \notin Last' /\ Len(versions') \in Nat /\ Len(versions') >= 1
  <2>1. CASE versions' = versions
    BY <1>a, <2>1 DEF Gone, Last
  <2>2. CASE /\ pc[t] = "assigned" /\ Len(versions') = Len(versions) + 1 /\ versions'[Len(versions')] = arg[t]
    <3>1. i \notin arg[t]
      BY <2>2 DEF Gone, Filing
    <3> QED
      BY <1>a, <2>2, <3>1 DEF Last
  <2> QED
    BY <1>a, <2>1, <2>2, VersionsGrow
<1>2. ASSUME NEW u \in Threads, pc'[u] \in Filing PROVE i \notin arg'[u]
  <2>1. CASE u # t
    BY <1>a, <1>2, <2>1, Aside DEF Gone
  <2>2. CASE u = t
    <3>1. Insert(t) => i # id[t]
      BY DEF Insert, Holds, NewIds, Pending, Reading
    <3>2. i \notin Last /\ (pc[t] \in Filing => i \notin arg[t])
      BY DEF Gone
    <3> QED
      BY <1>a, <1>2, <2>2, <3>1, <3>2, ArgMoves
  <2> QED
    BY <2>1, <2>2
<1>3. ASSUME NEW u \in Threads, op'[u] = "emit", NEW v \in from'[u]..Len(versions') PROVE i \notin versions'[v]
  <2>0. from[u] \in 1..Len(versions)
    BY <1>a DEF EmitterLock, ReadInv, Kept
  <2>1. CASE op[u] = "emit" /\ from'[u] = from[u]
    <3>1. CASE v \in 1..Len(versions)
      BY <1>a, <1>3, <2>0, <2>1, <3>1 DEF Gone
    <3>2. CASE v \notin 1..Len(versions)
      BY <1>1, <1>3, <2>0, <2>1, <3>2
    <3> QED
      BY <3>1, <3>2
  <2>2. CASE u = t /\ Emit(t)
    <3>1. from'[t] = Len(versions) /\ versions' = versions
      BY <1>a, <2>2 DEF Emit, Read, EmitterLock, WriteInv, LockTypeOK
    <3>2. v = Len(versions)
      BY <1>a, <1>3, <2>2, <3>1
    <3> QED
      BY <1>1, <3>1, <3>2 DEF Last
  <2>3. (op[u] = "emit" /\ from'[u] = from[u]) \/ (u = t /\ Emit(t))
    <3>1. CASE u # t
      BY <1>a, <1>3, <3>1, Aside
    <3>2. CASE u = t /\ Starts(t)
      BY <1>a, <1>3, <3>2 DEF Starts, On, RemoveListener, RemoveAllListeners, Call, Enter
    <3>3. CASE u = t /\ (Count(t) \/ CountRetry(t) \/ RemoveListeners(t) \/ Invoke(t))
      <4>1. op' = op
        BY <3>3 DEF Count, CountRetry, RemoveListeners, Invoke, emitterVars
      <4>2. op[t] = "emit"
        BY <1>3, <3>3, <4>1
      <4>3. Invoke(t)
        BY <1>a, <3>3, <4>2 DEF Count, CountRetry, RemoveListeners, Goto, EmitterLock, EmitterShape, Stage, Reading
      <4> QED
        BY <3>3, <4>2, <4>3 DEF Invoke, lockVars
    <3>4. CASE u = t /\ (LockSteps(t) \/ Insert(t) \/ Erase(t) \/ EraseOnces(t))
      BY <1>3, <3>4 DEF LockSteps, ReadStep, WriteStep, LoadPtr, LoadSeq, ReadRetry, Lock, Publish, StartWriting,
                        Assign, Assigned, EndWriting, Insert, Erase, EraseOnces, Copied, emitterVars
    <3>5. CASE u = t /\ (NotFound(t) \/ WalkEnds(t) \/ RunsWild(t) \/ Returns(t))
      BY <1>a, <1>3, <3>5 DEF NotFound, WalkEnds, RunsWild, Returns, Return, Enter
    <3> QED
      BY <3>1, <3>2, <3>3, <3>4, <3>5 DEF Runs
  <2> QED
    BY <2>1, <2>2, <2>3
<1> QED
  BY <1>1, <1>2, <1>3 DEF Gone

\* While t alone emits or changes and is not in write any more, nobody else has
\* anything to write or to walk.
LEMMA NobodyElse ==
  ASSUME EmitterLock, OneChange, OneEmit, mishaps = {}, NEW t \in Threads, op[t] = "remove_onces",
         NEW u \in Threads \ {t}
  PROVE  pc[u] \notin Filing /\ op[u] # "emit"
<1>1. op[u] \notin Changing
  BY DEF OneChange, Changing
<1>2. pc[u] \notin Filing
  BY <1>1, WritersChange DEF EmitterLock, WriteInv
<1>3. op[u] # "emit"
  BY DEF OneEmit, Emitting
<1> QED
  BY <1>2, <1>3

LEMMA SettlingKept ==
  ASSUME ChangeInv, NewIds, OneEmit, WalkForgotten, mishaps = {}, mishaps' = {},
         NEW t \in Threads, Starts(t) \/ Runs(t),
         NEW i \in onces, i \in Ids, Known(i), Settling(i)
  PROVE  Settling(i)'
<1>a. /\ EmitterLock /\ OneChange /\ Lossless /\ EmitterShape /\ LockTypeOK
      /\ DOMAIN op = Threads /\ DOMAIN pc = Threads /\ DOMAIN walked = Threads
  BY DEF ChangeInv, EmitterLock, WriteInv, LockTypeOK, EmitterShape, EmitterTypes
<1>1. CASE Gone(i)
  BY <1>1, GoneKept DEF Settling
<1>2. ASSUME NEW u \in Threads, Emitting(u), i \in walked[u] PROVE Settling(i)'
  <2>1. CASE u # t
    BY <1>a, <1>2, <2>1, Aside DEF Settling, Emitting
  <2>2. CASE u = t /\ op' = op /\ (walked' = walked \/ Invoke(t))
    BY <1>a, <1>2, <2>2 DEF Settling, Emitting, Invoke
  <2>3. CASE u = t /\ WalkEnds(t)
    BY <1>a, <1>2, <2>3 DEF WalkEnds, Enter, Settling, Emitting
  <2>4. CASE u = t /\ NotFound(t)
    <3>1. op[t] = "remove_onces" /\ pc[t] = "have" /\ i \notin data[ptr[t]]
      BY <1>2, <2>4 DEF NotFound, Holds, Emitting
    <3>2. data[ptr[t]] = Last
      BY <1>a, <3>1, ChangerReads DEF Changing
    <3>3. \A w \in Threads : pc'[w] \notin Filing /\ op'[w] # "emit"
      <4>1. pc'[t] = "idle" /\ op'[t] = "none"
        BY <1>a, <2>4 DEF NotFound, Release, Return, Goto
      <4>2. \A w \in Threads \ {t} : pc'[w] = pc[w] /\ op'[w] = op[w]
        BY <1>a, Aside
      <4> QED
        BY <1>a, <3>1, <4>1, <4>2, NobodyElse DEF Filing
    <3>4. i \notin Last'
      BY <2>4, <3>1, <3>2 DEF NotFound, Release, Last
    <3> QED
      BY <3>3, <3>4 DEF Settling, Gone
  <2>5. CASE u = t /\ EraseOnces(t)
    <3>1. PICK erased : /\ Copied(t, data[ptr[t]] \ erased)
                        /\ erased = walked[t] \cap onces \cap data[ptr[t]]
      <4>1. PICK erased \in SUBSET (walked[t] \cap onces \cap data[ptr[t]]) :
               /\ Copied(t, data[ptr[t]] \ erased)
               /\ mishaps' = mishaps \cup {m \in {"half"} : erased # walked[t] \cap onces \cap data[ptr[t]]}
        BY <2>5 DEF EraseOnces
      <4>2. erased = walked[t] \cap onces \cap data[ptr[t]]
        BY <4>1
      <4> QED
        BY <4>1, <4>2
    <3>2. arg'[t] = data[ptr[t]] \ erased /\ pc'[t] = "lock"
      BY <1>a, <3>1, CopiedMoves
    <3>3. op'[t] = "remove_onces"
      BY <2>5 DEF EraseOnces, Holds
    <3> QED
      BY <1>2, <2>5, <3>1, <3>2, <3>3 DEF Settling, Filing
  <2>6. ~(u = t /\ (Starts(t) \/ RunsWild(t) \/ Returns(t) \/ Erase(t) \/ Insert(t)))
    <3>1. ~(u = t /\ (Starts(t) \/ Erase(t) \/ Insert(t)))
      BY <1>2 DEF Starts, Erase, Insert, Holds, Emitting
    <3>2. ~RunsWild(t)
      BY DEF RunsWild
    <3>3. ~(u = t /\ Returns(t))
      BY <1>a, <1>2 DEF Returns, Unlock, Goto, WalkForgotten, Emitting, EmitterShape, Stage, Reading, Filed
    <3> QED
      BY <3>1, <3>2, <3>3
  <2>7. CASE Count(t) \/ CountRetry(t) \/ RemoveListeners(t) \/ LockSteps(t) \/ Invoke(t)
    <3>1. op' = op /\ (walked' = walked \/ Invoke(t))
      BY <2>7 DEF Count, CountRetry, RemoveListeners, LockSteps, Invoke, emitterVars
    <3> QED
      BY <2>1, <2>2, <3>1
  <2> QED
    BY <2>1, <2>3, <2>4, <2>5, <2>6, <2>7 DEF Runs
<1>3. ASSUME NEW u \in Threads, op[u] = "remove_onces", pc[u] \in Filing, i \notin arg[u] PROVE Settling(i)'
  <2>1. CASE u # t
    BY <1>a, <1>3, <2>1, Aside DEF Settling
  <2>2. CASE u = t
    <3>1. LockSteps(t)
      BY <1>a, <1>3, <2>2 DEF Starts, Runs, Count, CountRetry, RemoveListeners, Insert, Erase, EraseOnces, NotFound,
         Invoke, WalkEnds, RunsWild, Returns, Holds, Read, Unlock, Goto, Filing
    <3>2. op' = op /\ arg' = arg
      BY <3>1 DEF LockSteps, ReadStep, WriteStep, LoadPtr, LoadSeq, ReadRetry, Lock, Publish, StartWriting, Assign,
                  Assigned, EndWriting, emitterVars
    <3>3. CASE pc'[t] \in Filing
      BY <1>3, <2>2, <3>2, <3>3 DEF Settling
    <3>4. CASE pc'[t] \notin Filing
      <4>1. pc[t] = "assigned" /\ Assigned(t)
        BY <1>a, <1>3, <2>2, <3>1, <3>4 DEF LockSteps, ReadStep, WriteStep, LoadPtr, LoadSeq, ReadRetry, Lock,
           Publish, StartWriting, Assign, Assigned, EndWriting, Goto, Filing, LockTypeOK
      <4>2. Last' = arg[t]
        BY <1>a, <4>1, Appended DEF Assigned, LockTypeOK
      <4>3. \A w \in Threads : pc'[w] \notin Filing /\ op'[w] # "emit"
        <5>1. \A w \in Threads \ {t} : pc'[w] = pc[w] /\ op'[w] = op[w]
          BY <1>a, Aside
        <5> QED
          BY <1>a, <1>3, <2>2, <3>2, <3>4, <5>1, NobodyElse
      <4> QED
        BY <1>3, <2>2, <4>2, <4>3 DEF Settling, Gone
    <3> QED
      BY <3>3, <3>4
  <2> QED
    BY <2>1, <2>2
<1> QED
  BY <1>1, <1>2, <1>3 DEF Settling

LEMMA InvokedOnceNext ==
  ASSUME ChangeInv, NewIds, OneEmit, WalkForgotten, InvokedOnce, [Next]_vars PROVE InvokedOnce'
<1>0. CASE UNCHANGED vars
  BY <1>0 DEF vars, lockVars, emitterVars, InvokedOnce, Settling, Gone, Emitting, Last
<1>. SUFFICES ASSUME mishaps' = {}, NEW t \in Threads, Starts(t) \/ Runs(t), NEW i \in onces'
              PROVE  invoked'[i] <= 1 /\ (invoked'[i] = 1 => Settling(i)')
  BY <1>0 DEF InvokedOnce, Next
<1>a. /\ mishaps = {} /\ EmitterLock /\ EmitterTypes /\ Stage /\ _counter \in Nat
      /\ invoked \in [Ids -> Nat] /\ onces \subseteq Ids /\ DOMAIN walked = Threads
  <2>1. mishaps = {}
    BY MishapsStay DEF Next
  <2> QED
    BY <2>1 DEF ChangeInv, EmitterLock, EmitterShape, EmitterTypes
<1>1. CASE Count(t)
  <2>1. /\ invoked' = invoked /\ onces' \subseteq onces \cup {id[t]} /\ id[t] = _counter /\ pc[t] = "count"
    BY <1>1 DEF Count, Goto
  <2>2. id[t] \in Ids
    <3>1. t \in Counting /\ IsFiniteSet(Counting)
      BY <1>a, <2>1 DEF Counting, EmitterTypes
    <3>2. Cardinality(Counting) \in Nat /\ Cardinality(Counting) # 0
      BY <3>1, FS_CardinalityType, FS_EmptySet
    <3> QED
      BY <1>a, <2>1, <3>2, EmitterBounds DEF EmitterTypes, Ids
  <2>3. CASE i \in onces
    BY <1>a, <2>1, <2>3, SettlingKept DEF InvokedOnce, Known
  <2>4. CASE i = id[t]
    <3>1. ~Known(i)
      BY <1>a, <2>1, <2>2, <2>4 DEF NewIds
    <3> QED
      BY <1>a, <2>1, <2>2, <2>4, <3>1 DEF Known
  <2> QED
    BY <2>1, <2>3, <2>4
<1>2. CASE Invoke(t)
  <2>1. /\ onces' = onces /\ op[t] = "emit" /\ op' = op
    BY <1>2 DEF Invoke, Holds
  <2>2. PICK j \in data[ptr[t]] \ walked[t] :
           /\ walked' = [walked EXCEPT ![t] = walked[t] \cup {j}]
           /\ invoked' = [invoked EXCEPT ![j] = invoked[j] + 1]
    BY <1>2 DEF Invoke
  <2>3. CASE i # j
    <3>1. invoked'[i] = invoked[i]
      BY <2>2, <2>3
    <3> QED
      BY <1>a, <2>1, <3>1, SettlingKept DEF InvokedOnce, Known
  <2>4. CASE i = j
    <3>1. ~Settling(i)
      <4>1. PICK v \in from[t]..Len(versions) : data[ptr[t]] = versions[v]
        BY <1>a, <1>2, InvokedVersion
      <4>2. ~Gone(i)
        BY <2>1, <2>2, <2>4, <4>1 DEF Gone
      <4>3. \A u \in Threads : Emitting(u) => u = t
        BY <1>a, <2>1 DEF OneEmit, Emitting
      <4> QED
        BY <2>1, <2>2, <2>4, <4>2, <4>3 DEF Settling, Emitting
    <3>2. invoked[i] = 0
      BY <1>a, <2>1, <3>1 DEF InvokedOnce
    <3>3. invoked'[i] = 1
      BY <1>a, <2>1, <2>2, <2>4, <3>2
    <3>4. Emitting(t)' /\ i \in walked'[t]
      BY <1>a, <2>1, <2>2, <2>4 DEF Emitting
    <3> QED
      BY <3>3, <3>4 DEF Settling
  <2> QED
    BY <2>3, <2>4
<1>3. CASE ~Count(t) /\ ~Invoke(t)
  <2>1. invoked' = invoked /\ onces' = onces
    BY <1>3 DEF Starts, On, RemoveListener, RemoveAllListeners, Emit, Runs, CountRetry, RemoveListeners, LockSteps,
                Insert, Erase, NotFound, WalkEnds, EraseOnces, RunsWild, Returns, emitterVars
  <2> QED
    BY <1>a, <2>1, SettlingKept DEF InvokedOnce, Known
<1> QED
  BY <1>1, <1>2, <1>3

OnceInv == ChangeInv /\ OneEmit /\ NewIds /\ WalkForgotten /\ InvokedOnce

\* As long as changes and emits do not overlap, no read is early, no version is
\* overwritten under a walk and remove_listeners keeps its iterator, a listener
\* registered by once is invoked at most once. (EventEmitter::once)
THEOREM EmitterOnce == Spec => []OnceOnce
<1>1. EmitterInit => OneEmit /\ NewIds /\ WalkForgotten /\ InvokedOnce
  <2> SUFFICES ASSUME EmitterInit PROVE OneEmit /\ NewIds /\ WalkForgotten /\ InvokedOnce
    OBVIOUS
  <2>1. OneEmit /\ WalkForgotten /\ InvokedOnce
    BY DEF EmitterInit, OneEmit, WalkForgotten, InvokedOnce, Emitting
  <2>2. \A i \in Ids : ~Known(i)
    BY MapsAssumption DEF EmitterInit, Init, Known
  <2>3. \A t \in Threads : ~Pending(t)
    BY DEF EmitterInit, Pending
  <2> QED
    BY <2>1, <2>2, <2>3 DEF NewIds
<1>2. ChangeInv /\ OneEmit /\ NewIds /\ WalkForgotten /\ InvokedOnce /\ [Next]_vars
        => (OneEmit /\ NewIds /\ WalkForgotten /\ InvokedOnce)'
  BY OneEmitNext, NewIdsNext, WalkForgottenNext, InvokedOnceNext DEF ChangeInv, EmitterLock
<1>3. InvokedOnce => OnceOnce
  BY DEF InvokedOnce, OnceOnce
<1> QED
  BY <1>1, <1>2, <1>3, ChangeInvariant, PTL DEF Spec
=============================================================================
