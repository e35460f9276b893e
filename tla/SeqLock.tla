------------------------------ MODULE SeqLock ------------------------------
(***************************************************************************)
(* lock/SeqLock.h: a pool of versions, a pointer to the current one, and   *)
(* a sequence number in each that is odd while it is written.  write is    *)
(* cut at every access to shared memory; read at its two loads.  What read *)
(* returns is a reference, which its caller may follow much later.  An     *)
(* assignment of data has a beginning and an end, between which a reader   *)
(* finds it Torn.                                                          *)
(***************************************************************************)
EXTENDS Integers, Sequences

CONSTANTS
    Threads,
    PoolSize, \* POOL_SIZE (128)
    Values,   \* values of T
    Blank,    \* the value of T()
    Torn      \* a value that is being assigned

ASSUME PoolAssumption == PoolSize \in Nat /\ PoolSize >= 2
ASSUME ValuesAssumption == Blank \in Values /\ Torn \notin Values

Slots == 0..(PoolSize - 1)

VARIABLES
    current,     \* _current_ptr, as an index of the pool
    seq, data,   \* the fields of the versions in _pool
    _lock_write,
    pc,          \* where a thread is in read or write
    ptr,         \* current_ptr of read, next_ptr of write
    arg,         \* the parameter of write
    versions,    \* the values written so far: history
    from,        \* the version that was current when read was called: history
    laps,        \* the versions published since read loaded the pointer: history
    early        \* read took a version that was published and not yet odd: history

lockVars == <<current, seq, data, _lock_write, pc, ptr, arg, versions, from, laps, early>>

\* After the constructor, whose write finds no current version and takes the first slot.
Init ==
    /\ current = 0
    /\ seq = [s \in Slots |-> IF s = 0 THEN 2 ELSE 0]
    /\ data = [s \in Slots |-> Blank]
    /\ _lock_write = FALSE
    /\ pc = [t \in Threads |-> "idle"]
    /\ ptr = [t \in Threads |-> 0]
    /\ arg = [t \in Threads |-> Blank]
    /\ versions = <<Blank>>
    /\ from = [t \in Threads |-> 1]
    /\ laps = [t \in Threads |-> 0]
    /\ early = [t \in Threads |-> FALSE]

Goto(t, here, there) == pc[t] = here /\ pc' = [pc EXCEPT ![t] = there]

-----------------------------------------------------------------------------
(* read                                                                    *)

Read(t) ==
    /\ Goto(t, "idle", "load")
    /\ from' = [from EXCEPT ![t] = Len(versions)]
    /\ UNCHANGED <<current, seq, data, _lock_write, ptr, arg, versions, laps, early>>

LoadPtr(t) ==
    /\ Goto(t, "load", "check")
    /\ ptr' = [ptr EXCEPT ![t] = current]
    /\ laps' = [laps EXCEPT ![t] = 0]
    /\ UNCHANGED <<current, seq, data, _lock_write, arg, versions, from, early>>

\* Mutant: the sequence number is not looked at.
LoadSeqBlind(t) ==
    /\ Goto(t, "check", "have")
    /\ early' = [early EXCEPT ![t] = \E w \in Threads : pc[w] = "odd" /\ ptr[w] = ptr[t]]
    /\ UNCHANGED <<current, seq, data, _lock_write, ptr, arg, versions, from, laps>>

LoadSeq(t) ==
    /\ seq[ptr[t]] % 2 = 0
    /\ Goto(t, "check", "have")
    /\ early' = [early EXCEPT ![t] = \E w \in Threads : pc[w] = "odd" /\ ptr[w] = ptr[t]]
    /\ UNCHANGED <<current, seq, data, _lock_write, ptr, arg, versions, from, laps>>

ReadRetry(t) ==
    /\ seq[ptr[t]] % 2 = 1
    /\ Goto(t, "check", "load")
    /\ UNCHANGED <<current, seq, data, _lock_write, ptr, arg, versions, from, laps, early>>

\* The caller of read lets go of the reference.
Release(t) ==
    /\ Goto(t, "have", "idle")
    /\ early' = [early EXCEPT ![t] = FALSE]
    /\ laps' = [laps EXCEPT ![t] = 0]
    /\ UNCHANGED <<current, seq, data, _lock_write, ptr, arg, versions, from>>

-----------------------------------------------------------------------------
(* write                                                                   *)

Write(t, value) ==
    /\ Goto(t, "idle", "lock")
    /\ arg' = [arg EXCEPT ![t] = value]
    /\ UNCHANGED <<current, seq, data, _lock_write, ptr, versions, from, laps, early>>

\* Mutant: a thread does not wait for the lock.
LockNever(t) ==
    /\ Goto(t, "lock", "publish")
    /\ _lock_write' = TRUE
    /\ UNCHANGED <<current, seq, data, ptr, arg, versions, from, laps, early>>

\* The test_and_set that succeeds.
Lock(t) ==
    /\ Goto(t, "lock", "publish")
    /\ ~_lock_write
    /\ _lock_write' = TRUE
    /\ UNCHANGED <<current, seq, data, ptr, arg, versions, from, laps, early>>

\* Readers are sent to the next version before it says that it is being written.
Publish(t) ==
    /\ Goto(t, "publish", "odd")
    /\ current' = (current + 1) % PoolSize
    /\ ptr' = [ptr EXCEPT ![t] = (current + 1) % PoolSize]
    /\ laps' = [r \in Threads |-> IF pc[r] \in {"check", "have"} /\ laps[r] < PoolSize
                                  THEN laps[r] + 1 ELSE laps[r]]
    /\ UNCHANGED <<seq, data, _lock_write, arg, versions, from, early>>

StartWriting(t) ==
    /\ Goto(t, "odd", "assign")
    /\ seq' = [seq EXCEPT ![ptr[t]] = @ + 1]
    /\ UNCHANGED <<current, data, _lock_write, ptr, arg, versions, from, laps, early>>

Assign(t) ==
    /\ Goto(t, "assign", "assigned")
    /\ data' = [data EXCEPT ![ptr[t]] = Torn]
    /\ UNCHANGED <<current, seq, _lock_write, ptr, arg, versions, from, laps, early>>

Assigned(t) ==
    /\ Goto(t, "assigned", "even")
    /\ data' = [data EXCEPT ![ptr[t]] = arg[t]]
    /\ versions' = Append(versions, arg[t])
    /\ UNCHANGED <<current, seq, _lock_write, ptr, arg, from, laps, early>>

EndWriting(t) ==
    /\ Goto(t, "even", "unlock")
    /\ seq' = [seq EXCEPT ![ptr[t]] = @ + 1]
    /\ UNCHANGED <<current, data, _lock_write, ptr, arg, versions, from, laps, early>>

\* Mutant: the lock is kept.
UnlockNever(t) ==
    /\ Goto(t, "unlock", "idle")
    /\ arg' = [arg EXCEPT ![t] = Blank]
    /\ UNCHANGED <<current, seq, data, _lock_write, ptr, versions, from, laps, early>>

\* ... and write returns.
Unlock(t) ==
    /\ Goto(t, "unlock", "idle")
    /\ _lock_write' = FALSE
    /\ arg' = [arg EXCEPT ![t] = Blank]
    /\ UNCHANGED <<current, seq, data, ptr, versions, from, laps, early>>

-----------------------------------------------------------------------------
\* What read and write do between the call and the return, or the step that returns.
ReadStep(t) == LoadPtr(t) \/ LoadSeq(t) \/ ReadRetry(t)
WriteStep(t) ==
    \/ Lock(t) \/ Publish(t) \/ StartWriting(t) \/ Assign(t) \/ Assigned(t) \/ EndWriting(t)

LockNext ==
    \E t \in Threads :
        \/ Read(t) \/ ReadStep(t) \/ Release(t)
        \/ \E value \in Values : Write(t, value)
        \/ WriteStep(t) \/ Unlock(t)

LockSpec == Init /\ [][LockNext]_lockVars

-----------------------------------------------------------------------------
(* Properties.                                                             *)

Writing(t) == pc[t] \in {"publish", "odd", "assign", "assigned", "even", "unlock"}
Last == versions[Len(versions)]

\* Whenever no thread holds the lock, the current version is the value of the last write and no
\* version is marked as being written, whatever writers did before: a write that follows, and a
\* read that falls between two writes, start from it. (SeqLock::write)
WholeWhenFree ==
    ~_lock_write => /\ data[current] = Last
                    /\ \A s \in Slots : seq[s] % 2 = 0 /\ data[s] \in Values

\* A reference returned by read stays whole, and shows a value that was the current one at some time
\* since read was called, however many writers run, until the pool has been gone round; unless read
\* was early, which SeqLock::write permits by moving the pointer first.
\* (SeqLock::read, POOL_SIZE, the order of _current_ptr and seq in SeqLock::write)
ReadsRegular ==
    \A t \in Threads :
        pc[t] = "have" /\ ~early[t] /\ laps[t] < PoolSize =>
            \E i \in from[t]..Len(versions) : data[ptr[t]] = versions[i]
=============================================================================
