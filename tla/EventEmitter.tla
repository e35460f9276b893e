---------------------------- MODULE EventEmitter ----------------------------
(***************************************************************************)
(* events/EventEmitter.h over a SeqLock of the map of listeners.  The map  *)
(* is the set of the ids registered for one event name.  on, once, emit,   *)
(* remove_listener(s) and remove_all_listeners are called by any thread;   *)
(* each copies the map, changes the copy and writes it back, and emit      *)
(* walks the version that read returned a reference to.  A copy of a map   *)
(* that is being assigned, and a walk through a version that is            *)
(* overwritten, are undefined: the thread stops there.                     *)
(***************************************************************************)
EXTENDS FiniteSets, SeqLock

CONSTANTS
    MaxCalls, \* bound: calls of all threads
    MaxIds    \* bound: calls of on

Ids == 0..(MaxIds - 1)

ASSUME EmitterBounds == MaxCalls \in Nat /\ MaxIds \in Nat
ASSUME MapsAssumption == Values = SUBSET Ids /\ Blank = {}

VARIABLES
    _counter,
    op,      \* the call a thread is in
    id,      \* local of on; parameter of remove_listener
    walked,  \* emit: the listeners invoked so far
    onces,   \* ids that are used once
    live,    \* on returned them and nothing has removed them: history
    invoked, \* how often each listener was invoked: history
    calls,   \* calls so far
    mishaps  \* what went wrong so far, of the kinds below: history

emitterVars == <<_counter, op, id, walked, onces, live, invoked, calls, mishaps>>
vars == <<lockVars, emitterVars>>

Changing == {"on", "remove", "remove_all", "remove_onces"}

EmitterInit ==
    /\ Init
    /\ _counter = 0
    /\ op = [t \in Threads |-> "none"]
    /\ id = [t \in Threads |-> 0]
    /\ walked = [t \in Threads |-> {}]
    /\ onces = {} /\ live = {}
    /\ invoked = [i \in Ids |-> 0]
    /\ calls = 0
    /\ mishaps = {}

Early(t) == {m \in {"early"} : early[t]}

\* "overlap": two calls change the map at the same time; "emits": two emits run at the same time.
Enter(t, what) ==
    /\ op' = [op EXCEPT ![t] = what]
    /\ mishaps' = mishaps \cup Early(t)
         \cup {m \in {"overlap"} : what \in Changing /\ \E r \in Threads \ {t} : op[r] \in Changing}
         \cup {m \in {"emits"} : what = "emit" /\ \E r \in Threads \ {t} : op[r] \in {"emit", "remove_onces"}}

Call(t, what) ==
    /\ calls < MaxCalls
    /\ calls' = calls + 1
    /\ Enter(t, what)

Return(t) == op' = [op EXCEPT ![t] = "none"] /\ UNCHANGED mishaps

\* The version that read returned a reference to is there to be copied or walked.
Holds(t, what) == op[t] = what /\ pc[t] = "have" /\ data[ptr[t]] # Torn

-----------------------------------------------------------------------------
(* on and once                                                             *)

On(t) ==
    /\ _counter + Cardinality({r \in Threads : pc[r] = "count"}) < MaxIds
    /\ Call(t, "on")
    /\ id' = [id EXCEPT ![t] = _counter]
    /\ pc' = [pc EXCEPT ![t] = "count"]
    /\ UNCHANGED <<current, seq, data, _lock_write, ptr, arg, versions, from, laps, early>>
    /\ UNCHANGED <<_counter, walked, onces, live, invoked>>

\* The compare-and-swap that succeeds; read is called.
Count(t) ==
    /\ Goto(t, "count", "load")
    /\ _counter = id[t]
    /\ _counter' = _counter + 1
    /\ \E used_once \in BOOLEAN : onces' = IF used_once THEN onces \cup {id[t]} ELSE onces
    /\ from' = [from EXCEPT ![t] = Len(versions)]
    /\ UNCHANGED <<current, seq, data, _lock_write, ptr, arg, versions, laps, early>>
    /\ UNCHANGED <<op, id, walked, live, invoked, calls, mishaps>>

CountRetry(t) ==
    /\ pc[t] = "count"
    /\ _counter # id[t]
    /\ id' = [id EXCEPT ![t] = _counter]
    /\ UNCHANGED lockVars
    /\ UNCHANGED <<_counter, op, walked, onces, live, invoked, calls, mishaps>>

\* The copy of the map that read returns a reference to, changed, is handed to write.
Copied(t, map) ==
    /\ Goto(t, "have", "lock")
    /\ arg' = [arg EXCEPT ![t] = map]
    /\ early' = [early EXCEPT ![t] = FALSE] /\ laps' = [laps EXCEPT ![t] = 0]
    /\ UNCHANGED <<current, seq, data, _lock_write, ptr, versions, from>>

\* Mutant: a listener takes the place of the others of its event.
InsertAlone(t) ==
    /\ Holds(t, "on")
    /\ Copied(t, {id[t]})
    /\ UNCHANGED emitterVars

Insert(t) ==
    /\ Holds(t, "on")
    /\ Copied(t, data[ptr[t]] \cup {id[t]})
    /\ UNCHANGED emitterVars

-----------------------------------------------------------------------------
(* remove_listener, remove_all_listeners                                   *)

RemoveListener(t) ==
    /\ Call(t, "remove")
    /\ Read(t)
    /\ \E i \in 0..(_counter - 1) : id' = [id EXCEPT ![t] = i]
    /\ UNCHANGED <<_counter, walked, onces, live, invoked>>

Erase(t) ==
    /\ Holds(t, "remove")
    /\ id[t] \in data[ptr[t]]
    /\ Copied(t, data[ptr[t]] \ {id[t]})
    /\ live' = live \ {id[t]}
    /\ UNCHANGED <<_counter, op, id, walked, onces, invoked, calls, mishaps>>

\* found is false: nothing is written.
NotFound(t) ==
    /\ \/ Holds(t, "remove") /\ id[t] \notin data[ptr[t]]
       \/ Holds(t, "remove_onces") /\ walked[t] \cap onces \cap data[ptr[t]] = {}
    /\ Release(t)
    /\ Return(t)
    /\ walked' = [walked EXCEPT ![t] = {}] /\ id' = [id EXCEPT ![t] = 0]
    /\ UNCHANGED <<_counter, onces, live, invoked, calls>>

RemoveAllListeners(t) ==
    /\ Call(t, "remove_all")
    /\ Write(t, {})
    /\ live' = {}
    /\ UNCHANGED <<_counter, id, walked, onces, invoked>>

-----------------------------------------------------------------------------
(* emit                                                                    *)

Emit(t) ==
    /\ Call(t, "emit")
    /\ Read(t)
    /\ UNCHANGED <<_counter, id, walked, onces, live, invoked>>

\* The range is walked in no particular order.
Invoke(t) ==
    /\ Holds(t, "emit") /\ laps[t] < PoolSize
    /\ \E i \in data[ptr[t]] \ walked[t] :
           /\ walked' = [walked EXCEPT ![t] = @ \cup {i}]
           /\ invoked' = [invoked EXCEPT ![i] = @ + 1]
    /\ mishaps' = mishaps \cup Early(t)
    /\ UNCHANGED lockVars
    /\ UNCHANGED <<_counter, op, id, onces, live, calls>>

\* Mutant: listeners that are used once are not removed.
WalkEndsKeeping(t) ==
    /\ Holds(t, "emit") /\ laps[t] < PoolSize
    /\ data[ptr[t]] \subseteq walked[t]
    /\ Release(t)
    /\ Return(t)
    /\ walked' = [walked EXCEPT ![t] = {}]
    /\ UNCHANGED <<_counter, id, onces, live, invoked, calls>>

\* Mutant: the walk ends at a listener that is used once.
WalkEndsSoon(t) ==
    /\ Holds(t, "emit") /\ laps[t] < PoolSize
    /\ data[ptr[t]] \subseteq walked[t] \/ walked[t] \cap onces # {}
    /\ Release(t)
    /\ Enter(t, "remove_onces")
    /\ UNCHANGED <<_counter, id, walked, onces, live, invoked, calls>>

\* The end of the range: remove_listeners is called with the ids of those used once, if any.
WalkEnds(t) ==
    /\ Holds(t, "emit") /\ laps[t] < PoolSize
    /\ data[ptr[t]] \subseteq walked[t]
    /\ Release(t)
    /\ Enter(t, "remove_onces")
    /\ UNCHANGED <<_counter, id, walked, onces, live, invoked, calls>>

\* remove_listeners erases the element its iterator stands on and then advances the iterator: the
\* first of the ids is erased, the others may be left ("half").
EraseOnces(t) ==
    /\ Holds(t, "remove_onces")
    /\ LET found == walked[t] \cap onces \cap data[ptr[t]]
       IN  \E erased \in SUBSET found \ {{}} :
              /\ Copied(t, data[ptr[t]] \ erased)
              /\ live' = live \ erased
              /\ mishaps' = mishaps \cup {m \in {"half"} : erased # found}
    /\ walked' = [walked EXCEPT ![t] = {}]
    /\ UNCHANGED <<_counter, op, id, onces, invoked, calls>>

-----------------------------------------------------------------------------
\* Undefined: a map is copied or walked while it is assigned, or walked after that.
RunsWild(t) ==
    /\ data[ptr[t]] = Torn \/ (op[t] = "emit" /\ laps[t] = PoolSize)
    /\ Goto(t, "have", "wild")
    /\ op' = [op EXCEPT ![t] = "none"]
    /\ mishaps' = mishaps \cup {"wild"}
    /\ UNCHANGED <<current, seq, data, _lock_write, ptr, arg, versions, from, laps, early>>
    /\ UNCHANGED <<_counter, id, walked, onces, live, invoked, calls>>

RemoveListeners(t) ==
    /\ op[t] = "remove_onces"
    /\ Read(t)
    /\ UNCHANGED emitterVars

Returns(t) ==
    /\ Unlock(t)
    /\ Return(t)
    /\ live' = IF op[t] = "on" THEN live \cup {id[t]} ELSE live
    /\ id' = [id EXCEPT ![t] = 0]
    /\ UNCHANGED <<_counter, walked, onces, invoked, calls>>

LockSteps(t) == (ReadStep(t) \/ WriteStep(t)) /\ UNCHANGED emitterVars

Starts(t) ==
    /\ pc[t] = "idle" /\ op[t] = "none"
    /\ On(t) \/ RemoveListener(t) \/ RemoveAllListeners(t) \/ Emit(t)

Runs(t) ==
    \/ Count(t) \/ CountRetry(t) \/ RemoveListeners(t) \/ LockSteps(t) \/ Insert(t) \/ Erase(t)
    \/ NotFound(t) \/ Invoke(t) \/ WalkEnds(t) \/ EraseOnces(t) \/ RunsWild(t) \/ Returns(t)

Next == \E t \in Threads : Starts(t) \/ Runs(t)

\* Every thread that is in a call keeps running.
Spec == EmitterInit /\ [][Next]_vars /\ \A t \in Threads : WF_vars(Runs(t))

-----------------------------------------------------------------------------
(* Properties.                                                             *)

\* As long as no two calls change the map at the same time, every listener that on has returned and
\* nothing has removed is in the map that the next call starts from, although emits walk older
\* versions meanwhile. (the copies in EventEmitter::on, remove_listener, remove_listeners)
NothingLost == "overlap" \notin mishaps => live \subseteq Last

\* An emit that reaches the end has invoked every listener that was in the map all the time since it
\* was called, unless its read was early. (the walk over a reference in EventEmitter's constructor)
EmitReaches ==
    \A t \in Threads :
        op[t] = "remove_onces" /\ pc[t] = "idle" /\ mishaps \cap {"early"} = {} =>
            {i \in Ids : \A v \in from[t]..Len(versions) : i \in versions[v]} \subseteq walked[t]

\* A listener registered by once is invoked once: the emit that invoked it has removed it before the
\* next, unless emits or changes overlap, remove_listeners loses its iterator, or the version an emit
\* walks is overwritten, so that the emit never reaches the removal. (EventEmitter::once)
OnceOnce == mishaps = {} => \A i \in onces : invoked[i] <= 1

\* Every call returns, whatever the others do: writers wait for one another and readers spin on odd
\* numbers, but nobody waits while holding the lock. (SeqLock::lock, SeqLock::read, EventEmitter)
CallsReturn == \A t \in Threads : op[t] # "none" ~> op[t] = "none"
=============================================================================
