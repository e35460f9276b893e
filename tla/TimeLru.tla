------------------------------ MODULE TimeLru ------------------------------
(***************************************************************************)
(* What the time table of a region promises (src/src/TimeTable.h: "a LRU   *)
(* list of fragments in a region"): keys leave in the order in which their *)
(* entries were reserved, each once.  An entry is reserved first and       *)
(* written later, so an eviction may return an entry nobody wrote yet.     *)
(***************************************************************************)
EXTENDS Naturals, Sequences

CONSTANTS Keys, NoKey

VARIABLES slots,     \* the entries reserved so far, NoKey until written
          taken,     \* how many of them were evicted
          returned   \* the keys the evictions returned

vars == <<slots, taken, returned>>

Init == slots = <<>> /\ taken = 0 /\ returned = <<>>

Reserve ==
    /\ slots' = Append(slots, NoKey)
    /\ UNCHANGED <<taken, returned>>

\* An entry is written once, by the call that reserved it; it may be late.
Write(k) ==
    \E n \in DOMAIN slots :
      /\ slots[n] = NoKey
      /\ slots' = [slots EXCEPT ![n] = k]
      /\ UNCHANGED <<taken, returned>>

Evict ==
    /\ taken < Len(slots)
    /\ taken' = taken + 1
    /\ \E k \in {NoKey, slots[taken + 1]} : returned' = Append(returned, k)
    /\ UNCHANGED slots

Next == Reserve \/ Evict \/ \E k \in Keys : Write(k)

Spec == Init /\ [][Next]_vars
=============================================================================
