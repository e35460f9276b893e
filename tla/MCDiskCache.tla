----------------------------- MODULE MCDiskCache -----------------------------
(* Two regions: six small fragments and two large ones.  Objects of two   *)
(* and three small fragments, of a guessed type, which for one of them is *)
(* never the small one, of one large fragment, and without a byte; and    *)
(* objects whose size is no float, whose chain has a count of 0, and      *)
(* whose chain has a count that is too small.                             *)
EXTENDS DiskCache, TLC

MCFragmentSize == 1 :> 3 @@ 2 :> 6
MCCapacity == 1 :> 6 @@ 2 :> 2

Object(k, t, n) == [key |-> k, type |-> t, size |-> n]

Small(k) == Object(k, 1, 3)
Big(k) == Object(k, 1, 5)
Guessed(k) == Object(k, FragmentDynamic, 4)
Whole(k) == Object(k, FragmentDynamic, 3)
Large(k) == Object(k, 2, 5)
Empty(k) == Object(k, 1, 0)
Inexact(k) == Object(k, 1, 9)
Uncounted(k) == Object(k, 1, 10)
Truncated(k) == Object(k, 1, 12)

CONSTANTS s1, s2, s3
Of(a, b, c) == s1 :> a @@ s2 :> b @@ s3 :> c

\* Three objects for a region that holds two of them; a key twice; a region with one time entry; empty
\* objects; large objects.
MCStores == {Of(Small(1), Big(2), Small(3)), Of(Big(1), Guessed(1), Large(1)),
             Of(Large(4), Large(5), Whole(1)), Of(Empty(3), Empty(3), Small(1)),
             Of(Inexact(1), Uncounted(2), Truncated(3))}

==============================================================================
