-------------------------------- MODULE Floats --------------------------------
(***************************************************************************)
(* The arithmetic of float, in which DiskCache.h and RegionManager.h       *)
(* compute fragments.  A value is <<numerator, denominator>>; what has     *)
(* more digits than a float is rounded to the nearest that has not, of two *)
(* as near to the even one.  Exponents have no bound here, and a           *)
(* conversion to an integer that is too small for the value is not         *)
(* modelled.                                                               *)
(***************************************************************************)
EXTENDS Integers

CONSTANTS
    Precision, \* integers up to this one are floats: 2^24
    Scales     \* powers of two

ASSUME FloatShape ==
    /\ Precision \in Nat \ {0, 1}
    /\ Scales \subseteq Nat \ {0}
    /\ \A S \in Scales : S = 1 \/ \E T \in Scales : S = 2 * T
    /\ \E S \in Scales : S >= Precision * Precision

CeilDiv(a, b) == (a + b - 1) \div b

\* The integer that is nearest to a / b.
Nearest(a, b) ==
    LET below == a \div b
        rest == 2 * (a % b) IN
    IF rest > b \/ (rest = b /\ below % 2 = 1) THEN below + 1 ELSE below

\* The float that is nearest to a / b: its numerator has at least half of Precision before it is rounded.
Rounded(a, b) ==
    LET finer == CHOOSE S \in Scales : 2 * a * S >= b * Precision /\ (S = 1 \/ a * S < b * Precision)
        coarser == CHOOSE S \in Scales : a < b * Precision * S /\ (S = 1 \/ 2 * a >= b * Precision * S) IN
    IF a = 0 THEN <<0, 1>>
    ELSE IF a < b * Precision THEN <<Nearest(a * finer, b), finer>>
    ELSE <<Nearest(a, b * coarser) * coarser, 1>>

\* An integer as a float, and the quotient of two, of which the second is a float.
Float(n) == IF n < Precision THEN n ELSE Rounded(n, 1)[1]
Quotient(n, d) == Rounded(Float(n), d)

Floor(x) == x[1] \div x[2]
Ceil(x) == CeilDiv(x[1], x[2])
==============================================================================
