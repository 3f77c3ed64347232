--------------------------- MODULE FloatingPoint ---------------------------
(***************************************************************************)
(* Floating point numbers and their operations.  Reals are multiples of    *)
(* 1/PerUnit; a floating point number with q significands is one whose     *)
(* magnitude is below q times a power of two and a multiple of it, and     *)
(* every operation rounds to the nearest one, ties to even.                *)
(***************************************************************************)
EXTENDS Integers

CONSTANTS PerUnit

Abs(n) == IF n < 0 THEN -n ELSE n

\* Spacing of the numbers with q significands around every magnitude.
Spacing(q) == LET ulp[n \in Nat] == IF n < q THEN 1 ELSE 2 * ulp[n \div 2] IN ulp
Ulp(q, n)  == Spacing(q)[n]

RoundTo(q, n) ==
    LET a    == Abs(n)
        u    == Ulp(q, a)
        down == a \div u
        up   == 2 * (a % u) > u \/ (2 * (a % u) = u /\ down % 2 = 1)
    IN  (IF n < 0 THEN -1 ELSE 1) * u * (IF up THEN down + 1 ELSE down)

\* a * b + c of reals: a fused operation rounds once.
MulAdd(q, fused, a, b, c) ==
    IF fused THEN RoundTo(q, a * b + c * PerUnit) \div PerUnit
             ELSE RoundTo(q, RoundTo(q, a * b) \div PerUnit + c)

Mul(q, a, b) == RoundTo(q, a * b) \div PerUnit

\* std::nextafter(x, y) for x # y.
NextAfter(q, x, y) ==
    LET a     == Abs(x)
        u     == Ulp(q, a)
        away  == x = 0 \/ (x < 0) = (y < x)
        step  == IF ~away /\ u > 1 /\ 2 * a = q * u THEN u \div 2 ELSE u
    IN  IF y > x THEN x + step ELSE x - step
=============================================================================
