------------------------------ MODULE RingMath ------------------------------
(***************************************************************************)
(* Comparisons of unsigned numbers on their ring (src/base/math.hpp).      *)
(* PosMod is the number of values of the unsigned type, 2^w.               *)
(***************************************************************************)
EXTENDS Integers

CONSTANT PosMod

ASSUME PosModAssumption == PosMod \in Nat /\ PosMod >= 2 /\ PosMod % 2 = 0

Pos == 0..(PosMod - 1)

\* unsigned subtraction and addition
Forward(a, b) == (a - b) % PosMod
Advance(a, n) == (a + n) % PosMod

kHalfValueRangeMinusOne == (PosMod - 1) \div 2

ringDistance(a, b) == IF Forward(a, b) <= kHalfValueRangeMinusOne
                      THEN Forward(a, b) ELSE Forward(a, b) - PosMod
ringLess(a, b)      == a # b /\ Forward(b, a) <= kHalfValueRangeMinusOne
ringLessEq(a, b)    == Forward(b, a) <= kHalfValueRangeMinusOne
ringGreater(a, b)   == a # b /\ Forward(a, b) <= kHalfValueRangeMinusOne
\* (mutant of ringGreaterEq: compares as if positions never rolled over)
ringGreaterEqLinear(a, b) == a >= b
ringGreaterEq(a, b) == Forward(a, b) <= kHalfValueRangeMinusOne
isAtOrAfterInRing(reference, probe) == Forward(probe, reference) <= kHalfValueRangeMinusOne
=============================================================================
