------------------------------ MODULE Numbers ------------------------------
(***************************************************************************)
(* Pure integer helpers: divisions of src/base/math.hpp, time stamps and   *)
(* conversions of time.hpp and time.cpp.  Unsigned types have mod values,  *)
(* so that their arithmetic overflows; TLC checks them with 256 and 65536. *)
(* "arg" is the one argument that a state has; properties quantify over    *)
(* the others.  Bits holds the helpers that work bit by bit.               *)
(***************************************************************************)
EXTENDS Integers

CONSTANTS Inputs,     \* arguments: dividends, stamps, times
          Divisors,
          UintMod,    \* number of values of the unsigned type, 2^w
          IntMod,     \* the same of int64_t, the type of times and ticks
          TickRates   \* what tscTicksPerSecond() may be on a machine

ASSUME NumbersAssumption ==
  /\ Inputs \subseteq Int
  /\ Divisors \subseteq Int \ {0}
  /\ UintMod \in Nat /\ UintMod >= 2 /\ UintMod % 2 = 0
  /\ IntMod \in Nat /\ IntMod >= 2 /\ IntMod % 2 = 0
  /\ TickRates \subseteq Nat \ {0}

VARIABLE arg

NumbersInit == arg \in Inputs

Uint == INSTANCE RingMath WITH PosMod <- UintMod
U8   == INSTANCE RingMath WITH PosMod <- 256
U16  == INSTANCE RingMath WITH PosMod <- 65536

Magnitude(a) == IF a < 0 THEN -a ELSE a

\* division of C++, towards 0
Quotient(a, b) == LET q == Magnitude(a) \div Magnitude(b)
                  IN IF (a < 0) # (b < 0) THEN -q ELSE q

-----------------------------------------------------------------------------
(* math.hpp: divisions *)

\* (mutant of ceilIntDiv: the offset of a positive dividend, whatever its sign)
ceilIntDivPositive(a, b) ==
  Quotient(a + (IF (a > 0) # (b > 0) THEN 0 ELSE b - 1), b)

ceilIntDiv(a, b) ==
  Quotient(a + (IF (a > 0) # (b > 0) THEN 0 ELSE IF a > 0 THEN b - 1 ELSE b + 1), b)

\* (mutant of roundIntDiv: adds half the divisor, as is right for unsigned numbers)
roundIntDivUnsigned(a, b) == Quotient(a + Quotient(b, 2), b)

roundIntDiv(a, b) == Quotient(a + Quotient(IF (a > 0) # (b > 0) THEN -b ELSE b, 2), b)

ceilIntDivOfUint(mod, a, b)  == ((a + b - 1) % mod) \div b
roundIntDivOfUint(mod, a, b) == ((a + (b \div 2)) % mod) \div b

-----------------------------------------------------------------------------
(* time.hpp: stamps on the ring of unsigned numbers, and differences *)

stampDiff(mod, after, before) == LET forward == (after - before) % mod
                                 IN IF forward >= mod \div 2 THEN forward - mod ELSE forward
stampPlus(mod, pt, diff)      == (pt + diff) % mod
stampLess(mod, l, r)          == r # l /\ (r - l) % mod < mod \div 2
\* (mutant of stampLessEq: the stamp on the other side of the ring is later, too)
stampLessEqHalf(mod, l, r)    == (r - l) % mod <= mod \div 2
stampLessEq(mod, l, r)        == (r - l) % mod < mod \div 2

(* time.cpp: conversions, for the units of 1/perSecond of a second, in int64_t; products *)
(* and sums that overflow wrap, as the multiplication and addition of x64 do             *)

Fits(n)    == -(IntMod \div 2) <= n /\ n < IntMod \div 2
Wrapped(n) == ((n + (IntMod \div 2)) % IntMod) - (IntMod \div 2)

halfOf(perSecond) == IF perSecond = 1 THEN 0 ELSE perSecond \div 2

fromUnits(perSecond, n, ticks) ==
  Quotient(Wrapped(n * ticks + halfOf(perSecond)), perSecond)

\* (mutant of toUnits: truncates the divisor)
toUnitsTruncated(perSecond, diff, ticks) ==
  LET divisor == Quotient(ticks, perSecond)
  IN Quotient(Wrapped(diff + Quotient(divisor, 2)), divisor)

toUnits(perSecond, diff, ticks) ==
  LET divisor == Quotient(Wrapped(ticks + halfOf(perSecond)), perSecond)
  IN Quotient(Wrapped(diff + Quotient(divisor, 2)), divisor)

-----------------------------------------------------------------------------
(* The tables of src/base/tst_math.cpp: arguments and result *)

roundTests == {<<0, 1, 0>>, <<0, 2, 0>>, <<0, -1, 0>>, <<0, -2, 0>>, <<3, 3, 1>>, <<4, 3, 1>>,
               <<5, 3, 2>>, <<-3, 3, -1>>, <<-4, 3, -1>>, <<-5, 3, -2>>, <<3, -3, -1>>,
               <<4, -3, -1>>, <<5, -3, -2>>, <<-3, -3, 1>>, <<-4, -3, 1>>, <<-5, -3, 2>>}
ceilTests  == {<<0, 1, 0>>, <<0, 2, 0>>, <<0, -1, 0>>, <<0, -2, 0>>, <<3, 3, 1>>, <<4, 3, 2>>,
               <<5, 3, 2>>, <<-4, 3, -1>>, <<-5, 3, -1>>, <<-6, 3, -2>>, <<4, -3, -1>>,
               <<5, -3, -1>>, <<6, -3, -2>>, <<-3, -3, 1>>, <<-4, -3, 2>>, <<-5, -3, 2>>}

\* how far a lies ahead of b, for ringDistance(a, b): b, and pairs of that and the result
distanceTests == {<<32768, 16384, 16384>>, <<65000, 2345, 2345>>, <<1234, 32767, 32767>>,
                  <<1234, 32768, -32768>>, <<1234, 32769, -32767>>, <<1234, 32770, -32766>>,
                  <<50000, -2342, -2342>>, <<1234, -2345, -2345>>, <<1234, -32767, -32767>>,
                  <<1234, -32768, -32768>>, <<1234, -32769, 32767>>, <<1234, -32770, 32766>>}

atOrAfterTests == \A p \in {128, 199, 255} : /\ U8!isAtOrAfterInRing(128, p)
                                             /\ ~U8!isAtOrAfterInRing(128, p % 128)
ahead  == {1, 127}
behind == {128, 129, 255}

ringLessTests(shift) ==
  /\ U8!ringLessEq(shift, shift) /\ ~U8!ringLess(shift, shift)
  /\ \A d \in ahead  : U8!ringLessEq(shift, shift + d) /\ U8!ringLess(shift, shift + d)
  /\ \A d \in behind : /\ ~U8!ringLessEq(shift, (shift + d) % 256)
                       /\ ~U8!ringLess(shift, (shift + d) % 256)
  /\ ~U8!ringLessEq(shift + 128, shift) /\ ~U8!ringLess(shift + 128, shift)
ringGreaterTests(shift) ==
  /\ U8!ringGreaterEq(shift, shift) /\ ~U8!ringGreater(shift, shift)
  /\ \A d \in ahead  : /\ U8!ringGreaterEq(shift, (shift - d) % 256)
                       /\ U8!ringGreater(shift, (shift - d) % 256)
  /\ \A d \in behind : /\ ~U8!ringGreaterEq(shift, (shift - d) % 256)
                       /\ ~U8!ringGreater(shift, (shift - d) % 256)
  /\ ~U8!ringGreaterEq((shift - 128) % 256, shift) /\ ~U8!ringGreater((shift - 128) % 256, shift)

\* src/base/tst_time.cpp, with 256 in place of 2^64
stampTests ==
  LET t == 1
      almostHalf == stampPlus(256, t, 127)
      half       == stampPlus(256, t, -128)
      wellHalf   == stampPlus(256, t, -127)
  IN /\ stampPlus(256, half, -128) = t
     /\ ~stampLess(256, t, t) /\ stampLess(256, t, t + 1) /\ ~stampLess(256, t + 1, t)
     /\ stampLessEq(256, t, t) /\ stampLessEq(256, t, t + 1) /\ ~stampLessEq(256, t + 1, t)
     /\ almostHalf # t /\ half # t
     /\ stampLessEq(256, t, almostHalf) /\ ~stampLessEq(256, almostHalf, t)
     /\ ~stampLessEq(256, t, half) /\ ~stampLessEq(256, half, t)
     /\ ~stampLessEq(256, t, wellHalf) /\ stampLessEq(256, wellHalf, t)
     /\ stampLess(256, t, almostHalf) /\ ~stampLess(256, almostHalf, t)
     /\ ~stampLess(256, t, half) /\ ~stampLess(256, half, t)
     /\ ~stampLess(256, t, wellHalf) /\ stampLess(256, wellHalf, t)
     /\ stampDiff(256, t + 1, t) = 1

-----------------------------------------------------------------------------
(* Properties *)

\* roundIntDiv() finds the nearest integer, and of two equally near ones that
\* farther from 0, for all combinations of signs; unsigned numbers agree with
\* signed ones as long as the sum does not overflow.
RoundsToNearest ==
  \A b \in Divisors :
    LET q == roundIntDiv(arg, b)
        r == Magnitude(arg - q * b)
    IN /\ 2 * r <= Magnitude(b)
       /\ 2 * r = Magnitude(b) => Magnitude(q * b) > Magnitude(arg)
       /\ arg >= 0 /\ b > 0 /\ arg + (b \div 2) < UintMod =>
            roundIntDivOfUint(UintMod, arg, b) = q

\* ceilIntDiv() finds the least integer that is not below the quotient.
Reaches(n, a, b) == IF b > 0 THEN n * b >= a ELSE n * b <= a

RoundsUp ==
  \A b \in Divisors :
    LET q == ceilIntDiv(arg, b)
    IN /\ Reaches(q, arg, b) /\ ~Reaches(q - 1, arg, b)
       /\ arg >= 0 /\ b > 0 /\ arg + b - 1 < UintMod =>
            ceilIntDivOfUint(UintMod, arg, b) = q

\* Divisions round up or to the nearest integer, whatever the signs (math.hpp:56, :139).
NumbersRound == arg \in Inputs => RoundsToNearest /\ RoundsUp

\* Stamps are ordered as by isAtOrAfterInRing() ("see isAtOrAfterInRing", time.hpp:156):
\* a stamp that a difference is added to is later for a positive one and
\* earlier for a negative one, wherever the counter rolls over.
StampsFollowTheRing ==
  arg \in 0..(UintMod - 1) =>
    \A diff \in (1 - (UintMod \div 2))..((UintMod \div 2) - 1) :
      LET t == stampPlus(UintMod, arg, diff)
      IN /\ stampLess(UintMod, arg, t) <=> diff > 0
         /\ stampLess(UintMod, t, arg) <=> diff < 0
         /\ stampDiff(UintMod, t, arg) = diff
         /\ \A r \in {t, (arg + (UintMod \div 2)) % UintMod} :
              stampLessEq(UintMod, arg, r) = Uint!isAtOrAfterInRing(arg, r)

\* No product and no sum of the two conversions leaves the range of int64_t.  A time of
\* 2^63 / tscTicksPerSecond() units or more does, which for microseconds at 3 GHz is one of
\* 51 minutes.
StaysInRange(perSecond, ticks, time) ==
  /\ Fits(time * ticks + halfOf(perSecond))
  /\ Fits(ticks + halfOf(perSecond))
  /\ Fits(fromUnits(perSecond, time, ticks) + (((ticks + halfOf(perSecond)) \div perSecond) \div 2))

\* Time that is not negative comes back from ticks as it was, when ticks per
\* second are a multiple of the unit; otherwise the rounded divisor
\* distorts it by no more than its own error, and one for rounding.
ComesBack(perSecond, ticks, time) ==
  LET back == toUnits(perSecond, fromUnits(perSecond, time, ticks), ticks)
  IN IF ticks % perSecond = 0 THEN back = time
     ELSE Magnitude(back - time) <= 1 + ((time * perSecond) \div (2 * ticks - perSecond))

TimeComesBack ==
  arg >= 0 =>
    \A ticks \in TickRates, perSecond \in {1, 1000, 1000000} :
      ticks >= perSecond /\ StaysInRange(perSecond, ticks, arg) => ComesBack(perSecond, ticks, arg)

\* Stamps are ordered on their ring as differences move them, and times survive
\* the conversion to ticks and back while their products fit int64_t.
TimeFollowsTheRing == arg \in Inputs => StampsFollowTheRing /\ TimeComesBack

\* The functions return what the repository's tests expect of them.
TestsHold ==
  /\ \A t \in roundTests : roundIntDiv(t[1], t[2]) = t[3]
  /\ \A t \in ceilTests : ceilIntDiv(t[1], t[2]) = t[3]
  /\ \A t \in distanceTests : U16!ringDistance((t[1] + t[2]) % 65536, t[1]) = t[3]
  /\ atOrAfterTests
  /\ \A shift \in {0, 23} : ringLessTests(shift) /\ ringGreaterTests(shift)
  /\ stampTests
=============================================================================
