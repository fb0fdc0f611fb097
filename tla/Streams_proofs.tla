--------------------------- MODULE Streams_proofs ---------------------------
(***************************************************************************)
(* For every width of the unsigned type: the ring comparisons of           *)
(* src/base/math.hpp order rolled-over positions as the unbounded ones     *)
(* they stand for, as long as these are less than half the ring apart.     *)
(* For every container size: the element that a RingIterator points to is  *)
(* determined by its offset.  For every window size: the local maxima      *)
(* finder returns every window's maximum, from a queue that never          *)
(* overflows.  For every capacity: the pointers of a FixedSizeDeque stay   *)
(* inside its array and it implements BoundedDeque.  For all integers:     *)
(* divisions round as they should; for stamps of every width and every     *)
(* rate of ticks: stamps are ordered and times are kept.                   *)
(***************************************************************************)
EXTENDS RingMath, RingIterator, LocalMaxima, FixedSizeDeque, Numbers, FiniteSetTheorems,
        NaturalsInduction, SequenceTheorems, WellFoundedInduction, TLAPS

LEMMA Division ==
  ASSUME NEW x \in Int, NEW n \in Nat \ {0}
  PROVE  x \div n \in Int /\ x % n \in 0..(n - 1) /\ x = n * (x \div n) + (x % n)
  BY SMT

\* The remainder modulo n is determined by any way to write x as n * q + r.
LEMMA UniqueRemainder ==
  ASSUME NEW x \in Int, NEW q \in Int, NEW r \in Int, NEW n \in Nat \ {0},
         r \in 0..(n - 1), x = n * q + r
  PROVE  x % n = r
  BY SMT

-----------------------------------------------------------------------------
(* Ring comparisons *)

\* Subtracting rolled-over numbers gives the rolled-over difference.
LEMMA DifferenceRolls ==
  ASSUME NEW x \in Int, NEW y \in Int
  PROVE  Forward(x % PosMod, y % PosMod) = (x - y) % PosMod
<1> DEFINE d == (x % PosMod) - (y % PosMod)
           q == (x \div PosMod) - (y \div PosMod)
<1>1. PosMod \in Nat \ {0}
  BY PosModAssumption
<1>2. /\ x \div PosMod \in Int /\ x % PosMod \in Int /\ x = PosMod * (x \div PosMod) + (x % PosMod)
      /\ y \div PosMod \in Int /\ y % PosMod \in Int /\ y = PosMod * (y \div PosMod) + (y % PosMod)
  BY <1>1, Division
<1>3. d \in Int /\ q \in Int
  BY <1>2
<1>4. x - y = PosMod * q + d
  BY <1>1, <1>2
<1>5. d \div PosMod \in Int /\ d % PosMod \in 0..(PosMod - 1)
      /\ d = PosMod * (d \div PosMod) + (d % PosMod)
  BY <1>1, <1>3, Division
<1> HIDE DEF d, q
<1>6. x - y = PosMod * (q + (d \div PosMod)) + (d % PosMod)
  BY <1>1, <1>3, <1>4, <1>5
<1>7. q + (d \div PosMod) \in Int /\ d % PosMod \in Int /\ x - y \in Int
  BY <1>3, <1>5
<1>8. (x - y) % PosMod = d % PosMod
  BY <1>1, <1>5, <1>6, <1>7, UniqueRemainder
<1> QED
  BY <1>8 DEF Forward, d

LEMMA Half ==
  /\ kHalfValueRangeMinusOne \in Nat
  /\ PosMod = 2 * kHalfValueRangeMinusOne + 2
  BY PosModAssumption, SMT DEF kHalfValueRangeMinusOne

\* A difference below half the ring is forward distance or its complement.
LEMMA RolledDifference ==
  ASSUME NEW d \in Int, -kHalfValueRangeMinusOne <= d, d <= kHalfValueRangeMinusOne
  PROVE  d % PosMod = IF d >= 0 THEN d ELSE d + PosMod
<1>1. CASE d >= 0
  <2>1. d \in 0..(PosMod - 1) /\ d = PosMod * 0 + d /\ PosMod \in Nat \ {0}
    BY <1>1, Half, PosModAssumption
  <2> QED
    BY <1>1, <2>1, UniqueRemainder
<1>2. CASE ~(d >= 0)
  <2>1. d + PosMod \in 0..(PosMod - 1) /\ d = PosMod * (-1) + (d + PosMod) /\ PosMod \in Nat \ {0}
    BY <1>2, Half, PosModAssumption
  <2> QED
    BY <1>2, <2>1, UniqueRemainder
<1> QED
  BY <1>1, <1>2

\* Positions x and y of an unbounded stream, less than half the ring apart, are
\* compared by ringLess(), ringLessEq(), ringGreater(), ringGreaterEq() and
\* isAtOrAfterInRing() as x and y themselves are, wherever they roll over, and
\* ringDistance() is their difference.
THEOREM RollOverKeepsOrder ==
  ASSUME NEW x \in Int, NEW y \in Int,
         -kHalfValueRangeMinusOne <= x - y, x - y <= kHalfValueRangeMinusOne
  PROVE  LET a == x % PosMod
             b == y % PosMod
         IN /\ ringGreaterEq(a, b) <=> x >= y
            /\ ringLessEq(a, b)    <=> x <= y
            /\ ringGreater(a, b)   <=> x > y
            /\ ringLess(a, b)      <=> x < y
            /\ isAtOrAfterInRing(b, a) <=> x >= y
            /\ ringDistance(a, b) = x - y
<1> DEFINE a == x % PosMod
           b == y % PosMod
<1>1. Forward(a, b) = IF x - y >= 0 THEN x - y ELSE (x - y) + PosMod
  BY DifferenceRolls, RolledDifference
<1>2. Forward(b, a) = IF y - x >= 0 THEN y - x ELSE (y - x) + PosMod
  <2>1. y - x \in Int /\ -kHalfValueRangeMinusOne <= y - x /\ y - x <= kHalfValueRangeMinusOne
    BY Half
  <2> QED
    BY <2>1, DifferenceRolls, RolledDifference
<1>3. Forward(a, a) = 0
  BY PosModAssumption, SMT DEF Forward
<1>4. a = b <=> x = y
  <2>1. ASSUME a = b PROVE x = y
    <3>1. Forward(a, b) = 0
      BY <1>3, <2>1
    <3> QED
      BY <1>1, <3>1, Half
  <2> QED
    BY <2>1
<1> HIDE DEF a, b
<1>5. ringGreaterEq(a, b) <=> x >= y
  BY <1>1, Half DEF ringGreaterEq
<1>6. ringLessEq(a, b) <=> x <= y
  BY <1>2, Half DEF ringLessEq
<1>7. ringGreater(a, b) <=> x > y
  BY <1>1, <1>4, Half DEF ringGreater
<1>8. ringLess(a, b) <=> x < y
  BY <1>2, <1>4, Half DEF ringLess
<1>9. isAtOrAfterInRing(b, a) <=> x >= y
  BY <1>1, Half DEF isAtOrAfterInRing
<1>10. ringDistance(a, b) = x - y
  BY <1>1, Half DEF ringDistance
<1> QED
  BY <1>5, <1>6, <1>7, <1>8, <1>9, <1>10 DEF a, b

-----------------------------------------------------------------------------
(* RingIterator *)

IInv == mOffset \in Int /\ mIter \in 0..(mSize - 1) /\ OffsetDeterminesElement

\* += finds the same element in both halves of the ring.
LEMMA AtIsModulo == ASSUME NEW x \in Int PROVE At(x) = x % mSize /\ At(x) \in 0..(mSize - 1)
<1> USE IteratorAssumption
<1>0. mSize \in Nat \ {0}
  OBVIOUS
<1>1. CASE x >= 0
  <2>1. x % mSize \in 0..(mSize - 1)
    BY Division
  <2> QED
    BY <1>1, <2>1 DEF At, Remainder
<1>2. CASE ~(x >= 0)
  <2> DEFINE y == -x
             r == y % mSize
             q == y \div mSize
  <2>1. y \in Int /\ Remainder(x, mSize) = -r
    BY <1>2 DEF Remainder
  <2>2. q \in Int /\ r \in 0..(mSize - 1) /\ y = mSize * q + r
    BY <2>1, Division
  <2>y. x = -y
    OBVIOUS
  <2> HIDE DEF y, q, r
  <2>3. CASE r = 0
    <3>1. At(x) = 0
      <4>1. -r = 0
        <5>1. r \in Int /\ \A k \in Int : -k = 0 - k
          BY <1>0, <2>2
        <5>2. -r = 0 - r
          BY <5>1, Zenon
        <5>3. 0 - r = 0
          BY <2>3
        <5> QED
          BY <5>2, <5>3, Zenon
      <4>2. Remainder(x, mSize) = 0
        BY <2>1, <4>1
      <4> QED
        BY <4>2 DEF At
    <3>2. x = mSize * (-q) + 0
      BY <1>0, <2>1, <2>2, <2>3, <2>y
    <3>3. -q \in Int /\ 0 \in Int /\ 0 \in 0..(mSize - 1)
      BY <1>0, <2>2
    <3>4. x % mSize = 0
      BY <1>0, <3>2, <3>3, UniqueRemainder
    <3> QED
      BY <3>1, <3>3, <3>4
  <2>4. CASE r # 0
    <3>1. At(x) = mSize - r
      BY <1>0, <2>1, <2>2, <2>4 DEF At
    <3>2. x = mSize * (-q - 1) + (mSize - r)
      BY <1>0, <2>1, <2>2, <2>y
    <3>3. -q - 1 \in Int /\ mSize - r \in Int /\ mSize - r \in 0..(mSize - 1)
      BY <1>0, <2>2, <2>4
    <3>4. x % mSize = mSize - r
      BY <1>0, <3>2, <3>3, UniqueRemainder
    <3> QED
      BY <3>1, <3>3, <3>4
  <2> QED
    BY <2>3, <2>4
<1> QED
  BY <1>1, <1>2

LEMMA Neighbours ==
  ASSUME NEW x \in Int
  PROVE  LET r == x % mSize IN
         /\ (x + 1) % mSize = IF r + 1 = mSize THEN 0 ELSE r + 1
         /\ (x - 1) % mSize = (IF r = 0 THEN mSize ELSE r) - 1
<1> USE IteratorAssumption
<1> DEFINE r == x % mSize
           q == x \div mSize
<1>0. mSize \in Nat \ {0}
  OBVIOUS
<1>1. q \in Int /\ r \in 0..(mSize - 1) /\ x = mSize * q + r
  BY Division
<1> HIDE DEF r, q
<1>2. (x + 1) % mSize = IF r + 1 = mSize THEN 0 ELSE r + 1
  <2>1. CASE r + 1 = mSize
    <3>1. x + 1 = mSize * (q + 1) + 0 /\ q + 1 \in Int /\ x + 1 \in Int
          /\ 0 \in Int /\ 0 \in 0..(mSize - 1)
      BY <1>0, <1>1, <2>1
    <3>2. (x + 1) % mSize = 0
      BY <1>0, <3>1, UniqueRemainder
    <3> QED
      BY <2>1, <3>2
  <2>2. CASE r + 1 # mSize
    <3>1. x + 1 = mSize * q + (r + 1) /\ x + 1 \in Int /\ r + 1 \in Int /\ r + 1 \in 0..(mSize - 1)
      BY <1>0, <1>1, <2>2
    <3>2. (x + 1) % mSize = r + 1
      BY <1>0, <1>1, <3>1, UniqueRemainder
    <3> QED
      BY <2>2, <3>2
  <2> QED
    BY <2>1, <2>2
<1>3. (x - 1) % mSize = (IF r = 0 THEN mSize ELSE r) - 1
  <2>1. CASE r = 0
    <3>1. x - 1 = mSize * (q - 1) + (mSize - 1) /\ q - 1 \in Int /\ x - 1 \in Int
          /\ mSize - 1 \in Int /\ mSize - 1 \in 0..(mSize - 1)
      BY <1>0, <1>1, <2>1
    <3>2. (x - 1) % mSize = mSize - 1
      <4> DEFINE y == x - 1
                 p == q - 1
                 m == mSize - 1
      <4>1. y \in Int /\ p \in Int /\ m \in Int /\ m \in 0..(mSize - 1) /\ y = mSize * p + m
        BY <3>1
      <4> HIDE DEF y, p, m
      <4>2. y % mSize = m
        BY <1>0, <4>1, UniqueRemainder
      <4> QED
        BY <4>2 DEF y, m
    <3> QED
      BY <2>1, <3>2
  <2>2. CASE r # 0
    <3>1. x - 1 = mSize * q + (r - 1) /\ x - 1 \in Int /\ r - 1 \in Int /\ r - 1 \in 0..(mSize - 1)
      BY <1>0, <1>1, <2>2
    <3>2. (x - 1) % mSize = r - 1
      BY <1>0, <1>1, <3>1, UniqueRemainder
    <3> QED
      BY <2>2, <3>2
  <2> QED
    BY <2>1, <2>2
<1> QED
  BY <1>2, <1>3 DEF r

\* For every container and however it is moved, a RingIterator points to the
\* element its offset stands for: ++, --, += and -= agree with each other.
THEOREM OffsetDetermines == IterSpec => []OffsetDeterminesElement
<1> USE IteratorAssumption
<1>1. IterInit => IInv
  <2>1. At(0) = 0 % mSize /\ At(0) \in 0..(mSize - 1) /\ At(0) = 0
    BY AtIsModulo DEF At, Remainder
  <2> QED
    BY <2>1 DEF IterInit, IInv, OffsetDeterminesElement
<1>2. IInv /\ [IterNext]_iterVars => IInv'
  <2> SUFFICES ASSUME IInv, [IterNext]_iterVars PROVE IInv'
    OBVIOUS
  <2>1. CASE Increment
    <3>1. mIter = mOffset % mSize /\ mOffset \in Int /\ mOffset + 1 \in Int
      BY DEF IInv, OffsetDeterminesElement
    <3>2. mIter' = (mOffset + 1) % mSize /\ mOffset' = mOffset + 1
      BY <2>1, <3>1, Neighbours DEF Increment
    <3>3. (mOffset + 1) % mSize \in 0..(mSize - 1)
      BY <3>1, Division
    <3> QED
      BY <3>1, <3>2, <3>3 DEF IInv, OffsetDeterminesElement
  <2>2. CASE Decrement
    <3>1. mIter = mOffset % mSize /\ mOffset \in Int /\ mOffset - 1 \in Int
      BY DEF IInv, OffsetDeterminesElement
    <3>2. mIter' = (mOffset - 1) % mSize /\ mOffset' = mOffset - 1
      BY <2>2, <3>1, Neighbours DEF Decrement
    <3>3. (mOffset - 1) % mSize \in 0..(mSize - 1)
      BY <3>1, Division
    <3> QED
      BY <3>1, <3>2, <3>3 DEF IInv, OffsetDeterminesElement
  <2>3. ASSUME NEW distance \in (-MaxDistance)..MaxDistance, Add(distance) PROVE IInv'
    <3>1. mOffset + distance \in Int
      BY DEF IInv
    <3> QED
      BY <2>3, <3>1, AtIsModulo DEF Add, IInv, OffsetDeterminesElement
  <2>4. CASE UNCHANGED iterVars
    BY <2>4 DEF iterVars, IInv, OffsetDeterminesElement
  <2> QED
    BY <2>1, <2>2, <2>3, <2>4 DEF IterNext
<1>3. IInv => OffsetDeterminesElement
  BY DEF IInv
<1> QED
  BY <1>1, <1>2, <1>3, PTL DEF IterSpec

-----------------------------------------------------------------------------
(* Cutting a queue *)

LEMMA LeastExists ==
  ASSUME NEW S \in SUBSET Nat, S # {}
  PROVE  Min(S) \in S /\ \A y \in S : Min(S) <= y
<1>1. \E x \in S : \A y \in Nat : y < x => y \notin S
  <2>1. \E x \in S : \A y \in SetLessThan(x, OpToRel(<, Nat), Nat) : y \notin S
    BY WFMin, NatLessThanWellFounded DEF SetLessThan
  <2> QED
    BY <2>1 DEF SetLessThan, OpToRel
<1>2. \E x \in S : \A y \in S : x =< y
  BY <1>1
<1> QED
  BY <1>2 DEF Min

LEMMA GreatestExists ==
  ASSUME NEW n \in Nat, NEW S \in SUBSET (0..n), S # {}
  PROVE  Max(S) \in S /\ \A y \in S : y <= Max(S)
<1> DEFINE T == {n - x : x \in S}
<1>1. T \in SUBSET Nat /\ T # {}
  <2>1. \A x \in S : n - x \in Nat
    OBVIOUS
  <2> QED
    BY <2>1
<1>2. Min(T) \in T /\ \A y \in T : Min(T) <= y
  BY <1>1, LeastExists
<1>3. PICK x \in S : Min(T) = n - x
  BY <1>2
<1>4. \A y \in S : x >= y
  <2> TAKE y \in S
  <2>1. n - x <= n - y
    BY <1>2, <1>3
  <2> QED
    BY <2>1
<1> QED
  BY <1>4 DEF Max


\* What PopFrontWhile leaves of q if K is where the loop stops: everything from the
\* first element of K on.
FrontCutAt(T, q, K, m) ==
  /\ m \in 1..(Len(q) + 1) /\ (m <= Len(q) => m \in K)
  /\ \A i \in 1..(m - 1) : i \notin K
  /\ SubSeq(q, m, Len(q)) \in Seq(T)
  /\ Len(SubSeq(q, m, Len(q))) = Len(q) + 1 - m
  /\ \A i \in 1..(Len(q) + 1 - m) : SubSeq(q, m, Len(q))[i] = q[m + i - 1]

LEMMA FrontCut ==
  ASSUME NEW T, NEW q \in Seq(T), NEW K \in SUBSET DOMAIN q,
         NEW m, m = Min({Len(q) + 1} \cup K)
  PROVE  FrontCutAt(T, q, K, m)
<1> DEFINE S == {Len(q) + 1} \cup K
<1>1. S \in SUBSET Nat /\ S # {} /\ Len(q) \in Nat /\ DOMAIN q = 1..Len(q)
  OBVIOUS
<1>2. m \in S /\ \A y \in S : m <= y
  BY <1>1, LeastExists
<1>3. m \in Int /\ K \subseteq 1..Len(q)
  BY <1>1, <1>2
<1>4. m \in 1..(Len(q) + 1) /\ (m <= Len(q) => m \in K)
  BY <1>1, <1>2, <1>3
<1>5. \A i \in 1..(m - 1) : i \notin K
  <2> TAKE i \in 1..(m - 1)
  <2>1. i \in Int /\ i < m
    BY <1>3
  <2>2. \A y \in K : m <= y
    BY <1>2
  <2> QED
    BY <1>3, <2>1, <2>2
<1>6. \A i \in m..Len(q) : q[i] \in T
  BY <1>1, <1>4
<1> HIDE DEF S
<1>n. Len(q) \in Int /\ m \in Int
  BY <1>1, <1>3
<1>7a. SubSeq(q, m, Len(q)) \in Seq(T)
  BY <1>n, <1>6, SubSeqProperties
<1>7b. Len(SubSeq(q, m, Len(q))) = IF m <= Len(q) THEN Len(q) - m + 1 ELSE 0
  BY <1>n, <1>6, SubSeqProperties
<1>7. \A i \in 1..(Len(q) - m + 1) : SubSeq(q, m, Len(q))[i] = q[m + i - 1]
  BY <1>n, <1>6, SubSeqProperties
<1>8. Len(q) - m + 1 = Len(q) + 1 - m
  BY <1>1, <1>3
<1>9. Len(SubSeq(q, m, Len(q))) = Len(q) + 1 - m
  BY <1>n, <1>4, <1>7b
<1> QED
  BY <1>4, <1>5, <1>7, <1>7a, <1>8, <1>9 DEF FrontCutAt

\* What PopBackWhile leaves: everything up to the last element of K.
BackCutAt(T, q, K, m) ==
  /\ m \in 0..Len(q) /\ (m > 0 => m \in K)
  /\ \A i \in (m + 1)..Len(q) : i \notin K
  /\ SubSeq(q, 1, m) \in Seq(T)
  /\ Len(SubSeq(q, 1, m)) = m
  /\ \A i \in 1..m : SubSeq(q, 1, m)[i] = q[i]

LEMMA BackCut ==
  ASSUME NEW T, NEW q \in Seq(T), NEW K \in SUBSET DOMAIN q,
         NEW m, m = Max({0} \cup K)
  PROVE  BackCutAt(T, q, K, m)
<1> DEFINE S == {0} \cup K
<1>1. S \in SUBSET (0..Len(q)) /\ S # {} /\ Len(q) \in Nat /\ DOMAIN q = 1..Len(q)
  OBVIOUS
<1>2. m \in S /\ \A y \in S : y <= m
  BY <1>1, GreatestExists
<1>3. m \in Int /\ K \subseteq 1..Len(q)
  BY <1>1, <1>2
<1>4. m \in 0..Len(q) /\ (m > 0 => m \in K)
  BY <1>1, <1>2, <1>3
<1>5. \A i \in (m + 1)..Len(q) : i \notin K
  <2> TAKE i \in (m + 1)..Len(q)
  <2>1. i \in Int /\ i > m
    BY <1>1, <1>3
  <2>2. \A y \in K : y <= m
    BY <1>2
  <2>3. ~(i <= m)
    BY <1>3, <2>1
  <2> QED
    BY <2>2, <2>3
<1>6. \A i \in 1..m : q[i] \in T
  BY <1>1, <1>4
<1> HIDE DEF S
<1>n. 1 \in Int /\ m \in Int
  BY <1>3
<1>7a. SubSeq(q, 1, m) \in Seq(T)
  BY <1>n, <1>6, SubSeqProperties
<1>7b. Len(SubSeq(q, 1, m)) = IF 1 <= m THEN m - 1 + 1 ELSE 0
  BY <1>n, <1>6, SubSeqProperties
<1>7. \A i \in 1..(m - 1 + 1) : SubSeq(q, 1, m)[i] = q[1 + i - 1]
  BY <1>n, <1>6, SubSeqProperties
<1>8. m - 1 + 1 = m /\ \A i \in Int : 1 + i - 1 = i
  BY <1>3
<1>9. Len(SubSeq(q, 1, m)) = m
  BY <1>1, <1>4, <1>7b, <1>8
<1>10. \A i \in 1..m : SubSeq(q, 1, m)[i] = q[i]
  <2> TAKE i \in 1..m
  <2>1. i \in 1..(m - 1 + 1) /\ 1 + i - 1 = i
    BY <1>3
  <2> QED
    BY <1>7, <2>1
<1> QED
  BY <1>4, <1>5, <1>7a, <1>9, <1>10 DEF BackCutAt

-----------------------------------------------------------------------------
(* SlidingWindowLocalMaximaFinder *)

AgeAt(pos, e) == SizeT!Forward(pos, e.samplePos)
Age(e) == AgeAt(mCurrentSamplePos, e)
Count  == Len(added)
Candidates == [samplePos : SizeT!Pos, value : Samples]

MaximaTypeOK ==
  /\ added \in Seq(Samples)
  /\ mMaximumCandidates \in Seq(Candidates)
  /\ mCurrentSamplePos \in SizeT!Pos
  /\ mInitialElementsRead = IF Count < mWindowSize THEN Count ELSE mWindowSize

\* every candidate is a sample of the window, known by its age
AreSamples ==
  \A k \in DOMAIN mMaximumCandidates :
     /\ Age(mMaximumCandidates[k]) \in 1..mWindowSize
     /\ Age(mMaximumCandidates[k]) <= Count
     /\ mMaximumCandidates[k].value = added[Count + 1 - Age(mMaximumCandidates[k])]

\* younger candidates are smaller
Descend ==
  \A k, l \in DOMAIN mMaximumCandidates : k < l =>
     /\ Age(mMaximumCandidates[l]) < Age(mMaximumCandidates[k])
     /\ mMaximumCandidates[l].value < mMaximumCandidates[k].value

\* no sample of the window is larger than all candidates that are not older
Dominate ==
  \A i \in 1..Count : i > Count - mWindowSize =>
     \E k \in DOMAIN mMaximumCandidates :
        /\ i <= Count + 1 - Age(mMaximumCandidates[k])
        /\ added[i] <= mMaximumCandidates[k].value

MaximaInv == MaximaTypeOK /\ AreSamples /\ Descend /\ Dominate /\ ReturnsWindowMaximum

LEMMA ForwardOnRing ==
  ASSUME NEW a \in SizeT!Pos, NEW b \in SizeT!Pos
  PROVE  SizeT!Forward(a, b) = IF a >= b THEN a - b ELSE a - b + SizeMod
<1>0. SizeMod \in Nat \ {0} /\ a \in 0..(SizeMod - 1) /\ b \in 0..(SizeMod - 1)
  BY MaximaAssumption DEF SizeT!Pos
<1>1. CASE a >= b
  <2>1. a - b \in 0..(SizeMod - 1) /\ a - b \in Int /\ a - b = SizeMod * 0 + (a - b)
    BY <1>0, <1>1
  <2>2. (a - b) % SizeMod = a - b
    BY <1>0, <2>1, UniqueRemainder
  <2> QED
    BY <1>1, <2>2 DEF SizeT!Forward
<1>2. CASE ~(a >= b)
  <2>1. a - b + SizeMod \in 0..(SizeMod - 1) /\ a - b \in Int /\ a - b + SizeMod \in Int
        /\ a - b = SizeMod * (-1) + (a - b + SizeMod)
    BY <1>0, <1>2
  <2>2. (a - b) % SizeMod = a - b + SizeMod
    BY <1>0, <2>1, UniqueRemainder
  <2> QED
    BY <1>2, <2>2 DEF SizeT!Forward
<1> QED
  BY <1>1, <1>2

LEMMA AdvanceOnRing ==
  ASSUME NEW a \in SizeT!Pos
  PROVE  SizeT!Advance(a, 1) = IF a + 1 = SizeMod THEN 0 ELSE a + 1
<1>0. SizeMod \in Nat \ {0} /\ a \in 0..(SizeMod - 1)
  BY MaximaAssumption DEF SizeT!Pos
<1>1. CASE a + 1 = SizeMod
  <2>1. 0 \in 0..(SizeMod - 1) /\ a + 1 \in Int /\ a + 1 = SizeMod * 1 + 0
    BY <1>0, <1>1
  <2>2. (a + 1) % SizeMod = 0
    BY <1>0, <2>1, UniqueRemainder
  <2> QED
    BY <1>1, <2>2 DEF SizeT!Advance
<1>2. CASE a + 1 # SizeMod
  <2>1. a + 1 \in 0..(SizeMod - 1) /\ a + 1 \in Int /\ a + 1 = SizeMod * 0 + (a + 1)
    BY <1>0, <1>2
  <2>2. (a + 1) % SizeMod = a + 1
    BY <1>0, <2>1, UniqueRemainder
  <2> QED
    BY <1>2, <2>2 DEF SizeT!Advance
<1> QED
  BY <1>1, <1>2

\* A candidate ages by one with every sample, and a new one is one sample old.
LEMMA Ageing ==
  ASSUME NEW a \in SizeT!Pos
  PROVE  /\ SizeT!Advance(a, 1) \in SizeT!Pos
         /\ SizeT!Forward(SizeT!Advance(a, 1), a) = 1
         /\ \A p \in SizeT!Pos : SizeT!Forward(a, p) < mWindowSize =>
              SizeT!Forward(SizeT!Advance(a, 1), p) = SizeT!Forward(a, p) + 1
<1> DEFINE b == SizeT!Advance(a, 1)
<1>0. SizeMod \in Nat \ {0, 1} /\ a \in 0..(SizeMod - 1) /\ mWindowSize <= SizeMod - 1
      /\ SizeT!Pos = 0..(SizeMod - 1) /\ mWindowSize \in Nat
  BY MaximaAssumption DEF SizeT!Pos
<1>1. b = IF a + 1 = SizeMod THEN 0 ELSE a + 1
  BY AdvanceOnRing
<1>2. b \in SizeT!Pos
  BY <1>0, <1>1
<1> HIDE DEF b
<1>3. SizeT!Forward(b, a) = 1
  BY <1>0, <1>1, <1>2, ForwardOnRing
<1>4. ASSUME NEW p \in SizeT!Pos, SizeT!Forward(a, p) < mWindowSize
      PROVE  SizeT!Forward(b, p) = SizeT!Forward(a, p) + 1
  <2>1. SizeT!Forward(a, p) = (IF a >= p THEN a - p ELSE a - p + SizeMod)
    BY ForwardOnRing
  <2>2. SizeT!Forward(b, p) = (IF b >= p THEN b - p ELSE b - p + SizeMod)
    BY <1>2, ForwardOnRing
  <2> QED
    BY <1>0, <1>1, <1>4, <2>1, <2>2
<1> QED
  BY <1>2, <1>3, <1>4 DEF b

\* add() keeps the candidates m..m+j-1: the older ones leave the window, the younger
\* ones are dominated by value.
Keeps(value, m, j) ==
  /\ \A i \in 1..Len(mMaximumCandidates) :
       Age(mMaximumCandidates[i]) < mWindowSize <=> i >= m
  /\ \A i \in (m + j)..Len(mMaximumCandidates) : mMaximumCandidates[i].value <= value
  /\ j > 0 => mMaximumCandidates[m + j - 1].value > value

KeptIs(value, m, j, queue) ==
  /\ queue \in Seq(Candidates) /\ Len(queue) = j + 1
  /\ \A i \in 1..j : queue[i] = mMaximumCandidates[m + i - 1]
  /\ queue[j + 1] = [samplePos |-> mCurrentSamplePos, value |-> value]

IsRecent(m) ==
  /\ Recent \in Seq(Candidates) /\ Len(Recent) = Len(mMaximumCandidates) + 1 - m
  /\ \A i \in 1..Len(Recent) : Recent[i] = mMaximumCandidates[m + i - 1]
  /\ \A i \in 1..Len(mMaximumCandidates) :
       Age(mMaximumCandidates[i]) < mWindowSize <=> i >= m

LEMMA RecentCut ==
  ASSUME MaximaTypeOK, AreSamples, Descend
  PROVE  \E m \in 1..(Len(mMaximumCandidates) + 1) : IsRecent(m)
<1> DEFINE q == mMaximumCandidates
<1>0. /\ q \in Seq(Candidates) /\ Len(q) \in Nat /\ DOMAIN q = 1..Len(q)
      /\ Count \in Nat /\ mWindowSize \in Nat \ {0}
  BY MaximaAssumption DEF MaximaTypeOK, Count
<1>a. \A k \in 1..Len(q) : Age(q[k]) \in Int /\ Age(q[k]) <= mWindowSize /\ Age(q[k]) <= Count
  BY <1>0 DEF AreSamples
<1>1. CASE ~steady
  <2>1. Count < mWindowSize
    BY <1>0, <1>1 DEF steady, MaximaTypeOK
  <2>2. \A i \in 1..Len(q) : Age(q[i]) < mWindowSize
    BY <1>0, <1>a, <2>1
  <2>3. Recent = q
    BY <1>1 DEF Recent
  <2>4. IsRecent(1)
    BY <1>0, <2>2, <2>3 DEF IsRecent
  <2> QED
    BY <1>0, <2>4
<1>2. CASE steady
  <2> DEFINE K == {i \in DOMAIN q : ~(Age(q[i]) >= mWindowSize)}
             m == Min({Len(q) + 1} \cup K)
  <2>1. Recent = SubSeq(q, m, Len(q))
    BY <1>2 DEF Recent, PopFrontWhile, Age, AgeAt
  <2>2. /\ m \in 1..(Len(q) + 1) /\ (m <= Len(q) => m \in K)
        /\ \A i \in 1..(m - 1) : i \notin K
        /\ SubSeq(q, m, Len(q)) \in Seq(Candidates)
        /\ Len(SubSeq(q, m, Len(q))) = Len(q) + 1 - m
        /\ \A i \in 1..(Len(q) + 1 - m) : SubSeq(q, m, Len(q))[i] = q[m + i - 1]
    <3> HIDE DEF m
    <3>1. K \in SUBSET DOMAIN q /\ m = Min({Len(q) + 1} \cup K)
      BY DEF m
    <3> HIDE DEF K
    <3>2. FrontCutAt(Candidates, q, K, m)
      BY <1>0, <3>1, FrontCut
    <3> QED
      BY <3>2 DEF FrontCutAt
  <2> HIDE DEF m
  <2>3. ASSUME NEW i \in 1..Len(q) PROVE Age(q[i]) < mWindowSize <=> i >= m
    <3>1. CASE i < m
      <4>1. i \in 1..(m - 1)
        BY <1>0, <2>2, <3>1
      <4>2. Age(q[i]) >= mWindowSize
        BY <1>0, <2>2, <4>1
      <4> QED
        BY <1>0, <1>a, <2>2, <3>1, <4>2
    <3>2. CASE i >= m
      <4>1. m \in 1..Len(q) /\ Age(q[m]) < mWindowSize
        <5>1. m \in 1..Len(q) /\ m \in K
          BY <1>0, <2>2, <3>2
        <5> QED
          BY <1>0, <1>a, <5>1
      <4>2. i # m => Age(q[i]) < Age(q[m])
        BY <1>0, <2>2, <3>2, <4>1 DEF Descend
      <4>3. Age(q[i]) < mWindowSize
        BY <1>0, <1>a, <4>1, <4>2
      <4> QED
        BY <3>2, <4>3
    <3> QED
      BY <1>0, <2>2, <3>1, <3>2
  <2>4. IsRecent(m)
    BY <2>1, <2>2, <2>3 DEF IsRecent
  <2> QED
    BY <2>2, <2>4
<1> QED
  BY <1>1, <1>2

LEMMA AddCuts ==
  ASSUME MaximaTypeOK, AreSamples, Descend, NEW value \in Samples, add(value)
  PROVE  \E m \in 1..(Len(mMaximumCandidates) + 1) :
           \E j \in 0..(Len(mMaximumCandidates) + 1 - m) :
             Keeps(value, m, j) /\ KeptIs(value, m, j, mMaximumCandidates')
<1> DEFINE q == mMaximumCandidates
<1>0. /\ q \in Seq(Candidates) /\ Len(q) \in Nat
      /\ mCurrentSamplePos \in SizeT!Pos
  BY DEF MaximaTypeOK
<1>1. PICK m \in 1..(Len(q) + 1) : IsRecent(m)
  BY RecentCut
<1>2. /\ Recent \in Seq(Candidates) /\ Len(Recent) = Len(q) + 1 - m /\ Len(Recent) \in Nat
      /\ DOMAIN Recent = 1..Len(Recent)
      /\ \A i \in 1..Len(Recent) : Recent[i] = q[m + i - 1]
  BY <1>1 DEF IsRecent
<1> DEFINE r == Recent
           K == {i \in DOMAIN r : ~(r[i].value <= value)}
           j == Max({0} \cup K)
           d == SubSeq(r, 1, j)
<1>3. Dominating(value) = d
  BY DEF Dominating, PopBackWhile
<1> HIDE DEF r
<1>4. /\ j \in 0..Len(r) /\ (j > 0 => j \in K)
      /\ \A i \in (j + 1)..Len(r) : i \notin K
      /\ d \in Seq(Candidates) /\ Len(d) = j
      /\ \A i \in 1..j : d[i] = r[i]
  <2> HIDE DEF j
  <2>1. K \in SUBSET DOMAIN r /\ j = Max({0} \cup K)
    BY DEF j
  <2>2. r \in Seq(Candidates)
    BY <1>2 DEF r
  <2> HIDE DEF K
  <2>3. BackCutAt(Candidates, r, K, j)
    BY <2>1, <2>2, BackCut
  <2> QED
    BY <2>3 DEF BackCutAt
<1>5. mMaximumCandidates' = Append(d, [samplePos |-> mCurrentSamplePos, value |-> value])
  BY <1>3 DEF add
<1> HIDE DEF j, d
<1>6. KeptIs(value, m, j, mMaximumCandidates')
  <2>1. [samplePos |-> mCurrentSamplePos, value |-> value] \in Candidates
    BY <1>0 DEF Candidates
  <2>2. \A i \in 1..j : d[i] = q[m + i - 1]
    <3> TAKE i \in 1..j
    <3>1. i \in 1..Len(Recent)
      BY <1>2, <1>4 DEF r
    <3> QED
      BY <1>2, <1>4, <3>1 DEF r
  <2> QED
    BY <1>4, <1>5, <2>1, <2>2 DEF KeptIs
<1>7. Keeps(value, m, j)
  <2>1. \A i \in 1..Len(q) : Age(q[i]) < mWindowSize <=> i >= m
    BY <1>1 DEF IsRecent
  <2>2. \A i \in (m + j)..Len(q) : q[i].value <= value
    <3> TAKE i \in (m + j)..Len(q)
    <3>1. i - m + 1 \in (j + 1)..Len(r) /\ m + (i - m + 1) - 1 = i
      BY <1>0, <1>2, <1>4 DEF r
    <3>2. i - m + 1 \in 1..Len(r)
      BY <1>2, <1>4, <3>1 DEF r
    <3>3. r[i - m + 1].value <= value
      BY <1>2, <1>4, <3>1, <3>2 DEF r
    <3>4. r[i - m + 1] = q[i]
      BY <1>2, <3>1, <3>2 DEF r
    <3> QED
      BY <3>3, <3>4
  <2>3. j > 0 => q[m + j - 1].value > value
    <3> HAVE j > 0
    <3>1. j \in 1..Len(r) /\ ~(r[j].value <= value)
      BY <1>2, <1>4 DEF r
    <3>2. r[j] = q[m + j - 1]
      BY <1>2, <3>1 DEF r
    <3>3. r[j] \in Candidates
      BY <1>2, <3>1 DEF r
    <3>4. r[j].value \in Int /\ value \in Int
      BY <3>3, MaximaAssumption DEF Candidates
    <3>5. r[j].value > value
      BY <3>1, <3>4
    <3> QED
      BY <3>2, <3>5
  <2> QED
    BY <2>1, <2>2, <2>3 DEF Keeps
<1>8. j \in 0..(Len(q) + 1 - m)
  BY <1>2, <1>4 DEF r
<1> QED
  BY <1>6, <1>7, <1>8

\* The front of the queue is the maximum of the window.
LEMMA FrontIsMaximum ==
  MaximaTypeOK /\ AreSamples /\ Descend /\ Dominate /\ Count > 0 =>
    /\ mMaximumCandidates # << >>
    /\ Head(mMaximumCandidates).value = WindowMaximum(Count)
<1> SUFFICES ASSUME MaximaTypeOK, AreSamples, Descend, Dominate, Count > 0
             PROVE  /\ mMaximumCandidates # << >>
                    /\ Head(mMaximumCandidates).value = WindowMaximum(Count)
  OBVIOUS
<1> DEFINE q == mMaximumCandidates
           S == {added[i] : i \in {j \in 1..Count : j > Count - mWindowSize}}
<1>0. /\ q \in Seq(Candidates) /\ Len(q) \in Nat /\ DOMAIN q = 1..Len(q)
      /\ added \in Seq(Samples) /\ Count \in Nat \ {0} /\ mWindowSize \in Nat \ {0}
      /\ Samples \subseteq Int
  BY MaximaAssumption DEF MaximaTypeOK, Count
<1>1. \A i \in 1..Count : added[i] \in Int
  <2>1. \A i \in 1..Count : added[i] \in Samples
    BY <1>0 DEF Count
  <2> QED
    BY <1>0, <2>1
<1>2. \A k \in 1..Len(q) : q[k].value \in Int
  <2>1. \A k \in 1..Len(q) : q[k] \in Candidates
    BY <1>0
  <2>2. \A k \in 1..Len(q) : q[k].value \in Samples
    BY <2>1 DEF Candidates
  <2> QED
    BY <1>0, <2>2
<1>3. 1 \in 1..Len(q)
  <2>1. Count \in 1..Count /\ Count > Count - mWindowSize
    BY <1>0
  <2>2. \E k \in 1..Len(q) : TRUE
    BY <1>0, <2>1 DEF Dominate
  <2> QED
    BY <1>0, <2>2
<1>4. q # << >> /\ Head(q) = q[1]
  BY <1>0, <1>3
<1>5. q[1].value \in S
  <2> DEFINE a == Age(q[1])
  <2>1. a \in 1..mWindowSize /\ a <= Count /\ q[1].value = added[Count + 1 - a]
    BY <1>0, <1>3 DEF AreSamples
  <2>2. Count + 1 - a \in 1..Count /\ Count + 1 - a > Count - mWindowSize
    BY <1>0, <2>1
  <2> QED
    BY <2>1, <2>2
<1>6. \A x \in S : q[1].value >= x
  <2> SUFFICES ASSUME NEW i \in 1..Count, i > Count - mWindowSize
               PROVE  q[1].value >= added[i]
    OBVIOUS
  <2>1. PICK k \in 1..Len(q) : added[i] <= q[k].value
    BY <1>0 DEF Dominate
  <2>2. q[k].value <= q[1].value
    <3>1. CASE k = 1
      BY <1>2, <1>3, <3>1
    <3>2. CASE k # 1
      <4>1. q[k].value < q[1].value
        BY <1>0, <1>3, <2>1, <3>2 DEF Descend
      <4> QED
        BY <1>2, <1>3, <2>1, <4>1
    <3> QED
      BY <3>1, <3>2
  <2> QED
    BY <1>1, <1>2, <1>3, <2>1, <2>2
<1>7. S \subseteq Int
  BY <1>1
<1>8. Max(S) = q[1].value
  <2> HIDE DEF S
  <2> DEFINE top == q[1].value
  <2>1. top \in S /\ \A x \in S : top >= x
    BY <1>5, <1>6
  <2> HIDE DEF top
  <2>2. Max(S) \in S /\ \A x \in S : Max(S) >= x
    BY <2>1 DEF Max
  <2> DEFINE largest == Max(S)
  <2>3. largest \in Int /\ top \in Int /\ largest >= top /\ top >= largest
    BY <1>7, <2>1, <2>2
  <2> HIDE DEF largest
  <2>4. largest = top
    BY <2>3
  <2> QED
    BY <2>4 DEF top, largest
<1> QED
  BY <1>4, <1>8 DEF WindowMaximum

\* For every window size, width of size_t, set of samples and stream: add() and
\* finalize() return the maximum of every full window.
THEOREM MaximaCorrect == MaximaSpec => []MaximaInv
<1>1. MaximaInit => MaximaInv
  <2> SUFFICES ASSUME MaximaInit PROVE MaximaInv
    OBVIOUS
  <2>1. /\ mWindowSize \in Nat \ {0} /\ SizeMod \in Nat \ {0} /\ 0 \in SizeT!Pos
    BY MaximaAssumption DEF SizeT!Pos
  <2>2. MaximaTypeOK /\ Count = 0
    BY <2>1 DEF MaximaInit, MaximaTypeOK, Count
  <2>3. AreSamples /\ Descend
    BY DEF MaximaInit, AreSamples, Descend
  <2>4. Dominate
    BY <2>2 DEF Dominate
  <2>5. ReturnsWindowMaximum
    BY <2>1 DEF MaximaInit, ReturnsWindowMaximum
  <2> QED
    BY <2>2, <2>3, <2>4, <2>5 DEF MaximaInv
<1>2. MaximaInv /\ [MaximaNext]_maximaVars => MaximaInv'
  <2> SUFFICES ASSUME MaximaInv, [MaximaNext]_maximaVars PROVE MaximaInv'
    OBVIOUS
  <2>u. CASE UNCHANGED maximaVars
    BY <2>u DEF maximaVars, MaximaInv, MaximaTypeOK, AreSamples, Descend, Dominate, Count, Age,
       ReturnsWindowMaximum, WindowMaximum, finalize
  <2>a. ASSUME NEW value \in Samples, add(value) PROVE MaximaInv'
    <3> DEFINE q == mMaximumCandidates
               p == mMaximumCandidates'
               n == Count
               w == mWindowSize
               c == mCurrentSamplePos
               new == [samplePos |-> c, value |-> value]
    <3>0. MaximaTypeOK /\ AreSamples /\ Descend /\ Dominate /\ ReturnsWindowMaximum
      BY DEF MaximaInv
    <3>1. /\ q \in Seq(Candidates) /\ Len(q) \in Nat /\ DOMAIN q = 1..Len(q)
          /\ added \in Seq(Samples) /\ n \in Nat /\ w \in Nat \ {0} /\ c \in SizeT!Pos
          /\ Samples \subseteq Int
      BY <3>0, MaximaAssumption DEF MaximaTypeOK, Count
    <3>2. PICK m \in 1..(Len(q) + 1) : \E j \in 0..(Len(q) + 1 - m) :
            Keeps(value, m, j) /\ KeptIs(value, m, j, p)
      BY <2>a, <3>0, AddCuts
    <3>3. PICK j \in 0..(Len(q) + 1 - m) : Keeps(value, m, j) /\ KeptIs(value, m, j, p)
      BY <3>2
    <3>4. /\ p \in Seq(Candidates) /\ Len(p) = j + 1 /\ DOMAIN p = 1..(j + 1)
          /\ p[j + 1] = new /\ m \in Nat /\ j \in Nat
      BY <3>1, <3>3 DEF KeptIs
    <3>5. \A i \in 1..j : p[i] = q[m + i - 1] /\ m + i - 1 \in 1..Len(q)
      BY <3>1, <3>3 DEF KeptIs
    <3>6. /\ added' = Append(added, value) /\ Count' = n + 1 /\ c' = SizeT!Advance(c, 1)
          /\ \A i \in 1..n : added'[i] = added[i]
          /\ added'[n + 1] = value
      BY <2>a, <3>1 DEF add, Count
    <3>7. /\ c' \in SizeT!Pos /\ AgeAt(c', new) = 1
          /\ \A e \in Candidates : AgeAt(c, e) < w => AgeAt(c', e) = AgeAt(c, e) + 1
      <4>1. \A e \in Candidates : e.samplePos \in SizeT!Pos
        BY DEF Candidates
      <4>2. /\ c' \in SizeT!Pos /\ SizeT!Forward(c', c) = 1
            /\ \A x \in SizeT!Pos : SizeT!Forward(c, x) < w =>
                 SizeT!Forward(c', x) = SizeT!Forward(c, x) + 1
        BY <3>1, <3>6, Ageing
      <4> QED
        BY <4>1, <4>2 DEF AgeAt
    <3>8. \A k \in 1..Len(q) : /\ AgeAt(c, q[k]) \in 1..w /\ AgeAt(c, q[k]) <= n
                               /\ q[k].value = added[n + 1 - AgeAt(c, q[k])]
      BY <3>0, <3>1 DEF AreSamples, Age
    <3>9. \A k \in 1..Len(q) : q[k] \in Candidates /\ q[k].value \in Int
      <4>1. \A k \in 1..Len(q) : q[k] \in Candidates
        BY <3>1
      <4>2. \A k \in 1..Len(q) : q[k].value \in Samples
        BY <4>1 DEF Candidates
      <4> QED
        BY <3>1, <4>1, <4>2
    <3> DEFINE Older(i) == AgeAt(c', p[i])
    <3>10. \A i \in 1..j : Older(i) = AgeAt(c, q[m + i - 1]) + 1 /\ AgeAt(c, q[m + i - 1]) < w
      <4> TAKE i \in 1..j
      <4> DEFINE k == m + i - 1
      <4>1. p[i] = q[k] /\ k \in 1..Len(q) /\ k >= m
        BY <3>4, <3>5
      <4> HIDE DEF k
      <4>2. AgeAt(c, q[k]) < w
        BY <3>3, <4>1 DEF Keeps, Age
      <4>3. q[k] \in Candidates
        BY <3>9, <4>1
      <4>4. AgeAt(c', q[k]) = AgeAt(c, q[k]) + 1
        BY <3>7, <4>2, <4>3
      <4> QED
        BY <4>1, <4>2, <4>4 DEF k
    <3>11. Older(j + 1) = 1 /\ p[j + 1].value = value /\ value \in Int
      BY <3>1, <3>4, <3>7
    <3> HIDE DEF Older
    <3>12. ASSUME NEW i \in 1..(j + 1)
           PROVE  Older(i) \in 1..w /\ Older(i) <= n + 1 /\ p[i].value = added'[n + 2 - Older(i)]
      <4>1. CASE i = j + 1
        <5>1. Older(i) = 1 /\ p[i].value = value
          BY <3>11, <4>1
        <5>2. n + 2 - Older(i) = n + 1
          BY <3>1, <5>1
        <5>3. added'[n + 2 - Older(i)] = value
          BY <3>6, <5>2
        <5> QED
          BY <3>1, <5>1, <5>3
      <4>2. CASE i # j + 1
        <5> DEFINE k == m + i - 1
                   a == AgeAt(c, q[k])
        <5>1. i \in 1..j
          BY <3>4, <4>2
        <5>2. p[i] = q[k] /\ k \in 1..Len(q) /\ Older(i) = a + 1 /\ a < w
          BY <3>5, <3>10, <5>1
        <5>3. a \in 1..w /\ a <= n /\ q[k].value = added[n + 1 - a]
          BY <3>8, <5>2
        <5> HIDE DEF a, k
        <5>4. n + 1 - a \in 1..n /\ n + 2 - (a + 1) = n + 1 - a
          BY <3>1, <5>3
        <5>5. added'[n + 1 - a] = added[n + 1 - a]
          BY <3>6, <5>4
        <5> QED
          BY <3>1, <5>2, <5>3, <5>4, <5>5
      <4> QED
        BY <4>1, <4>2
    <3>t. MaximaTypeOK'
      <4>1. added' \in Seq(Samples)
        BY <3>1, <3>6
      <4>2. mInitialElementsRead' = IF n + 1 < w THEN n + 1 ELSE w
        BY <2>a, <3>0, <3>1 DEF add, steady, MaximaTypeOK
      <4>3. p \in Seq(Candidates)'
        BY <3>4 DEF Candidates
      <4> QED
        BY <3>6, <3>7, <4>1, <4>2, <4>3 DEF MaximaTypeOK
    <3>s. AreSamples'
      <4>1. Count' + 1 = n + 2
        BY <3>1, <3>6
      <4>2. ASSUME NEW k \in DOMAIN p
            PROVE  AgeAt(c', p[k]) \in 1..w /\ AgeAt(c', p[k]) <= Count'
                   /\ p[k].value = added'[Count' + 1 - AgeAt(c', p[k])]
        <5>1. k \in 1..(j + 1)
          BY <3>4
        <5>2. AgeAt(c', p[k]) \in 1..w /\ AgeAt(c', p[k]) <= n + 1
              /\ p[k].value = added'[n + 2 - AgeAt(c', p[k])]
          BY <3>12, <5>1 DEF Older
        <5>3. Count' + 1 - AgeAt(c', p[k]) = n + 2 - AgeAt(c', p[k])
          BY <3>1, <3>6, <5>2
        <5>4. AgeAt(c', p[k]) <= Count'
          BY <3>6, <5>2
        <5> QED
          BY <5>2, <5>3, <5>4
      <4> QED
        BY <4>2 DEF AreSamples, Age
    <3>d. Descend'
      <4>1. ASSUME NEW k \in 1..(j + 1), NEW l \in 1..(j + 1), k < l
            PROVE  Older(l) < Older(k) /\ p[l].value < p[k].value
        <5> DEFINE a == m + k - 1
                   b == m + l - 1
        <5>1. /\ k \in 1..j /\ a \in 1..Len(q) /\ p[k] = q[a]
              /\ Older(k) = AgeAt(c, q[a]) + 1 /\ AgeAt(c, q[a]) \in 1..w /\ p[k].value \in Int
          <6>1. k \in 1..j
            BY <3>4, <4>1
          <6> QED
            BY <3>5, <3>8, <3>9, <3>10, <6>1
        <5>2. CASE l = j + 1
          <6> DEFINE z == m + j - 1
          <6>1. j > 0 /\ z \in 1..Len(q) /\ q[z].value > value /\ q[z].value \in Int
            <7>1. j > 0 /\ j \in 1..j
              BY <3>4, <5>1
            <7> QED
              BY <3>3, <3>5, <3>9, <7>1 DEF Keeps
          <6>2. a = z \/ a < z
            BY <3>4, <5>1
          <6> HIDE DEF z, a
          <6>3. q[z].value <= q[a].value
            <7>1. CASE a = z
              BY <6>1, <7>1
            <7>2. CASE a < z
              <8>1. q[z].value < q[a].value
                BY <3>0, <3>1, <5>1, <6>1, <7>2 DEF Descend
              <8>2. q[a].value \in Int
                BY <3>9, <5>1
              <8> QED
                BY <6>1, <8>1, <8>2
            <7> QED
              BY <6>2, <7>1, <7>2
          <6>4. p[k].value > value
            BY <3>11, <5>1, <6>1, <6>3
          <6> QED
            BY <3>1, <3>11, <5>1, <5>2, <6>4
        <5>3. CASE l # j + 1
          <6>1. l \in 1..j
            BY <3>4, <5>3
          <6>2. b \in 1..Len(q) /\ p[l] = q[b] /\ Older(l) = AgeAt(c, q[b]) + 1
                /\ AgeAt(c, q[b]) \in 1..w
            BY <3>5, <3>8, <3>10, <6>1
          <6>3. a < b
            BY <3>4, <4>1
          <6> HIDE DEF a, b
          <6>4. AgeAt(c, q[b]) < AgeAt(c, q[a]) /\ q[b].value < q[a].value
            BY <3>0, <3>1, <5>1, <6>2, <6>3 DEF Descend, Age
          <6> QED
            BY <3>1, <5>1, <6>2, <6>4
        <5> QED
          BY <5>2, <5>3
      <4> QED
        BY <3>4, <4>1 DEF Descend, Older, Age
    <3>m. Dominate'
      <4>1. ASSUME NEW i \in 1..(n + 1), i > n + 1 - w
            PROVE  \E k \in 1..(j + 1) : i <= n + 2 - Older(k) /\ added'[i] <= p[k].value
        <5>1. CASE i = n + 1
          <6>1. j + 1 \in 1..(j + 1) /\ i <= n + 2 - 1
            BY <3>1, <3>4, <5>1
          <6>2. added'[i] = value /\ value <= value
            <7>1. added'[n + 1] = value
              BY <3>6
            <7>2. value <= value
              BY <3>11
            <7> QED
              BY <5>1, <7>1, <7>2
          <6>3. i <= n + 2 - Older(j + 1) /\ added'[i] <= p[j + 1].value
            BY <3>11, <6>1, <6>2
          <6> QED
            BY <6>1, <6>3
        <5>2. CASE i # n + 1
          <6>1. i \in 1..n /\ i > n - w /\ added'[i] = added[i] /\ added[i] \in Int
            <7>1. i \in 1..n /\ i > n - w
              BY <3>1, <4>1, <5>2
            <7>2. added[i] \in Samples
              BY <3>1, <7>1 DEF Count
            <7> QED
              BY <3>1, <3>6, <7>1, <7>2
          <6>2. PICK k \in 1..Len(q) : i <= n + 1 - AgeAt(c, q[k]) /\ added[i] <= q[k].value
            BY <3>0, <3>1, <6>1 DEF Dominate, Age
          <6>3. AgeAt(c, q[k]) \in 1..w /\ q[k].value \in Int
            BY <3>8, <3>9
          <6>4. AgeAt(c, q[k]) < w
            BY <3>1, <4>1, <6>2, <6>3
          <6>5. k >= m
            BY <3>3, <6>4 DEF Keeps, Age
          <6>6. CASE k < m + j
            <7> DEFINE l == k - m + 1
            <7>1. l \in 1..j /\ m + l - 1 = k
              BY <3>4, <6>5, <6>6
            <7> HIDE DEF l
            <7>2. p[l] = q[k] /\ Older(l) = AgeAt(c, q[k]) + 1
              BY <3>5, <3>10, <7>1
            <7>3. l \in 1..(j + 1) /\ i <= n + 2 - Older(l) /\ added'[i] <= p[l].value
              BY <3>1, <3>4, <6>1, <6>2, <6>3, <7>1, <7>2
            <7> QED
              BY <7>3
          <6>7. CASE ~(k < m + j)
            <7>1. k \in (m + j)..Len(q)
              BY <3>1, <3>4, <6>7
            <7>2. q[k].value <= value
              BY <3>3, <7>1 DEF Keeps
            <7>3. j + 1 \in 1..(j + 1) /\ i <= n + 2 - 1
              BY <3>1, <3>4, <6>1
            <7>4. added'[i] <= value
              BY <3>11, <6>1, <6>2, <6>3, <7>2
            <7>5. i <= n + 2 - Older(j + 1) /\ added'[i] <= p[j + 1].value
              BY <3>11, <7>3, <7>4
            <7> QED
              BY <7>3, <7>5
          <6> QED
            BY <6>6, <6>7
        <5> QED
          BY <5>1, <5>2
      <4>2. Count' = n + 1 /\ Count' + 1 = n + 2
        BY <3>1, <3>6
      <4>3. ASSUME NEW i \in 1..Count', i > Count' - w
            PROVE  \E k \in DOMAIN p : i <= Count' + 1 - AgeAt(c', p[k]) /\ added'[i] <= p[k].value
        <5>1. i \in 1..(n + 1) /\ i > n + 1 - w
          BY <3>1, <4>2, <4>3
        <5>2. PICK k \in 1..(j + 1) : i <= n + 2 - Older(k) /\ added'[i] <= p[k].value
          BY <4>1, <5>1
        <5>3. k \in DOMAIN p
          BY <3>4
        <5>4. Count' + 1 - AgeAt(c', p[k]) = n + 2 - Older(k)
          <6>1. Older(k) \in Int /\ n \in Int
            BY <3>1, <3>12, <5>2
          <6>2. Count' + 1 - Older(k) = n + 2 - Older(k)
            BY <4>2, <6>1
          <6> QED
            BY <6>2 DEF Older
        <5> QED
          BY <5>2, <5>3, <5>4
      <4> QED
        BY <4>3 DEF Dominate, Age
    <3>r. ReturnsWindowMaximum'
      <4>0. Count' = n + 1 /\ Count' - 1 = n /\ Count' > 0
        BY <3>1, <3>6
      <4>1. ASSUME n + 1 > w PROVE returned' = WindowMaximum(Count - 1)'
        <5>1. steady /\ n > 0
          BY <3>0, <3>1, <4>1 DEF steady, MaximaTypeOK
        <5>2. returned' = WindowMaximum(n)
          BY <2>a, <3>0, <5>1, FrontIsMaximum DEF add
        <5>3. {added'[i] : i \in {h \in 1..n : h > n - w}} = {added[i] : i \in {h \in 1..n : h > n - w}}
          BY <3>6
        <5> QED
          BY <4>0, <5>2, <5>3 DEF WindowMaximum
      <4>2. finalize' = WindowMaximum(Count)'
        <5>1. (/\ MaximaTypeOK /\ AreSamples /\ Descend /\ Dominate /\ Count > 0 =>
                /\ mMaximumCandidates # << >>
                /\ Head(mMaximumCandidates).value = WindowMaximum(Count))'
          BY FrontIsMaximum, PTL
        <5>2. (mMaximumCandidates # << >> /\ Head(mMaximumCandidates).value = WindowMaximum(Count))'
          BY <3>t, <3>s, <3>d, <3>m, <4>0, <5>1
        <5> QED
          BY <5>2 DEF finalize
      <4>3. (Len(added) > w => returned = WindowMaximum(Len(added) - 1))'
        BY <4>0, <4>1 DEF Count
      <4>4. (added # << >> => finalize = WindowMaximum(Len(added)))'
        BY <4>2 DEF Count
      <4> QED
        BY <4>3, <4>4 DEF ReturnsWindowMaximum
    <3> QED
      BY <3>t, <3>s, <3>d, <3>m, <3>r DEF MaximaInv
  <2> QED
    BY <2>u, <2>a DEF MaximaNext
<1> QED
  BY <1>1, <1>2, PTL DEF MaximaSpec

\* ... and so holds what the run checks.
THEOREM MaximaReturned == MaximaSpec => []ReturnsWindowMaximum
<1>1. MaximaInv => ReturnsWindowMaximum
  BY DEF MaximaInv
<1> QED
  BY <1>1, MaximaCorrect, PTL

\* For every window size: a queue of that many entries is enough, since candidates
\* differ in age.
THEOREM QueueSuffices == MaximaSpec => []NeverOverflows
<1>1. MaximaInv => NeverOverflows
  <2> SUFFICES ASSUME MaximaInv PROVE NeverOverflows
    OBVIOUS
  <2> DEFINE q == mMaximumCandidates
             ages == [k \in 1..Len(q) |-> Age(q[k])]
  <2>1. /\ q \in Seq(Candidates) /\ Len(q) \in Nat /\ DOMAIN q = 1..Len(q)
        /\ mWindowSize \in Nat
    BY MaximaAssumption DEF MaximaInv, MaximaTypeOK
  <2>2. \A k \in 1..Len(q) : Age(q[k]) \in 1..mWindowSize
    BY <2>1 DEF MaximaInv, AreSamples
  <2>3. \A k, l \in 1..Len(q) : k < l => Age(q[l]) < Age(q[k])
    BY <2>1 DEF MaximaInv, Descend
  <2>4. \A k, l \in 1..Len(q) : Age(q[k]) = Age(q[l]) => k = l
    <3> TAKE k, l \in 1..Len(q)
    <3>1. k < l \/ l < k \/ k = l
      BY <2>1
    <3> QED
      BY <2>2, <2>3, <3>1
  <2>5. ages \in Injection(1..Len(q), 1..mWindowSize)
    BY <2>2, <2>4 DEF Injection, IsInjective
  <2>6. /\ IsFiniteSet(1..mWindowSize)
        /\ Cardinality(1..mWindowSize) = mWindowSize /\ Cardinality(1..Len(q)) = Len(q)
    <3>1. \A b \in Nat : Cardinality(1..b) = b /\ IsFiniteSet(1..b)
      <4> TAKE b \in Nat
      <4>1. 1 \in Int /\ b \in Int
        OBVIOUS
      <4>2. IsFiniteSet(1..b) /\ Cardinality(1..b) = IF 1 > b THEN 0 ELSE b - 1 + 1
        BY <4>1, FS_Interval
      <4> QED
        BY <4>2
    <3> QED
      BY <2>1, <3>1
  <2> HIDE DEF ages
  <2>7. Cardinality(1..Len(q)) <= Cardinality(1..mWindowSize)
    BY <2>5, <2>6, FS_Injection
  <2> QED
    BY <2>6, <2>7 DEF NeverOverflows
<1> QED
  BY <1>1, MaximaCorrect, PTL

-----------------------------------------------------------------------------
(* Slots *)

LEMMA SlotNeighbours ==
  ASSUME NEW p \in Slots
  PROVE  Successor(p) \in Slots /\ Previous(p) \in Slots
BY DequeAssumption DEF Slots, Successor, Previous, mCapacity

LEMMA BehindInArray ==
  ASSUME NEW p \in Slots, NEW k \in 0..mCapacity
  PROVE  Behind(p, k) \in Slots
BY DequeAssumption DEF Slots, Behind, mCapacity

LEMMA SizeInRange == ASSUME TypeOK PROVE size \in 0..Capacity
BY DequeAssumption DEF TypeOK, size, Slots, mCapacity

\* The elements of a window lie in different slots, none of them in the slot
\* that mpHead points to.
LEMMA WindowSlots ==
  ASSUME NEW head \in Slots, NEW n \in 0..Capacity
  PROVE  /\ \A i, j \in 1..n : Behind(head, i) = Behind(head, j) => i = j
         /\ \A i \in 1..n : Behind(head, i) # head
BY DequeAssumption DEF Slots, Behind, mCapacity

LEMMA SlotsOfNeighbours ==
  ASSUME NEW head \in Slots, NEW n \in 0..Capacity
  PROVE  /\ Behind(head, 1) = Previous(head)
         /\ Behind(Successor(head), 1) = head
         /\ n < Capacity => Previous(Behind(head, n)) = Behind(head, n + 1)
         /\ \A k \in 1..n : Behind(Successor(head), k + 1) = Behind(head, k)
         /\ n >= 1 => \A k \in 1..(n - 1) : Behind(Previous(head), k) = Behind(head, k + 1)
BY DequeAssumption DEF Slots, Behind, Successor, Previous, mCapacity

-----------------------------------------------------------------------------
(* Windows: how the operations change the sequence that the array holds *)

LEMMA WindowProperties ==
  ASSUME NEW data \in [Slots -> Value], NEW head \in Slots, NEW n \in 0..Capacity
  PROVE  /\ Window(data, head, n) \in Seq(Value)
         /\ Len(Window(data, head, n)) = n
         /\ \A k \in 1..n : Window(data, head, n)[k] = data[Behind(head, k)]
<1> DEFINE w == Window(data, head, n)
<1>1. ASSUME NEW k \in 1..n PROVE data[Behind(head, k)] \in Value
  BY BehindInArray, DequeAssumption DEF mCapacity
<1>2. w \in [1..n -> Value] /\ n \in Nat
  BY <1>1, DequeAssumption DEF Window
<1>3. w \in Seq(Value) /\ Len(w) = n
  BY <1>2
<1> QED
  BY <1>3 DEF Window

LEMMA AppendToWindow ==
  ASSUME NEW data \in [Slots -> Value], NEW head \in Slots, NEW n \in 0..Capacity,
         NEW v \in Value, n < Capacity
  PROVE  Window([data EXCEPT ![Behind(head, n + 1)] = v], head, n + 1)
           = Append(Window(data, head, n), v)
<1> USE DequeAssumption
<1> DEFINE new == [data EXCEPT ![Behind(head, n + 1)] = v]
           w == Window(data, head, n)
           r == Window(new, head, n + 1)
           t == Append(w, v)
<1>1. n + 1 \in 0..Capacity /\ Behind(head, n + 1) \in Slots
  BY BehindInArray DEF mCapacity
<1>2. /\ new \in [Slots -> Value]
      /\ new[Behind(head, n + 1)] = v
      /\ \A k \in 1..n : new[Behind(head, k)] = data[Behind(head, k)]
  <2>1. \A k \in 1..n : Behind(head, k) \in Slots /\ Behind(head, k) # Behind(head, n + 1)
    BY <1>1, BehindInArray, WindowSlots DEF mCapacity
  <2> QED
    BY <1>1, <2>1
<1>3. w \in Seq(Value) /\ Len(w) = n /\ \A k \in 1..n : w[k] = data[Behind(head, k)]
  BY WindowProperties
<1>4. /\ r \in Seq(Value) /\ Len(r) = n + 1
      /\ \A k \in 1..(n + 1) : r[k] = new[Behind(head, k)]
  BY <1>1, <1>2, WindowProperties
<1> HIDE DEF new, w, r
<1>5. /\ t \in Seq(Value) /\ Len(t) = n + 1
      /\ \A k \in 1..n : t[k] = w[k]
      /\ t[n + 1] = v
  BY <1>3, AppendProperties
<1>6. ASSUME NEW k \in 1..(n + 1) PROVE r[k] = t[k]
  <2>1. CASE k = n + 1
    BY <1>2, <1>4, <1>5, <2>1
  <2>2. CASE k # n + 1
    <3>1. k \in 1..n
      BY <2>2
    <3> QED
      BY <1>2, <1>3, <1>4, <1>5, <3>1
  <2> QED
    BY <2>1, <2>2
<1>7. r = t
  BY <1>4, <1>5, <1>6, SeqEqual
<1> QED
  BY <1>7 DEF new, w, r

LEMMA PrependToWindow ==
  ASSUME NEW data \in [Slots -> Value], NEW head \in Slots, NEW n \in 0..Capacity,
         NEW v \in Value, n < Capacity
  PROVE  Window([data EXCEPT ![head] = v], Successor(head), n + 1)
           = <<v>> \o Window(data, head, n)
<1> USE DequeAssumption
<1> DEFINE new == [data EXCEPT ![head] = v]
           w == Window(data, head, n)
           r == Window(new, Successor(head), n + 1)
           t == <<v>> \o w
<1>1. n + 1 \in 0..Capacity /\ Successor(head) \in Slots
  BY SlotNeighbours
<1>2. /\ new \in [Slots -> Value]
      /\ new[head] = v
      /\ \A k \in 1..n : new[Behind(head, k)] = data[Behind(head, k)]
  <2>1. \A k \in 1..n : Behind(head, k) \in Slots /\ Behind(head, k) # head
    BY BehindInArray, WindowSlots DEF mCapacity
  <2> QED
    BY <2>1
<1>3. w \in Seq(Value) /\ Len(w) = n /\ \A k \in 1..n : w[k] = data[Behind(head, k)]
  BY WindowProperties
<1>4. /\ r \in Seq(Value) /\ Len(r) = n + 1
      /\ \A k \in 1..(n + 1) : r[k] = new[Behind(Successor(head), k)]
  BY <1>1, <1>2, WindowProperties
<1>v. <<v>> \in Seq(Value) /\ Len(<<v>>) = 1 /\ <<v>>[1] = v
  OBVIOUS
<1> HIDE DEF new, w, r
<1>5. /\ t \in Seq(Value) /\ Len(t) = n + 1
      /\ \A k \in 1..(n + 1) : t[k] = IF k <= 1 THEN <<v>>[k] ELSE w[k - 1]
  <2>1. /\ t \in Seq(Value) /\ Len(t) = 1 + n
        /\ \A k \in 1..(1 + n) : t[k] = IF k <= 1 THEN <<v>>[k] ELSE w[k - 1]
    BY <1>3, <1>v, ConcatProperties
  <2>2. 1 + n = n + 1
    OBVIOUS
  <2> QED
    BY <2>1, <2>2
<1> HIDE DEF t
<1>6. ASSUME NEW k \in 1..(n + 1) PROVE r[k] = t[k]
  <2>1. CASE k = 1
    <3>1. Behind(Successor(head), k) = head
      BY <2>1, SlotsOfNeighbours
    <3>2. t[k] = <<v>>[1]
      BY <1>5, <2>1
    <3> QED
      BY <1>2, <1>4, <1>v, <3>1, <3>2
  <2>2. CASE k # 1
    <3>1. k - 1 \in 1..n /\ (k - 1) + 1 = k
      BY <2>2
    <3>2. Behind(Successor(head), k) = Behind(head, k - 1)
      BY <3>1, SlotsOfNeighbours
    <3>3. t[k] = w[k - 1]
      <4>1. t[k] = IF k <= 1 THEN <<v>>[k] ELSE w[k - 1]
        BY <1>5
      <4>2. ~(k <= 1)
        BY <2>2
      <4> QED
        BY <4>1, <4>2
    <3> QED
      BY <1>2, <1>3, <1>4, <3>1, <3>2, <3>3
  <2> QED
    BY <2>1, <2>2
<1>7. r = t
  BY <1>4, <1>5, <1>6, SeqEqual
<1> QED
  BY <1>7 DEF new, w, r, t

LEMMA DropFromWindow ==
  ASSUME NEW data \in [Slots -> Value], NEW head \in Slots, NEW n \in 1..Capacity
  PROVE  /\ Window(data, head, n - 1) = SubSeq(Window(data, head, n), 1, n - 1)
         /\ Window(data, Previous(head), n - 1) = SubSeq(Window(data, head, n), 2, n)
<1> USE DequeAssumption
<1> DEFINE w == Window(data, head, n)
           r1 == Window(data, head, n - 1)
           r2 == Window(data, Previous(head), n - 1)
           t1 == SubSeq(w, 1, n - 1)
           t2 == SubSeq(w, 2, n)
<1>1. n - 1 \in 0..Capacity /\ n \in 0..Capacity /\ Previous(head) \in Slots
  BY SlotNeighbours
<1>2. w \in Seq(Value) /\ Len(w) = n /\ \A k \in 1..n : w[k] = data[Behind(head, k)]
  BY <1>1, WindowProperties
<1>3. r1 \in Seq(Value) /\ Len(r1) = n - 1 /\ \A k \in 1..(n - 1) : r1[k] = data[Behind(head, k)]
  BY <1>1, WindowProperties
<1>4. /\ r2 \in Seq(Value) /\ Len(r2) = n - 1
      /\ \A k \in 1..(n - 1) : r2[k] = data[Behind(Previous(head), k)]
  BY <1>1, WindowProperties
<1> HIDE DEF w, r1, r2
<1>5. t1 \in Seq(Value) /\ Len(t1) = n - 1 /\ \A k \in 1..(n - 1) : t1[k] = w[k]
  <2>1. \A i \in 1..(n - 1) : w[i] \in Value
    BY <1>2
  <2>2. /\ t1 \in Seq(Value)
        /\ Len(t1) = IF 1 <= n - 1 THEN n - 1 - 1 + 1 ELSE 0
        /\ \A k \in 1..(n - 1 - 1 + 1) : t1[k] = w[1 + k - 1]
    BY <2>1, SubSeqProperties
  <2>3. n - 1 - 1 + 1 = n - 1 /\ \A k \in 1..(n - 1) : 1 + k - 1 = k
    OBVIOUS
  <2> QED
    BY <2>2, <2>3
<1>6. t2 \in Seq(Value) /\ Len(t2) = n - 1 /\ \A k \in 1..(n - 1) : t2[k] = w[k + 1]
  <2>1. \A i \in 2..n : w[i] \in Value
    BY <1>2
  <2>2. /\ t2 \in Seq(Value)
        /\ Len(t2) = IF 2 <= n THEN n - 2 + 1 ELSE 0
        /\ \A k \in 1..(n - 2 + 1) : t2[k] = w[2 + k - 1]
    BY <2>1, SubSeqProperties
  <2>3. n - 2 + 1 = n - 1 /\ \A k \in 1..(n - 1) : 2 + k - 1 = k + 1
    OBVIOUS
  <2> QED
    BY <2>2, <2>3
<1> HIDE DEF t1, t2
<1>7. r1 = t1
  <2>1. ASSUME NEW k \in 1..(n - 1) PROVE r1[k] = t1[k]
    BY <1>2, <1>3, <1>5
  <2> QED
    BY <1>3, <1>5, <2>1, SeqEqual
<1>8. r2 = t2
  <2>1. ASSUME NEW k \in 1..(n - 1) PROVE r2[k] = t2[k]
    <3>1. Behind(Previous(head), k) = Behind(head, k + 1)
      BY <1>1, SlotsOfNeighbours
    <3> QED
      BY <1>2, <1>4, <1>6, <3>1
  <2> QED
    BY <1>4, <1>6, <2>1, SeqEqual
<1> QED
  BY <1>7, <1>8 DEF w, r1, r2, t1, t2

Put(f, x, e) == [f EXCEPT ![x] = e]

LEMMA WriteToWindow ==
  ASSUME NEW data \in [Slots -> Value], NEW head \in Slots, NEW n \in 1..Capacity,
         NEW v \in Value, NEW i \in 1..n
  PROVE  Window(Put(data, Behind(head, i), v), head, n) = Put(Window(data, head, n), i, v)
<1> USE DequeAssumption
<1> DEFINE new == [data EXCEPT ![Behind(head, i)] = v]
           w == Window(data, head, n)
           r == Window(new, head, n)
           t == [w EXCEPT ![i] = v]
<1>1. n \in 0..Capacity
  OBVIOUS
<1>2. new \in [Slots -> Value]
  OBVIOUS
<1>3. ASSUME NEW k \in 1..n
      PROVE  new[Behind(head, k)] = IF k = i THEN v ELSE data[Behind(head, k)]
  <2>1. Behind(head, k) \in Slots
    BY BehindInArray DEF mCapacity
  <2>2. Behind(head, k) = Behind(head, i) <=> k = i
    BY <1>1, WindowSlots
  <2> QED
    BY <2>1, <2>2
<1>4. w \in Seq(Value) /\ Len(w) = n /\ \A k \in 1..n : w[k] = data[Behind(head, k)]
  BY <1>1, WindowProperties
<1>5. r \in Seq(Value) /\ Len(r) = n /\ \A k \in 1..n : r[k] = new[Behind(head, k)]
  BY <1>1, <1>2, WindowProperties
<1> HIDE DEF new, w, r
<1>6. t \in Seq(Value) /\ Len(t) = n /\ \A k \in 1..n : t[k] = IF k = i THEN v ELSE w[k]
  BY <1>4, ExceptSeq
<1> HIDE DEF t
<1>7. ASSUME NEW k \in 1..n PROVE r[k] = t[k]
  BY <1>3, <1>4, <1>5, <1>6
<1>8. r = t
  BY <1>5, <1>6, <1>7, SeqEqual
<1> QED
  BY <1>8 DEF new, w, r, t, Put

-----------------------------------------------------------------------------
(* The theorems *)

\* The pointers stay inside the array, whatever is called at either end.
THEOREM TypeCorrect == Spec => []TypeOK
<1>1. Init => TypeOK
  BY DequeAssumption DEF Init, TypeOK, Slots
<1>2. TypeOK /\ [Next]_vars => TypeOK'
  <2> SUFFICES ASSUME TypeOK, [Next]_vars PROVE TypeOK'
    OBVIOUS
  <2>1. /\ Successor(mpHead) \in Slots /\ Previous(mpHead) \in Slots
        /\ Successor(mpTail) \in Slots /\ Previous(mpTail) \in Slots
    BY SlotNeighbours DEF TypeOK
  <2>2. ASSUME NEW v \in Value, push_back(v) PROVE TypeOK'
    BY <2>1, <2>2 DEF push_back, TypeOK
  <2>3. ASSUME NEW v \in Value, push_front(v) PROVE TypeOK'
    BY <2>1, <2>3 DEF push_front, TypeOK
  <2>4. ASSUME NEW v \in Value, NEW s \in Slots, WriteSlot(s, v) PROVE TypeOK'
    BY <2>4 DEF WriteSlot, TypeOK
  <2>5. CASE pop_back \/ pop_front
    BY <2>1, <2>5 DEF pop_back, pop_front, TypeOK
  <2>6. ASSUME NEW s \in Slots, ReadSlot(s) PROVE TypeOK'
    <3>1. mpData[s] \in Value
      BY DEF TypeOK
    <3>2. <<mpData[s]>> \in Seq(Value)
      BY <3>1
    <3> QED
      BY <2>6, <3>2 DEF ReadSlot, TypeOK
  <2>7. CASE UNCHANGED vars
    BY <2>7 DEF vars, TypeOK
  <2> QED
    BY <2>1, <2>2, <2>3, <2>4, <2>5, <2>6, <2>7 DEF Next, front, back, TypeOK
<1> QED
  BY <1>1, <1>2, PTL DEF Spec

LEMMA StateFacts ==
  ASSUME TypeOK
  PROVE  /\ size \in 0..Capacity
         /\ empty <=> size = 0
         /\ mpTail = Behind(mpHead, size)
         /\ Contents \in Seq(Value) /\ Len(Contents) = size
         /\ \A k \in 1..size : Contents[k] = mpData[Behind(mpHead, k)]
         /\ Contents = << >> <=> empty
<1>1. size \in 0..Capacity /\ (empty <=> size = 0) /\ mpTail = Behind(mpHead, size)
  BY DequeAssumption DEF TypeOK, size, empty, Slots, mCapacity, Behind
<1>2. /\ Contents \in Seq(Value) /\ Len(Contents) = size
      /\ \A k \in 1..size : Contents[k] = mpData[Behind(mpHead, k)]
  BY <1>1, WindowProperties DEF TypeOK, Contents
<1>3. Contents = << >> <=> Len(Contents) = 0
  BY <1>2, EmptySeq
<1> QED
  BY <1>1, <1>2, <1>3

\* For every capacity and whatever is called at both ends, a FixedSizeDeque is a
\* bounded deque: the elements from mpHead down to mpTail, wrapped around.
THEOREM Refinement == Spec => ImplementsDeque
<1> USE DequeAssumption
<1>1. Init => Deque!DequeInit
  <2> SUFFICES ASSUME Init PROVE Contents = << >> /\ seen = << >>
    BY DEF Deque!DequeInit
  <2>1. size = 0
    BY DEF Init, size
  <2> QED
    BY <2>1 DEF Init, Contents, Window
<1>2. TypeOK /\ [Next]_vars => [Deque!DequeNext]_(Deque!dequeVars)
  <2> SUFFICES ASSUME TypeOK, [Next]_vars
               PROVE  Deque!DequeNext \/ UNCHANGED <<Contents, seen>>
    BY DEF Deque!dequeVars
  <2> DEFINE n == size
  <2>1. /\ n \in 0..Capacity
        /\ empty <=> n = 0
        /\ mpTail = Behind(mpHead, n)
        /\ Contents \in Seq(Value) /\ Len(Contents) = n
        /\ \A k \in 1..n : Contents[k] = mpData[Behind(mpHead, k)]
        /\ Contents = << >> <=> empty
        /\ Contents = Window(mpData, mpHead, n)
    BY StateFacts DEF Contents
  <2>2. mpData \in [Slots -> Value] /\ mpHead \in Slots /\ mpTail \in Slots
    BY DEF TypeOK
  <2>c. Contents' = Window(mpData', mpHead', size')
    BY DEF Contents, Window, Behind, mCapacity
  <2>3. ASSUME NEW v \in Value, push_back(v) PROVE Deque!PushBack(v)
    <3>1. n < Capacity /\ size' = n + 1
      BY <2>2, <2>3 DEF push_back, full, size, Previous, Slots, mCapacity
    <3>2. mpData' = [mpData EXCEPT ![Behind(mpHead, n + 1)] = v] /\ mpHead' = mpHead
      BY <2>1, <2>2, <2>3, <3>1, SlotsOfNeighbours DEF push_back
    <3>3. Contents' = Append(Contents, v)
      <4>1. Contents' = Window([mpData EXCEPT ![Behind(mpHead, n + 1)] = v], mpHead, n + 1)
        BY <2>c, <3>1, <3>2, Zenon
      <4>2. Window([mpData EXCEPT ![Behind(mpHead, n + 1)] = v], mpHead, n + 1)
              = Append(Window(mpData, mpHead, n), v)
        BY <2>1, <2>2, <3>1, AppendToWindow
      <4> QED
        BY <2>1, <4>1, <4>2, Zenon
    <3> QED
      BY <2>1, <2>3, <3>1, <3>3 DEF push_back, Deque!PushBack
  <2>4. ASSUME NEW v \in Value, push_front(v) PROVE Deque!PushFront(v)
    <3>1. n < Capacity /\ size' = n + 1
      BY <2>2, <2>4 DEF push_front, full, size, Successor, Slots, mCapacity
    <3>2. Contents' = <<v>> \o Contents
      <4>1. Contents' = Window([mpData EXCEPT ![mpHead] = v], Successor(mpHead), n + 1)
        BY <2>4, <2>c, <3>1, Zenon DEF push_front
      <4>2. Window([mpData EXCEPT ![mpHead] = v], Successor(mpHead), n + 1)
              = <<v>> \o Window(mpData, mpHead, n)
        BY <2>1, <2>2, <3>1, PrependToWindow
      <4> QED
        BY <2>1, <4>1, <4>2, Zenon
    <3> QED
      BY <2>1, <2>4, <3>1, <3>2 DEF push_front, Deque!PushFront
  <2>5. CASE pop_back
    <3>1. n \in 1..Capacity /\ size' = n - 1
      BY <2>2, <2>5 DEF pop_back, empty, size, Successor, Slots, mCapacity
    <3>2. Contents' = SubSeq(Contents, 1, Len(Contents) - 1)
      BY <2>1, <2>2, <2>5, <2>c, <3>1, DropFromWindow DEF pop_back
    <3>3. Contents # << >> /\ seen' = seen
      BY <2>1, <2>5 DEF pop_back
    <3> QED
      BY <3>2, <3>3 DEF Deque!PopBack, Deque!DequeNext
  <2>6. CASE pop_front
    <3>1. n \in 1..Capacity /\ size' = n - 1
      BY <2>2, <2>6 DEF pop_front, empty, size, Previous, Slots, mCapacity
    <3>2. Contents' = SubSeq(Contents, 2, Len(Contents))
      BY <2>1, <2>2, <2>6, <2>c, <3>1, DropFromWindow DEF pop_front
    <3>3. Contents # << >> /\ seen' = seen
      BY <2>1, <2>6 DEF pop_front
    <3> QED
      BY <3>2, <3>3 DEF Deque!PopFront, Deque!DequeNext
  <2>7. ASSUME NEW i \in 1..n, NEW v \in Value, WriteSlot(Behind(mpHead, i), v)
        PROVE  Deque!Write(i, v)
    <3>1. n \in 1..Capacity /\ size' = n
      BY <2>1, <2>7 DEF WriteSlot, size, mCapacity
    <3>2. Contents' = [Contents EXCEPT ![i] = v]
      <4>1. mpData' = Put(mpData, Behind(mpHead, i), v) /\ mpHead' = mpHead
        BY <2>7 DEF WriteSlot, Put
      <4>2. Window(Put(mpData, Behind(mpHead, i), v), mpHead, n) = Put(Window(mpData, mpHead, n), i, v)
        BY <2>2, <3>1, WriteToWindow
      <4>3. Contents' = Window(mpData', mpHead, n)
        BY <2>c, <3>1, <4>1, Zenon
      <4>4. Contents' = Put(Contents, i, v)
        BY <2>1, <4>1, <4>2, <4>3, Zenon
      <4> QED
        BY <4>4 DEF Put
    <3> QED
      BY <2>1, <2>7, <3>2 DEF WriteSlot, Deque!Write
  <2>8. ASSUME NEW i \in 1..n, ReadSlot(Behind(mpHead, i)) PROVE Deque!Read(i)
    <3>1. Contents' = Contents
      BY <2>8, <2>c, <2>1 DEF ReadSlot, size, mCapacity
    <3> QED
      BY <2>1, <2>8, <3>1 DEF ReadSlot, Deque!Read
  \* back() is the n-th element, front() the first one
  <2>9. n >= 1 => /\ n \in 1..n /\ 1 \in 1..n
                  /\ back = Behind(mpHead, n) /\ front = Behind(mpHead, 1)
    BY <2>1, <2>2, SlotsOfNeighbours DEF back, front
  <2>10. ASSUME NEW v \in Value, WriteSlot(back, v) \/ WriteSlot(front, v)
         PROVE  Deque!Write(Len(Contents), v) \/ Deque!Write(1, v)
    <3>1. n >= 1
      BY <2>1, <2>10 DEF WriteSlot
    <3> QED
      BY <2>1, <2>7, <2>9, <2>10, <3>1
  <2>11. ASSUME ReadSlot(back) \/ ReadSlot(front)
         PROVE  Deque!Read(Len(Contents)) \/ Deque!Read(1)
    <3>1. n >= 1
      BY <2>1, <2>11 DEF ReadSlot
    <3> QED
      BY <2>1, <2>8, <2>9, <2>11, <3>1
  <2>12. CASE UNCHANGED vars
    BY <2>12, <2>c, <2>1 DEF vars, size, mCapacity
  <2> QED
    BY <2>3, <2>4, <2>5, <2>6, <2>10, <2>11, <2>12 DEF Next, Deque!DequeNext
<1> QED
  BY <1>1, <1>2, TypeCorrect, PTL DEF Spec, ImplementsDeque, Deque!DequeSpec

-----------------------------------------------------------------------------
(* Divisions, by the signs of the operands *)

LEMMA MinusZero ==
  ASSUME NEW n \in Int, n <= 0, n >= 0
  PROVE  -n = n
  BY SMT

LEMMA Quotients ==
  ASSUME NEW a \in Nat, NEW b \in Nat \ {0}
  PROVE  /\ Quotient(a, b) = a \div b
         /\ Quotient(-a, b) = -(a \div b)
         /\ Quotient(a, -b) = -(a \div b)
         /\ Quotient(-a, -b) = a \div b
<1>1. /\ Magnitude(a) = a /\ Magnitude(-a) = a /\ Magnitude(b) = b /\ Magnitude(-b) = b
      /\ ~(a < 0) /\ ~(b < 0) /\ -b < 0
  BY DEF Magnitude
<1>2. a \div b \in Int
  BY Division
<1>3. CASE a > 0
  <2>1. -a < 0
    BY <1>3
  <2> QED
    BY <1>1, <2>1 DEF Quotient
<1>4. CASE a = 0
  <2>1. a \div b = 0
    <3>1. a = b * (a \div b) + (a % b) /\ a % b \in 0..(b - 1)
      BY Division
    <3> QED
      BY <1>4, SMT
  <2>2. -a = a /\ -(a \div b) = a \div b
    <3>1. a \in Int /\ a <= 0 /\ a >= 0 /\ a \div b <= 0 /\ a \div b >= 0
      BY <1>4, <2>1
    <3> QED
      BY <1>2, <3>1, MinusZero, Zenon
  <2>3. Quotient(a, b) = a \div b /\ Quotient(a, -b) = -(a \div b)
    BY <1>1 DEF Quotient
  <2> QED
    BY <2>2, <2>3
<1> QED
  BY <1>3, <1>4

\* a rounded to the nearest multiple of b, both positive
NearestMultiple(a, b) == (a + (b \div 2)) \div b

LEMMA Nearest ==
  ASSUME NEW a \in Nat, NEW b \in Nat \ {0}
  PROVE  LET k == NearestMultiple(a, b)
             r == a - (k * b)
         IN /\ k \in Nat /\ r \in Int
            /\ -b <= 2 * r /\ 2 * r <= b
            /\ 2 * r # b
            /\ a = 0 => k = 0
<1> DEFINE h == b \div 2
           k == NearestMultiple(a, b)
           m == b * k
<1>1. h \in Nat /\ 2 * h <= b /\ b <= 2 * h + 1
  BY SMT
<1> HIDE DEF h
<1>2. k \in Int /\ (a + h) % b \in 0..(b - 1) /\ a + h = m + ((a + h) % b)
  <2>1. a + h \in Int
    BY <1>1
  <2> QED
    BY <2>1, Division DEF NearestMultiple, h
<1>3. k * b = m /\ m \in Int
  BY <1>2
<1>4. k >= 0 /\ (a = 0 => k = 0)
  <2>1. a + h \in Nat /\ (a = 0 => a + h < b)
    BY <1>1
  <2> HIDE DEF k
  <2>2. k >= 0
    <3>1. SUFFICES ASSUME k <= -1 PROVE FALSE
      BY <1>2
    <3>2. m <= -b
      BY <1>2, <3>1, SMT
    <3> QED
      BY <1>2, <1>3, <2>1, <3>2
  <2>3. ASSUME a = 0, k >= 1 PROVE FALSE
    <3>1. m >= b
      BY <1>2, <2>3, SMT
    <3> QED
      BY <1>2, <1>3, <2>1, <2>3, <3>1
  <2> QED
    BY <1>2, <2>2, <2>3
<1> HIDE DEF m, k
<1>5. /\ a - m \in Int /\ -b <= 2 * (a - m) /\ 2 * (a - m) <= b /\ 2 * (a - m) # b
  BY <1>1, <1>2, <1>3
<1> QED
  BY <1>2, <1>3, <1>4, <1>5 DEF k

\* roundIntDiv() rounds magnitudes, and has the sign of the quotient.
LEMMA SignedRounding ==
  ASSUME NEW a \in Nat, NEW b \in Nat \ {0}
  PROVE  /\ roundIntDiv(a, b) = NearestMultiple(a, b)
         /\ roundIntDiv(-a, b) = -NearestMultiple(a, b)
         /\ roundIntDiv(a, -b) = -NearestMultiple(a, b)
         /\ roundIntDiv(-a, -b) = NearestMultiple(a, b)
<1> DEFINE h == b \div 2
           k == NearestMultiple(a, b)
<1>1. h \in Nat /\ k \in Nat /\ (a = 0 => k = 0) /\ h \in Int /\ -(-b) = b
  BY Nearest, SMT
<1>2. Quotient(b, 2) = h /\ Quotient(-b, 2) = -h
  BY Quotients
<1>3. /\ Quotient(a + h, b) = k /\ Quotient(-(a + h), b) = -k
      /\ Quotient(a + h, -b) = -k /\ Quotient(-(a + h), -b) = k
  <2>1. a + h \in Nat
    BY <1>1
  <2> HIDE DEF h
  <2>2. k = (a + h) \div b
    BY DEF k, h, NearestMultiple
  <2> QED
    BY <2>1, <2>2, Quotients
<1> HIDE DEF h, k
<1>4. -a + -h = -(a + h) /\ b > 0 /\ ~(-b > 0) /\ ~(-a > 0)
  BY <1>1
<1>5. roundIntDiv(-a, b) = -k /\ roundIntDiv(-a, -b) = k
  BY <1>1, <1>2, <1>3, <1>4 DEF roundIntDiv
<1>6. roundIntDiv(a, b) = k /\ roundIntDiv(a, -b) = -k
  <2>1. CASE a > 0
    <3>1. roundIntDiv(a, b) = Quotient(a + Quotient(b, 2), b)
      <4>1. ~((a > 0) # (b > 0))
        BY <1>4, <2>1, Zenon
      <4> QED
        BY <4>1, Zenon DEF roundIntDiv
    <3>2. roundIntDiv(a, -b) = Quotient(a + Quotient(-(-b), 2), -b)
      BY <1>4, <2>1 DEF roundIntDiv
    <3>3. Quotient(-(-b), 2) = h
      BY <1>1, <1>2
    <3> QED
      BY <1>2, <1>3, <3>1, <3>2, <3>3, Zenon
  <2>2. CASE a = 0
    <3>1. a \in Int /\ a <= 0 /\ a >= 0 /\ k \in Int /\ k <= 0 /\ k >= 0
      BY <1>1, <2>2
    <3>2. -a = a /\ -k = k
      BY <3>1, MinusZero, Zenon
    <3> QED
      BY <1>5, <3>2, Zenon
  <2> QED
    BY <2>1, <2>2
<1> QED
  BY <1>5, <1>6 DEF k

LEMMA SignedProducts ==
  ASSUME NEW k \in Int, NEW b \in Int
  PROVE  /\ k * b \in Int /\ (-k) * b = -(k * b) /\ k * (-b) = -(k * b) /\ (-k) * (-b) = k * b
         /\ (k - 1) * b = k * b - b
  BY SMT

\* An operand is a magnitude, with or without a sign.
LEMMA Signs ==
  ASSUME NEW n \in Int
  PROVE  Magnitude(n) \in Nat /\ (n = Magnitude(n) \/ n = -Magnitude(n))
  BY DEF Magnitude

IsNearest(n, d) ==
  LET q == roundIntDiv(n, d)
      r == Magnitude(n - q * d)
  IN /\ 2 * r <= Magnitude(d)
     /\ 2 * r = Magnitude(d) => Magnitude(q * d) > Magnitude(n)

\* What makes n / d rounded to q nearest, in terms of the magnitudes of both.
LEMMA NearestBySign ==
  ASSUME NEW a \in Nat, NEW b \in Nat \ {0}
  PROVE  IsNearest(a, b) /\ IsNearest(-a, b) /\ IsNearest(a, -b) /\ IsNearest(-a, -b)
<1> DEFINE k == NearestMultiple(a, b)
           m == k * b
<1>1. k \in Int /\ m \in Int /\ m >= 0 /\ -b <= 2 * (a - m) /\ 2 * (a - m) < b
  <2>1. k \in Nat /\ -b <= 2 * (a - m) /\ 2 * (a - m) <= b /\ 2 * (a - m) # b /\ a - m \in Int
    BY Nearest
  <2> HIDE DEF k
  <2>2. m \in Nat
    BY <2>1, SMT
  <2> HIDE DEF m
  <2> QED
    BY <2>1, <2>2
<1>2. /\ k * b = m /\ (-k) * b = -m /\ (-k) * (-b) = m /\ k * (-b) = -m
  BY <1>1, SignedProducts
<1>3. /\ roundIntDiv(a, b) = k /\ roundIntDiv(-a, b) = -k
      /\ roundIntDiv(a, -b) = -k /\ roundIntDiv(-a, -b) = k
  BY SignedRounding
<1> HIDE DEF k, m
<1> DEFINE r == IF a - m < 0 THEN -(a - m) ELSE a - m
<1>4. 2 * r <= b /\ (2 * r = b => m > a) /\ r \in Int
  BY <1>1
<1>5. /\ Magnitude(a - m) = r /\ Magnitude((-a) - (-m)) = r
      /\ Magnitude(m) = m /\ Magnitude(-m) = m
      /\ Magnitude(a) = a /\ Magnitude(-a) = a /\ Magnitude(b) = b /\ Magnitude(-b) = b
  BY <1>1 DEF Magnitude
<1> HIDE DEF r
<1>6. IsNearest(a, b)
  BY <1>2, <1>3, <1>4, <1>5, Zenon DEF IsNearest
<1>7. IsNearest(-a, b)
  BY <1>2, <1>3, <1>4, <1>5, Zenon DEF IsNearest
<1>8. IsNearest(a, -b)
  BY <1>2, <1>3, <1>4, <1>5, Zenon DEF IsNearest
<1>9. IsNearest(-a, -b)
  BY <1>2, <1>3, <1>4, <1>5, Zenon DEF IsNearest
<1> QED
  BY <1>6, <1>7, <1>8, <1>9

\* ceilIntDiv() adds to the magnitude where the quotient is positive.
LEMMA SignedCeiling ==
  ASSUME NEW a \in Nat, NEW b \in Nat \ {0}
  PROVE  /\ ceilIntDiv(a, b) = (a + b - 1) \div b
         /\ ceilIntDiv(-a, b) = -(a \div b)
         /\ ceilIntDiv(a, -b) = -(a \div b)
         /\ ceilIntDiv(-a, -b) = (a + b - 1) \div b
<1> DEFINE c == (a + b - 1) \div b
           f == a \div b
<1>1. a + b - 1 \in Nat /\ b - 1 \in Nat /\ b > 0 /\ ~(-b > 0) /\ ~(-a > 0)
  OBVIOUS
<1>2. /\ Quotient(a + b - 1, b) = c /\ Quotient(-(a + b - 1), -b) = c
      /\ Quotient(a, -b) = -f /\ Quotient(-a, b) = -f
  BY <1>1, Quotients
<1>3. c \in Int /\ f \in Int
  BY <1>1, Division
<1>4. (a = 0 => c = 0 /\ f = 0) /\ (b - 1) \div b = 0
  <2>1. ASSUME NEW n \in Nat, n < b PROVE n \div b = 0
    <3>1. n \div b \in Int /\ n % b \in 0..(b - 1) /\ n = b * (n \div b) + (n % b)
      BY Division
    <3>2. n \div b < 1 /\ n \div b > -1
      BY <2>1, <3>1, SMT
    <3> QED
      BY <3>1, <3>2
  <2>2. (b - 1) \div b = 0
    BY <1>1, <2>1
  <2>3. ASSUME a = 0 PROVE c = 0 /\ f = 0
    <3>1. a < b /\ a + b - 1 < b
      BY <2>3
    <3> QED
      BY <1>1, <2>1, <3>1
  <2> QED
    BY <2>2, <2>3
<1> HIDE DEF c, f
<1>5. ceilIntDiv(-a, b) = -f
  <2>1. ceilIntDiv(-a, b) = Quotient(-a + 0, b)
    BY <1>1 DEF ceilIntDiv
  <2>2. -a + 0 = -a
    OBVIOUS
  <2> QED
    BY <1>2, <2>1, <2>2, Zenon
<1>6. ceilIntDiv(-a, -b) = c
  <2>1. ceilIntDiv(-a, -b) = Quotient(-a + (-b + 1), -b)
    BY <1>1 DEF ceilIntDiv
  <2>2. -a + (-b + 1) = -(a + b - 1)
    OBVIOUS
  <2> QED
    BY <1>2, <2>1, <2>2, Zenon
<1>7. CASE a > 0
  <2>1. ceilIntDiv(a, b) = Quotient(a + (b - 1), b)
    <3>1. ~((a > 0) # (b > 0))
      BY <1>1, <1>7, Zenon
    <3> QED
      BY <1>7, <3>1, Zenon DEF ceilIntDiv
  <2>2. ceilIntDiv(a, -b) = Quotient(a + 0, -b)
    BY <1>1, <1>7 DEF ceilIntDiv
  <2>3. a + (b - 1) = a + b - 1 /\ a + 0 = a
    OBVIOUS
  <2>4. ceilIntDiv(a, b) = c /\ ceilIntDiv(a, -b) = -f
    BY <1>2, <2>1, <2>2, <2>3, Zenon
  <2> QED
    BY <1>5, <1>6, <2>4 DEF c, f
<1>8. CASE a = 0
  <2>1. /\ a \in Int /\ a <= 0 /\ a >= 0 /\ c \in Int /\ c <= 0 /\ c >= 0
        /\ f \in Int /\ f <= 0 /\ f >= 0
    BY <1>3, <1>4, <1>8
  <2>2. -a = a /\ -f = f
    BY <2>1, MinusZero, Zenon
  <2>3. c = f
    BY <1>4, <1>8
  <2>4. ceilIntDiv(a, b) = c /\ ceilIntDiv(a, -b) = -f
    BY <1>5, <1>6, <2>2, <2>3, Zenon
  <2> QED
    BY <1>5, <1>6, <2>4 DEF c, f
<1> QED
  BY <1>7, <1>8

LEMMA CeilingBySign ==
  ASSUME NEW a \in Nat, NEW b \in Nat \ {0}
  PROVE  LET Ceils(n, d) == Reaches(ceilIntDiv(n, d), n, d) /\ ~Reaches(ceilIntDiv(n, d) - 1, n, d)
         IN Ceils(a, b) /\ Ceils(-a, b) /\ Ceils(a, -b) /\ Ceils(-a, -b)
<1> DEFINE c == (a + b - 1) \div b
           f == a \div b
           up   == c * b
           down == f * b
<1>1. c \in Int /\ f \in Int /\ up \in Int /\ down \in Int
  <2>1. c \in Int /\ f \in Int
    BY Division
  <2> HIDE DEF c, f
  <2> QED
    BY <2>1
<1>2. down <= a /\ a < down + b /\ a <= up /\ up - b < a
  <2>1. a % b \in 0..(b - 1) /\ a = b * f + (a % b)
    BY Division
  <2> DEFINE n == a + b - 1
  <2>3. n \in Int
    OBVIOUS
  <2> HIDE DEF n
  <2>4. n % b \in 0..(b - 1) /\ n = b * c + (n % b)
    BY <2>3, Division DEF n
  <2>5. n = a + b - 1
    BY DEF n
  <2> HIDE DEF c, f
  <2>2. b * c = up /\ b * f = down
    BY <1>1
  <2> HIDE DEF up, down
  <2> QED
    BY <1>1, <2>1, <2>2, <2>3, <2>4, <2>5
<1>3. /\ c * b = up /\ (c - 1) * b = up - b /\ c * (-b) = -up /\ (c - 1) * (-b) = -(up - b)
      /\ f * b = down /\ (-f) * b = -down /\ (-f - 1) * b = -down - b
      /\ (-f) * (-b) = down /\ (-f - 1) * (-b) = down + b
  <2> HIDE DEF c, f
  <2> QED
    BY <1>1, SMT
<1>4. /\ ceilIntDiv(a, b) = c /\ ceilIntDiv(-a, b) = -f
      /\ ceilIntDiv(a, -b) = -f /\ ceilIntDiv(-a, -b) = c
  BY SignedCeiling
<1> HIDE DEF c, f, up, down
<1>5. Reaches(c, a, b) /\ ~Reaches(c - 1, a, b)
  BY <1>1, <1>2, <1>3 DEF Reaches
<1>6. Reaches(-f, -a, b) /\ ~Reaches(-f - 1, -a, b)
  BY <1>1, <1>2, <1>3 DEF Reaches
<1>7. Reaches(-f, a, -b) /\ ~Reaches(-f - 1, a, -b)
  BY <1>1, <1>2, <1>3 DEF Reaches
<1>8. Reaches(c, -a, -b) /\ ~Reaches(c - 1, -a, -b)
  BY <1>1, <1>2, <1>3 DEF Reaches
<1> QED
  BY <1>4, <1>5, <1>6, <1>7, <1>8, Zenon

LEMMA StaysBelow ==
  ASSUME NEW n \in Nat, n < UintMod
  PROVE  n % UintMod = n
<1>1. UintMod \in Nat \ {0} /\ n \in 0..(UintMod - 1) /\ n = UintMod * 0 + n /\ 0 \in Int /\ n \in Int
  BY NumbersAssumption
<1> QED
  BY <1>1, UniqueRemainder

\* Integers of every size, of any sign, and unsigned numbers of every width:
\* roundIntDiv() (math.hpp:139) is off by at most half the divisor, ties go away from 0;
\* ceilIntDiv() (math.hpp:56) is the least integer not below the quotient.
THEOREM DivisionsRound == NumbersRound
<1> SUFFICES ASSUME arg \in Inputs
             PROVE  RoundsToNearest /\ RoundsUp
  BY DEF NumbersRound
<1>1. arg \in Int
  BY NumbersAssumption
<1> SUFFICES ASSUME NEW d \in Divisors
             PROVE  /\ IsNearest(arg, d)
                    /\ arg >= 0 /\ d > 0 /\ arg + (d \div 2) < UintMod =>
                         roundIntDivOfUint(UintMod, arg, d) = roundIntDiv(arg, d)
                    /\ Reaches(ceilIntDiv(arg, d), arg, d) /\ ~Reaches(ceilIntDiv(arg, d) - 1, arg, d)
                    /\ arg >= 0 /\ d > 0 /\ arg + d - 1 < UintMod =>
                         ceilIntDivOfUint(UintMod, arg, d) = ceilIntDiv(arg, d)
  BY DEF RoundsToNearest, RoundsUp, IsNearest
<1>2. d \in Int /\ d # 0
  BY NumbersAssumption
<1> DEFINE a == Magnitude(arg)
           b == Magnitude(d)
<1>3. a \in Nat /\ (arg = a \/ arg = -a)
  BY <1>1, Signs
<1>4. b \in Nat \ {0} /\ (d = b \/ d = -b)
  <2>1. b # 0
    BY <1>2 DEF Magnitude
  <2> QED
    BY <1>2, <2>1, Signs
<1> HIDE DEF a, b
<1>5. IsNearest(arg, d)
  <2>1. IsNearest(a, b) /\ IsNearest(-a, b) /\ IsNearest(a, -b) /\ IsNearest(-a, -b)
    BY <1>3, <1>4, NearestBySign
  <2> QED
    BY <1>3, <1>4, <2>1, Zenon
<1>6. Reaches(ceilIntDiv(arg, d), arg, d) /\ ~Reaches(ceilIntDiv(arg, d) - 1, arg, d)
  <2> DEFINE Ceils(n, e) == Reaches(ceilIntDiv(n, e), n, e) /\ ~Reaches(ceilIntDiv(n, e) - 1, n, e)
  <2>1. Ceils(a, b) /\ Ceils(-a, b) /\ Ceils(a, -b) /\ Ceils(-a, -b)
    BY <1>3, <1>4, CeilingBySign
  <2>2. Ceils(arg, d)
    <3> HIDE DEF Ceils
    <3> QED
      BY <1>3, <1>4, <2>1, Zenon
  <2> QED
    BY <2>2
<1>7. ASSUME arg >= 0, d > 0, arg + (d \div 2) < UintMod
      PROVE  roundIntDivOfUint(UintMod, arg, d) = roundIntDiv(arg, d)
  <2>1. arg \in Nat /\ d \in Nat \ {0} /\ d \div 2 \in Nat
    BY <1>1, <1>2, <1>7
  <2>2. roundIntDiv(arg, d) = NearestMultiple(arg, d)
    BY <2>1, SignedRounding
  <2>3. (arg + (d \div 2)) % UintMod = arg + (d \div 2)
    BY <1>7, <2>1, StaysBelow
  <2> QED
    BY <2>2, <2>3, Zenon DEF roundIntDivOfUint, NearestMultiple
<1>8. ASSUME arg >= 0, d > 0, arg + d - 1 < UintMod
      PROVE  ceilIntDivOfUint(UintMod, arg, d) = ceilIntDiv(arg, d)
  <2>1. arg \in Nat /\ d \in Nat \ {0} /\ arg + d - 1 \in Nat
    BY <1>1, <1>2, <1>8
  <2>2. ceilIntDiv(arg, d) = (arg + d - 1) \div d
    BY <2>1, SignedCeiling
  <2>3. (arg + d - 1) % UintMod = arg + d - 1
    BY <1>8, <2>1, StaysBelow
  <2> QED
    BY <2>2, <2>3, Zenon DEF ceilIntDivOfUint
<1> QED
  BY <1>5, <1>6, <1>7, <1>8

-----------------------------------------------------------------------------
(* Time *)

LEMMA DifferenceOnUint ==
  ASSUME NEW n \in 0..(UintMod - 1), NEW diff \in Int
  PROVE  LET t == stampPlus(UintMod, n, diff)
         IN /\ t \in 0..(UintMod - 1)
            /\ (t - n) % UintMod = diff % UintMod
            /\ (n - t) % UintMod = (-diff) % UintMod
<1> DEFINE M == UintMod
           t == (n + diff) % M
           q == (n + diff) \div M
<1>1. M \in Nat \ {0} /\ n + diff \in Int /\ n \in Int
  BY NumbersAssumption
<1>2. q \in Int /\ t \in 0..(M - 1) /\ n + diff = M * q + t
  BY <1>1, Division
<1> HIDE DEF M, q
<1>3. ASSUME NEW x \in Int, NEW y \in Int, NEW j \in Int, x = M * j + y
      PROVE  x % M = y % M
  <2>1. y \div M \in Int /\ y % M \in 0..(M - 1) /\ y = M * (y \div M) + (y % M)
    BY <1>1, Division
  <2>2. M * (j + (y \div M)) = M * j + M * (y \div M) /\ j + (y \div M) \in Int
    BY <1>1, <2>1, SMT
  <2>3. x = M * (j + (y \div M)) + (y % M) /\ y % M \in Int
    BY <1>1, <1>3, <2>1, <2>2
  <2> QED
    BY <1>1, <2>1, <2>2, <2>3, UniqueRemainder
<1> HIDE DEF t
<1>4. M * (-q) = -(M * q) /\ -q \in Int /\ M * q \in Int
  BY <1>1, <1>2, SMT
<1>5. t - n \in Int /\ n - t \in Int /\ -diff \in Int
      /\ t - n = M * (-q) + diff /\ n - t = M * q + (-diff)
  BY <1>1, <1>2, <1>4
<1>6. (t - n) % M = diff % M
  BY <1>3, <1>4, <1>5
<1>7. (n - t) % M = (-diff) % M
  BY <1>2, <1>3, <1>5
<1> QED
  BY <1>2, <1>6, <1>7 DEF stampPlus, M, t

\* Stamps of every width: operator< and operator<= of time.hpp order what is less than
\* half the ring apart, as isAtOrAfterInRing() does, and a difference that was added is
\* the difference of the two.
LEMMA StampsInOrder == arg \in Inputs => StampsFollowTheRing
<1> DEFINE M == UintMod
           half == UintMod \div 2
<1>1. M \in Nat \ {0} /\ half \in Nat \ {0} /\ M = 2 * half /\ (M - 1) \div 2 = half - 1
  BY NumbersAssumption, SMT
<1> SUFFICES ASSUME arg \in 0..(M - 1), NEW diff \in (1 - half)..(half - 1)
             PROVE  LET t == stampPlus(M, arg, diff)
                    IN /\ stampLess(M, arg, t) <=> diff > 0
                       /\ stampLess(M, t, arg) <=> diff < 0
                       /\ stampDiff(M, t, arg) = diff
                       /\ \A r \in {t, (arg + half) % M} :
                            stampLessEq(M, arg, r) = Uint!isAtOrAfterInRing(arg, r)
  BY DEF StampsFollowTheRing
<1> DEFINE t == stampPlus(M, arg, diff)
<1>2. diff \in Int /\ t \in 0..(M - 1) /\ (t - arg) % M = diff % M /\ (arg - t) % M = (-diff) % M
  <2>1. diff \in Int
    BY <1>1
  <2> QED
    BY <2>1, DifferenceOnUint
<1> HIDE DEF M, half
<1>3. ASSUME NEW e \in (1 - half)..(half - 1)
      PROVE  e % M = IF e >= 0 THEN e ELSE e + M
  <2>1. CASE e >= 0
    <3>1. e \in 0..(M - 1) /\ e = M * 0 + e /\ e \in Int
      BY <1>1, <2>1
    <3> QED
      BY <1>1, <2>1, <3>1, UniqueRemainder
  <2>2. CASE ~(e >= 0)
    <3>1. e + M \in 0..(M - 1) /\ e = M * (-1) + (e + M) /\ e \in Int /\ e + M \in Int
      BY <1>1, <2>2
    <3> QED
      BY <1>1, <2>2, <3>1, UniqueRemainder
  <2> QED
    BY <2>1, <2>2
<1>4. /\ (t - arg) % M = IF diff >= 0 THEN diff ELSE diff + M
      /\ (arg - t) % M = IF diff <= 0 THEN -diff ELSE M - diff
  <2>1. -diff \in (1 - half)..(half - 1)
    BY <1>1, <1>2
  <2>2. (-diff) % M = IF -diff >= 0 THEN -diff ELSE -diff + M
    BY <1>3, <2>1
  <2> QED
    BY <1>1, <1>2, <1>3, <2>2
<1>5. t = arg => diff = 0
  <2>1. SUFFICES ASSUME t = arg PROVE diff = 0
    OBVIOUS
  <2>2. t - arg = 0 /\ arg - t = 0
    BY <1>2, <2>1
  <2>3. diff % M = (-diff) % M
    BY <1>2, <2>2, Zenon
  <2> QED
    BY <1>1, <1>2, <1>4, <2>3
<1> HIDE DEF t
<1>6. M \div 2 = half
  BY DEF M, half
<1>7. /\ stampLess(M, arg, t) <=> diff > 0
      /\ stampLess(M, t, arg) <=> diff < 0
  <2> DEFINE F == (t - arg) % M
             B == (arg - t) % M
  <2>1. /\ F = IF diff >= 0 THEN diff ELSE diff + M
        /\ B = IF diff <= 0 THEN -diff ELSE M - diff
    BY <1>4
  <2>2. stampLess(M, arg, t) <=> t # arg /\ F < half
    BY <1>6 DEF stampLess
  <2>3. stampLess(M, t, arg) <=> t # arg /\ B < half
    BY <1>6 DEF stampLess
  <2>4. diff = 0 => ~(F > 0) /\ ~(B > 0)
    BY <2>1
  <2> HIDE DEF F, B
  <2>5. diff = 0 => t = arg
    BY <1>1, <1>2 DEF t, stampPlus, M
  <2> QED
    BY <1>1, <1>2, <1>5, <2>1, <2>2, <2>3, <2>5
<1>8. stampDiff(M, t, arg) = diff
  <2> DEFINE F == (t - arg) % M
  <2>1. F = IF diff >= 0 THEN diff ELSE diff + M
    BY <1>4
  <2>2. stampDiff(M, t, arg) = IF F >= half THEN F - M ELSE F
    BY <1>6 DEF stampDiff
  <2> HIDE DEF F
  <2> QED
    BY <1>1, <1>2, <2>1, <2>2
<1>9. ASSUME NEW r \in Int
      PROVE  stampLessEq(M, arg, r) = Uint!isAtOrAfterInRing(arg, r)
  <2> DEFINE F == (r - arg) % M
  <2>1. stampLessEq(M, arg, r) = (F < half)
    BY <1>6 DEF stampLessEq
  <2>2. Uint!isAtOrAfterInRing(arg, r) = (F <= half - 1)
    BY <1>1 DEF Uint!isAtOrAfterInRing, Uint!Forward, Uint!kHalfValueRangeMinusOne, M
  <2>3. F \in Int
    BY <1>1, Division
  <2> HIDE DEF F
  <2> QED
    BY <1>1, <2>1, <2>2, <2>3
<1>10. t \in Int /\ (arg + half) % M \in Int
  <2>1. arg + half \in Int
    BY <1>1
  <2> QED
    BY <1>1, <1>2, <2>1, Division
<1> QED
  BY <1>7, <1>8, <1>9, <1>10 DEF t

LEMMA ProductGrows ==
  ASSUME NEW j \in Nat, NEW n \in Nat, NEW v \in Nat, n <= v
  PROVE  j * n <= j * v
<1>1. v - n \in Nat /\ v = n + (v - n)
  OBVIOUS
<1> DEFINE w == v - n
<1>2. j * (n + w) = j * n + j * w /\ j * w \in Nat
  <2>1. w \in Nat
    BY <1>1
  <2> HIDE DEF w
  <2> QED
    BY <2>1, SMT
<1>3. j * v = j * n + j * w
  BY <1>1, <1>2
<1> HIDE DEF w
<1> QED
  BY <1>2, <1>3

LEMMA NearestOfMultiple ==
  ASSUME NEW k \in Nat, NEW b \in Nat \ {0}
  PROVE  NearestMultiple(k * b, b) = k
<1> DEFINE j == NearestMultiple(k * b, b)
<1>1. k * b \in Nat
  BY SMT
<1>2. j \in Nat /\ -b <= 2 * (k * b - j * b) /\ 2 * (k * b - j * b) <= b
  BY <1>1, Nearest
<1> HIDE DEF j
<1>3. ASSUME j >= k + 1 PROVE FALSE
  <2>1. j * b >= k * b + b
    BY <1>2, <1>3, SMT
  <2>2. j * b \in Int
    BY <1>2
  <2> QED
    BY <1>1, <1>2, <2>1, <2>2
<1>4. ASSUME k >= j + 1 PROVE FALSE
  <2>1. k * b >= j * b + b
    BY <1>2, <1>4, SMT
  <2>2. j * b \in Int
    BY <1>2
  <2> QED
    BY <1>1, <1>2, <2>1, <2>2
<1> QED
  BY <1>2, <1>3, <1>4 DEF j

\* A number that fits its type does not wrap.
LEMMA FittingStays ==
  ASSUME NEW n \in Nat, Fits(n)
  PROVE  Wrapped(n) = n
<1> DEFINE half == IntMod \div 2
<1>1. IntMod = 2 * half /\ half \in Nat \ {0}
  BY NumbersAssumption
<1>2. n + half \in 0..(IntMod - 1)
  BY <1>1 DEF Fits
<1> HIDE DEF half
<1>3. (n + half) % IntMod = n + half
  BY <1>1, <1>2
<1> QED
  BY <1>1, <1>3 DEF Wrapped, half

\* The conversions round a multiple, a divisor, and the quotient of the two.
LEMMA ConversionsRound ==
  ASSUME NEW time \in Nat, NEW ticks \in Nat \ {0}, NEW perSecond \in Nat \ {0}, ticks >= perSecond,
         StaysInRange(perSecond, ticks, time)
  PROVE  LET elapsed == NearestMultiple(time * ticks, perSecond)
             divisor == NearestMultiple(ticks, perSecond)
         IN /\ elapsed \in Nat /\ divisor \in Nat \ {0}
            /\ toUnits(perSecond, fromUnits(perSecond, time, ticks), ticks)
                 = NearestMultiple(elapsed, divisor)
<1> DEFINE elapsed == NearestMultiple(time * ticks, perSecond)
           divisor == NearestMultiple(ticks, perSecond)
           h == perSecond \div 2
<1>1. time * ticks \in Nat
  BY SMT
<1>2. elapsed \in Nat
  BY <1>1, Nearest
<1>3. divisor \in Nat \ {0}
  <2>1. divisor \in Nat /\ 2 * (ticks - divisor * perSecond) <= perSecond
    BY Nearest
  <2> HIDE DEF divisor
  <2>2. ASSUME divisor = 0 PROVE FALSE
    <3>1. divisor * perSecond = 0
      BY <2>2
    <3> QED
      BY <2>1, <3>1
  <2> QED
    BY <2>1, <2>2
<1>4. h \in Nat /\ halfOf(perSecond) = h
  BY SMT DEF halfOf
<1>5. fromUnits(perSecond, time, ticks) = elapsed
  <2>2. time * ticks + h \in Nat
    BY <1>1, <1>4
  <2>4. Wrapped(time * ticks + h) = time * ticks + h
    <3>1. Fits(time * ticks + h)
      BY <1>4, Zenon DEF StaysInRange
    <3> QED
      BY <2>2, <3>1, FittingStays
  <2>1. fromUnits(perSecond, time, ticks) = Quotient(time * ticks + h, perSecond)
    BY <1>4, <2>4, Zenon DEF fromUnits
  <2>3. Quotient(time * ticks + h, perSecond) = (time * ticks + h) \div perSecond
    BY <2>2, Quotients
  <2> QED
    BY <2>1, <2>3, Zenon DEF NearestMultiple
<1>6. toUnits(perSecond, elapsed, ticks) = NearestMultiple(elapsed, divisor)
  <2>1. divisor = (ticks + h) \div perSecond
    BY DEF NearestMultiple
  <2>5. Fits(ticks + h) /\ Fits(elapsed + (divisor \div 2))
    BY <1>4, <1>5, <2>1, Zenon DEF StaysInRange
  <2> HIDE DEF elapsed, divisor
  <2>6. Quotient(Wrapped(ticks + h), perSecond) = divisor
    <3>1. ticks + h \in Nat
      BY <1>4
    <3>2. Wrapped(ticks + h) = ticks + h
      BY <2>5, <3>1, FittingStays
    <3>3. Quotient(ticks + h, perSecond) = (ticks + h) \div perSecond
      BY <3>1, Quotients
    <3> QED
      BY <2>1, <3>2, <3>3, Zenon
  <2>3. elapsed + (divisor \div 2) \in Nat
    BY <1>2, <1>3
  <2>7. Quotient(divisor, 2) = divisor \div 2
    BY <1>3, Quotients
  <2>8. Wrapped(elapsed + (divisor \div 2)) = elapsed + (divisor \div 2)
    BY <2>3, <2>5, FittingStays
  <2>2. toUnits(perSecond, elapsed, ticks) = Quotient(elapsed + (divisor \div 2), divisor)
    BY <1>4, <2>6, <2>7, <2>8, Zenon DEF toUnits
  <2>4. Quotient(elapsed + (divisor \div 2), divisor) = (elapsed + (divisor \div 2)) \div divisor
    BY <1>3, <2>3, Quotients
  <2> QED
    BY <2>2, <2>4, Zenon DEF NearestMultiple
<1> QED
  BY <1>2, <1>3, <1>5, <1>6, Zenon

\* The errors of the three roundings add up to less than one unit and the error of the divisor.
LEMMA ErrorOfRoundTrip ==
  ASSUME NEW x \in Nat, NEW t \in Nat \ {0}, NEW p \in Nat \ {0}, t >= p,
         NEW D \in Nat, NEW d \in Nat \ {0}, NEW again \in Nat, NEW e \in Nat \ {0},
         e = again - x \/ e = x - again,
         -p <= 2 * (x * t - D * p), 2 * (x * t - D * p) <= p,
         -p <= 2 * (t - d * p), 2 * (t - d * p) <= p,
         -d <= 2 * (D - again * d), 2 * (D - again * d) <= d
  PROVE  e <= 1 + ((x * p) \div (2 * t - p))
<1> DEFINE r1 == x * t - D * p
           r2 == t - d * p
           r3 == D - again * d
           n  == 2 * t - p
<1>1. /\ r1 \in Int /\ r2 \in Int /\ r3 \in Int /\ n \in Nat \ {0}
      /\ x * p \in Nat /\ d * p \in Nat /\ p * d \in Nat
  BY SMT
<1>2. 2 * (d * p * e) <= p + p * d + x * p
  <2> DEFINE s == p * r3
             u == x * r2
  <2>1. /\ -(p * d) <= 2 * s /\ 2 * s <= p * d /\ s \in Int
    BY <1>1, SMT
  <2>2. /\ -(x * p) <= 2 * u /\ 2 * u <= x * p /\ u \in Int
    BY <1>1, SMT
  <2>3. /\ s = D * p - d * p * again
        /\ u = x * t - d * p * x
    BY SMT
  <2>4. /\ d * p * (again - x) = d * p * again - d * p * x
        /\ d * p * (x - again) = d * p * x - d * p * again
        /\ d * p * again \in Int /\ d * p * x \in Int /\ D * p \in Int /\ x * t \in Int
    BY SMT
  <2>5. /\ 2 * (d * p * (again - x)) = 2 * u - 2 * r1 - 2 * s
        /\ 2 * (d * p * (x - again)) = 2 * r1 + 2 * s - 2 * u
    BY <2>1, <2>2, <2>3, <2>4
  <2>6. /\ 2 * (d * p * (again - x)) <= p + p * d + x * p
        /\ 2 * (d * p * (x - again)) <= p + p * d + x * p
    <3>1. -p <= 2 * r1 /\ 2 * r1 <= p
      OBVIOUS
    <3> HIDE DEF r1, s, u
    <3> QED
      BY <1>1, <2>1, <2>2, <2>5, <3>1
  <2> QED
    BY <2>6
<1>3. 2 * (d * (e - 1)) <= x
  <2>1. p * (2 * (d * e)) <= p * (1 + d + x)
    <3>1. p * (2 * (d * e)) = 2 * (d * p * e) /\ p * (1 + d + x) = p + p * d + x * p
      BY SMT
    <3> QED
      BY <1>2, <3>1
  <2>2. d * e \in Nat
    BY SMT
  <2>3. 2 * (d * e) <= 1 + d + x
    <3> DEFINE v == 2 * (d * e)
               w == 1 + d + x
    <3>1. v \in Int /\ w \in Int
      BY <2>2
    <3> HIDE DEF v, w
    <3>2. SUFFICES ASSUME v >= w + 1 PROVE FALSE
      BY <3>1 DEF v, w
    <3>3. p * v >= p * w + p
      BY <3>1, <3>2, SMT
    <3>4. p * v <= p * w
      BY <2>1 DEF v, w
    <3> QED
      BY <3>1, <3>3, <3>4
  <2>4. d * (e - 1) = d * e - d
    BY SMT
  <2> QED
    BY <2>2, <2>3, <2>4
<1>4. (e - 1) * n <= x * p
  <2>1. n <= 2 * (d * p)
    BY <1>1
  <2>2. (e - 1) * n <= (e - 1) * (2 * (d * p))
    <3> DEFINE j == e - 1
               v == 2 * (d * p)
    <3> HIDE DEF n
    <3> SUFFICES j * n <= j * v
      OBVIOUS
    <3>1. j \in Nat /\ v \in Nat /\ n <= v
      BY <1>1, <2>1
    <3> HIDE DEF j, v
    <3>2. n \in Nat
      BY <1>1
    <3> QED
      BY <3>1, <3>2, ProductGrows
  <2>3. (e - 1) * (2 * (d * p)) = p * (2 * (d * (e - 1)))
    <3>1. ASSUME NEW j \in Int PROVE j * (2 * (d * p)) = p * (2 * (d * j))
      BY SMT
    <3> DEFINE j == e - 1
    <3>2. j \in Int
      OBVIOUS
    <3> HIDE DEF j
    <3>3. j * (2 * (d * p)) = p * (2 * (d * j))
      BY <3>1, <3>2
    <3> QED
      BY <3>3, Zenon DEF j
  <2>4. p * (2 * (d * (e - 1))) <= p * x
    <3> DEFINE v == 2 * (d * (e - 1))
    <3>1. v \in Int /\ v <= x
      <4>1. d * (e - 1) \in Int
        BY SMT
      <4> QED
        BY <1>3, <4>1
    <3> HIDE DEF v
    <3>2. p * v <= p * x
      BY <3>1, SMT
    <3> QED
      BY <3>2 DEF v
  <2>5. p * x = x * p
    BY SMT
  <2>6. /\ (e - 1) * n \in Int /\ (e - 1) * (2 * (d * p)) \in Int
        /\ p * (2 * (d * (e - 1))) \in Int
    BY <1>1, SMT
  <2> QED
    BY <1>1, <2>2, <2>3, <2>4, <2>5, <2>6
<1> HIDE DEF n
<1>5. (x * p) \div n \in Int /\ (x * p) % n \in 0..(n - 1) /\ x * p = n * ((x * p) \div n) + ((x * p) % n)
  BY <1>1, Division
<1>6. e - 1 <= (x * p) \div n
  <2> DEFINE q == (x * p) \div n
  <2>1. SUFFICES ASSUME e - 1 >= q + 1 PROVE FALSE
    BY <1>5
  <2> HIDE DEF q
  <2>2. q \in Int
    BY <1>5 DEF q
  <2>3. (e - 1) * n >= n * q + n /\ n * q \in Int /\ (e - 1) * n \in Int
    <3> DEFINE j == e - 1
    <3>1. j \in Int /\ j >= q + 1
      BY <2>1
    <3> HIDE DEF j
    <3>2. j * n >= n * q + n
      BY <1>1, <2>2, <3>1, SMT
    <3>3. n * q \in Int /\ j * n \in Int
      BY <1>1, <2>2, <3>1
    <3> QED
      BY <3>2, <3>3, Zenon DEF j
  <2>4. x * p < n * q + n
    BY <1>1, <1>5, <2>3 DEF q
  <2> QED
    BY <1>1, <1>4, <2>3, <2>4
<1> QED
  BY <1>5, <1>6 DEF n

\* Any rate of ticks and any unit that is not shorter than a tick: a time that is not
\* negative and whose products fit int64_t comes back from tscDiffFromUs() and toUs() (time.cpp:141, :165) as it was, or
\* with the error of the rounded divisor.
LEMMA TimesComeBack ==
  ASSUME NEW time \in Nat, NEW ticks \in Nat \ {0}, NEW perSecond \in Nat \ {0}, ticks >= perSecond,
         StaysInRange(perSecond, ticks, time)
  PROVE  ComesBack(perSecond, ticks, time)
<1> DEFINE elapsed == NearestMultiple(time * ticks, perSecond)
           divisor == NearestMultiple(ticks, perSecond)
           again    == NearestMultiple(elapsed, divisor)
<1>1. elapsed \in Nat /\ divisor \in Nat \ {0}
  BY ConversionsRound
<1>2. toUnits(perSecond, fromUnits(perSecond, time, ticks), ticks) = again
  BY ConversionsRound
<1>3. ASSUME ticks % perSecond = 0 PROVE again = time
  <2> DEFINE m == ticks \div perSecond
  <2>1. m \in Int /\ ticks = perSecond * m
    BY <1>3, Division
  <2> HIDE DEF m
  <2>2. m \in Nat \ {0}
    <3>1. SUFFICES ASSUME m <= 0 PROVE FALSE
      BY <2>1
    <3>2. perSecond * m <= 0
      BY <2>1, <3>1, SMT
    <3> QED
      BY <2>1, <3>2
  <2>3. ticks = m * perSecond /\ time * ticks = (time * m) * perSecond /\ time * m \in Nat
    BY <2>1, <2>2, SMT
  <2>4. divisor = m /\ elapsed = time * m
    BY <2>2, <2>3, NearestOfMultiple
  <2> HIDE DEF divisor, elapsed
  <2>5. NearestMultiple(time * m, m) = time
    BY <2>2, NearestOfMultiple
  <2> QED
    BY <2>4, <2>5, Zenon
<1>4. Magnitude(again - time) <= 1 + ((time * perSecond) \div (2 * ticks - perSecond))
  <2>1. time * ticks \in Nat
    BY SMT
  <2>2. /\ -perSecond <= 2 * (time * ticks - elapsed * perSecond)
        /\ 2 * (time * ticks - elapsed * perSecond) <= perSecond
    BY <2>1, Nearest
  <2>3. /\ -perSecond <= 2 * (ticks - divisor * perSecond)
        /\ 2 * (ticks - divisor * perSecond) <= perSecond
    BY Nearest
  <2> HIDE DEF elapsed, divisor
  <2>4. again \in Nat /\ -divisor <= 2 * (elapsed - again * divisor)
        /\ 2 * (elapsed - again * divisor) <= divisor
    BY <1>1, Nearest
  <2> HIDE DEF again
  <2> DEFINE e == Magnitude(again - time)
  <2>5. e \in Nat /\ (e = again - time \/ e = time - again)
    BY <2>4 DEF Magnitude
  <2>6. CASE e = 0
    <3>1. time * perSecond \in Nat /\ 2 * ticks - perSecond \in Nat \ {0}
      BY SMT
    <3> DEFINE v == time * perSecond
               n == 2 * ticks - perSecond
    <3> HIDE DEF v, n
    <3>2. v \in Nat /\ n \in Nat \ {0}
      BY <3>1 DEF v, n
    <3>3. v \div n >= 0 /\ v \div n \in Int
      BY <3>2, SMT
    <3> QED
      BY <2>6, <3>3 DEF v, n
  <2>7. CASE e # 0
    <3> HIDE DEF e
    <3>1. e \in Nat \ {0}
      BY <2>5, <2>7
    <3>2. e <= 1 + ((time * perSecond) \div (2 * ticks - perSecond))
      BY <1>1, <2>2, <2>3, <2>4, <2>5, <3>1, ErrorOfRoundTrip
    <3> QED
      BY <3>2 DEF e
  <2> QED
    BY <2>6, <2>7
<1> HIDE DEF again
<1> QED
  BY <1>2, <1>3, <1>4, Zenon DEF ComesBack

\* Stamps of every width, any rate of ticks: stamps are ordered on their ring as the
\* differences that were added to them (time.hpp:127-168), and times whose products fit
\* int64_t survive the conversion to ticks and back (time.cpp:131-169).
THEOREM TimeIsKept == TimeFollowsTheRing
<1> SUFFICES ASSUME arg \in Inputs
             PROVE  StampsFollowTheRing /\ TimeComesBack
  BY DEF TimeFollowsTheRing
<1>1. StampsFollowTheRing
  BY StampsInOrder
<1>2. TimeComesBack
  <2> SUFFICES ASSUME arg >= 0, NEW ticks \in TickRates, NEW perSecond \in {1, 1000, 1000000},
                      ticks >= perSecond, StaysInRange(perSecond, ticks, arg)
               PROVE  ComesBack(perSecond, ticks, arg)
    BY DEF TimeComesBack
  <2>1. arg \in Nat /\ ticks \in Nat \ {0} /\ perSecond \in Nat \ {0}
    BY NumbersAssumption
  <2> QED
    BY <2>1, TimesComeBack
<1> QED
  BY <1>1, <1>2
=============================================================================
