---------------------------- MODULE RingIterator ----------------------------
(***************************************************************************)
(* RingIterator (src/container/ringbuffer.hpp) walks over a container of   *)
(* mSize elements as over a ring.  mIter is an offset from mBegin.  It is  *)
(* kept twice: stepwise by ++ and --, and from mOffset by += and -=.       *)
(***************************************************************************)
EXTENDS Integers

CONSTANTS mSize,       \* the size of the container
          MaxOffset,   \* bound: int64_t, which mOffset must not exceed
          MaxDistance  \* bound: the argument of += and -=

ASSUME IteratorAssumption == /\ mSize \in Nat \ {0}
                             /\ MaxOffset \in Nat /\ MaxDistance \in Nat

VARIABLES mOffset, mIter

iterVars == <<mOffset, mIter>>

IterInit == mOffset = 0 /\ mIter = 0

Offsets == (-MaxOffset)..MaxOffset

\* the remainder of C++, which has the sign of the dividend
Remainder(a, n) == IF a >= 0 THEN a % n ELSE -((-a) % n)

Increment ==
  /\ mOffset + 1 \in Offsets
  /\ mOffset' = mOffset + 1
  /\ mIter' = IF mIter + 1 = mSize THEN 0 ELSE mIter + 1

Decrement ==
  /\ mOffset - 1 \in Offsets
  /\ mOffset' = mOffset - 1
  /\ mIter' = (IF mIter = 0 THEN mSize ELSE mIter) - 1

\* (mutant of At: a multiple of mSize below 0 counts as below 0, too)
AtOrEnd(offset) == LET simpleDistance == Remainder(offset, mSize)
                   IN IF offset < 0 THEN mSize + simpleDistance ELSE simpleDistance

At(offset) == LET simpleDistance == Remainder(offset, mSize)
              IN IF simpleDistance < 0 THEN mSize + simpleDistance ELSE simpleDistance

\* += and, with the negative distance, -=
Add(distance) ==
  /\ mOffset + distance \in Offsets
  /\ mOffset' = mOffset + distance
  /\ mIter' = At(mOffset + distance)

IterNext == \/ Increment
            \/ Decrement
            \/ \E distance \in (-MaxDistance)..MaxDistance : Add(distance)

IterSpec == IterInit /\ [][IterNext]_iterVars

-----------------------------------------------------------------------------
(* Properties *)

\* "you can walk indefinitely into both directions (until int64_t is exceeded),
\* without hitting the end" (ringbuffer.hpp:225-226): however an iterator was moved,
\* it points to the element its offset stands for, so that iterators which ==
\* finds equal, by their offsets alone, point to the same element.
OffsetDeterminesElement == mIter = mOffset % mSize
=============================================================================
