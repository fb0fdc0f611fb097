---------------------------- MODULE LocalMaxima ----------------------------
(***************************************************************************)
(* SlidingWindowLocalMaximaFinder (src/dsp/peakfinder.hpp): the maximum of *)
(* a sliding window from a queue of candidates, oldest and largest first.  *)
(* "added" and "returned" record what add() was given and returned last.   *)
(***************************************************************************)
EXTENDS DequeLoops

CONSTANTS SizeMod,       \* 2^w: the number of values of size_t
          Samples,       \* the values that are added
          ValueMin,      \* numeric_limits<Value>::min()
          mWindowSize,
          MaxSamples     \* bound: length of the stream

SizeT == INSTANCE RingMath WITH PosMod <- SizeMod

\* "V1_ASSERT(windowSize > 0U)"
ASSUME MaximaAssumption == /\ SizeMod \in Nat /\ mWindowSize \in 1..(SizeMod - 1)
                           /\ Samples \subseteq Int /\ MaxSamples \in Nat

VARIABLES mInitialElementsRead, mCurrentSamplePos, mMaximumCandidates,
          added, returned

maximaVars == <<mInitialElementsRead, mCurrentSamplePos, mMaximumCandidates, added, returned>>

MaximaInit == /\ mInitialElementsRead = 0
              /\ mCurrentSamplePos = 0
              /\ mMaximumCandidates = << >>
              /\ added = << >>
              /\ returned = ValueMin

steady == mInitialElementsRead >= mWindowSize

\* (mutant of Recent: a candidate leaves one sample too late)
RecentTooLong ==
  IF ~steady THEN mMaximumCandidates
  ELSE PopFrontWhile(mMaximumCandidates,
                     LAMBDA e : SizeT!Forward(mCurrentSamplePos, e.samplePos) > mWindowSize)

\* the candidates that stay in the window, and those that value does not dominate
Recent ==
  IF ~steady THEN mMaximumCandidates
  ELSE PopFrontWhile(mMaximumCandidates,
                     LAMBDA e : SizeT!Forward(mCurrentSamplePos, e.samplePos) >= mWindowSize)
Dominating(value) == PopBackWhile(Recent, LAMBDA e : e.value <= value)

add(value) ==
  /\ Len(added) < MaxSamples
  /\ returned' = IF steady THEN Head(mMaximumCandidates).value ELSE ValueMin
  /\ mInitialElementsRead' = IF steady THEN mInitialElementsRead ELSE mInitialElementsRead + 1
  /\ mMaximumCandidates' = Append(Dominating(value),
                                  [samplePos |-> mCurrentSamplePos, value |-> value])
  /\ mCurrentSamplePos' = SizeT!Advance(mCurrentSamplePos, 1)
  /\ added' = Append(added, value)

finalize == IF mMaximumCandidates = << >> THEN ValueMin ELSE Head(mMaximumCandidates).value

MaximaNext == \E value \in Samples : add(value)

MaximaSpec == MaximaInit /\ [][MaximaNext]_maximaVars

-----------------------------------------------------------------------------
(* Properties *)

\* the largest of the (up to) mWindowSize samples that end with the n-th one
WindowMaximum(n) ==
  Max({added[i] : i \in {j \in 1..n : j > n - mWindowSize}})

\* "Transform an input sequence to a sequence of windowed maxima" (peakfinder.hpp:190):
\* every full window yields its maximum with the next add(), the last one with
\* finalize(), also when sample positions roll over.
ReturnsWindowMaximum ==
  /\ Len(added) > mWindowSize => returned = WindowMaximum(Len(added) - 1)
  /\ added # << >> => finalize = WindowMaximum(Len(added))

\* The queue of mWindowSize candidates never overflows.
NeverOverflows == Len(mMaximumCandidates) <= mWindowSize
=============================================================================
