---------------------------- MODULE PeakDetector ----------------------------
(***************************************************************************)
(* StreamingPeakDetector (src/dsp/peakfinder.hpp): what one sample does to *)
(* the plateau that the last ones form, and the raw peaks it makes the     *)
(* detector report.  process() stores both members behind its loop, so     *)
(* that cutting the stream into blocks makes no difference here.           *)
(***************************************************************************)
EXTENDS RingMath, Sequences

CONSTANTS maxPlateauSize,
          ValueMin, ValueMax  \* the limits of numeric_limits<Value>

VARIABLES peakThreshold,      \* the argument of process()
          mLastValue, mCurrentPlateauSize

\* max(n, n + 1), which is the former where the latter rolls over to 0
mTooBigPlateauSize == IF Advance(maxPlateauSize, 1) = 0 THEN maxPlateauSize ELSE maxPlateauSize + 1
kFirstSamplePlateauSizeMarker == PosMod - 1   \* ~size_t(0)

DetectorInit == mLastValue = ValueMax /\ mCurrentPlateauSize = kFirstSamplePlateauSizeMarker

Raw(pos, value, type) == [pos |-> pos, value |-> value, type |-> type]

IsPlateau(size) == 0 < size /\ size < mTooBigPlateauSize

\* (mutant of PlateauAfter: a plateau that grew too long keeps growing)
PlateauAfterUncapped(sample) ==
  CASE mLastValue < sample -> 1
    [] mLastValue = sample -> IF mCurrentPlateauSize > 0
                              THEN mCurrentPlateauSize + 1 ELSE mCurrentPlateauSize
    [] mLastValue > sample -> 0

PlateauAfter(sample) ==
  CASE mLastValue < sample -> 1
    [] mLastValue = sample -> IF IsPlateau(mCurrentPlateauSize)
                              THEN mCurrentPlateauSize + 1 ELSE mCurrentPlateauSize
    [] mLastValue > sample -> 0

Detect(sample) == mLastValue' = sample /\ mCurrentPlateauSize' = PlateauAfter(sample)

RisingEdge(pos, sample) ==
  IF sample >= peakThreshold THEN <<Raw(pos, sample, "kRising")>> ELSE << >>

\* (mutant of FallingEdge: the lockout distance counts from a plateau's middle)
FallingEdgeFromMiddle(pos) ==
  IF mLastValue < peakThreshold THEN << >>
  ELSE IF IsPlateau(mCurrentPlateauSize)
  THEN <<Raw(Forward(pos, mCurrentPlateauSize \div 2 + 1), mLastValue, "kPeak")>>
  ELSE IF mCurrentPlateauSize # kFirstSamplePlateauSizeMarker
  THEN <<Raw(Forward(pos, 1), mLastValue, "kFalling")>> ELSE << >>

\* (mutant of FallingEdge: the position of a peak is one too late)
FallingEdgeLate(pos) ==
  IF mLastValue < peakThreshold THEN << >>
  ELSE IF IsPlateau(mCurrentPlateauSize)
  THEN <<Raw(Forward(pos, mCurrentPlateauSize \div 2), mLastValue, "kPeak")>>
  ELSE IF mCurrentPlateauSize # kFirstSamplePlateauSizeMarker
  THEN <<Raw(Forward(pos, 1), mLastValue, "kFalling")>> ELSE << >>

\* The lockout distance counts from the end of a plateau, not from its middle.
FallingEdge(pos) ==
  LET rightHalfSize == mCurrentPlateauSize \div 2
      end           == Raw(Forward(pos, 1), mLastValue, "kFalling")
  IN IF mLastValue < peakThreshold THEN << >>
     ELSE IF IsPlateau(mCurrentPlateauSize)
     THEN <<Raw(Forward(pos, rightHalfSize + 1), mLastValue, "kPeak")>>
          \o (IF rightHalfSize > 0 THEN <<end>> ELSE << >>)
     ELSE IF mCurrentPlateauSize # kFirstSamplePlateauSizeMarker THEN <<end>> ELSE << >>

\* what the sample at pos makes the detector report
RawPeaks(pos, sample) == CASE mLastValue < sample -> RisingEdge(pos, sample)
                           [] mLastValue = sample -> << >>
                           [] mLastValue > sample -> FallingEdge(pos)

currentPlateauSize == IF mCurrentPlateauSize >= mTooBigPlateauSize
                      THEN 0 ELSE mCurrentPlateauSize
currentPlateauValue == IF currentPlateauSize > 0 THEN mLastValue ELSE ValueMin
=============================================================================
