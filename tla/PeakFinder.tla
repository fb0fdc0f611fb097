----------------------------- MODULE PeakFinder -----------------------------
(***************************************************************************)
(* StreamingPeakFinder (src/dsp/peakfinder.hpp): the detector turns a      *)
(* stream of samples into raw peaks, the isolator filters them.  process() *)
(* is one Sample step per sample of the block and one EndBlock step for    *)
(* what it does behind the loop, so that the stream is cut into blocks in  *)
(* every possible way.  Stream positions are unsigned and wrap at PosMod.  *)
(***************************************************************************)
EXTENDS PeakIsolator, FiniteSets

CONSTANTS Value,       \* the samples
          ValueMax,    \* numeric_limits<Value>::max()
          Thresholds,  \* the peakThreshold arguments
          StartPos,    \* streamPosAtStart of the first block
          MaxSamples,  \* bound: length of the stream
          MaxBlock     \* bound: samples per call of process()

\* what the program must guarantee
StreamAssumption == /\ WindowAssumption /\ PosModAssumption
                    /\ Value \subseteq Int /\ Thresholds \subseteq Int
                    /\ ValueMax \in Int /\ \A v \in Value : v <= ValueMax
                    /\ StartPos \in Pos /\ MaxSamples \in Nat /\ MaxBlock \in Nat

VARIABLES
  stream,               \* every sample so far
  peakThreshold,
  blockSize,            \* samples of the block process() is in, 0 outside it
  mIsSubsequentBlock,
  mLastValue, mCurrentPlateauSize,  \* the detector
  isolator

vars == <<stream, peakThreshold, blockSize, mIsSubsequentBlock,
          mLastValue, mCurrentPlateauSize, isolator>>

Detector == INSTANCE PeakDetector WITH maxPlateauSize <- patternSize - 2

streamPos == Advance(StartPos, Len(stream))

Init == /\ stream = << >>
        /\ peakThreshold \in Thresholds
        /\ blockSize = 0 /\ mIsSubsequentBlock = FALSE
        /\ Detector!DetectorInit
        /\ isolator = NewIsolator

-----------------------------------------------------------------------------
(* The finder *)

MaxRawPeakDelay == (patternSize - 2) + 1

Sample(sample) ==
  LET started  == IF mIsSubsequentBlock THEN isolator
                  ELSE addLockoutForInitialValue(isolator, streamPos, sample)
      peaks    == Detector!RawPeaks(streamPos, sample)
      inTime   == \A i \in DOMAIN peaks : Forward(streamPos, peaks[i].pos) <= MaxRawPeakDelay
      \* process() asserts, for the end of the block, what holds for its every sample
      finished == FoldLeft(onRawPeakEvent, started, peaks)
  IN /\ Len(stream) < MaxSamples /\ blockSize < MaxBlock
     /\ blockSize' = blockSize + 1 /\ mIsSubsequentBlock' = TRUE
     /\ stream' = Append(stream, sample)
     /\ Detector!Detect(sample)
     /\ isolator' = [finished EXCEPT !.ok = @ /\ inTime]
     /\ UNCHANGED peakThreshold

\* (mutant of peakDetectorDelay: the plateau that still grows is forgotten)
peakDetectorDelayOfSamples == 1

\* In addition to the detector's delay of one sample, a plateau may still grow.
peakDetectorDelay ==
  1 + IF Detector!currentPlateauValue > youngestValue(isolator.right)
      THEN Detector!currentPlateauSize ELSE 0

EndBlock ==
  /\ blockSize > 0
  /\ blockSize' = 0
  /\ isolator' = purgeUpUntil(isolator, Forward(streamPos, peakDetectorDelay))
  /\ UNCHANGED <<stream, peakThreshold, mIsSubsequentBlock, mLastValue, mCurrentPlateauSize>>

Next == (\E sample \in Value : Sample(sample)) \/ EndBlock

Spec == Init /\ [][Next]_vars

-----------------------------------------------------------------------------
(* The reference: ReferenceStreamingPeakFinder of src/dsp/tst_peakfinder.cpp *)

\* findPeak() on s[begin..end]: the middle of the first plateau of largest
\* elements if it touches neither end, and 0 for iEnd
findPeak(s, begin, end) ==
  LET max       == CHOOSE v \in {s[i] : i \in begin..end} : \A i \in begin..end : s[i] <= v
      leftEdge  == Min({i \in begin..end : s[i] = max})
      rightEdge == Max({i \in leftEdge..end : \A j \in leftEdge..i : s[j] = max})
  IN IF leftEdge = begin \/ rightEdge = end THEN 0
     ELSE leftEdge + (rightEdge - leftEdge) \div 2

isPlateauTooLong(s, peak, begin, end, maxPlateauSize) ==
  Cardinality({i \in begin..end : \A j \in (i..peak) \cup (peak..i) : s[j] = s[peak]})
    > maxPlateauSize

\* the peaks of s, which are decided when W samples follow them
ReferencePeaks(s) ==
  {p \in 1..(Len(s) - W) :
     LET begin == Max({1, p - W})
         end   == p + W
     IN /\ findPeak(s, begin, end) = p
        /\ ~isPlateauTooLong(s, p, begin, end, 2 * W - 1)
        /\ s[p] >= peakThreshold}

-----------------------------------------------------------------------------
(* Properties *)

Index(pos) == Forward(pos, StartPos) + 1
FoundPeaks == {Index(isolator.found[i].pos) : i \in DOMAIN isolator.found}

TypeOK == /\ stream \in Seq(Value) /\ Len(stream) <= MaxSamples
          /\ blockSize \in 0..MaxBlock /\ mIsSubsequentBlock \in BOOLEAN
          /\ mLastValue \in Value \cup {ValueMax}
          /\ mCurrentPlateauSize \in 0..Detector!mTooBigPlateauSize
                                     \cup {Detector!kFirstSamplePlateauSizeMarker}

\* Whatever the stream and wherever it is cut into blocks, the finder has found
\* exactly the reference's peaks when process() returns.
FindsReferencePeaks == blockSize = 0 => FoundPeaks = ReferencePeaks(stream)

\* A peak is handed out at most once, in the order of the stream and with the
\* sample at its position.
FoundInOrder == \A i \in DOMAIN isolator.found :
                  /\ stream[Index(isolator.found[i].pos)] = isolator.found[i].value
                  /\ i > 1 => Index(isolator.found[i - 1].pos) < Index(isolator.found[i].pos)

\* The isolator remembers no peak for so long that positions roll over: half the
\* ring later, unsigned comparison takes it for a peak of the future.
LeftMemoryNeverRollsOver ==
  \A i \in DOMAIN isolator.left :
    blockSize > 0 \/ ringGreaterEq(streamPos, isolator.left[i].pos)

\* None of the isolator's assertions fires: time progresses, purges come neither
\* too late nor too early, and the deques of patternSize entries never overflow.
AssertionsHold == isolator.ok

=============================================================================
