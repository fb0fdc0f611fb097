----------------------------- MODULE PeakVectors -----------------------------
(***************************************************************************)
(* The tables of src/dsp/tst_peakfinder.cpp, replayed by the actions of    *)
(* the models: a behaviour takes one row, feeds it to the class it is for, *)
(* and compares what that reports with what the row expects.               *)
(***************************************************************************)
EXTENDS Integers, Sequences, SequencesExt

VARIABLES vector,    \* the row
          stream, peakThreshold, blockSize, mIsSubsequentBlock, mLastValue,
          mCurrentPlateauSize, isolator,
          initialElementsRead, currentSamplePos, candidates, window, maximum

peakVars   == <<stream, peakThreshold, blockSize, mIsSubsequentBlock, mLastValue,
                mCurrentPlateauSize, isolator>>
windowVars == <<initialElementsRead, currentSamplePos, candidates, window, maximum>>

\* size_t, in place of 64 bits; int's limits
PositionsMod == 2^17
Smallest     == -999
Largest      == 999

\* the classes for a lockout distance, largest plateau or window size
StreamingPeakFinder(W) ==
  INSTANCE PeakFinder WITH PosMod <- PositionsMod, ValueMin <- Smallest, ValueMax <- Largest,
                           Value <- 0..99, Thresholds <- 0..99, StartPos <- 0,
                           MaxSamples <- 99, MaxBlock <- 99
StreamingPeakDetector(maxPlateauSize) ==
  INSTANCE PeakDetector WITH PosMod <- PositionsMod, ValueMin <- Smallest, ValueMax <- Largest
SlidingWindowLocalMaximaFinder(mWindowSize) ==
  INSTANCE LocalMaxima WITH SizeMod <- PositionsMod, ValueMin <- Smallest,
                            Samples <- 0..99, MaxSamples <- 99,
                            mInitialElementsRead <- initialElementsRead,
                            mCurrentSamplePos <- currentSamplePos,
                            mMaximumCandidates <- candidates,
                            added <- window, returned <- maximum

-----------------------------------------------------------------------------
(* The rows: what is tested, its parameter, the input and what is expected *)

Row(tested, parameter, row) ==
  [tested |-> tested, parameter |-> parameter, input |-> row[1], expected |-> row[2],
   blockSize |-> 0, threshold |-> 0]

Detector(maxPlateauSize, threshold, rows) ==
  {[Row("detector", maxPlateauSize, r) EXCEPT !.threshold = threshold] : r \in rows}
Maxima(windowSize, rows) == {Row("maxima", windowSize, r) : r \in rows}

\* run(): raw peaks, each a position and a value, or kAdvance to purge
kAdvance == -1
Isolator(lockoutDistance, rows) == {Row("isolator", lockoutDistance, r) : r \in rows}
\* runSimple(): a raw peak at every position
Simple(lockoutDistance, rows) ==
  Isolator(lockoutDistance,
           {<<[i \in DOMAIN r[1] |-> <<i - 1, r[1][i]>>], r[2]>> : r \in rows})

\* runPeakFinderAndCheckPeaks(): in blocks, and a second time in one
Finder(lockoutDistance, block, threshold, rows) ==
  UNION {{[Row("finder", lockoutDistance, r) EXCEPT !.threshold = threshold, !.blockSize = n] :
            n \in {block, Len(r[1])}} : r \in rows}

detectorPeaks ==
  Detector(1, 0, {<<<<1>>, {}>>, <<<<1, 0>>, {}>>, <<<<0, 1>>, {}>>, <<<<0, 1, 0>>, {1}>>,
     <<<<0, 1, 0, 0>>, {1}>>, <<<<0, 1, 2, 3, 4, 5>>, {}>>, <<<<0, 1, 2, 3, 4, 3>>, {4}>>,
     <<<<0, 1, 3, 2, 3, 2>>, {2, 4}>>, <<<<0, 4, 3, 2, 1, 0>>, {1}>>,
     <<<<5, 4, 3, 2, 1, 0>>, {}>>})
  \cup Detector(1, 2, {<<<<0, 1, 0>>, {}>>, <<<<0, 1, 0, 0>>, {}>>, <<<<0, 2, 0>>, {1}>>,
     <<<<0, 2, 0, 0>>, {1}>>})

detectorPlateaus ==
  Detector(2, 0, {<<<<1, 1>>, {}>>, <<<<1, 1, 0>>, {}>>, <<<<0, 1, 1>>, {}>>,
     <<<<2, 1, 1, 0>>, {}>>, <<<<0, 1, 1, 2>>, {}>>, <<<<0, 1, 1, 0>>, {1}>>,
     <<<<1, 1, 0, 1, 1, 0, 0, 0>>, {3}>>, <<<<0, 1, 1, 0, 1, 1, 0, 0>>, {1, 4}>>,
     <<<<0, 0, 1, 1, 0, 1, 1, 0>>, {2, 5}>>, <<<<0, 0, 0, 1, 1, 0, 1, 1>>, {3}>>,
     <<<<0, 1, 1, 1, 0, 1, 1, 0>>, {5}>>, <<<<0, 1, 1, 0, 1, 1, 1, 0>>, {1}>>})
  \cup Detector(65535, 0, {<<<<0, 1, 1, 0>>, {1}>>})
  \cup Detector(5, 0, {<<<<0, 1, 1, 1, 1, 1, 0>>, {3}>>})
  \cup Detector(1, 0, {<<<<0, 1, 1, 0>>, {}>>})
  \cup Detector(2, 2, {<<<<0, 1, 1, 0>>, {}>>, <<<<0, 2, 2, 0>>, {1}>>})
  \cup Detector(3, 3, {<<<<0, 2, 2, 3, 3, 3, 0, 0>>, {4}>>})
  \cup Detector(3, 0, {<<<<0, 2, 2, 2, 1, 1, 1, 0>>, {2}>>,
     <<<<0, 1, 2, 2, 2, 1, 1, 0>>, {3}>>, <<<<0, 1, 1, 2, 2, 2, 1, 0>>, {4}>>,
     <<<<0, 1, 1, 1, 2, 2, 2, 1>>, {5}>>, <<<<0, 0, 1, 1, 1, 2, 2, 2>>, {}>>,
     <<<<0, 3, 3, 3, 2, 2, 1, 1>>, {2}>>, <<<<0, 1, 1, 2, 2, 3, 3, 0>>, {5}>>,
     <<<<0, 1, 1, 0, 3, 3, 3, 0>>, {1, 5}>>})

detectorMixed ==
  Detector(3, 0, {<<<<0, 1, 1, 2, 2, 6, 2, 0>>, {5}>>, <<<<0, 6, 5, 5, 4, 4, 3, 0>>, {1}>>,
     <<<<0, 1, 1, 2, 3, 4, 4, 0>>, {5}>>})

maxima ==
  Maxima(1, {<<<< >>, << >>>>, <<<<1>>, <<1>>>>, <<<<1, 0>>, <<1, 0>>>>,
     <<<<1, 1>>, <<1, 1>>>>, <<<<1, 2>>, <<1, 2>>>>, <<<<2, 1>>, <<2, 1>>>>,
     <<<<1, 2, 3>>, <<1, 2, 3>>>>, <<<<1, 2, 3, 0>>, <<1, 2, 3, 0>>>>,
     <<<<3, 2, 1>>, <<3, 2, 1>>>>})
  \cup Maxima(2, {<<<<1, 1>>, <<1>>>>, <<<<1, 2, 0>>, <<2, 2>>>>,
     <<<<1, 2, 1>>, <<2, 2>>>>, <<<<1, 2, 2>>, <<2, 2>>>>, <<<<1, 2, 0, 0>>, <<2, 2, 0>>>>,
     <<<<1, 2, 2, 2>>, <<2, 2, 2>>>>, <<<<1, 2, 2, 2, 1>>, <<2, 2, 2, 2>>>>,
     <<<<1, 2, 3, 4, 5>>, <<2, 3, 4, 5>>>>})
  \cup Maxima(3, {<<<<1, 2, 3, 4, 0, 0, 0>>, <<3, 4, 4, 4, 0>>>>,
     <<<<9, 8, 7, 0, 0, 0>>, <<9, 8, 7, 0>>>>,
     <<<<6, 7, 8, 9, 0, 0, 0>>, <<8, 9, 9, 9, 0>>>>,
     <<<<7, 8, 9, 0, 0, 0>>, <<9, 9, 9, 0>>>>,
     <<<<7, 8, 9, 8, 7, 0, 0, 0>>, <<9, 9, 9, 8, 7, 0>>>>,
     <<<<7, 8, 9, 7, 7, 6, 6, 6, 0, 0, 0>>, <<9, 9, 9, 7, 7, 6, 6, 6, 0>>>>})

isolatorDistance1 ==
  Simple(1, {<<<< >>, {}>>, <<<<1>>, {}>>, <<<<1, 0>>, {<<0, 1>>}>>,
     <<<<1, 1>>, {<<0, 1>>}>>, <<<<1, 2>>, {}>>, <<<<2, 1>>, {<<0, 2>>}>>,
     <<<<1, 2, 3>>, {}>>, <<<<1, 2, 3, 0>>, {<<2, 3>>}>>, <<<<3, 2, 1>>, {<<0, 3>>}>>,
     <<<<1, 5, 1, 4, 1, 6, 1, 0>>, {<<1, 5>>, <<3, 4>>, <<5, 6>>}>>})

isolatorDistance2 ==
  Simple(2, {<<<<1, 1>>, {}>>, <<<<1, 2, 0>>, {}>>, <<<<1, 2, 0, 0>>, {<<1, 2>>}>>,
     <<<<1, 2, 1, 0>>, {<<1, 2>>}>>, <<<<1, 2, 2, 0>>, {<<1, 2>>}>>,
     <<<<1, 2, 2, 2>>, {<<1, 2>>}>>, <<<<1, 2, 2, 2, 1>>, {<<1, 2>>}>>,
     <<<<1, 2, 3, 4, 5>>, {}>>, <<<<1, 2, 3, 4, 5, 0>>, {}>>,
     <<<<1, 2, 3, 4, 5, 0, 0>>, {<<4, 5>>}>>, <<<<5, 4, 3, 2, 1, 0, 0>>, {<<0, 5>>}>>,
     <<<<0, 5, 4, 3, 2, 1, 0>>, {<<1, 5>>}>>, <<<<0, 0, 5, 4, 3, 2, 1>>, {<<2, 5>>}>>,
     <<<<1, 5, 1, 4, 1, 6, 1, 0>>, {<<1, 5>>, <<5, 6>>}>>,
     <<<<1, 5, 1, 5, 0, 0>>, {<<1, 5>>}>>,
     <<<<1, 5, 1, 1, 5, 0, 0>>, {<<1, 5>>, <<4, 5>>}>>})

isolatorDistance3 ==
  Simple(3, {<<<<1, 1, 1>>, {}>>, <<<<1, 1, 1, 1>>, {<<0, 1>>}>>, <<<<1, 1, 1, 2>>, {}>>,
     <<<<1, 2, 3, 4, 3, 2, 1, 0>>, {<<3, 4>>}>>,
     <<<<1, 2, 3, 4, 5, 5, 5, 0>>, {<<4, 5>>}>>, <<<<1, 2, 3, 4, 5, 5, 6, 0>>, {}>>,
     <<<<1, 1, 2, 2, 3, 3, 3, 0>>, {<<4, 3>>}>>,
     <<<<1, 6, 1, 1, 5, 1, 1, 0>>, {<<1, 6>>}>>,
     <<<<1, 6, 1, 1, 1, 5, 0, 0, 0>>, {<<1, 6>>, <<5, 5>>}>>})

isolatorGaps ==
  Isolator(3, {<<<<<<1, 4>>, <<4, 5>>, <<9, 0>>>>, {<<4, 5>>}>>,
     <<<<<<1, 4>>, <<5, 5>>, <<9, 0>>>>, {<<1, 4>>, <<5, 5>>}>>,
     <<<<<<1, 5>>, <<4, 4>>, <<9, 0>>>>, {<<1, 5>>}>>,
     <<<<<<1, 5>>, <<5, 4>>, <<9, 0>>>>, {<<1, 5>>, <<5, 4>>}>>,
     <<<<<<1, 5>>, <<3, 2>>, <<4, 4>>, <<9, 0>>>>, {<<1, 5>>}>>,
     <<<<<<1, 5>>, <<3, 2>>, <<5, 4>>, <<9, 0>>>>, {<<1, 5>>, <<5, 4>>}>>})

isolatorPurges ==
  Isolator(2, {<<<<<<0, 1>>, <<1, 2>>, <<2, 0>>, <<2, kAdvance>>, <<2, kAdvance>>>>, {}>>,
     <<<<<<0, 1>>, <<1, 2>>, <<2, 0>>, <<2, kAdvance>>, <<2, kAdvance>>, <<3, 0>>>>, {<<1, 2>>}>>,
     <<<<<<0, 1>>, <<1, 2>>, <<2, 0>>, <<3, kAdvance>>>>, {<<1, 2>>}>>,
     <<<<<<0, 1>>, <<1, 2>>, <<2, 0>>, <<2, kAdvance>>, <<1, kAdvance>>>>, {}>>})
  \cup Isolator(3, {<<<<<<1, 4>>, <<4, 5>>>>, {}>>,
     <<<<<<1, 4>>, <<4, 5>>, <<6, kAdvance>>>>, {}>>,
     <<<<<<1, 4>>, <<4, 5>>, <<7, kAdvance>>>>, {<<4, 5>>}>>,
     <<<<<<1, 4>>, <<4, 5>>, <<9001, kAdvance>>>>, {<<4, 5>>}>>,
     <<<<<<1, 5>>, <<4, 4>>, <<6, kAdvance>>>>, {<<1, 5>>}>>})

sMultiPeakSequence ==
  <<0, 10, 10, 10, 8, 7, 5, 5, 5, 30, 0, 40, 0, 20, 5, 10, 0,
    10, 10, 10, 8, 7, 5, 5, 5, 30, 0, 40, 0, 20, 5, 10, 0>>

\* begin and end in it, and the peak that findPeak() finds there, or end
findPeakRows == {<<0, 16, 11>>, <<8, 11, 9>>, <<9, 11, 11>>, <<9, 12, 12>>, <<9, 14, 11>>, <<1, 4, 4>>,
                 <<3, 9, 9>>, <<0, 4, 4>>, <<1, 5, 5>>, <<0, 5, 2>>, <<7, 13, 11>>}
longSlope == <<10, 20, 30, 40, 80, 85, 80, 70, 60, 50, 10>>
withoutPeak == {<<10, 10, 10, 10>>, <<10, 20, 30, 40>>, <<40, 30, 20, 10>>}

basicAndLong ==
  Finder(3, 1, 0, {<<sMultiPeakSequence, {2, 11, 27}>>})
  \cup Finder(3, 3, 0, {<<sMultiPeakSequence, {2, 11, 27}>>})
  \cup Finder(3, 3, 40, {<<sMultiPeakSequence, {11, 27}>>})
  \cup Finder(8, 1, 0, {<<sMultiPeakSequence, {11}>>})

Impulse(n, pos) == [i \in 1..n |-> IF i = pos + 1 THEN 1 ELSE 0]
boundaries ==
  Finder(3, 1, 0, {<<Impulse(7, p), {p} \cap 1..3>> : p \in 0..6})
  \cup Finder(2, 1, 0, {<<<<0, 0, 1, 0, 0, 1, 0, 0>>, {2, 5}>>,
     <<<<0, 1, 0, 0, 1, 0, 0>>, {1, 4}>>, <<<<1, 0, 0, 1, 0, 0>>, {3}>>,
     <<<<0, 1, 0, 0, 1, 0>>, {1}>>, <<<<0, 1, 0, 0, 1>>, {1}>>})

plateaus ==
  Finder(2, 1, 0, {<<<<0, 1, 0, 0>>, {1}>>, <<<<0, 1, 1, 0, 0>>, {1}>>,
     <<<<0, 1, 1, 1, 0, 0>>, {2}>>, <<<<0, 1, 1, 1, 1, 0, 0>>, {}>>,
     <<<<0, 1, 1, 1, 1, 1, 0, 0>>, {}>>})
  \cup Finder(1, 1, 0, {<<<<0, 2, 2, 0, 0>>, {}>>})

\* constants, ramps and steps, upwards and downwards
Ramps(n) == {[i \in 1..n |-> i - 1], [i \in 1..n |-> n - i]}
Steps(n) == {[i \in 1..n |-> IF (i <= k) = up THEN 0 ELSE 1] : k \in 1..(n - 1), up \in BOOLEAN}
WithoutPeaks(inputs) == inputs \X {{}}
monotonic == Finder(1, 1, 0, WithoutPeaks({<<0, 0, 0, 0>>} \cup Ramps(5) \cup Steps(5)))
             \cup Finder(2, 2, 0, WithoutPeaks({<<1, 1, 1, 1>>} \cup Ramps(6) \cup Steps(6)))
             \cup Finder(2, 1, 0, WithoutPeaks(Ramps(6)))

peakSequences ==
  Finder(1, 1, 0, {<<<<0, 1, 0, 1, 0, 1, 0, 1, 0>>, {1, 3, 5, 7}>>})
  \cup Finder(2, 1, 0, {<<<<0, 1, 0, 1, 0, 1, 0, 1, 0>>, {1}>>,
     <<<<0, 1, 0, 2, 0, 3, 0, 4, 0>>, {}>>, <<<<0, 4, 0, 3, 0, 2, 0, 1, 0>>, {1}>>})

triplePeaks ==
  Finder(4, 1, 0, {<<<<0, 2, 0, 0, 2, 0, 2, 0>>, {1}>>,
     <<<<0, 2, 0, 0, 1, 0, 2, 0, 0, 0, 0>>, {1, 6}>>})
  \cup Finder(2, 1, 0, {<<<<0, 2, 0, 1, 0, 0, 2, 0, 0>>, {1, 6}>>,
     <<<<0, 2, 0, 0, 1, 0, 2, 0, 0>>, {1, 6}>>})
  \cup Finder(3, 3, 0, {<<<<0, 4, 0, 2, 0, 1, 1, 1, 0, 0, 0, 0>>, {1}>>})

plateauSequences ==
  Finder(2, 1, 0, {<<<<0, 1, 1, 1, 0, 1, 1, 1, 0, 1, 1, 1, 0, 0>>, {2, 6, 10}>>,
     <<<<0, 1, 1, 1, 0, 1, 0, 1, 1, 1, 0, 0>>, {2, 8}>>,
     <<<<0, 6, 0, 1, 1, 1, 0, 0>>, {1, 4}>>})

lockOut ==
  Finder(1, 1, 0, {<<<<0, 1, 0, 2, 0, 3, 0, 4, 0, 5>>, {1, 3, 5, 7}>>})
  \cup Finder(3, 1, 0, {
     <<<<0, 0, 1, 0, 0, 2, 0, 0, 0, 3, 0, 0, 4, 0, 0, 0, 5, 0, 0, 0, 6>>, {5, 12, 16}>>})
  \cup Finder(5, 2, 0, {<<<<0, 0, 1, 0, 0, 0, 0, 1, 0, 0, 0, 1, 0, 0, 1, 0>>, {2}>>})
  \cup Finder(2, 1, 0, {<<<<1, 0, 1, 0, 0, 0>>, {}>>, <<<<0, 1, 5, 0, 6>>, {}>>,
     <<<<0, 1, 0, 2, 3, 0, 0>>, {4}>>})
  \cup Finder(7, 1, 0, {<<<<0, 0, 0, 0, 0, 0, 0, 4, 0, 0, 0, 0, 0, 1, 2, 5>>, {7}>>})
  \cup Finder(7, 4, 0, {<<<<0, 0, 0, 0, 0, 0, 0, 4, 0, 0, 0, 0, 0, 1, 2, 5>>, {7}>>})
  \cup Finder(2, 8, 0, {<<<<0, 1, 0, 2, 3, 0, 0, 0>>, {4}>>})
  \cup Finder(2, 2, 0, {<<<<0, 0, 2, 1, 0, 1, 0, 0>>, {2}>>})
  \cup Finder(5, 5, 0, {<<<<0, 5, 0, 0, 0, 4, 0, 0, 0, 0, 0, 0, 0, 0, 0>>, {1}>>})
  \cup Finder(3, 2, 0, {<<<<2, 2, 0, 0, 1, 0, 0, 0>>, {}>>})
  \cup Finder(4, 2, 0, {<<<<0, 0, 0, 3, 1, 2, 3, 3>>, {3}>>})

hugeBlockSize ==
  Finder(2, 10, 0, {<<<<1, 0, 0, 0, 0, 0, 0, 0, 0, 0>>, {}>>,
     <<<<0, 1, 0, 0, 0, 0, 0, 0, 0, 0>>, {1}>>, <<<<0, 1, 0, 2, 0, 3, 0, 4, 0, 0>>, {7}>>,
     <<<<0, 1, 0, 0, 1, 0, 0, 1, 0, 0>>, {1, 4, 7}>>})

specialCases ==
  Finder(5, 5, 0, {<<<<27, 37, 6, 32, 23, 7, 6, 49, 40, 43, 9, 44, 11, 48, 29>>, {1, 7}>>})
  \cup Finder(4, 1, 0, {<<<<0, 3, 0, 4, 0, 1, 0, 1, 1, 1, 0>>, {3}>>})
  \cup Finder(4, 5, 0, {<<<<0, 3, 0, 4, 0, 1, 0, 1, 1, 0>>, {3}>>})
  \cup Finder(2, 4, 0, {
     <<<<42, 1, 47, 38, 17, 5, 6, 45, 9, 18, 24, 15, 31, 46, 14, 22>>, {2, 7, 13}>>})
  \cup Finder(4, 2, 0, {<<<<9, 10, 7, 4, 9, 9, 8, 5>>, {1}>>})

Vectors == UNION {detectorPeaks, detectorPlateaus, detectorMixed, maxima, isolatorDistance1,
                  isolatorDistance2, isolatorDistance3, isolatorGaps, isolatorPurges, basicAndLong,
                  boundaries, plateaus, monotonic, peakSequences, triplePeaks, plateauSequences,
                  lockOut, hugeBlockSize, specialCases}

-----------------------------------------------------------------------------
(* The replay *)

\* a row's parameter, as a constant that the classes can be instantiated with
Parameters == {row.parameter : row \in Vectors}
Is(tested, parameter) == vector.tested = tested /\ vector.parameter = parameter

VectorsInit == /\ vector \in Vectors
               /\ StreamingPeakFinder(1)!Init /\ peakThreshold = vector.threshold
               /\ SlidingWindowLocalMaximaFinder(1)!MaximaInit

Remaining(consumed) == Len(consumed) < Len(vector.input)
NextIn(consumed)    == vector.input[Len(consumed) + 1]

\* runPeakFinderOn()
ReplayFinder(W) ==
  /\ Is("finder", W)
  /\ IF blockSize = vector.blockSize THEN StreamingPeakFinder(W)!EndBlock
     ELSE Remaining(stream) /\ StreamingPeakFinder(W)!Sample(NextIn(stream))
  /\ UNCHANGED windowVars

\* the peaks are collected where an isolator collects its own
ReplayDetector(maxPlateauSize) ==
  LET D == StreamingPeakDetector(maxPlateauSize)!RawPeaks(Len(stream), NextIn(stream))
  IN /\ Is("detector", maxPlateauSize) /\ Remaining(stream)
     /\ StreamingPeakDetector(maxPlateauSize)!Detect(NextIn(stream))
     /\ isolator' = [isolator EXCEPT !.found = @ \o SelectSeq(D, LAMBDA raw : raw.type = "kPeak")]
     /\ stream' = Append(stream, NextIn(stream))
     /\ UNCHANGED <<peakThreshold, blockSize, mIsSubsequentBlock, windowVars>>

ReplayIsolator(W) ==
  LET event == NextIn(stream)
  IN /\ Is("isolator", W) /\ Remaining(stream)
     /\ isolator' =
          IF event[2] = kAdvance THEN StreamingPeakFinder(W)!purgeUpUntil(isolator, event[1])
          ELSE StreamingPeakFinder(W)!onRawPeakEvent(
                 isolator, [pos |-> event[1], value |-> event[2], type |-> "kPeak"])
     /\ stream' = Append(stream, event)
     /\ UNCHANGED <<peakThreshold, blockSize, mIsSubsequentBlock, mLastValue,
                    mCurrentPlateauSize, windowVars>>

ReplayMaxima(windowSize) ==
  /\ Is("maxima", windowSize) /\ Remaining(window)
  /\ SlidingWindowLocalMaximaFinder(windowSize)!add(NextIn(window))
  /\ UNCHANGED peakVars

VectorsNext ==
  /\ \E p \in Parameters :
       ReplayFinder(p) \/ ReplayDetector(p) \/ ReplayIsolator(p) \/ ReplayMaxima(p)
  /\ UNCHANGED vector

-----------------------------------------------------------------------------
(* What the tests check *)

Positions == {isolator.found[i].pos : i \in DOMAIN isolator.found}
Finished  == Len(stream) = Len(vector.input) /\ blockSize = 0

\* verifyPeaks() and the comparison with the reference finder
FinderAgrees(W) ==
  LET F == StreamingPeakFinder(W)!ReferencePeaks(stream)
      s == vector.input
  IN /\ isolator.ok
     /\ Finished => /\ Positions = vector.expected
                    /\ F = {p + 1 : p \in vector.expected}
                    /\ \A p \in F : StreamingPeakFinder(W)!findPeak(
                                     s, IF p > W THEN p - W ELSE 1, p + W) = p

DetectorAgrees ==
  /\ Finished => Positions = vector.expected
  /\ \A i \in DOMAIN isolator.found : isolator.found[i].value = stream[isolator.found[i].pos + 1]

\* No peak is reported before the lockout distance has passed.
IsolatorAgrees(W) ==
  LET found == {<<isolator.found[i].pos, isolator.found[i].value>> : i \in DOMAIN isolator.found}
  IN /\ isolator.ok
     /\ stream # << >> /\ Len(isolator.found) > 0 => Last(stream)[1] - Last(isolator.found).pos >= W
     /\ Finished => found = vector.expected

\* add() reports the first maximum with the sample behind the window, finalize() the last.
MaximaAgree(windowSize) ==
  LET n == Len(window) - windowSize
      M == SlidingWindowLocalMaximaFinder(windowSize)!finalize
  IN /\ maximum = IF n > 0 THEN vector.expected[n] ELSE Smallest
     /\ Len(window) = Len(vector.input) /\ window # << >> => M = Last(vector.expected)

findPeakAgrees ==
  /\ \A r \in findPeakRows :
       StreamingPeakFinder(1)!findPeak(sMultiPeakSequence, r[1] + 1, r[2])
         = IF r[3] = r[2] THEN 0 ELSE r[3] + 1
  /\ longSlope[StreamingPeakFinder(1)!findPeak(longSlope, 1, Len(longSlope))] = 85
  /\ \A s \in withoutPeak : StreamingPeakFinder(1)!findPeak(s, 1, Len(s)) = 0

\* The peak finder, its parts and the reference that the tests compare it with all report
\* what the tests' tables expect, with no assertion failing on the way: the models
\* behave as the program does on every input the repository's authors chose.
MatchesTestVectors ==
  /\ findPeakAgrees
  /\ \A p \in Parameters :
       /\ Is("finder", p) => FinderAgrees(p)
       /\ Is("detector", p) => DetectorAgrees
       /\ Is("isolator", p) => IsolatorAgrees(p)
       /\ Is("maxima", p) => MaximaAgree(p)
=============================================================================
