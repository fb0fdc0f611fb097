------------------------------ MODULE MCStreams ------------------------------
(* The parts that work on sequences and numbers and use no heap.  A behaviour *)
(* is about one part, chosen initially; the others stay in an initial state.  *)
EXTENDS FixedSizeDeque, RingIterator, LocalMaxima, Numbers, PeakVectors

VARIABLE part

\* a deque of three, over two values; a ring of five; windows of three, on a ring of eight
MCValue    == {"a", "b"}
MCValueMin == -9
\* numbers: all dividends and stamps of 8 bits, negative and larger ones
MCInputs   == -60..300
NoInput    == -61
MCDivisors == (-9..9) \ {0}
MCTickRates == {1, 7, 500, 999, 1000, 1499, 2500, 3579, 10000, 1000000, 1500000,
                3579545, 3000000}
Alignments == {2^k : k \in 0..7}

\* a peak finder with room on the ring of positions, and one whose positions roll over
Peaks  == INSTANCE PeakFinder WITH PosMod <- 32, W <- 2, Value <- {0, 1, 2}, Thresholds <- {0, 1, 2},
                                   ValueMin <- -9, ValueMax <- 9,
                                   StartPos <- 0, MaxSamples <- 8, MaxBlock <- 8
Wrap   == INSTANCE PeakFinder WITH PosMod <- 16, W <- 1, Value <- {0, 1}, Thresholds <- {0},
                                   ValueMin <- -9, ValueMax <- 9,
                                   StartPos <- 6, MaxSamples <- 15, MaxBlock <- 3
Bit    == INSTANCE Bits

ASSUME Peaks!StreamAssumption /\ Wrap!StreamAssumption

dequeVars == <<mpData, mpHead, mpTail, seen>>

StreamsInit ==
  /\ part \in {"deque", "iterator", "peaks", "peaksWrap", "maxima", "vectors", "numbers"}
  /\ Init /\ IterInit /\ MaximaInit
  /\ IF part = "numbers" THEN NumbersInit ELSE arg = NoInput
  /\ IF part = "vectors" THEN VectorsInit
     ELSE /\ vector = "none" /\ SlidingWindowLocalMaximaFinder(1)!MaximaInit
          /\ IF part = "peaks" THEN Peaks!Init ELSE Wrap!Init

StreamsNext ==
  /\ UNCHANGED <<part, arg>>
  /\ \/ /\ part = "deque" /\ Next
        /\ UNCHANGED <<iterVars, peakVars, maximaVars, windowVars, vector>>
     \/ /\ part = "iterator" /\ IterNext
        /\ UNCHANGED <<dequeVars, peakVars, maximaVars, windowVars, vector>>
     \/ /\ part = "peaks" /\ Peaks!Next
        /\ UNCHANGED <<dequeVars, iterVars, maximaVars, windowVars, vector>>
     \/ /\ part = "peaksWrap" /\ Wrap!Next
        /\ UNCHANGED <<dequeVars, iterVars, maximaVars, windowVars, vector>>
     \/ /\ part = "maxima" /\ MaximaNext
        /\ UNCHANGED <<dequeVars, iterVars, peakVars, windowVars, vector>>
     \/ /\ part = "vectors" /\ VectorsNext
        /\ UNCHANGED <<dequeVars, iterVars, maximaVars>>

StreamsSpec ==
  StreamsInit /\ [][StreamsNext]_<<part, arg, dequeVars, iterVars, peakVars, maximaVars,
                                   windowVars, vector>>

-----------------------------------------------------------------------------
(* The parts' properties, where they apply.  ImplementsDeque of               *)
(* FixedSizeDeque, OffsetDeterminesElement of RingIterator,                   *)
(* ReturnsWindowMaximum of LocalMaxima, NumbersRound and TimeFollowsTheRing   *)
(* of Numbers are as they are.                                                *)

\* The deque's pointers stay in its array, the peak detector's registers in their
\* ranges and the maxima's candidates in a queue of windowSize entries; no assertion of
\* the isolator fires, as long as positions do not roll over.
StaysInBounds == /\ TypeOK
                 /\ part = "peaks" => Peaks!TypeOK /\ Peaks!AssertionsHold
                 /\ NeverOverflows

\* PeakFinder: however the stream is cut into blocks, process() finds the peaks of the
\* reference finder, also while stream positions roll over, and hands out every peak
\* once, in the order of the stream.
FindsReferencePeaks == /\ part = "peaks" => Peaks!FindsReferencePeaks /\ Peaks!FoundInOrder
                       /\ part = "peaksWrap" => Wrap!FindsReferencePeaks

\* The models report what the tables of the tests of peak finder, divisions, ring
\* comparisons and stamps expect; alignUp() finds the least multiple and nextPow2() the
\* least power of two not below the value, for every value of 8 bits.
VectorsMatch == /\ part = "vectors" => MatchesTestVectors
                /\ part = "numbers" =>
                     /\ TestsHold
                     /\ arg >= 0 => \A alignment \in Alignments : Bit!AlignsUp(arg, alignment)
                     /\ arg \in 1..255 => Bit!FindsPowersOfTwo(arg)
=============================================================================
