---------------------------- MODULE PeakIsolator ----------------------------
(***************************************************************************)
(* SlidingWindowDominantPeakIsolator (src/dsp/peakfinder.hpp): of the raw  *)
(* peaks it is fed, it passes on those that dominate every other one       *)
(* within W positions.  An isolator is a record: its two deques, oldest    *)
(* entry first, the position of the last purge, the peaks handed to the    *)
(* caller's handler, and whether every V1_ASSERT has held so far.          *)
(***************************************************************************)
EXTENDS RingMath, DequeLoops

CONSTANTS W,         \* mWindowSize, the lockout distance
          ValueMin   \* numeric_limits<Value>::min()

WindowAssumption == W \in Nat \ {0} /\ ValueMin \in Int

patternSize == 2 * W + 1

NewIsolator == [right |-> << >>, left |-> << >>, lastPurge |-> PosMod - 1,
                found |-> << >>, ok |-> TRUE]

youngestValue(q) == IF q = << >> THEN ValueMin ELSE Last(q).value

addLockoutForInitialValue(iso, pos, value) ==
  [iso EXCEPT !.left = Append(@, [pos |-> pos, value |-> value]),
              !.ok = @ /\ Len(iso.left) < patternSize]

\* checkLeftDominanceAndRememberRightDominantPeak()
checkLeftDominance(iso, peak) ==
  LET recent == PopFrontWhile(iso.left, LAMBDA e : Forward(peak.pos, e.pos) > W)
      bigger == PopBackWhile(recent, LAMBDA e : e.value < peak.value)
  IN [iso EXCEPT
        !.left  = Append(bigger, [pos |-> peak.pos, value |-> peak.value]),
        !.found = IF peak.type = "kPeak" /\ bigger = << >> THEN Append(@, peak) ELSE @,
        !.ok    = @ /\ Len(bigger) < patternSize]

cleanOldRightDominantPeaks(iso, now) ==
  LET rest == PopFrontWhile(iso.right, LAMBDA e : Forward(now, e.pos) >= W)
      old  == SubSeq(iso.right, 1, Len(iso.right) - Len(rest))
  IN [FoldLeft(checkLeftDominance, iso, old) EXCEPT !.right = rest]

\* the assertions at the head of onRawPeakEvent()
RawPeakExpected(iso, raw) ==
  /\ iso.right # << >> =>
       /\ raw.pos # Last(iso.right).pos
            \/ (raw.type = "kPeak" /\ Last(iso.right).type = "kRising")
       /\ ringGreaterEq(raw.pos, Last(iso.right).pos)
  /\ \/ ringGreaterEq(raw.pos, iso.lastPurge)
     \/ raw.value <= youngestValue(iso.right)
     \/ raw.value <= youngestValue(iso.left)

onRawPeakEvent(iso, raw) ==
  LET kept  == PopBackWhile(iso.right, LAMBDA e : /\ e.value < raw.value
                                                  /\ Forward(raw.pos, e.pos) <= W)
      right == IF raw.type = "kRising" THEN kept ELSE Append(kept, raw)
      ok    == iso.ok /\ RawPeakExpected(iso, raw) /\ Len(right) <= patternSize
  IN IF iso.right # << >> /\ Last(iso.right).pos = raw.pos
     THEN [iso EXCEPT !.right[Len(iso.right)].type = raw.type,
                      !.ok = @ /\ RawPeakExpected(iso, raw) /\ Last(iso.right).value = raw.value]
     ELSE cleanOldRightDominantPeaks([iso EXCEPT !.right = right, !.ok = ok], raw.pos)

purgeUpUntil(iso, pos) ==
  LET purged   == [iso EXCEPT !.lastPurge = pos,
                              !.ok = @ /\ ringGreaterEq(pos, Forward(iso.lastPurge, W))]
      youngest == IF iso.right = << >> THEN pos ELSE Last(iso.right).pos
      timely   == iso.left = << >> \/ ringGreaterEq(pos, Head(iso.left).pos)
      left     == PopFrontWhile(iso.left, LAMBDA e : Forward(pos, e.pos) > 3 * W + 1)
  IN IF ringGreaterEq(youngest, pos) THEN purged
     ELSE cleanOldRightDominantPeaks([purged EXCEPT !.left = left, !.ok = @ /\ timely], pos)
=============================================================================
