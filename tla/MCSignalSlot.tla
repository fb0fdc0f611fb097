---------------------------- MODULE MCSignalSlot ----------------------------
EXTENDS SignalSlot, TLC

CONSTANTS s1, s2, o1, f1

\* signals with different signatures, or with the same
DifferentSlots == (s1 :> {"slot1", "slot3"}) @@ (s2 :> {"slot2"})
SameSlots == (s1 :> {"slot1"}) @@ (s2 :> {"slot1"})
OneSignal == s1 :> {"slot1"}

\* a functor's connection may be between two of an observer
DifferentKeys == << <<o1, "slot1">>, <<f1, "slot1">>, <<o1, "slot3">>, <<o1, "slot2">> >>
SameKeys == << <<f1, "slot1">>, <<o1, "slot1">> >>
OneKey == << <<o1, "slot1">> >>

\* three connections: of the slot that destroys an object, of that object, and one behind it
ThreeAtMost == (s1 :> 3) @@ (s2 :> 1) @@ (o1 :> 2)
TwoAtMost == [x \in Object |-> 2]
OneAtMost == [x \in Object |-> 1]

\* observers and signals replaced by others at the same address
Replaced == (s1 :> 1) @@ (s2 :> 2) @@ (o1 :> 2)
=============================================================================
