---------------------------- MODULE BoundedDeque ----------------------------
(***************************************************************************)
(* What a FixedSizeDeque promises: a sequence of at most Capacity elements *)
(* whose first is the front and whose last is the back, changed at both    *)
(* ends.  "seen" is what the caller read last through front() or back().   *)
(***************************************************************************)
EXTENDS Naturals, Sequences

CONSTANTS Value,      \* the elements
          Capacity    \* the argument of setCapacity()

VARIABLES deque, seen

dequeVars == <<deque, seen>>

DequeInit == deque = << >> /\ seen = << >>

PushBack(v)  == /\ Len(deque) < Capacity
                /\ deque' = Append(deque, v)
                /\ UNCHANGED seen
PushFront(v) == /\ Len(deque) < Capacity
                /\ deque' = <<v>> \o deque
                /\ UNCHANGED seen
PopBack      == /\ deque # << >>
                /\ deque' = SubSeq(deque, 1, Len(deque) - 1)
                /\ UNCHANGED seen
PopFront     == /\ deque # << >>
                /\ deque' = SubSeq(deque, 2, Len(deque))
                /\ UNCHANGED seen

\* reading and writing through the reference that front() or back() returns
Read(i)     == /\ deque # << >>
               /\ seen' = <<deque[i]>>
               /\ UNCHANGED deque
Write(i, v) == /\ deque # << >>
               /\ deque' = [deque EXCEPT ![i] = v]
               /\ UNCHANGED seen

DequeNext == \/ \E v \in Value : \/ PushBack(v)
                                 \/ PushFront(v)
                                 \/ Write(1, v)
                                 \/ Write(Len(deque), v)
             \/ PopBack
             \/ PopFront
             \/ Read(1)
             \/ Read(Len(deque))

DequeSpec == DequeInit /\ [][DequeNext]_dequeVars
=============================================================================
