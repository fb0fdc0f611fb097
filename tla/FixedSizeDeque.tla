--------------------------- MODULE FixedSizeDeque ---------------------------
(***************************************************************************)
(* The deque of src/container/ringbuffer.hpp, used by one thread, on the   *)
(* array and the pointers it inherits from ChunkedRingBuffer: mpHead is    *)
(* one past the front, mpTail is the back, and one slot stays free.        *)
(* Pointers are offsets from mpData; the V1_ASSERTs are the callers'       *)
(* obligations, hence guards.                                              *)
(***************************************************************************)
EXTENDS Naturals, Sequences

CONSTANTS Value,         \* the elements
          Default,       \* T(), which the new array is filled with
          Capacity       \* the argument of setCapacity()

ASSUME DequeAssumption == Default \in Value /\ Capacity \in Nat

VARIABLES mpData, mpHead, mpTail,
          seen            \* what the caller read last

vars == <<mpData, mpHead, mpTail, seen>>

mCapacity == Capacity + 1
Slots     == 0..Capacity

size == IF mpHead >= mpTail THEN mpHead - mpTail
                            ELSE mCapacity - (mpTail - mpHead)

empty == mpHead = mpTail

\* (mutant of full: the slot kept free is used, too)
fullOneTooLate == size = mCapacity
full == size = Capacity

Successor(p) == IF p + 1 = mCapacity THEN 0 ELSE p + 1

\* (mutant of Previous: the pointer below the array is folded back to its end)
PreviousAtEnd(p) == IF p = 0 THEN mCapacity ELSE p - 1
\* (p == mpData ? mpData + mCapacity : p) - 1
Previous(p) == (IF p = 0 THEN mCapacity ELSE p) - 1

Init == /\ mpData = [s \in Slots |-> Default]
        /\ mpHead = 0 /\ mpTail = 0
        /\ seen = << >>

\* push_back() and emplace_back()
push_back(v) ==
  /\ ~full
  /\ mpData' = [mpData EXCEPT ![Previous(mpTail)] = v]
  /\ mpTail' = Previous(mpTail)
  /\ UNCHANGED <<mpHead, seen>>

push_front(v) ==
  /\ ~full
  /\ mpData' = [mpData EXCEPT ![mpHead] = v]
  /\ mpHead' = Successor(mpHead)
  /\ UNCHANGED <<mpTail, seen>>

pop_back ==
  /\ ~empty
  /\ mpTail' = Successor(mpTail)
  /\ UNCHANGED <<mpData, mpHead, seen>>

pop_front ==
  /\ ~empty
  /\ mpHead' = Previous(mpHead)
  /\ UNCHANGED <<mpData, mpTail, seen>>

\* the slots that back() and front() return references to
back  == mpTail
front == Previous(mpHead)

ReadSlot(s) ==
  /\ ~empty
  /\ seen' = <<mpData[s]>>
  /\ UNCHANGED <<mpData, mpHead, mpTail>>

WriteSlot(s, v) ==
  /\ ~empty
  /\ mpData' = [mpData EXCEPT ![s] = v]
  /\ UNCHANGED <<mpHead, mpTail, seen>>

Next == \/ \E v \in Value : \/ push_back(v)
                            \/ push_front(v)
                            \/ WriteSlot(back, v)
                            \/ WriteSlot(front, v)
        \/ pop_back
        \/ pop_front
        \/ ReadSlot(back)
        \/ ReadSlot(front)

Spec == Init /\ [][Next]_vars

-----------------------------------------------------------------------------
(* Properties *)

\* Pointers stay inside the array, also where they wrap around.
TypeOK == /\ mpData \in [Slots -> Value]
          /\ mpHead \in Slots /\ mpTail \in Slots
          /\ seen \in Seq(Value)

\* the k-th element behind the front
Behind(p, k) == IF p >= k THEN p - k ELSE p + mCapacity - k
Window(data, head, n) == [k \in 1..n |-> data[Behind(head, k)]]
Contents == Window(mpData, mpHead, size)

Deque == INSTANCE BoundedDeque WITH deque <- Contents

\* Whatever the order of calls at both ends and wherever the pointers wrap,
\* the object behaves as a bounded double-ended queue.
ImplementsDeque == Deque!DequeSpec
=============================================================================
