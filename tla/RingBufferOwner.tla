-------------------------- MODULE RingBufferOwner --------------------------
(***************************************************************************)
(* Which ring buffer owns which array: construction, setCapacity(), move   *)
(* and destruction of ChunkedRingBuffer (src/container/ringbuffer.hpp),    *)
(* with as much of push() and drop() as moves the pointers.  A pointer is  *)
(* an array's address, 0 for nullptr, and an offset.                       *)
(***************************************************************************)
EXTENDS Integers, FiniteSetsExt

CONSTANTS Objects,     \* the variables of a ring buffer type
          V1_DEBUG,
          Addresses,   \* bound: arrays on the heap at once
          Capacities   \* the arguments of setCapacity()

VARIABLES arrays,      \* the heap: address |-> number of elements
          rings        \* the objects that exist

vars == <<arrays, rings>>

kUnset == -1   \* ~0ULL
NullPointer == [array |-> 0, offset |-> 0]

\* the member initialisers
NewRing == [mCapacity |-> 0, mpData |-> 0, mpHead |-> NullPointer, mpTail |-> NullPointer]
\* what debug builds leave of a destroyed or moved-from buffer
WipedRing == [NewRing EXCEPT !.mCapacity = kUnset]

With(f, o, x) == [p \in DOMAIN f \cup {o} |-> IF p = o THEN x ELSE f[p]]
Without(f, p) == [x \in DOMAIN f \ {p} |-> f[x]]
Exists(o)     == o \in DOMAIN rings

Init == arrays = [a \in {} |-> 0] /\ rings = [o \in {} |-> NewRing]

Construct(o) == /\ ~Exists(o)
                /\ rings' = With(rings, o, NewRing)
                /\ UNCHANGED arrays

\* delete of a null pointer does nothing: 0 is no address
Destruct(o) == /\ Exists(o)
               /\ arrays' = Without(arrays, rings[o].mpData)
               /\ rings' = Without(rings, o)

\* (mutant of setCapacity: forgets the array it replaces)
setCapacityLeaks(o, capacity) ==
  /\ Exists(o) /\ Addresses \ DOMAIN arrays # {}
  /\ LET data == Min(Addresses \ DOMAIN arrays)
         head == [array |-> data, offset |-> 0]
     IN /\ arrays' = With(arrays, data, capacity + 1)
        /\ rings' = [rings EXCEPT ![o] = [mCapacity |-> capacity + 1, mpData |-> data,
                                          mpHead |-> head, mpTail |-> head]]

setCapacity(o, capacity) ==
  LET kept == Without(arrays, rings[o].mpData)
      data == Min(Addresses \ DOMAIN kept)
      head == [array |-> data, offset |-> 0]
  IN /\ Exists(o) /\ Addresses \ DOMAIN kept # {}
     /\ arrays' = With(kept, data, capacity + 1)
     /\ rings' = [rings EXCEPT ![o] = [mCapacity |-> capacity + 1, mpData |-> data,
                                       mpHead |-> head, mpTail |-> head]]

\* (mutant of MovedFrom: what a release build leaves, in every build)
MovedFromRelease(ring) == [ring EXCEPT !.mpData = 0]

MovedFrom(ring) == IF V1_DEBUG THEN WipedRing ELSE [ring EXCEPT !.mpData = 0]

\* move assignment, also of a buffer to itself, and the move constructor, which
\* is an assignment to a buffer with its member initialisers
Move(o, src) ==
  /\ Exists(src)
  /\ arrays' = IF Exists(o) THEN Without(arrays, rings[o].mpData) ELSE arrays
  /\ rings' = With(With(rings, o, rings[src]), src, MovedFrom(rings[src]))

Advanced(ring, pointer) ==
  [pointer EXCEPT !.offset = IF @ + 1 = ring.mCapacity THEN 0 ELSE @ + 1]

empty(ring) == ring.mpHead = ring.mpTail
full(ring)  == Advanced(ring, ring.mpHead) = ring.mpTail

\* the caller's obligation: the buffer was given a capacity
Usable(o) == Exists(o) /\ rings[o].mpData # 0

push(o) == /\ Usable(o) /\ ~full(rings[o])
           /\ rings' = [rings EXCEPT ![o].mpHead = Advanced(rings[o], @)]
           /\ UNCHANGED arrays
drop(o) == /\ Usable(o) /\ ~empty(rings[o])
           /\ rings' = [rings EXCEPT ![o].mpTail = Advanced(rings[o], @)]
           /\ UNCHANGED arrays

Next == \E o \in Objects :
          \/ Construct(o) \/ Destruct(o) \/ push(o) \/ drop(o)
          \/ \E capacity \in Capacities : setCapacity(o, capacity)
          \/ \E src \in Objects : Move(o, src)

Spec == Init /\ [][Next]_vars

-----------------------------------------------------------------------------
(* Properties *)

\* Every array has one owner, whose pointers point into it; moves neither
\* share, leak nor delete it twice.
OwnsItsArray ==
  /\ \A o \in DOMAIN rings : rings[o].mpData # 0 =>
       LET ring == rings[o] IN
       /\ ring.mpData \in DOMAIN arrays /\ arrays[ring.mpData] = ring.mCapacity
       /\ \A p \in {ring.mpHead, ring.mpTail} : p.array = ring.mpData /\ p.offset < ring.mCapacity
       /\ \A p \in DOMAIN rings \ {o} : rings[p].mpData # ring.mpData
  /\ \A a \in DOMAIN arrays : \E o \in DOMAIN rings : rings[o].mpData = a

\* A buffer that says it holds elements owns an array.
NonEmptyOwnsArray == \A o \in DOMAIN rings : ~empty(rings[o]) => rings[o].mpData # 0
=============================================================================
