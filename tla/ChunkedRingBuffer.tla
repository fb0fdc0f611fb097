------------------------- MODULE ChunkedRingBuffer -------------------------
(***************************************************************************)
(* The SPSC queue of src/container/ringbuffer.hpp: one producer thread and *)
(* one consumer thread share mpData, mpHead and mpTail without a lock.     *)
(* Pointers are offsets from mpData.  A step is one access to the shared   *)
(* memory, in program order: the code's own comment restricts it to x64,   *)
(* whose stores become visible in order.  A V1_ASSERT in front of an       *)
(* operation is the caller's obligation, hence a guard; those behind it    *)
(* are the invariants FillFromPost and DrainToPost.                        *)
(***************************************************************************)
EXTENDS Naturals, Sequences

CONSTANTS Value,         \* the elements
          Default,       \* T(), which the new array is filled with
          Capacity       \* the argument of setCapacity()

ASSUME BufferAssumption == /\ Default \in Value
                           /\ Capacity \in Nat

VARIABLES
  mpData, mpHead, mpTail,            \* shared
  pOp, pChunk, pDone, pOldSize,      \* producer: operation, its data, elements copied
  cOp, cWant, cBuf, cOldSize, cRef,  \* consumer: operation, count, copied, reference held
  cOut                               \* what the consumer was handed last

shared   == <<mpData, mpHead, mpTail>>
producer == <<pOp, pChunk, pDone, pOldSize>>
consumer == <<cOp, cWant, cBuf, cOldSize, cRef, cOut>>
vars     == <<shared, producer, consumer>>

mCapacity == Capacity + 1
Slots     == 0..Capacity

\* (mutant of Slot: the pointer is folded back one slot too late)
SlotPastEnd(p, i) == IF p + i <= mCapacity THEN p + i ELSE p + i - mCapacity

\* &p[i] for p inside the array, folded back at pEnd
Slot(p, i) == IF p + i < mCapacity THEN p + i ELSE p + i - mCapacity

size == IF mpHead >= mpTail THEN mpHead - mpTail
                            ELSE mCapacity - (mpTail - mpHead)

\* (mutant of availableSize: the slot kept free is given away)
availableSizeAll == mCapacity - size

availableSize == Capacity - size

Chunk == UNION {[1..n -> Value] : n \in 0..Capacity}

Init == /\ mpData = [s \in Slots |-> Default]
        /\ mpHead = 0 /\ mpTail = 0
        /\ pOp = "idle" /\ pChunk = << >> /\ pDone = 0 /\ pOldSize = 0
        /\ cOp = "idle" /\ cWant = 0 /\ cBuf = << >> /\ cOldSize = 0
        /\ cRef = 0 /\ cOut = << >>

-----------------------------------------------------------------------------
(* The producer *)

\* The locals of an operation die with it.
ProducerLeaves == /\ pOp' = "idle" /\ pChunk' = << >>
                  /\ pDone' = 0 /\ pOldSize' = 0

FillFrom(chunk) ==
  /\ pOp = "idle"
  /\ availableSize >= Len(chunk)
  /\ pOp' = "fillFrom" /\ pChunk' = chunk /\ pDone' = 0
  /\ UNCHANGED <<shared, pOldSize, consumer>>

FillSnapshot ==
  /\ pOp = "fillFrom"
  /\ pOp' = "filling" /\ pOldSize' = size
  /\ UNCHANGED <<shared, pChunk, pDone, consumer>>

\* (mutants of FillCopy: the source is not advanced at the wrap; the loop ends early)
FillCopyRestarts ==
  /\ pOp = "filling" /\ pDone < Len(pChunk)
  /\ mpData' = [mpData EXCEPT ![Slot(mpHead, pDone)] =
                  pChunk[IF mpHead + pDone < mCapacity THEN pDone + 1 ELSE Slot(mpHead, pDone) + 1]]
  /\ pDone' = pDone + 1
  /\ UNCHANGED <<mpHead, mpTail, pOp, pChunk, pOldSize, consumer>>
FillCopyShort ==
  /\ pOp = "filling" /\ pDone + 1 < Len(pChunk)
  /\ mpData' = [mpData EXCEPT ![Slot(mpHead, pDone)] = pChunk[pDone + 1]]
  /\ pDone' = pDone + 1
  /\ UNCHANGED <<mpHead, mpTail, pOp, pChunk, pOldSize, consumer>>

FillCopy ==
  /\ pOp = "filling" /\ pDone < Len(pChunk)
  /\ mpData' = [mpData EXCEPT ![Slot(mpHead, pDone)] = pChunk[pDone + 1]]
  /\ pDone' = pDone + 1
  /\ UNCHANGED <<mpHead, mpTail, pOp, pChunk, pOldSize, consumer>>

\* (mutant of FillPublish: one slot too many is published)
FillPublishOneMore ==
  /\ pOp = "filling" /\ pDone = Len(pChunk)
  /\ mpHead' = Slot(mpHead, Len(pChunk) + 1)
  /\ pOp' = "filled"
  /\ UNCHANGED <<mpData, mpTail, pChunk, pDone, pOldSize, consumer>>

\* (mutant of FillPublish: the call returns without publishing its chunk)
FillPublishNothing ==
  /\ pOp = "filling" /\ pDone = Len(pChunk)
  /\ pOp' = "filled"
  /\ UNCHANGED <<shared, pChunk, pDone, pOldSize, consumer>>

FillPublish ==
  /\ pOp = "filling" /\ pDone = Len(pChunk)
  /\ mpHead' = Slot(mpHead, Len(pChunk))
  /\ pOp' = "filled"
  /\ UNCHANGED <<mpData, mpTail, pChunk, pDone, pOldSize, consumer>>

FillReturn ==
  /\ pOp = "filled"
  /\ ProducerLeaves
  /\ UNCHANGED <<shared, consumer>>

Push(value) ==
  /\ pOp = "idle"
  /\ size # Capacity
  /\ pOp' = "push" /\ pChunk' = <<value>> /\ pDone' = 0
  /\ UNCHANGED <<shared, pOldSize, consumer>>

PushStore ==
  /\ pOp = "push" /\ pDone = 0
  /\ mpData' = [mpData EXCEPT ![mpHead] = pChunk[1]]
  /\ pDone' = 1
  /\ UNCHANGED <<mpHead, mpTail, pOp, pChunk, pOldSize, consumer>>

PushPublish ==
  /\ pOp = "push" /\ pDone = 1
  /\ mpHead' = Slot(mpHead, 1)
  /\ ProducerLeaves
  /\ UNCHANGED <<mpData, mpTail, consumer>>

ProducerStep == FillSnapshot \/ FillCopy \/ FillPublish \/ FillReturn
                \/ PushStore \/ PushPublish

-----------------------------------------------------------------------------
(* The consumer *)

ConsumerLeaves == /\ cOp' = "idle" /\ cWant' = 0 /\ cBuf' = << >>
                  /\ cOldSize' = 0 /\ cRef' = 0

DrainTo(n) ==
  /\ cOp = "idle"
  /\ size >= n
  /\ cOp' = "drainTo" /\ cWant' = n /\ cBuf' = << >>
  /\ UNCHANGED <<shared, producer, cOldSize, cRef, cOut>>

DrainSnapshot ==
  /\ cOp = "drainTo"
  /\ cOp' = "draining" /\ cOldSize' = size
  /\ UNCHANGED <<shared, producer, cWant, cBuf, cRef, cOut>>

\* (mutant of DrainCopy: the loop ends early)
DrainCopyShort ==
  /\ cOp = "draining" /\ Len(cBuf) + 1 < cWant
  /\ cBuf' = Append(cBuf, mpData[Slot(mpTail, Len(cBuf))])
  /\ UNCHANGED <<shared, producer, cOp, cWant, cOldSize, cRef, cOut>>

DrainCopy ==
  /\ cOp = "draining" /\ Len(cBuf) < cWant
  /\ cBuf' = Append(cBuf, mpData[Slot(mpTail, Len(cBuf))])
  /\ UNCHANGED <<shared, producer, cOp, cWant, cOldSize, cRef, cOut>>

\* (mutant of DrainPublish: one element too many is released)
DrainPublishOneMore ==
  /\ cOp = "draining" /\ Len(cBuf) = cWant
  /\ mpTail' = Slot(mpTail, cWant + 1)
  /\ cOp' = "drained" /\ cOut' = cBuf
  /\ UNCHANGED <<mpData, mpHead, producer, cWant, cBuf, cOldSize, cRef>>

DrainPublish ==
  /\ cOp = "draining" /\ Len(cBuf) = cWant
  /\ mpTail' = Slot(mpTail, cWant)
  /\ cOp' = "drained" /\ cOut' = cBuf
  /\ UNCHANGED <<mpData, mpHead, producer, cWant, cBuf, cOldSize, cRef>>

DrainReturn ==
  /\ cOp = "drained"
  /\ ConsumerLeaves
  /\ UNCHANGED <<shared, producer, cOut>>

Pop ==
  /\ cOp = "idle"
  /\ mpHead # mpTail
  /\ cOp' = "pop" /\ cWant' = 1 /\ cBuf' = << >>
  /\ UNCHANGED <<shared, producer, cOldSize, cRef, cOut>>

PopLoad ==
  /\ cOp = "pop" /\ cBuf = << >>
  /\ cBuf' = <<mpData[mpTail]>>
  /\ UNCHANGED <<shared, producer, cOp, cWant, cOldSize, cRef, cOut>>

\* (mutant of PopPublish: the element that is handed out stays in the buffer)
PopPublishNothing ==
  /\ cOp = "pop" /\ cBuf # << >>
  /\ ConsumerLeaves /\ cOut' = cBuf
  /\ UNCHANGED <<shared, producer>>

PopPublish ==
  /\ cOp = "pop" /\ cBuf # << >>
  /\ mpTail' = Slot(mpTail, 1)
  /\ ConsumerLeaves /\ cOut' = cBuf
  /\ UNCHANGED <<mpData, mpHead, producer>>

\* peek(), and peekPtr() where it does not return null
Peek ==
  /\ cOp = "idle"
  /\ mpHead # mpTail
  /\ cOp' = "peeked" /\ cRef' = mpTail
  /\ UNCHANGED <<shared, producer, cWant, cBuf, cOldSize, cOut>>

Drop ==
  /\ cOp = "idle" /\ mpHead # mpTail
  /\ cOp' = "drop"
  /\ UNCHANGED <<shared, producer, cWant, cBuf, cOldSize, cRef, cOut>>

DropPublish ==
  /\ cOp = "drop"
  /\ mpTail' = Slot(mpTail, 1)
  /\ ConsumerLeaves
  /\ UNCHANGED <<mpData, mpHead, producer, cOut>>

\* get() advances mpTail and still returns a reference to the element; so does
\* drop() for a caller that keeps the reference it had from peek().
Get ==
  /\ cOp \in {"idle", "peeked"} /\ mpHead # mpTail
  /\ mpTail' = Slot(mpTail, 1)
  /\ cOp' = "got" /\ cRef' = mpTail /\ cOut' = <<mpData[mpTail]>>
  /\ UNCHANGED <<mpData, mpHead, producer, cWant, cBuf, cOldSize>>

\* the caller reads through the reference that peek() returned
UseRef ==
  /\ cOp = "peeked"
  /\ cOut' = <<mpData[cRef]>>
  /\ UNCHANGED <<shared, producer, cOp, cWant, cBuf, cOldSize, cRef>>

ForgetRef ==
  /\ cOp \in {"peeked", "got"}
  /\ ConsumerLeaves
  /\ UNCHANGED <<shared, producer, cOut>>

ConsumerStep == DrainSnapshot \/ DrainCopy \/ DrainPublish \/ DrainReturn
                \/ PopLoad \/ PopPublish \/ DropPublish

-----------------------------------------------------------------------------
Next == \/ \E chunk \in Chunk : FillFrom(chunk)
        \/ \E value \in Value : Push(value)
        \/ ProducerStep
        \/ \E n \in 0..Capacity : DrainTo(n)
        \/ Pop \/ Peek \/ Drop \/ Get \/ UseRef \/ ForgetRef
        \/ ConsumerStep

Spec == Init /\ [][Next]_vars

\* The scheduler runs both threads: an operation begun goes on.
FairSpec == Spec /\ WF_vars(ProducerStep) /\ WF_vars(ConsumerStep)

-----------------------------------------------------------------------------
(* Properties *)

TypeOK == /\ mpData \in [Slots -> Value]
          /\ mpHead \in Slots /\ mpTail \in Slots
          /\ pOp \in {"idle", "fillFrom", "filling", "filled", "push"}
          /\ pChunk \in Chunk
          /\ pDone \in 0..Len(pChunk)
          /\ pOldSize \in 0..Capacity
          /\ cOp \in {"idle", "drainTo", "draining", "drained", "pop", "drop", "peeked", "got"}
          /\ cWant \in 0..Capacity
          /\ cBuf \in Chunk
          /\ cOldSize \in 0..Capacity
          /\ cRef \in Slots
          /\ cOut \in Seq(Value)

\* The slots the running operation of either side may still touch.
ProducerSlots == IF pOp \in {"fillFrom", "filling", "push"}
                 THEN {Slot(mpHead, i) : i \in 0..(Len(pChunk) - 1)} ELSE {}
ConsumerSlots == CASE cOp \in {"drainTo", "draining", "pop"} ->
                        {Slot(mpTail, i) : i \in 0..(cWant - 1)}
                   [] cOp \in {"peeked", "got"} -> {cRef}
                   [] OTHER -> {}

\* "SPSC queue" (ringbuffer.hpp:10): whatever the two threads are in the middle
\* of, the producer never writes an element that the consumer reads.
NoDataRace == ProducerSlots \cap ConsumerSlots = {}

\* The assertions behind fillFrom() hold although the consumer goes on draining
\* ("not equal because of concurrency").
FillFromPost == pOp = "filled" => /\ size <= pOldSize + Len(pChunk)
                                  /\ size <= Capacity

\* The assertions behind drainTo() hold although the producer goes on filling.
DrainToPost == cOp = "drained" => /\ size + cWant >= cOldSize
                                  /\ size <= Capacity

\* No assertion of either thread ever fires.
AssertionsHold == FillFromPost /\ DrainToPost

\* get() moves mpTail past the element it returns a reference to.  The caller may
\* go on reading it until its next call: the one slot that is always left free
\* keeps a producer that fills the buffer away from it.
GottenRefStaysValid == cOp = "got" => cOut = <<mpData[cRef]>>

\* What lies between mpTail and mpHead, oldest first.
Contents == [k \in 1..size |-> mpData[Slot(mpTail, k - 1)]]

\* the chunk of the producer's running call, until it is published
Pending == IF pOp \in {"fillFrom", "filling", "push"} THEN pChunk ELSE << >>

\* what the consumer asked for and was not given yet, and how many elements
Call == CASE cOp \in {"drainTo", "draining", "pop"} -> "take"
          [] cOp = "drop" -> "drop"
          [] cOp = "peeked" -> "front"
          [] cOp = "got" -> "taken"
          [] OTHER -> "none"
Wanted == IF Call = "take" THEN cWant ELSE 0

Fifo == INSTANCE BoundedFifo WITH queue <- Contents, in <- Pending, call <- Call,
                                  want <- Wanted, out <- cOut

\* The two threads together behave like an atomic bounded FIFO (ringbuffer.hpp:62-156): what
\* a call is given becomes visible once before it returns, what a call hands out leaves the
\* queue in the same step, and no element is lost, duplicated, reordered, torn off its chunk
\* or invented.
ImplementsFifo == Fifo!FifoSpec

\* Neither side waits for the other: an operation begun completes even if the
\* other thread never takes another step.
CallsComplete == /\ pOp # "idle" ~> pOp = "idle"
                 /\ cOp \notin {"idle", "peeked", "got"} ~> cOp = "idle"

=============================================================================
