----------------------- MODULE ChunkedRingBuffer_proofs -----------------------
(***************************************************************************)
(* For every capacity and every set of elements: the SPSC queue is free of *)
(* data races, its assertions hold, and it implements BoundedFifo.         *)
(***************************************************************************)
EXTENDS ChunkedRingBuffer, SequenceTheorems, TLAPS

ProducerInv ==
  /\ pOp \in {"fillFrom", "filling", "push"} => size + Len(pChunk) <= Capacity
  /\ pOp = "fillFrom" => pDone = 0
  /\ pOp = "push" => Len(pChunk) = 1
  /\ pOp = "filling" => size <= pOldSize
  /\ pOp = "filled" => size <= pOldSize + Len(pChunk)
  /\ pOp \in {"filling", "push"} =>
       \A i \in 0..(pDone - 1) : mpData[Slot(mpHead, i)] = pChunk[i + 1]

ConsumerInv ==
  /\ cOp \in {"drainTo", "draining", "pop"} => cWant <= size /\ Len(cBuf) <= cWant
  /\ cOp = "drainTo" => cBuf = << >>
  /\ cOp = "pop" => cWant = 1
  /\ cOp = "draining" => cOldSize <= size
  /\ cOp = "drained" => cOldSize <= size + cWant
  /\ cOp \in {"draining", "pop"} =>
       \A i \in 0..(Len(cBuf) - 1) : cBuf[i + 1] = mpData[Slot(mpTail, i)]
  /\ cOp = "drop" => mpHead # mpTail
  /\ cOp = "peeked" => mpHead # mpTail /\ cRef = mpTail
  /\ cOp = "got" => mpTail = Slot(cRef, 1) /\ cOut = <<mpData[cRef]>>

IInv == TypeOK /\ ProducerInv /\ ConsumerInv

-----------------------------------------------------------------------------
(* Chunks and slots *)

LEMMA ChunkIsSeq == ASSUME NEW c PROVE c \in Chunk <=> c \in Seq(Value) /\ Len(c) <= Capacity
<1> USE BufferAssumption
<1>1. ASSUME c \in Chunk PROVE c \in Seq(Value) /\ Len(c) <= Capacity
  <2>1. PICK n \in 0..Capacity : c \in [1..n -> Value]
    BY <1>1 DEF Chunk
  <2>2. n \in Nat /\ c \in Seq(Value)
    BY <2>1 
  <2>3. Len(c) = n
    BY <2>1, <2>2
  <2> QED BY <2>2, <2>3
<1>2. ASSUME c \in Seq(Value), Len(c) <= Capacity PROVE c \in Chunk
  <2>1. Len(c) \in 0..Capacity /\ c \in [1..Len(c) -> Value]
    BY <1>2
  <2> QED BY <2>1 DEF Chunk
<1> QED BY <1>1, <1>2

LEMMA ChunkBuilders ==
  /\ << >> \in Chunk
  /\ Capacity >= 1 => \A v \in Value : <<v>> \in Chunk /\ Len(<<v>>) = 1
  /\ \A c \in Chunk, v \in Value :
       Len(c) < Capacity => /\ Append(c, v) \in Chunk
                            /\ Len(Append(c, v)) = Len(c) + 1
<1>1. << >> \in Seq(Value) /\ Len(<< >>) = 0 /\ Capacity >= 0
  BY BufferAssumption
<1>2. ASSUME NEW v \in Value PROVE <<v>> \in Seq(Value) /\ Len(<<v>>) = 1
  OBVIOUS
<1>3. ASSUME NEW c \in Chunk, NEW v \in Value, Len(c) < Capacity
      PROVE Append(c, v) \in Chunk /\ Len(Append(c, v)) = Len(c) + 1
  <2>1. c \in Seq(Value)
    BY ChunkIsSeq
  <2>2. Append(c, v) \in Seq(Value) /\ Len(Append(c, v)) = Len(c) + 1
    BY <2>1
  <2>3. Len(Append(c, v)) <= Capacity
    BY <1>3, <2>1, <2>2, BufferAssumption
  <2> QED BY <2>2, <2>3, ChunkIsSeq
<1> QED BY <1>1, <1>2, <1>3, ChunkIsSeq

LEMMA SlotInArray == ASSUME NEW p \in Slots, NEW i \in 0..mCapacity PROVE Slot(p, i) \in Slots
BY BufferAssumption DEF Slot, Slots, mCapacity

LEMMA SizeInRange == ASSUME TypeOK PROVE size \in 0..Capacity
BY BufferAssumption DEF TypeOK, size, Slots, mCapacity

\* Filling n elements makes the buffer grow by n, whether or not it wraps.
LEMMA HeadAdvances ==
  ASSUME TypeOK, NEW n \in 0..Capacity, size + n <= Capacity,
         mpHead' = Slot(mpHead, n), mpTail' = mpTail
  PROVE  size' = size + n
BY BufferAssumption DEF TypeOK, size, Slot, Slots, mCapacity

LEMMA TailAdvances ==
  ASSUME TypeOK, NEW n \in 0..Capacity, n <= size,
         mpTail' = Slot(mpTail, n), mpHead' = mpHead
  PROVE  size' = size - n
BY BufferAssumption DEF TypeOK, size, Slot, Slots, mCapacity

\* The n free slots behind mpHead hold no element between mpTail and mpHead,
\* nor the one just in front of mpTail, and differ from each other.
LEMMA FreeSlots ==
  ASSUME TypeOK, NEW n \in 0..Capacity, size + n <= Capacity, NEW i \in 0..(n - 1)
  PROVE  /\ \A j \in 0..(size - 1) : Slot(mpHead, i) # Slot(mpTail, j)
         /\ \A j \in 0..(n - 1) : i # j => Slot(mpHead, i) # Slot(mpHead, j)
         /\ \A r \in Slots : mpTail = Slot(r, 1) => Slot(mpHead, i) # r
BY BufferAssumption DEF TypeOK, size, Slot, Slots, mCapacity

LEMMA HeadStaysOffTail ==
  ASSUME TypeOK, NEW n \in 0..Capacity, size + n <= Capacity, mpHead # mpTail
  PROVE  Slot(mpHead, n) # mpTail
BY BufferAssumption DEF TypeOK, size, Slot, Slots, mCapacity

-----------------------------------------------------------------------------
(* The inductive invariant *)

LEMMA InitIInv == Init => IInv
BY BufferAssumption, ChunkBuilders
   DEF Init, IInv, TypeOK, ProducerInv, ConsumerInv, Slots, size

LEMMA TypeStep == ASSUME IInv, [Next]_vars PROVE TypeOK'
<1> USE BufferAssumption
<1>s. TypeOK /\ size \in 0..Capacity
  BY SizeInRange DEF IInv
<1>w. /\ \A p \in Slots, i \in 0..mCapacity : Slot(p, i) \in Slots
      /\ 0 \in Slots /\ 1 \in 0..mCapacity
      /\ \A n \in 0..Capacity : n \in 0..mCapacity
      /\ \A c \in Chunk : c \in Seq(Value) /\ Len(c) \in 0..Capacity
  <2>1. ASSUME NEW c \in Chunk PROVE c \in Seq(Value) /\ Len(c) \in 0..Capacity
    <3>1. c \in Seq(Value) /\ Len(c) <= Capacity
      BY ChunkIsSeq
    <3> QED BY <3>1
  <2> QED BY SlotInArray, <2>1 DEF Slots, mCapacity
<1>1. ASSUME NEW chunk \in Chunk, FillFrom(chunk) PROVE TypeOK'
  BY <1>1, <1>s, <1>w DEF FillFrom, TypeOK, shared, consumer
<1>2. CASE FillSnapshot
  BY <1>2, <1>s DEF FillSnapshot, TypeOK, shared, consumer
<1>3. CASE FillCopy
  <2>1. pChunk[pDone + 1] \in Value /\ pDone + 1 \in 0..Len(pChunk)
    BY <1>3, <1>s, <1>w DEF FillCopy, TypeOK
  <2> QED BY <1>3, <1>s, <2>1 DEF FillCopy, TypeOK, consumer
<1>4. CASE FillPublish
  BY <1>4, <1>s, <1>w DEF FillPublish, TypeOK, consumer
<1>5. CASE FillReturn
  BY <1>5, <1>s, <1>w, ChunkBuilders DEF FillReturn, ProducerLeaves, TypeOK, shared, consumer
<1>6. ASSUME NEW value \in Value, Push(value) PROVE TypeOK'
  <2>1. <<value>> \in Chunk /\ Len(<<value>>) = 1
    BY <1>6, <1>s, ChunkBuilders DEF Push
  <2> QED BY <1>6, <1>s, <2>1 DEF Push, TypeOK, shared, consumer
<1>7. CASE PushStore
  <2>1. Len(pChunk) = 1
    BY <1>7 DEF PushStore, IInv, ProducerInv
  <2>2. pChunk \in Seq(Value)
    BY <1>s, <1>w DEF TypeOK
  <2>3. pChunk[1] \in Value
    BY <2>1, <2>2
  <2> QED BY <1>7, <1>s, <2>1, <2>3 DEF PushStore, TypeOK, consumer
<1>8. CASE PushPublish
  BY <1>8, <1>s, <1>w, ChunkBuilders DEF PushPublish, ProducerLeaves, TypeOK, consumer
<1>9. ASSUME NEW n \in 0..Capacity, DrainTo(n) PROVE TypeOK'
  BY <1>9, <1>s, ChunkBuilders DEF DrainTo, TypeOK, shared, producer
<1>10. CASE DrainSnapshot
  BY <1>10, <1>s DEF DrainSnapshot, TypeOK, shared, producer
<1>11. CASE DrainCopy
  <2>1. mpData[Slot(mpTail, Len(cBuf))] \in Value /\ Len(cBuf) < Capacity
    BY <1>11, <1>s, <1>w DEF DrainCopy, TypeOK
  <2>2. cBuf' \in Chunk
    BY <1>11, <1>s, <2>1, ChunkBuilders DEF DrainCopy, TypeOK
  <2> QED BY <1>11, <1>s, <2>2 DEF DrainCopy, TypeOK, shared, producer
<1>12. CASE DrainPublish
  BY <1>12, <1>s, <1>w DEF DrainPublish, TypeOK, producer
<1>13. CASE DrainReturn
  BY <1>13, <1>s, <1>w, ChunkBuilders DEF DrainReturn, ConsumerLeaves, TypeOK, shared, producer
<1>14. CASE Pop
  <2>1. 1 \in 0..Capacity
    BY <1>14, <1>s DEF Pop, TypeOK, Slots
  <2> QED BY <1>14, <1>s, <2>1, ChunkBuilders DEF Pop, TypeOK, shared, producer
<1>15. CASE PopLoad
  <2>1. mpData[mpTail] \in Value /\ Capacity >= 1
    BY <1>15, <1>s DEF PopLoad, TypeOK, IInv, ConsumerInv
  <2>2. cBuf' \in Chunk
    BY <1>15, <2>1, ChunkBuilders DEF PopLoad
  <2> QED BY <1>15, <1>s, <2>2 DEF PopLoad, TypeOK, shared, producer
<1>16. CASE PopPublish
  BY <1>16, <1>s, <1>w, ChunkBuilders DEF PopPublish, ConsumerLeaves, TypeOK, producer
<1>17. CASE Peek
  BY <1>17, <1>s DEF Peek, TypeOK, shared, producer
<1>18. CASE Drop
  BY <1>18, <1>s DEF Drop, TypeOK, shared, producer
<1>23. CASE DropPublish
  BY <1>23, <1>s, <1>w, ChunkBuilders DEF DropPublish, ConsumerLeaves, TypeOK, producer
<1>19. CASE Get
  <2>1. mpData[mpTail] \in Value
    BY <1>s DEF TypeOK
  <2>2. <<mpData[mpTail]>> \in Seq(Value)
    BY <2>1
  <2> QED BY <1>19, <1>s, <1>w, <2>2 DEF Get, TypeOK, producer
<1>20. CASE UseRef
  <2>1. mpData[cRef] \in Value
    BY <1>s DEF TypeOK
  <2>2. <<mpData[cRef]>> \in Seq(Value)
    BY <2>1
  <2> QED BY <1>20, <1>s, <2>2 DEF UseRef, TypeOK, shared, producer
<1>21. CASE ForgetRef
  BY <1>21, <1>s, <1>w, ChunkBuilders DEF ForgetRef, ConsumerLeaves, TypeOK, shared, producer
<1>22. CASE UNCHANGED vars
  BY <1>22, <1>s DEF TypeOK, vars, shared, producer, consumer
<1> QED
  BY <1>1, <1>2, <1>3, <1>4, <1>5, <1>6, <1>7, <1>8, <1>9, <1>10, <1>11, <1>12,
     <1>13, <1>14, <1>15, <1>16, <1>17, <1>18, <1>19, <1>20, <1>21, <1>22, <1>23
     DEF Next, ProducerStep, ConsumerStep

LEMMA ProducerInvStep == ASSUME IInv, [Next]_vars PROVE ProducerInv'
<1> USE BufferAssumption
<1>s. TypeOK /\ size \in 0..Capacity /\ TypeOK'
  BY SizeInRange, TypeStep DEF IInv
<1>l. Len(pChunk) \in 0..Capacity /\ pDone \in 0..Len(pChunk) /\ pChunk \in Seq(Value)
  <2>1. pChunk \in Seq(Value) /\ Len(pChunk) <= Capacity /\ pDone \in 0..Len(pChunk)
    BY <1>s, ChunkIsSeq DEF TypeOK
  <2> QED BY <2>1
<1>p. ProducerInv /\ ConsumerInv
  BY DEF IInv
\* a step that leaves the producer alone and does not fill the buffer
<1>c. ASSUME UNCHANGED producer, UNCHANGED <<mpData, mpHead>>, size' <= size, size' \in Nat
      PROVE ProducerInv'
  <2>1. \A i \in 0..(pDone - 1) : Slot(mpHead, i)' = Slot(mpHead, i)
    BY <1>c DEF Slot
  <2> QED BY <1>c, <1>s, <1>l, <1>p, <2>1 DEF ProducerInv, TypeOK, producer, Slot
<1>u. ASSUME UNCHANGED producer, UNCHANGED shared PROVE ProducerInv'
  BY <1>c, <1>u, <1>s DEF shared, size, mCapacity
<1>1. ASSUME NEW chunk \in Chunk, FillFrom(chunk) PROVE ProducerInv'
  <2>1. size' = size /\ Len(chunk) \in 0..Capacity
    <3>1. chunk \in Seq(Value) /\ Len(chunk) <= Capacity
      BY ChunkIsSeq
    <3> QED BY <1>1, <3>1 DEF FillFrom, shared, size, mCapacity
  <2> QED BY <1>1, <1>s, <2>1 DEF FillFrom, availableSize, ProducerInv
<1>2. CASE FillSnapshot
  <2>1. size' = size
    BY <1>2 DEF FillSnapshot, shared, size, mCapacity
  <2> QED BY <1>2, <1>s, <1>l, <1>p, <2>1 DEF FillSnapshot, ProducerInv
<1>3. CASE FillCopy
  <2>1. size' = size /\ size + Len(pChunk) <= Capacity
    BY <1>3, <1>p DEF FillCopy, ProducerInv, size, mCapacity
  <2>2. Slot(mpHead, pDone) \in Slots
    BY <1>l, <1>s, SlotInArray DEF TypeOK, mCapacity
  <2>3. ASSUME NEW i \in 0..pDone PROVE mpData'[Slot(mpHead, i)] = pChunk[i + 1]
    <3>1. CASE i = pDone
      BY <1>3, <1>s, <2>2, <3>1 DEF FillCopy, TypeOK
    <3>2. CASE i # pDone
      <4>1. i \in 0..(pDone - 1) /\ pDone \in 0..(Len(pChunk) - 1)
        BY <1>3, <1>l, <3>2 DEF FillCopy
      <4>2. Slot(mpHead, i) # Slot(mpHead, pDone)
        BY <1>s, <1>l, <2>1, <4>1, FreeSlots
      <4>3. Slot(mpHead, i) \in Slots
        BY <1>l, <1>s, <4>1, SlotInArray DEF TypeOK, mCapacity
      <4> QED BY <1>3, <1>s, <1>p, <4>1, <4>2, <4>3 DEF FillCopy, ProducerInv, TypeOK
    <3> QED BY <3>1, <3>2
  <2>4. \A i \in 0..(pDone' - 1) : mpData'[Slot(mpHead', i)] = pChunk'[i + 1]
    BY <1>3, <1>l, <2>3 DEF FillCopy
  <2> QED BY <1>3, <1>p, <1>s, <2>1, <2>4 DEF FillCopy, ProducerInv, Slot
<1>4. CASE FillPublish
  <2>1. size + Len(pChunk) <= Capacity /\ size <= pOldSize
    BY <1>4, <1>p DEF FillPublish, ProducerInv
  <2>2. size' = size + Len(pChunk)
    BY <1>4, <1>s, <1>l, <2>1, HeadAdvances DEF FillPublish
  <2> QED BY <1>4, <1>s, <1>l, <2>1, <2>2 DEF FillPublish, ProducerInv, TypeOK
<1>5. CASE FillReturn
  BY <1>5 DEF FillReturn, ProducerLeaves, ProducerInv
<1>6. ASSUME NEW value \in Value, Push(value) PROVE ProducerInv'
  <2>1. size' = size /\ size + 1 <= Capacity /\ Len(<<value>>) = 1
    BY <1>6, <1>s DEF Push, shared, size, mCapacity
  <2> QED BY <1>6, <1>s, <2>1 DEF Push, ProducerInv
<1>7. CASE PushStore
  <2>1. size' = size
    BY <1>7 DEF PushStore, size, mCapacity
  <2>2. mpData'[Slot(mpHead, 0)] = pChunk[1]
    BY <1>7, <1>s DEF PushStore, TypeOK, Slot, Slots, mCapacity
  <2>3. \A i \in 0..(pDone' - 1) : mpData'[Slot(mpHead', i)] = pChunk'[i + 1]
    BY <1>7, <2>2 DEF PushStore
  <2> QED BY <1>7, <1>p, <1>s, <2>1, <2>3 DEF PushStore, ProducerInv, Slot
<1>8. CASE PushPublish
  BY <1>8 DEF PushPublish, ProducerLeaves, ProducerInv
<1>9. ASSUME NEW n \in 0..Capacity, DrainTo(n) PROVE ProducerInv'
  BY <1>9, <1>u DEF DrainTo
<1>10. CASE DrainSnapshot \/ DrainCopy \/ DrainReturn \/ Pop \/ PopLoad \/ Drop \/ Peek \/ UseRef
            \/ ForgetRef
  BY <1>10, <1>u DEF DrainSnapshot, DrainCopy, DrainReturn, Pop, PopLoad, Drop, Peek, UseRef, ForgetRef
<1>11. CASE DrainPublish
  <2>1. cWant \in 0..Capacity /\ cWant <= size
    BY <1>11, <1>s, <1>p DEF DrainPublish, ConsumerInv, TypeOK
  <2>2. size' = size - cWant
    BY <1>11, <1>s, <2>1, TailAdvances DEF DrainPublish
  <2>3. size' <= size /\ size' \in Nat
    BY <1>s, <2>1, <2>2
  <2> QED BY <1>11, <1>c, <2>3 DEF DrainPublish
<1>12. CASE PopPublish \/ DropPublish \/ Get
  <2>1. 1 <= size
    <3>1. CASE PopPublish
      BY <1>p, <3>1 DEF PopPublish, ConsumerInv
    <3>2. mpHead # mpTail => 1 <= size
      <4>1. mpHead \in 0..Capacity /\ mpTail \in 0..Capacity
        BY <1>s DEF TypeOK, Slots, mCapacity
      <4> QED BY <4>1 DEF size, mCapacity
    <3>3. CASE DropPublish \/ Get
      <4>1. mpHead # mpTail
        BY <1>p, <3>3 DEF DropPublish, Get, ConsumerInv
      <4> QED BY <3>2, <4>1
    <3> QED BY <1>12, <3>1, <3>3
  <2>2. mpTail' = Slot(mpTail, 1) /\ UNCHANGED <<mpData, mpHead>> /\ UNCHANGED producer
    BY <1>12 DEF PopPublish, DropPublish, Get
  <2>3. size' = size - 1
    BY <1>s, <2>1, <2>2, TailAdvances
  <2>4. size' <= size /\ size' \in Nat
    BY <1>s, <2>1, <2>3
  <2> QED BY <1>c, <2>2, <2>4
<1>13. CASE UNCHANGED vars
  BY <1>13, <1>u DEF vars
<1> QED
  BY <1>1, <1>2, <1>3, <1>4, <1>5, <1>6, <1>7, <1>8, <1>9, <1>10, <1>11, <1>12, <1>13
     DEF Next, ProducerStep, ConsumerStep

LEMMA ConsumerInvStep == ASSUME IInv, [Next]_vars PROVE ConsumerInv'
<1> USE BufferAssumption
<1>s. TypeOK /\ size \in 0..Capacity /\ TypeOK'
  BY SizeInRange, TypeStep DEF IInv
<1>l. /\ Len(pChunk) \in 0..Capacity /\ pDone \in 0..Len(pChunk)
      /\ Len(cBuf) \in 0..Capacity /\ cBuf \in Seq(Value)
  <2>1. /\ pChunk \in Seq(Value) /\ Len(pChunk) <= Capacity /\ pDone \in 0..Len(pChunk)
        /\ cBuf \in Seq(Value) /\ Len(cBuf) <= Capacity
    BY <1>s, ChunkIsSeq DEF TypeOK
  <2> QED BY <2>1
<1>p. ProducerInv /\ ConsumerInv
  BY DEF IInv
\* a step that leaves the consumer alone and does not drain the buffer
<1>c. ASSUME UNCHANGED consumer, UNCHANGED <<mpData, mpTail>>, size' >= size, size' \in Nat,
             mpHead # mpTail => mpHead' # mpTail
      PROVE ConsumerInv'
  <2>1. size \in Nat /\ size' >= size /\ cWant \in Nat /\ cOldSize \in Nat
    BY <1>c, <1>s DEF TypeOK
  <2>2. cOp \in {"draining", "pop"} =>
          \A j \in 0..(Len(cBuf') - 1) : cBuf'[j + 1] = mpData'[Slot(mpTail', j)]
    BY <1>c, <1>p DEF ConsumerInv, consumer
  <2>3. /\ cOp \in {"drainTo", "draining", "pop"} => cWant <= size' /\ Len(cBuf) <= cWant
        /\ cOp = "draining" => cOldSize <= size'
        /\ cOp = "drained" => cOldSize <= size' + cWant
    <3> DEFINE s == size  t == size'
    <3>1. /\ cOp \in {"drainTo", "draining", "pop"} => cWant <= s /\ Len(cBuf) <= cWant
          /\ cOp = "draining" => cOldSize <= s
          /\ cOp = "drained" => cOldSize <= s + cWant
      BY <1>p DEF ConsumerInv
    <3>2. s \in Nat /\ t \in Nat /\ t >= s /\ cWant \in Nat /\ cOldSize \in Nat
      BY <1>c, <2>1
    <3> HIDE DEF s, t
    <3>3. /\ cOp \in {"drainTo", "draining", "pop"} => cWant <= t /\ Len(cBuf) <= cWant
          /\ cOp = "draining" => cOldSize <= t
          /\ cOp = "drained" => cOldSize <= t + cWant
      BY <3>1, <3>2
    <3> QED BY <3>3 DEF t
  <2>4. /\ cOp = "drop" => mpHead' # mpTail'
        /\ cOp = "peeked" => mpHead' # mpTail' /\ cRef = mpTail'
        /\ cOp = "got" => mpTail' = Slot(cRef, 1) /\ cOut = <<mpData'[cRef]>>
    BY <1>c, <1>p DEF ConsumerInv
  <2> QED BY <1>c, <1>p, <2>2, <2>3, <2>4 DEF ConsumerInv, consumer
<1>u. ASSUME UNCHANGED consumer, UNCHANGED shared PROVE ConsumerInv'
  BY <1>c, <1>u, <1>s DEF shared, size, mCapacity
\* a step that stores an element in a free slot
<1>d. ASSUME UNCHANGED consumer, UNCHANGED <<mpHead, mpTail>>, NEW i \in 0..(Len(pChunk) - 1),
             NEW v, mpData' = [mpData EXCEPT ![Slot(mpHead, i)] = v],
             size + Len(pChunk) <= Capacity
      PROVE ConsumerInv'
  <2>1. size' = size
    BY <1>d DEF size, mCapacity
  <2>2. ASSUME NEW j \in 0..(size - 1)
        PROVE mpData'[Slot(mpTail, j)] = mpData[Slot(mpTail, j)]
    <3>1. Slot(mpTail, j) \in Slots
      BY <1>s, SlotInArray DEF TypeOK, mCapacity
    <3>2. Slot(mpTail, j) # Slot(mpHead, i)
      BY <1>d, <1>s, <1>l, FreeSlots
    <3> QED BY <1>d, <1>s, <3>1, <3>2 DEF TypeOK
  <2>3. cOp = "got" => mpData'[cRef] = mpData[cRef]
    <3>1. ASSUME cOp = "got" PROVE cRef # Slot(mpHead, i)
      <4>1. cRef \in Slots /\ mpTail = Slot(cRef, 1)
        BY <1>s, <1>p, <3>1 DEF ConsumerInv, TypeOK
      <4> QED BY <1>d, <1>s, <1>l, <4>1, FreeSlots
    <3> QED BY <1>d, <1>s, <3>1 DEF TypeOK
  <2>4. ASSUME cOp \in {"draining", "pop"}, NEW j \in 0..(Len(cBuf) - 1)
        PROVE cBuf[j + 1] = mpData'[Slot(mpTail, j)]
    <3>1. cBuf[j + 1] = mpData[Slot(mpTail, j)] /\ j \in 0..(size - 1)
      BY <1>s, <1>l, <1>p, <2>4 DEF ConsumerInv, TypeOK
    <3> QED BY <2>2, <3>1
  <2>5. \A p, j : Slot(p, j)' = Slot(p, j)
    BY DEF Slot, mCapacity
  <2> QED BY <1>d, <1>s, <1>p, <2>1, <2>3, <2>4, <2>5 DEF ConsumerInv, consumer, Slot, mCapacity
<1>1. ASSUME NEW chunk \in Chunk, FillFrom(chunk) PROVE ConsumerInv'
  BY <1>1, <1>u DEF FillFrom
<1>2. ASSUME NEW value \in Value, Push(value) PROVE ConsumerInv'
  BY <1>2, <1>u DEF Push
<1>3. CASE FillSnapshot \/ FillReturn
  BY <1>3, <1>u DEF FillSnapshot, FillReturn
<1>4. CASE FillCopy
  <2>1. pDone \in 0..(Len(pChunk) - 1) /\ size + Len(pChunk) <= Capacity
    BY <1>4, <1>l, <1>p DEF FillCopy, ProducerInv
  <2> QED BY <1>4, <1>d, <2>1 DEF FillCopy
<1>5. CASE PushStore
  <2>1. 0 \in 0..(Len(pChunk) - 1) /\ size + Len(pChunk) <= Capacity
    BY <1>5, <1>p DEF PushStore, ProducerInv
  <2>2. mpHead = Slot(mpHead, 0)
    BY <1>s DEF TypeOK, Slot, Slots, mCapacity
  <2> QED BY <1>5, <1>d, <2>1, <2>2 DEF PushStore
<1>6. CASE FillPublish \/ PushPublish
  <2>1. PICK n \in 0..Capacity : /\ size + n <= Capacity /\ mpHead' = Slot(mpHead, n)
                                 /\ UNCHANGED consumer /\ UNCHANGED <<mpData, mpTail>>
    BY <1>6, <1>l, <1>p DEF FillPublish, PushPublish, ProducerInv
  <2>2. size' = size + n
    BY <1>s, <2>1, HeadAdvances
  <2>3. mpHead # mpTail => mpHead' # mpTail
    BY <1>s, <2>1, HeadStaysOffTail
  <2>4. size' >= size /\ size' \in Nat
    BY <1>s, <2>1, <2>2
  <2> QED BY <1>c, <2>1, <2>3, <2>4
<1>7. ASSUME NEW n \in 0..Capacity, DrainTo(n) PROVE ConsumerInv'
  <2>1. size' = size
    BY <1>7 DEF DrainTo, shared, size, mCapacity
  <2> QED BY <1>7, <1>s, <2>1 DEF DrainTo, ConsumerInv
<1>8. CASE DrainSnapshot
  <2>1. size' = size
    BY <1>8 DEF DrainSnapshot, shared, size, mCapacity
  <2> QED BY <1>8, <1>s, <1>l, <1>p, <2>1 DEF DrainSnapshot, ConsumerInv, shared
<1>9. CASE DrainCopy
  <2>1. size' = size /\ cBuf' = Append(cBuf, mpData[Slot(mpTail, Len(cBuf))])
    BY <1>9 DEF DrainCopy, shared, size, mCapacity
  <2>2. Len(cBuf') = Len(cBuf) + 1 /\ \A j \in 1..Len(cBuf) : cBuf'[j] = cBuf[j]
        /\ cBuf'[Len(cBuf) + 1] = mpData[Slot(mpTail, Len(cBuf))]
    BY <1>l, <2>1
  <2>3. \A j \in 0..(Len(cBuf') - 1) : cBuf'[j + 1] = mpData[Slot(mpTail, j)]
    BY <1>9, <1>l, <1>p, <2>2 DEF DrainCopy, ConsumerInv
  <2>4. Len(cBuf') <= cWant
    BY <1>9, <1>s, <1>l, <2>2 DEF DrainCopy, TypeOK
  <2> QED BY <1>9, <1>s, <1>p, <2>1, <2>3, <2>4 DEF DrainCopy, ConsumerInv, shared, Slot
<1>10. CASE DrainPublish
  <2>1. cWant \in 0..Capacity /\ cWant <= size /\ cOldSize <= size
    BY <1>10, <1>s, <1>p DEF DrainPublish, ConsumerInv, TypeOK
  <2>2. size' = size - cWant
    BY <1>10, <1>s, <2>1, TailAdvances DEF DrainPublish
  <2> QED BY <1>10, <1>s, <2>1, <2>2 DEF DrainPublish, ConsumerInv
<1>11. CASE DrainReturn \/ PopPublish \/ DropPublish \/ ForgetRef
  BY <1>11 DEF DrainReturn, PopPublish, DropPublish, ForgetRef, ConsumerLeaves, ConsumerInv
<1>12. CASE Pop
  <2>1. size' = size /\ 1 <= size
    BY <1>12, <1>s DEF Pop, shared, size, mCapacity, TypeOK, Slots
  <2> QED BY <1>12, <1>s, <2>1 DEF Pop, ConsumerInv
<1>13. CASE PopLoad
  <2>1. size' = size
    BY <1>13 DEF PopLoad, shared, size, mCapacity
  <2>2. Len(cBuf') = 1 /\ cBuf'[1] = mpData[Slot(mpTail, 0)]
    BY <1>13, <1>s DEF PopLoad, TypeOK, Slot, Slots, mCapacity
  <2> QED BY <1>13, <1>s, <1>p, <2>1, <2>2 DEF PopLoad, ConsumerInv, shared, Slot
<1>14. CASE Peek
  BY <1>14 DEF Peek, ConsumerInv, shared
<1>15. CASE Drop
  BY <1>15 DEF Drop, ConsumerInv, shared
<1>16. CASE Get
  <2>1. mpTail' = Slot(cRef', 1) /\ cOut' = <<mpData'[cRef']>>
    BY <1>16 DEF Get
  <2> QED BY <1>16, <2>1 DEF Get, ConsumerInv, Slot, mCapacity
<1>17. CASE UseRef
  BY <1>17, <1>s, <1>p DEF UseRef, ConsumerInv, shared
<1>18. CASE UNCHANGED vars
  BY <1>18, <1>u DEF vars
<1> QED
  BY <1>1, <1>2, <1>3, <1>4, <1>5, <1>6, <1>7, <1>8, <1>9, <1>10, <1>11, <1>12,
     <1>13, <1>14, <1>15, <1>16, <1>17, <1>18 DEF Next, ProducerStep, ConsumerStep

\* The inductive invariant holds of every reachable state: both threads' private
\* progress agrees with the shared array, whatever the other one is doing.
THEOREM Invariance == Spec => []IInv
<1>1. IInv /\ [Next]_vars => IInv'
  BY TypeStep, ProducerInvStep, ConsumerInvStep DEF IInv
<1> QED BY InitIInv, <1>1, PTL DEF Spec

\* mpHead and mpTail stay inside the array and every local keeps its range.
THEOREM TypeCorrect == Spec => []TypeOK
<1>1. IInv => TypeOK
  BY DEF IInv
<1> QED BY Invariance, <1>1, PTL

\* "SPSC queue": for every capacity, no slot the producer may still write is one
\* the consumer may still read, be it by drainTo(), pop() or through a reference.
THEOREM DataRaceFreedom == Spec => []NoDataRace
<1>1. IInv => NoDataRace
  <2> SUFFICES ASSUME IInv, NEW s \in ProducerSlots, s \in ConsumerSlots PROVE FALSE
    BY DEF NoDataRace
  <2> USE BufferAssumption
  <2>t. TypeOK /\ size \in 0..Capacity /\ ProducerInv /\ ConsumerInv
    BY SizeInRange DEF IInv
  <2>1. pChunk \in Seq(Value) /\ Len(pChunk) \in 0..Capacity
    <3>1. pChunk \in Seq(Value) /\ Len(pChunk) <= Capacity
      BY <2>t, ChunkIsSeq DEF TypeOK
    <3> QED BY <3>1
  <2>2. PICK i \in 0..(Len(pChunk) - 1) : s = Slot(mpHead, i)
    BY DEF ProducerSlots
  <2>3. size + Len(pChunk) <= Capacity
    BY <2>t DEF ProducerInv, ProducerSlots
  <2>4. CASE cOp \in {"drainTo", "draining", "pop"}
    <3>1. PICK j \in 0..(cWant - 1) : s = Slot(mpTail, j)
      BY <2>4 DEF ConsumerSlots
    <3>2. j \in 0..(size - 1)
      BY <2>4, <2>t DEF ConsumerInv, TypeOK
    <3> QED BY <2>t, <2>1, <2>2, <2>3, <3>1, <3>2, FreeSlots
  <2>5. CASE cOp = "peeked"
    <3>1. s = mpTail /\ mpHead # mpTail
      BY <2>5, <2>t DEF ConsumerSlots, ConsumerInv
    <3>2. mpTail = Slot(mpTail, 0)
      BY <2>t DEF TypeOK, Slot, Slots, mCapacity
    <3>3. 0 \in 0..(size - 1)
      BY <2>t, <3>1 DEF TypeOK, size, Slots, mCapacity
    <3> QED BY <2>t, <2>1, <2>2, <2>3, <3>1, <3>2, <3>3, FreeSlots
  <2>6. CASE cOp = "got"
    <3>1. s \in Slots /\ mpTail = Slot(s, 1)
      BY <2>6, <2>t DEF ConsumerSlots, ConsumerInv, TypeOK
    <3> QED BY <2>t, <2>1, <2>2, <2>3, <3>1, FreeSlots
  <2> QED BY <2>4, <2>5, <2>6 DEF ConsumerSlots
<1> QED BY Invariance, <1>1, PTL

\* The debug assertions behind fillFrom() and drainTo() never fire, although the
\* other thread moves its pointer while they are evaluated.
THEOREM Assertions == Spec => []AssertionsHold
<1>1. IInv => FillFromPost
  BY SizeInRange DEF IInv, ProducerInv, FillFromPost
<1>2. IInv => DrainToPost
  BY SizeInRange DEF IInv, ConsumerInv, DrainToPost
<1>3. IInv => AssertionsHold
  BY <1>1, <1>2 DEF AssertionsHold
<1> QED BY Invariance, <1>3, PTL

\* A reference from get() stays valid until the consumer's next call, whatever
\* the producer stores meanwhile.
THEOREM GottenRef == Spec => []GottenRefStaysValid
<1>1. IInv => GottenRefStaysValid
  BY DEF IInv, ConsumerInv, GottenRefStaysValid
<1> QED BY Invariance, <1>1, PTL

-----------------------------------------------------------------------------
(* Refinement: the ring buffer implements the atomic bounded FIFO *)

\* n elements of the array from tail on, as a sequence
Window(data, tail, n) == [k \in 1..n |-> data[Slot(tail, k - 1)]]

LEMMA ContentsIsWindow == /\ Contents = Window(mpData, mpTail, size)
                          /\ Contents' = Window(mpData', mpTail', size')
BY DEF Contents, Window, Slot, mCapacity

LEMMA WindowProperties ==
  ASSUME NEW data \in [Slots -> Value], NEW tail \in Slots, NEW n \in 0..Capacity
  PROVE  /\ Window(data, tail, n) \in Seq(Value)
         /\ Len(Window(data, tail, n)) = n
         /\ \A k \in 1..n : Window(data, tail, n)[k] = data[Slot(tail, k - 1)]
<1> USE BufferAssumption
<1> DEFINE w == Window(data, tail, n)
<1>1. ASSUME NEW k \in 1..n PROVE data[Slot(tail, k - 1)] \in Value
  BY SlotInArray DEF mCapacity
<1>2. w \in [1..n -> Value] /\ n \in Nat
  BY <1>1 DEF Window
<1>3. w \in Seq(Value) /\ Len(w) = n
  BY <1>2
<1>4. \A k \in 1..n : w[k] = data[Slot(tail, k - 1)]
  BY DEF Window
<1> QED BY <1>3, <1>4

\* the slots of a window, in terms of the slots behind them
LEMMA SlotArithmetic ==
  ASSUME NEW tail \in Slots, NEW m \in 0..Capacity, NEW n \in 0..Capacity, m + n <= Capacity
  PROVE  Slot(Slot(tail, m), n) = Slot(tail, m + n)
BY BufferAssumption DEF Slot, Slots, mCapacity

LEMMA HeadSlot == ASSUME TypeOK PROVE mpHead = Slot(mpTail, size)
BY BufferAssumption DEF TypeOK, size, Slot, Slots, mCapacity

LEMMA EnqueueStep ==
  ASSUME IInv, mpHead' = Slot(mpHead, Len(pChunk)), UNCHANGED <<mpData, mpTail>>,
         size + Len(pChunk) <= Capacity,
         \A i \in 0..(Len(pChunk) - 1) : mpData[Slot(mpHead, i)] = pChunk[i + 1]
  PROVE  Contents' = Contents \o pChunk
<1> USE BufferAssumption
<1> DEFINE n == Len(pChunk)  q == Window(mpData, mpTail, size)
           r == Window(mpData, mpTail, size + n)
<1>1. TypeOK /\ size \in 0..Capacity
  BY SizeInRange DEF IInv
<1>2. pChunk \in Seq(Value) /\ n \in 0..Capacity
  <2>1. pChunk \in Seq(Value) /\ Len(pChunk) <= Capacity
    BY <1>1, ChunkIsSeq DEF TypeOK
  <2> QED BY <2>1
<1>3. size' = size + n
  BY <1>1, <1>2, HeadAdvances
<1>4. /\ q \in Seq(Value) /\ Len(q) = size
      /\ \A k \in 1..size : q[k] = mpData[Slot(mpTail, k - 1)]
  BY <1>1, WindowProperties DEF TypeOK
<1>5. /\ r \in Seq(Value) /\ Len(r) = size + n
      /\ \A k \in 1..(size + n) : r[k] = mpData[Slot(mpTail, k - 1)]
  <2>1. size + n \in 0..Capacity
    BY <1>1, <1>2
  <2> QED BY <1>1, <2>1, WindowProperties DEF TypeOK
<1> HIDE DEF q, r
<1>6. /\ q \o pChunk \in Seq(Value) /\ Len(q \o pChunk) = size + n
      /\ \A k \in 1..(size + n) : (q \o pChunk)[k] = IF k <= size THEN q[k] ELSE pChunk[k - size]
  BY <1>2, <1>4, ConcatProperties
<1>7. ASSUME NEW k \in 1..(size + n) PROVE r[k] = (q \o pChunk)[k]
  <2>1. CASE k <= size
    <3>1. k \in 1..size
      BY <1>1, <1>2, <2>1
    <3> QED BY <1>4, <1>5, <1>6, <2>1, <3>1
  <2>2. CASE k > size
    <3>1. k - 1 - size \in 0..(n - 1) /\ k - 1 - size \in 0..Capacity /\ k - 1 = size + (k - 1 - size)
      BY <1>1, <1>2, <2>2
    <3>2. Slot(mpHead, k - 1 - size) = Slot(mpTail, k - 1)
      <4>1. size + (k - 1 - size) <= Capacity
        BY <1>1, <1>2, <3>1
      <4> QED BY <1>1, <3>1, <4>1, HeadSlot, SlotArithmetic DEF TypeOK
    <3>3. mpData[Slot(mpHead, k - 1 - size)] = pChunk[k - size]
      <4>1. mpData[Slot(mpHead, k - 1 - size)] = pChunk[(k - 1 - size) + 1]
        BY <3>1
      <4>2. (k - 1 - size) + 1 = k - size
        BY <1>1
      <4> QED BY <4>1, <4>2
    <3> QED BY <1>1, <1>5, <1>6, <2>2, <3>2, <3>3
  <2>3. k <= size \/ k > size
    BY <1>1, <1>2
  <2> QED BY <2>1, <2>2, <2>3
<1>8. r = q \o pChunk
  BY <1>5, <1>6, <1>7, SeqEqual
<1>9. Contents = q /\ Contents' = r
  BY <1>3, ContentsIsWindow DEF q, r
<1> QED BY <1>8, <1>9

\* Moving mpTail over n elements removes the n oldest ones.
LEMMA AdvanceStep ==
  ASSUME TypeOK, NEW n \in 0..Capacity, n <= size,
         mpTail' = Slot(mpTail, n), UNCHANGED <<mpData, mpHead>>
  PROVE  Contents' = SubSeq(Contents, n + 1, Len(Contents)) /\ Len(Contents) = size
<1> USE BufferAssumption
<1> DEFINE q == Window(mpData, mpTail, size)
           r == Window(mpData, Slot(mpTail, n), size - n)
           t == SubSeq(q, n + 1, size)
<1>1. size \in 0..Capacity /\ size' = size - n
  BY SizeInRange, TailAdvances
<1>2. Slot(mpTail, n) \in Slots /\ size - n \in 0..Capacity
  BY <1>1, SlotInArray DEF TypeOK, mCapacity
<1>3. /\ q \in Seq(Value) /\ Len(q) = size
      /\ \A k \in 1..size : q[k] = mpData[Slot(mpTail, k - 1)]
  BY <1>1, WindowProperties DEF TypeOK
<1>4. /\ r \in Seq(Value) /\ Len(r) = size - n
      /\ \A k \in 1..(size - n) : r[k] = mpData[Slot(Slot(mpTail, n), k - 1)]
  BY <1>2, WindowProperties DEF TypeOK
<1> HIDE DEF q, r
<1>5. /\ t \in Seq(Value) /\ Len(t) = size - n
      /\ \A k \in 1..(size - n) : t[k] = q[n + k]
  <2>1. \A i \in (n + 1)..size : q[i] \in Value
    BY <1>1, <1>3
  <2>2. /\ t \in Seq(Value)
        /\ Len(t) = IF n + 1 <= size THEN size - (n + 1) + 1 ELSE 0
        /\ \A k \in 1..(size - (n + 1) + 1) : t[k] = q[(n + 1) + k - 1]
    BY <1>1, <2>1, SubSeqProperties
  <2>3. size - (n + 1) + 1 = size - n
    BY <1>1
  <2>4. \A k \in 1..(size - n) : (n + 1) + k - 1 = n + k
    BY <1>1
  <2> QED BY <1>1, <2>2, <2>3, <2>4
<1> HIDE DEF t
<1>6. ASSUME NEW k \in 1..(size - n) PROVE r[k] = t[k]
  <2>1. Slot(Slot(mpTail, n), k - 1) = Slot(mpTail, n + (k - 1)) /\ n + k \in 1..size
    BY <1>1, SlotArithmetic DEF TypeOK
  <2>2. n + (k - 1) = (n + k) - 1
    BY <1>1
  <2> QED BY <1>3, <1>4, <1>5, <2>1, <2>2
<1>7. r = t
  BY <1>4, <1>5, <1>6, SeqEqual
<1>8. Contents = q /\ Contents' = r
  BY <1>1, ContentsIsWindow DEF q, r
<1> QED BY <1>3, <1>7, <1>8 DEF t

\* What the consumer copied before moving mpTail is what it removes.
LEMMA DequeueStep ==
  ASSUME TypeOK, NEW n \in 0..Capacity, n <= size,
         mpTail' = Slot(mpTail, n), UNCHANGED <<mpData, mpHead>>,
         cOut' \in Seq(Value), Len(cOut') = n,
         \A i \in 0..(n - 1) : cOut'[i + 1] = mpData[Slot(mpTail, i)]
  PROVE  /\ cOut' = SubSeq(Contents, 1, n)
         /\ Contents' = SubSeq(Contents, n + 1, Len(Contents))
<1> USE BufferAssumption
<1> DEFINE q == Window(mpData, mpTail, size)  t == SubSeq(q, 1, n)
<1>1. size \in 0..Capacity
  BY SizeInRange
<1>2. /\ q \in Seq(Value) /\ Len(q) = size
      /\ \A k \in 1..size : q[k] = mpData[Slot(mpTail, k - 1)]
  BY <1>1, WindowProperties DEF TypeOK
<1> HIDE DEF q
<1>3. t \in Seq(Value) /\ Len(t) = n /\ \A k \in 1..n : t[k] = q[k]
  <2>1. \A i \in 1..n : q[i] \in Value
    BY <1>1, <1>2
  <2>2. /\ t \in Seq(Value)
        /\ Len(t) = IF 1 <= n THEN n - 1 + 1 ELSE 0
        /\ \A k \in 1..(n - 1 + 1) : t[k] = q[1 + k - 1]
    BY <2>1, SubSeqProperties
  <2>3. n - 1 + 1 = n /\ \A k \in 1..n : 1 + k - 1 = k
    OBVIOUS
  <2> QED BY <2>2, <2>3
<1> HIDE DEF t
<1>4. ASSUME NEW k \in 1..n PROVE cOut'[k] = t[k]
  <2>1. k - 1 \in 0..(n - 1) /\ (k - 1) + 1 = k /\ k \in 1..size
    BY <1>1
  <2> QED BY <1>2, <1>3, <2>1
<1>5. cOut' = t
  BY <1>3, <1>4, SeqEqual
<1>6. Contents = q
  BY ContentsIsWindow DEF q
<1> QED BY <1>2, <1>5, <1>6, AdvanceStep DEF t

\* Writing into a free slot leaves what the abstract queue holds as it is.
LEMMA StoreStep ==
  ASSUME IInv, NEW i \in 0..(Len(pChunk) - 1), NEW v \in Value,
         size + Len(pChunk) <= Capacity, UNCHANGED <<mpHead, mpTail>>,
         mpData' = [mpData EXCEPT ![Slot(mpHead, i)] = v]
  PROVE  Contents' = Contents
<1> USE BufferAssumption
<1>1. TypeOK /\ size \in 0..Capacity /\ Len(pChunk) \in 0..Capacity
  <2>1. TypeOK /\ size \in 0..Capacity
    BY SizeInRange DEF IInv
  <2>2. pChunk \in Seq(Value) /\ Len(pChunk) <= Capacity
    BY <2>1, ChunkIsSeq DEF TypeOK
  <2> QED BY <2>1, <2>2
<1>2. size' = size
  BY DEF size, mCapacity
<1>3. ASSUME NEW k \in 1..size PROVE mpData'[Slot(mpTail, k - 1)] = mpData[Slot(mpTail, k - 1)]
  <2>1. k - 1 \in 0..(size - 1) /\ k - 1 \in 0..mCapacity
    BY <1>1 DEF mCapacity
  <2>2. Slot(mpTail, k - 1) # Slot(mpHead, i)
    BY <1>1, <2>1, FreeSlots
  <2>3. Slot(mpTail, k - 1) \in Slots
    BY <1>1, <2>1, SlotInArray DEF TypeOK
  <2> QED BY <1>1, <2>2, <2>3 DEF TypeOK
<1>4. Window(mpData', mpTail', size') = Window(mpData, mpTail, size)
  BY <1>2, <1>3 DEF Window
<1> QED BY <1>4, ContentsIsWindow

\* What each operation of the consumer asks for
LEMMA CallOf ==
  /\ cOp \in {"drainTo", "draining", "pop"} => Call = "take" /\ Wanted = cWant
  /\ cOp = "drop" => Call = "drop" /\ Wanted = 0
  /\ cOp = "peeked" => Call = "front" /\ Wanted = 0
  /\ cOp = "got" => Call = "taken" /\ Wanted = 0
  /\ cOp \in {"idle", "drained"} => Call = "none" /\ Wanted = 0
BY DEF Call, Wanted

LEMMA CallOfNext ==
  /\ cOp' \in {"drainTo", "draining", "pop"} => Call' = "take" /\ Wanted' = cWant'
  /\ cOp' = "drop" => Call' = "drop" /\ Wanted' = 0
  /\ cOp' = "peeked" => Call' = "front" /\ Wanted' = 0
  /\ cOp' = "got" => Call' = "taken" /\ Wanted' = 0
  /\ cOp' \in {"idle", "drained"} => Call' = "none" /\ Wanted' = 0
BY DEF Call, Wanted

LEMMA FrontIsFirst ==
  ASSUME TypeOK, mpHead # mpTail
  PROVE  /\ 1 \in 0..Capacity /\ 1 <= size /\ Len(Contents) = size
         /\ Contents # << >> /\ Contents[1] = mpData[mpTail]
<1> USE BufferAssumption
<1>1. 1 \in 0..Capacity /\ 1 <= size /\ size \in 0..Capacity /\ mpTail = Slot(mpTail, 0)
  BY SizeInRange DEF TypeOK, size, Slot, Slots, mCapacity
<1>2. /\ Len(Contents) = size
      /\ \A k \in 1..size : Contents[k] = mpData[Slot(mpTail, k - 1)]
  BY <1>1, WindowProperties, ContentsIsWindow DEF TypeOK
<1>3. 1 \in 1..size /\ 1 - 1 = 0
  BY <1>1
<1>4. Contents # << >>
  BY <1>1, <1>2
<1> QED BY <1>1, <1>2, <1>3, <1>4

\* "SPSC queue": for every capacity, the producer and the consumer together
\* behave like the atomic bounded FIFO; what lies between mpTail and mpHead is the
\* abstract queue, and publishing mpHead or mpTail is the atomic step.
THEOREM Refinement == Spec => ImplementsFifo
<1> USE BufferAssumption
<1>1. Init => Fifo!FifoInit
  <2> SUFFICES ASSUME Init
               PROVE  Contents = << >> /\ cOut = << >> /\ Pending = << >> /\ Call = "none" /\ Wanted = 0
    BY DEF Fifo!FifoInit
  <2>1. size = 0
    BY DEF Init, size
  <2> QED BY <2>1, CallOf DEF Init, Contents, Pending
<1>2. IInv /\ [Next]_vars => [Fifo!FifoNext]_(Fifo!fifoVars)
  <2> SUFFICES ASSUME IInv, [Next]_vars
               PROVE  Fifo!FifoNext \/ UNCHANGED <<Contents, Pending, Call, Wanted, cOut>>
    BY DEF Fifo!fifoVars
  <2>t. TypeOK /\ TypeOK' /\ size \in 0..Capacity /\ ProducerInv /\ ConsumerInv
    BY SizeInRange, TypeStep DEF IInv
  <2>l. /\ Len(pChunk) \in 0..Capacity /\ pChunk \in Seq(Value)
        /\ Len(cBuf) \in 0..Capacity /\ cBuf \in Seq(Value)
    <3>1. /\ pChunk \in Seq(Value) /\ Len(pChunk) <= Capacity
          /\ cBuf \in Seq(Value) /\ Len(cBuf) <= Capacity
      BY <2>t, ChunkIsSeq DEF TypeOK
    <3> QED BY <3>1
  <2>s. UNCHANGED shared => Contents' = Contents
    BY DEF shared, Contents, size, Slot, mCapacity
  <2>c. Len(Contents) = size
    BY <2>t, ContentsIsWindow, WindowProperties DEF TypeOK
  <2>p. UNCHANGED producer => Pending' = Pending
    BY DEF producer, Pending
  <2>r. UNCHANGED consumer => Call' = Call /\ Wanted' = Wanted /\ cOut' = cOut
    BY DEF consumer, Call, Wanted
  <2>1. ASSUME NEW chunk \in Chunk, FillFrom(chunk) PROVE Fifo!FifoNext
    <3>1. chunk \in Seq(Value) /\ Len(chunk) <= Capacity /\ size + Len(chunk) <= Capacity
      <4>1. chunk \in Seq(Value) /\ Len(chunk) <= Capacity
        BY ChunkIsSeq
      <4>2. Len(chunk) \in Nat
        BY <4>1
      <4> QED BY <2>1, <2>t, <4>1, <4>2 DEF FillFrom, availableSize
    <3>2. Pending = << >> /\ Pending' = chunk /\ Contents' = Contents
      BY <2>1, <2>s DEF FillFrom, Pending
    <3>3. chunk \in Fifo!Chunk
      BY DEF Chunk, Fifo!Chunk
    <3>4. Call' = Call /\ Wanted' = Wanted /\ cOut' = cOut
      BY <2>1, <2>r DEF FillFrom
    <3> QED BY <2>c, <3>1, <3>2, <3>3, <3>4 DEF Fifo!Submit, Fifo!FifoNext
  <2>2. ASSUME NEW value \in Value, Push(value) PROVE Fifo!FifoNext
    <3>1. size + 1 <= Capacity /\ Len(<<value>>) = 1
      BY <2>2, <2>t DEF Push
    <3>2. Pending = << >> /\ Pending' = <<value>> /\ Contents' = Contents
      BY <2>2, <2>s DEF Push, Pending
    <3>3. <<value>> \in Fifo!Chunk
      <4>1. Capacity >= 1
        BY <2>t, <3>1
      <4> QED BY <4>1, ChunkBuilders DEF Chunk, Fifo!Chunk
    <3>4. Call' = Call /\ Wanted' = Wanted /\ cOut' = cOut
      BY <2>2, <2>r DEF Push
    <3> QED BY <2>c, <3>1, <3>2, <3>3, <3>4 DEF Fifo!Submit, Fifo!FifoNext
  <2>3. CASE FillSnapshot \/ FillReturn
    BY <2>3, <2>s, <2>r DEF FillSnapshot, FillReturn, ProducerLeaves, Pending
  <2>4. CASE FillCopy
    <3>1. /\ pDone \in 0..(Len(pChunk) - 1) /\ pChunk[pDone + 1] \in Value
          /\ size + Len(pChunk) <= Capacity
      <4>1. pDone \in 0..(Len(pChunk) - 1)
        BY <2>4, <2>t, <2>l DEF FillCopy, TypeOK
      <4> QED BY <2>4, <2>t, <2>l, <4>1 DEF FillCopy, ProducerInv
    <3>2. Contents' = Contents
      BY <2>4, <3>1, StoreStep DEF FillCopy
    <3> QED BY <2>4, <2>r, <3>2 DEF FillCopy, Pending
  <2>5. CASE PushStore
    <3>1. Len(pChunk) = 1 /\ size + Len(pChunk) <= Capacity
      BY <2>5, <2>t DEF PushStore, ProducerInv
    <3>2. 0 \in 0..(Len(pChunk) - 1) /\ pChunk[1] \in Value
      BY <2>l, <3>1
    <3>3. mpHead = Slot(mpHead, 0)
      BY <2>t DEF TypeOK, Slot, Slots, mCapacity
    <3>4. Contents' = Contents
      BY <2>5, <3>1, <3>2, <3>3, StoreStep DEF PushStore
    <3> QED BY <2>5, <2>r, <3>4 DEF PushStore, Pending
  <2>6. CASE FillPublish \/ PushPublish
    <3>1. /\ mpHead' = Slot(mpHead, Len(pChunk)) /\ UNCHANGED <<mpData, mpTail>>
          /\ size + Len(pChunk) <= Capacity
          /\ \A i \in 0..(Len(pChunk) - 1) : mpData[Slot(mpHead, i)] = pChunk[i + 1]
      BY <2>6, <2>t DEF FillPublish, PushPublish, ProducerInv
    <3>2. Pending = pChunk /\ Pending' = << >>
      BY <2>6 DEF FillPublish, PushPublish, ProducerLeaves, Pending
    <3>3. Call' = Call /\ Wanted' = Wanted /\ cOut' = cOut
      BY <2>6, <2>r DEF FillPublish, PushPublish
    <3> QED BY <3>1, <3>2, <3>3, EnqueueStep DEF Fifo!Enqueue, Fifo!FifoNext
  <2>7. ASSUME NEW n \in 0..Capacity, DrainTo(n) PROVE Fifo!FifoNext
    <3>1. Call = "none" /\ Call' = "take" /\ Wanted' = n
      BY <2>7, CallOf, CallOfNext DEF DrainTo
    <3>2. n <= size /\ UNCHANGED <<Contents, Pending, cOut>>
      BY <2>7, <2>t, <2>s, <2>p DEF DrainTo
    <3> QED BY <2>c, <3>1, <3>2 DEF Fifo!Request, Fifo!FifoNext
  <2>8. CASE DrainSnapshot \/ DrainCopy \/ PopLoad
    <3>1. cOp \in {"drainTo", "draining", "pop"} /\ cOp' \in {"drainTo", "draining", "pop"} /\ cWant' = cWant
      BY <2>8 DEF DrainSnapshot, DrainCopy, PopLoad
    <3>2. UNCHANGED <<Contents, Pending, cOut>>
      BY <2>8, <2>s, <2>p DEF DrainSnapshot, DrainCopy, PopLoad
    <3> QED BY <3>1, <3>2, CallOf, CallOfNext
  <2>15. CASE DrainReturn
    BY <2>15, <2>s, <2>p, CallOf, CallOfNext DEF DrainReturn, ConsumerLeaves
  <2>16. CASE Pop
    <3>1. Call = "none" /\ Call' = "take" /\ Wanted' = 1
      BY <2>16, CallOf, CallOfNext DEF Pop
    <3>2. 1 \in 0..Capacity /\ 1 <= Len(Contents)
      BY <2>16, <2>t, FrontIsFirst DEF Pop
    <3>3. UNCHANGED <<Contents, Pending, cOut>>
      BY <2>16, <2>s, <2>p DEF Pop
    <3> QED BY <3>1, <3>2, <3>3 DEF Fifo!Request, Fifo!FifoNext
  <2>17. CASE Peek
    <3>1. Call = "none" /\ Call' = "front" /\ Wanted = 0 /\ Wanted' = 0
      BY <2>17, CallOf, CallOfNext DEF Peek
    <3>2. Contents # << >> /\ UNCHANGED <<Contents, Pending, cOut>>
      BY <2>17, <2>t, <2>s, <2>p, FrontIsFirst DEF Peek
    <3> QED BY <3>1, <3>2 DEF Fifo!Peek, Fifo!FifoNext
  <2>18. CASE ForgetRef
    <3>1. Call \in {"front", "taken"} /\ Call' = "none" /\ Wanted = 0 /\ Wanted' = 0
      BY <2>18, CallOf, CallOfNext DEF ForgetRef, ConsumerLeaves
    <3>2. UNCHANGED <<Contents, Pending, cOut>>
      BY <2>18, <2>s, <2>p DEF ForgetRef
    <3> QED BY <3>1, <3>2 DEF Fifo!Forget, Fifo!FifoNext
  <2>9. CASE DrainPublish
    <3>1. /\ cWant \in 0..Capacity /\ cWant <= size /\ Len(cBuf) = cWant
          /\ \A i \in 0..(cWant - 1) : cBuf[i + 1] = mpData[Slot(mpTail, i)]
      BY <2>9, <2>t DEF DrainPublish, ConsumerInv, TypeOK
    <3>2. /\ cOut' = SubSeq(Contents, 1, cWant)
          /\ Contents' = SubSeq(Contents, cWant + 1, Len(Contents))
      BY <2>9, <2>t, <2>l, <3>1, DequeueStep DEF DrainPublish
    <3>3. Call = "take" /\ Wanted = cWant /\ Call' = "none" /\ Wanted' = 0 /\ Pending' = Pending
      BY <2>9, <2>p, CallOf, CallOfNext DEF DrainPublish
    <3> QED BY <3>2, <3>3 DEF Fifo!Dequeue, Fifo!FifoNext
  <2>10. CASE PopPublish
    <3>1. /\ cWant = 1 /\ 1 \in 0..Capacity /\ 1 <= size /\ Len(cBuf) = 1
          /\ \A i \in 0..(1 - 1) : cBuf[i + 1] = mpData[Slot(mpTail, i)]
      <4>1. cWant = 1 /\ 1 <= size /\ Len(cBuf) <= 1
        BY <2>10, <2>t DEF PopPublish, ConsumerInv
      <4>2. Len(cBuf) # 0
        BY <2>10, <2>l, EmptySeq DEF PopPublish
      <4>3. Len(cBuf) \in Nat
        BY <2>l
      <4>4. Len(cBuf) = 1
        <5>1. \A x \in Nat : x <= 1 /\ x # 0 => x = 1
          OBVIOUS
        <5> QED BY <4>1, <4>2, <4>3, <5>1, Zenon
      <4> QED BY <2>10, <2>t, <4>1, <4>4 DEF PopPublish, ConsumerInv
    <3>2. /\ cOut' = SubSeq(Contents, 1, 1)
          /\ Contents' = SubSeq(Contents, 1 + 1, Len(Contents))
      BY <2>10, <2>t, <2>l, <3>1, DequeueStep DEF PopPublish
    <3>3. Call = "take" /\ Wanted = 1 /\ Call' = "none" /\ Wanted' = 0 /\ Pending' = Pending
      BY <2>10, <2>p, <3>1, CallOf, CallOfNext DEF PopPublish, ConsumerLeaves
    <3> QED BY <3>2, <3>3 DEF Fifo!Dequeue, Fifo!FifoNext
  <2>11. CASE Drop
    <3>1. Call = "none" /\ Call' = "drop" /\ Wanted = 0 /\ Wanted' = 0
      BY <2>11, CallOf, CallOfNext DEF Drop
    <3>2. Contents # << >> /\ UNCHANGED <<Contents, Pending, cOut>>
      BY <2>11, <2>t, <2>s, <2>p, FrontIsFirst DEF Drop
    <3> QED BY <3>1, <3>2 DEF Fifo!RequestDrop, Fifo!FifoNext
  <2>19. CASE DropPublish
    <3>1. mpHead # mpTail
      BY <2>19, <2>t DEF DropPublish, ConsumerInv
    <3>2. Contents' = SubSeq(Contents, 1 + 1, Len(Contents))
      BY <2>19, <2>t, <3>1, FrontIsFirst, AdvanceStep DEF DropPublish
    <3>3. Call = "drop" /\ Call' = "none" /\ Wanted = 0 /\ Wanted' = 0
      BY <2>19, CallOf, CallOfNext DEF DropPublish, ConsumerLeaves
    <3>4. Pending' = Pending /\ cOut' = cOut
      BY <2>19, <2>p DEF DropPublish
    <3> QED BY <3>2, <3>3, <3>4 DEF Fifo!Discard, Fifo!FifoNext
  <2>12. CASE Get
    <3>1. /\ 1 \in 0..Capacity /\ 1 <= size
          /\ Contents # << >> /\ Contents[1] = mpData[mpTail]
      BY <2>12, <2>t, FrontIsFirst DEF Get
    <3>2. Contents' = SubSeq(Contents, 1 + 1, Len(Contents))
      BY <2>12, <2>t, <3>1, AdvanceStep DEF Get
    <3>3. Call \in {"none", "front"} /\ Call' = "taken" /\ Wanted = 0 /\ Wanted' = 0
      BY <2>12, CallOf, CallOfNext DEF Get
    <3>4. Pending' = Pending /\ cOut' = <<Contents[1]>>
      BY <2>12, <2>p, <3>1 DEF Get
    <3> QED BY <3>1, <3>2, <3>3, <3>4 DEF Fifo!Get, Fifo!FifoNext
  <2>13. CASE UseRef
    <3>1. mpHead # mpTail /\ cRef = mpTail
      BY <2>13, <2>t DEF UseRef, ConsumerInv
    <3>2. cOut' = <<Contents[1]>> /\ Contents' = Contents /\ Pending' = Pending
      BY <2>13, <2>t, <2>s, <2>p, <3>1, FrontIsFirst DEF UseRef
    <3>3. Call = "front" /\ Call' = "front" /\ Wanted = 0 /\ Wanted' = 0
      BY <2>13, CallOf, CallOfNext DEF UseRef
    <3> QED BY <3>2, <3>3 DEF Fifo!Look, Fifo!FifoNext
  <2>14. CASE UNCHANGED vars
    BY <2>14, <2>s, <2>p, <2>r DEF vars
  <2> QED
    BY <2>1, <2>2, <2>3, <2>4, <2>5, <2>6, <2>7, <2>8, <2>9, <2>10, <2>11, <2>12,
       <2>13, <2>14, <2>15, <2>16, <2>17, <2>18, <2>19 DEF Next, ProducerStep, ConsumerStep
<1> QED BY <1>1, <1>2, Invariance, PTL DEF Spec, ImplementsFifo, Fifo!FifoSpec

=============================================================================
