---------------------------- MODULE BoundedFifo ----------------------------
(***************************************************************************)
(* What a ChunkedRingBuffer promises to its producer and its consumer: a   *)
(* FIFO queue of at most Capacity elements, filled and drained in chunks,  *)
(* each chunk in one atomic step between the call and its return.  "in" is *)
(* the chunk of the producer's running call, "call" and "want" are what    *)
(* the consumer asked for, "out" is what it was handed last.               *)
(***************************************************************************)
EXTENDS Naturals, Sequences

CONSTANTS Value,      \* the elements
          Capacity    \* the argument of setCapacity()

VARIABLES queue, in, call, want, out

fifoVars == <<queue, in, call, want, out>>

Chunk == UNION {[1..n -> Value] : n \in 0..Capacity}

FifoInit == /\ queue = << >>
            /\ in = << >>
            /\ call = "none" /\ want = 0
            /\ out = << >>

-----------------------------------------------------------------------------
(* The producer *)

\* fillFrom() and push() are called only with room for the whole chunk, one at a time...
Submit(chunk) == /\ in = << >>
                 /\ Len(queue) + Len(chunk) <= Capacity
                 /\ in' = chunk
                 /\ UNCHANGED <<queue, call, want, out>>

\* ... which becomes visible at once, before the call returns
Enqueue == /\ queue' = queue \o in
           /\ in' = << >>
           /\ UNCHANGED <<call, want, out>>

-----------------------------------------------------------------------------
(* The consumer *)

\* drainTo() and pop() are called only with n elements in the queue...
Request(n) == /\ call = "none" /\ n <= Len(queue)
              /\ call' = "take" /\ want' = n
              /\ UNCHANGED <<queue, in, out>>

\* ... and hand out exactly these, which leave the queue
Dequeue == /\ call = "take"
           /\ out' = SubSeq(queue, 1, want)
           /\ queue' = SubSeq(queue, want + 1, Len(queue))
           /\ call' = "none" /\ want' = 0
           /\ UNCHANGED in

\* drop() removes one and hands out none
RequestDrop == /\ call = "none" /\ queue # << >>
               /\ call' = "drop"
               /\ UNCHANGED <<queue, in, want, out>>
Discard == /\ call = "drop"
           /\ queue' = SubSeq(queue, 2, Len(queue))
           /\ call' = "none"
           /\ UNCHANGED <<in, want, out>>

\* peek() and peekPtr() return a reference, and nothing leaves the queue while the caller
\* reads through it
Peek == /\ call = "none" /\ queue # << >>
        /\ call' = "front"
        /\ UNCHANGED <<queue, in, want, out>>
Look == /\ call = "front"
        /\ out' = <<queue[1]>>
        /\ UNCHANGED <<queue, in, call, want>>

\* get() hands out the element and removes it, and returns a reference, too
Get == /\ call \in {"none", "front"} /\ queue # << >>
       /\ out' = <<queue[1]>>
       /\ queue' = SubSeq(queue, 2, Len(queue))
       /\ call' = "taken"
       /\ UNCHANGED <<in, want>>

Forget == /\ call \in {"front", "taken"}
          /\ call' = "none"
          /\ UNCHANGED <<queue, in, want, out>>

-----------------------------------------------------------------------------
FifoNext == \/ \E chunk \in Chunk : Submit(chunk)
            \/ Enqueue
            \/ \E n \in 0..Capacity : Request(n)
            \/ Dequeue
            \/ RequestDrop \/ Discard
            \/ Peek \/ Look \/ Get \/ Forget

FifoSpec == FifoInit /\ [][FifoNext]_fifoVars
=============================================================================
