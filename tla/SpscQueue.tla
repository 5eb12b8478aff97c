------------------------------ MODULE SpscQueue ------------------------------
(***************************************************************************)
(* What the rest of the player may assume of the frame queue               *)
(* (moodycamel::ReaderWriterQueue used through try_enqueue, try_dequeue    *)
(* and size_approx): a bounded first-in first-out buffer whose elements    *)
(* are delivered once, in order.  A refused try_enqueue and a try_dequeue  *)
(* that finds nothing change no state, so they are stuttering steps here.  *)
(***************************************************************************)
EXTENDS Naturals, Sequences

CONSTANTS Capacity,  \* elements the queue holds before try_enqueue refuses
          Elements   \* what may be enqueued

VARIABLE queue

Init == queue = <<>>

Enqueue(x) == Len(queue) < Capacity /\ queue' = Append(queue, x)

Dequeue == queue # <<>> /\ queue' = Tail(queue)

Next == Dequeue \/ \E x \in Elements : Enqueue(x)

Spec == Init /\ [][Next]_queue
==============================================================================
