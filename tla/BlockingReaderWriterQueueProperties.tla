----------------- MODULE BlockingReaderWriterQueueProperties -----------------
(***************************************************************************)
(* What the blocking queue promises its producer and its consumer.         *)
(***************************************************************************)
EXTENDS BlockingReaderWriterQueue, LightweightSemaphoreProperties

Items == 1..MaxSignalled

\* Types of the state variables.  The queue never holds more than it has room for.
TypeOK ==
  /\ result \in BOOLEAN /\ peeked \in BOOLEAN
  /\ inner \in Seq(Items) /\ Len(inner) <= Capacity
  /\ producer \in {"idle", "signal"} /\ consumer \in {"idle", "sema", "take"}
  /\ op \in ConsumerOps
  /\ accepted \in 0..MaxSignalled /\ got \in 0..MaxSignalled

\* In between the element is in the queue and not in the semaphore.
ProducerHasOne == producer = "signal"
ConsumerHasOne == consumer = "take" \/ (consumer = "sema" /\ waiter = "idle" /\ answer)
InHand == (IF ProducerHasOne THEN 1 ELSE 0) + (IF ConsumerHasOne THEN 1 ELSE 0)

\* "assert(success)" (readerwriterqueue.h:865, 881, 900, 937): whoever has got a
\* unit of the semaphore finds an element in the queue.
DequeueSucceeds == consumer = "take" => inner # <<>>

\* The semaphore counts the elements but for those in one of the threads' hands.
SemaphoreCountsElements == Len(inner) = Available + InHand

\* The inductive invariant of the composition.
BlockingInv ==
  /\ TypeOK /\ SemaInv /\ SemaphoreCountsElements
  /\ consumer # "sema" => waiter = "idle"

\* A dequeue is refused only at a moment when there is no element for which
\* enqueue has returned: what is offered as a wait gives up is dequeued or stays.
RefusedOnlyWhenNoneReady ==
  [][/\ consumer' = "sema" /\ (consumer = "idle" \/ waiter # "idle")
     /\ waiter' = "idle" /\ ~answer'
     => Len(inner) = IF producer = "signal" THEN 1 ELSE 0]_vars

\* A consumer waiting for an element gets the one that comes, and a wait with a
\* timeout ends.
WaitEnds ==
  /\ (consumer # "idle" /\ inner # <<>>) ~> (consumer = "idle")
  /\ (consumer # "idle" /\ op # "wait_dequeue") ~> (consumer = "idle")

\* "Returns a pointer to the front element in the queue (the one that would be
\* removed next by a call to `try_dequeue` or `pop`)": after peek has returned an
\* element, the next such call removes one.
PeekedIsRemoved == [][consumer = "sema" /\ consumer' = "idle" => ~peeked]_<<consumer, peeked>>
==============================================================================
