---------------------- MODULE BlockingReaderWriterQueue ----------------------
(***************************************************************************)
(* moodycamel::BlockingReaderWriterQueue (base/readerwriterqueue.h): a     *)
(* ReaderWriterQueue, inner, with a LightweightSemaphore that counts its   *)
(* elements.  Every call on inner is one step, as SpscQueue allows; those  *)
(* on the semaphore are the steps of LightweightSemaphore.                 *)
(*                                                                         *)
(* The elements are 1, 2, 3, ... in the order the producer offers them.    *)
(***************************************************************************)
EXTENDS LightweightSemaphore, Sequences

CONSTANTS Capacity,  \* elements inner has room for
          Ops        \* what the consumer calls, of those in ConsumerOps

ConsumerOps == {"try_dequeue", "pop", "wait_dequeue", "zero_timeout", "timed"}

\* The semaphore starts from 0, is signalled 1 at a time and waited for in every
\* way; MaxSignalled bounds the elements too.
ASSUME BlockingAssumption ==
  /\ Capacity \in Nat \ {0} /\ Ops \subseteq ConsumerOps
  /\ InitialCount = 0 /\ 1 \in SignalCounts /\ Waits = WaitKinds

VARIABLES
  inner,      \* elements in the inner queue
  producer,   \* "signal" after inner has accepted, until signal has counted it
  consumer,   \* "sema" in the semaphore's wait, "take" after it; "idle" between calls
  op,         \* the consumer's call
  result,     \* what it returned
  \* Ghosts: elements accepted, the one dequeued last, and whether peek has shown
  \* an element that was not dequeued since.
  accepted, got, peeked

producerVars == <<producer, accepted>>
consumerVars == <<consumer, op, result, got, peeked>>
vars == <<inner, producerVars, consumerVars, semaVars>>

Init ==
  /\ inner = <<>> /\ producer = "idle" /\ accepted = 0
  /\ consumer = "idle" /\ op = "try_dequeue" /\ result = FALSE /\ got = 0
  /\ peeked = FALSE
  /\ SemaInit

(***************************************************************************)
(* The producer: try_enqueue, enqueue and their variants.                  *)
(***************************************************************************)
\* Variant: the semaphore is signalled whatever inner has returned.
EnqueueUnchecked ==
  /\ producer = "idle" /\ signaler = "idle" /\ accepted < MaxSignalled
  /\ inner' = IF Len(inner) < Capacity THEN Append(inner, accepted + 1) ELSE inner
  /\ accepted' = accepted + 1
  /\ producer' = "signal"
  /\ UNCHANGED <<consumerVars, semaVars>>

\* inner accepts; when it refuses the call returns false and changes nothing.
Enqueue ==
  /\ producer = "idle" /\ signaler = "idle"
  /\ Len(inner) < Capacity /\ accepted < MaxSignalled
  /\ inner' = Append(inner, accepted + 1)
  /\ accepted' = accepted + 1
  /\ producer' = "signal"
  /\ UNCHANGED <<consumerVars, semaVars>>

SignalElement ==
  /\ producer = "signal"
  /\ Signal(1)
  /\ producer' = "idle"
  /\ UNCHANGED <<inner, accepted, consumerVars>>

PostElement ==
  /\ Post
  /\ UNCHANGED <<inner, producerVars, consumerVars>>

(***************************************************************************)
(* The consumer: try_dequeue, pop, wait_dequeue and wait_dequeue_timed.    *)
(***************************************************************************)
WaitOf(o) == CASE o \in {"try_dequeue", "pop"} -> "try"
               [] o = "wait_dequeue" -> "forever"
               [] o = "zero_timeout" -> "zero"
               [] o = "timed" -> "timed"

Dequeue(o) ==
  /\ consumer = "idle"
  /\ op' = o
  /\ Wait(WaitOf(o))
  /\ consumer' = "sema"
  /\ UNCHANGED <<inner, producerVars, result, got, peeked>>

\* peek looks past the semaphore.
Peek ==
  /\ consumer = "idle"
  /\ peeked' = (inner # <<>>)
  /\ UNCHANGED <<inner, producerVars, consumer, op, result, got, semaVars>>

WaitStep ==
  /\ consumer = "sema"
  /\ WaiterStep
  /\ UNCHANGED <<inner, producerVars, consumerVars>>

\* The wait has returned.  wait_dequeue calls it again when it was refused.
Waited ==
  /\ consumer = "sema" /\ waiter = "idle"
  /\ CASE answer -> /\ consumer' = "take"
                    /\ UNCHANGED <<result, semaVars>>
       [] ~answer /\ op = "wait_dequeue" -> /\ Wait("forever")
                                            /\ UNCHANGED <<consumer, result>>
       [] OTHER -> /\ consumer' = "idle" /\ result' = FALSE
                   /\ UNCHANGED semaVars
  /\ UNCHANGED <<inner, producerVars, op, got, peeked>>

\* The call on inner, which the code asserts to succeed.
Take ==
  /\ consumer = "take"
  /\ inner # <<>>
  /\ got' = IF op = "pop" THEN got ELSE Head(inner)
  /\ inner' = Tail(inner)
  /\ consumer' = "idle" /\ result' = TRUE
  /\ peeked' = FALSE
  /\ UNCHANGED <<producerVars, op, semaVars>>

ProducerStep == SignalElement \/ PostElement
ConsumerStep == WaitStep \/ Waited \/ Take

Next == Enqueue \/ ProducerStep \/ ConsumerStep \/ Peek \/ \E o \in Ops : Dequeue(o)

Spec == Init /\ [][Next]_vars

\* Both threads keep running inside a call; whether they call is left open.
FairSpec == Spec /\ WF_vars(ProducerStep) /\ WF_vars(ConsumerStep)
==============================================================================
