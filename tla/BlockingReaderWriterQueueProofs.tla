------------------- MODULE BlockingReaderWriterQueueProofs -------------------
(***************************************************************************)
(* Proofs that the blocking queue keeps BlockingInv, for every capacity and any   *)
(* number of elements, and what follows from it.  Its semaphore takes the  *)
(* steps of LightweightSemaphore alone, so what is proved of that holds    *)
(* here.                                                                   *)
(***************************************************************************)
EXTENDS BlockingReaderWriterQueueProperties, LightweightSemaphoreProofs

USE BlockingAssumption, SemaphoreAssumption
HIDE DEF CountInv, SemaTypeOK, UnitsConserved, KernelMatchesWaiter, WaiterKnows,
         Available, Announced, WaitKinds

\* The call of the semaphore that each call of the queue makes.
LEMMA WaitOfKind == \A o \in ConsumerOps : WaitOf(o) \in WaitKinds
BY DEF ConsumerOps, WaitOf, WaitKinds

\* Every step of the queue is one of its semaphore, or leaves it alone.
LEMMA SemaphoreSteps == TypeOK /\ [Next]_vars => [SemaNext]_semaVars
<1> SUFFICES ASSUME TypeOK, [Next]_vars PROVE [SemaNext]_semaVars OBVIOUS
<1>1. CASE Enqueue BY <1>1 DEF Enqueue
<1>2. CASE ProducerStep BY <1>2 DEF ProducerStep, SignalElement, PostElement, SemaNext
<1>3. CASE WaitStep BY <1>3 DEF WaitStep, SemaNext
<1>4. CASE Waited BY <1>4 DEF Waited, SemaNext, WaitKinds
<1>5. CASE Take BY <1>5 DEF Take
<1>6. CASE Peek BY <1>6 DEF Peek
<1>7. CASE \E o \in Ops : Dequeue(o)
  <2>1. PICK o \in Ops : Dequeue(o) BY <1>7
  <2>2. WaitOf(o) \in Waits BY WaitOfKind
  <2> QED BY <2>1, <2>2 DEF Dequeue, SemaNext
<1>8. CASE UNCHANGED vars BY <1>8 DEF vars
<1> QED BY <1>1, <1>2, <1>3, <1>4, <1>5, <1>6, <1>7, <1>8 DEF Next, ConsumerStep

\* The types of the queue's own variables, which the semaphore does not touch.
LEMMA TypesKept == TypeOK /\ [Next]_vars => TypeOK'
<1> SUFFICES ASSUME TypeOK, [Next]_vars PROVE TypeOK' OBVIOUS
<1> USE DEF TypeOK
<1>1. CASE Enqueue
  <2>1. UNCHANGED consumerVars BY <1>1 DEF Enqueue
  <2>2. inner' \in Seq(Items) /\ Len(inner') <= Capacity /\ accepted' \in 0..MaxSignalled
    BY <1>1, SMT DEF Enqueue, Items
  <2> QED BY <1>1, <2>1, <2>2 DEF Enqueue, consumerVars
<1>2. CASE ProducerStep
  BY <1>2 DEF ProducerStep, SignalElement, PostElement, producerVars, consumerVars
<1>3. CASE WaitStep BY <1>3 DEF WaitStep, producerVars, consumerVars
<1>4. CASE Waited BY <1>4 DEF Waited, producerVars
<1>5. CASE Take
  <2>1. inner' \in Seq(Items) /\ Len(inner') <= Capacity /\ Head(inner) \in 0..MaxSignalled
    BY <1>5, SMT DEF Take, Items
  <2> QED BY <1>5, <2>1 DEF Take, producerVars
<1>6. CASE Peek BY <1>6 DEF Peek, producerVars
<1>7. CASE \E o \in Ops : Dequeue(o) BY <1>7 DEF Dequeue, producerVars
<1>8. CASE UNCHANGED vars BY <1>8 DEF vars, producerVars, consumerVars
<1> QED BY <1>1, <1>2, <1>3, <1>4, <1>5, <1>6, <1>7, <1>8 DEF Next, ConsumerStep

\* The types at the start.
LEMMA InitTypes == Init => TypeOK
<1> SUFFICES ASSUME Init PROVE TypeOK OBVIOUS
<1>1. result \in BOOLEAN /\ peeked \in BOOLEAN BY DEF Init
<1>2. /\ inner = <<>> /\ producer = "idle" /\ consumer = "idle" /\ op = "try_dequeue"
      /\ accepted = 0 /\ got = 0
  BY DEF Init
<1>3. inner \in Seq(Items) /\ Len(inner) <= Capacity BY <1>2, SMT
<1>4. accepted \in 0..MaxSignalled /\ got \in 0..MaxSignalled BY <1>2, SMT
<1> QED BY <1>1, <1>2, <1>3, <1>4 DEF TypeOK, ConsumerOps

\* The types of the queue's variables, in every reachable state.
THEOREM TypesCorrect == Spec => []TypeOK
<1>1. Init => TypeOK BY InitTypes
<1>2. TypeOK /\ [Next]_vars => TypeOK' BY TypesKept
<1> QED BY <1>1, <1>2, PTL DEF Spec

\* What the queue does to its semaphore is what a semaphore may do.
THEOREM SemaphoreRuns == Spec => SemaSpec
<1>1. Init => SemaInit BY DEF Init
<1> QED BY <1>1, SemaphoreSteps, TypesCorrect, PTL DEF Spec, SemaSpec

\* So the semaphore inside the queue is a counting semaphore.
THEOREM UnitsCounted == Spec => CountingSpec
BY SemaphoreRuns, SemaCounts

\* What a step of the consumer's wait does to the units it may get.
LEMMA WaitStepUnits ==
  ASSUME SemaInv, SemaInv', WaiterStep
  PROVE  \/ Granted /\ Available' = Available - 1
         \/ waiter' = "idle" /\ ~answer' /\ Available' = Available
         \/ waiter' # "idle" /\ Available' = Available
<1> DEFINE Conserved == Available = InitialCount + signalled - granted
<1>1. Conserved /\ Conserved' /\ signalled \in Nat /\ granted \in Nat
  BY DEF SemaInv, CountInv, UnitsConserved, SemaTypeOK
<1>2. UNCHANGED signalled /\ (Granted \/ Refused \/ (waiter' # "idle" /\ UNCHANGED granted))
  BY WaiterKeeps
<1>3. CASE Granted BY <1>1, <1>2, <1>3, Endings, SMT
<1>4. CASE Refused
  <2>1. waiter' = "idle" /\ ~answer' BY <1>4 DEF Refused
  <2>2. Available' = Available BY <1>1, <1>2, <1>4, Endings, SMT
  <2> QED BY <2>1, <2>2
<1>5. CASE waiter' # "idle" /\ UNCHANGED granted BY <1>1, <1>2, <1>5, SMT
<1> QED BY <1>2, <1>3, <1>4, <1>5

\* Element and unit come and go by two steps each; in between one of the threads
\* has the element in its hands.
LEMMA CountKept ==
  ASSUME BlockingInv, SemaInv', [Next]_vars
  PROVE  SemaphoreCountsElements' /\ (consumer # "sema" => waiter = "idle")'
<1> DEFINE Asleep == consumer # "sema" => waiter = "idle"
           InQueue == Len(inner)
<1>1. TypeOK /\ SemaInv /\ SemaphoreCountsElements /\ Asleep BY DEF BlockingInv
<1>2. Available \in Int /\ InQueue \in Nat
  <2>1. count \in Int BY <1>1 DEF SemaInv, CountInv, SemaTypeOK
  <2>2. Available \in Int BY <2>1, SMT DEF Available
  <2> QED BY <1>1, <2>2, SMT DEF TypeOK
<1>3. CASE Enqueue
  <2>1. /\ UNCHANGED <<consumer, count, waiter, answer>>
        /\ ~ProducerHasOne /\ ProducerHasOne'
    BY <1>3 DEF Enqueue, consumerVars, semaVars, ProducerHasOne
  <2>2. Available' = Available /\ (ConsumerHasOne' <=> ConsumerHasOne)
    BY <2>1 DEF Available, ConsumerHasOne
  <2>3. InQueue' = InQueue + 1 BY <1>1, <1>3, SMT DEF Enqueue, TypeOK, Items
  <2>4. SemaphoreCountsElements'
    BY <1>1, <1>2, <2>1, <2>2, <2>3, SMT DEF SemaphoreCountsElements, InHand
  <2> QED BY <1>1, <2>1, <2>4
<1>4. CASE SignalElement
  <2>1. /\ UNCHANGED <<inner, consumer, waiter, answer>>
        /\ ProducerHasOne /\ ~ProducerHasOne'
    BY <1>4 DEF SignalElement, Signal, consumerVars, ProducerHasOne
  <2>2. Available' = Available + 1 BY <1>1, <1>4, SignalKeeps DEF SignalElement
  <2>3. ConsumerHasOne' <=> ConsumerHasOne BY <2>1 DEF ConsumerHasOne
  <2>4. SemaphoreCountsElements'
    BY <1>1, <1>2, <2>1, <2>2, <2>3, SMT DEF SemaphoreCountsElements, InHand
  <2> QED BY <1>1, <2>1, <2>4
<1>5. CASE PostElement
  <2>1. UNCHANGED <<inner, producer, consumer, waiter, answer>>
    BY <1>5 DEF PostElement, Post, producerVars, consumerVars
  <2>2. Available' = Available BY <1>1, <1>5, PostKeeps DEF PostElement
  <2> QED BY <1>1, <2>1, <2>2
    DEF SemaphoreCountsElements, InHand, ProducerHasOne, ConsumerHasOne
<1>6. CASE WaitStep
  <2>1. UNCHANGED <<inner, producer, consumer>> /\ consumer = "sema" /\ WaiterStep
    BY <1>6 DEF WaitStep, producerVars, consumerVars
  <2>2. waiter # "idle" BY <1>1, <2>1, WaiterKeeps
  <2>3. ~ConsumerHasOne /\ (ProducerHasOne' <=> ProducerHasOne)
    BY <2>1, <2>2 DEF ConsumerHasOne, ProducerHasOne
  <2>4. \/ ConsumerHasOne' /\ Available' = Available - 1
        \/ ~ConsumerHasOne' /\ Available' = Available
    BY <1>1, <2>1, WaitStepUnits DEF ConsumerHasOne, Granted
  <2>5. SemaphoreCountsElements'
    BY <1>1, <1>2, <2>1, <2>3, <2>4, SMT DEF SemaphoreCountsElements, InHand
  <2> QED BY <2>1, <2>5
<1>7. CASE Waited
  <2>1. UNCHANGED <<inner, producer>> BY <1>7 DEF Waited, producerVars
  <2>2. CASE answer
    <3>1. consumer' = "take" /\ UNCHANGED <<count, waiter, answer>> /\ waiter = "idle"
      BY <1>7, <2>2 DEF Waited, semaVars
    <3>2. ConsumerHasOne /\ ConsumerHasOne' BY <1>7, <2>2, <3>1 DEF Waited, ConsumerHasOne
    <3> QED BY <1>1, <2>1, <3>1, <3>2
      DEF SemaphoreCountsElements, InHand, ProducerHasOne, Available
  <2>3. CASE ~answer /\ op = "wait_dequeue"
    <3>1. consumer = "sema" /\ consumer' = "sema" /\ Wait("forever") BY <1>7, <2>3 DEF Waited
    <3>2. "forever" \in WaitKinds BY DEF WaitKinds
    <3>3. Available' = Available BY <1>1, <3>1, <3>2, WaitKeeps
    <3>4. waiter' # "idle" BY <3>1 DEF Wait, Go
    <3>5. ~ConsumerHasOne /\ ~ConsumerHasOne' BY <2>3, <3>1, <3>4 DEF ConsumerHasOne
    <3> QED BY <1>1, <2>1, <3>1, <3>3, <3>5
      DEF SemaphoreCountsElements, InHand, ProducerHasOne
  <2>4. CASE ~answer /\ op # "wait_dequeue"
    <3>1. consumer = "sema" /\ consumer' = "idle" /\ waiter = "idle"
          /\ UNCHANGED <<count, waiter, answer>>
      BY <1>7, <2>4 DEF Waited, semaVars
    <3>2. ~ConsumerHasOne /\ ~ConsumerHasOne' BY <2>4, <3>1 DEF ConsumerHasOne
    <3> QED BY <1>1, <2>1, <3>1, <3>2
      DEF SemaphoreCountsElements, InHand, ProducerHasOne, Available
  <2> QED BY <2>2, <2>3, <2>4
<1>8. CASE Take
  <2>1. /\ consumer = "take" /\ consumer' = "idle"
        /\ UNCHANGED <<producer, count, waiter, answer>>
    BY <1>8 DEF Take, producerVars, semaVars
  <2>2. ConsumerHasOne /\ ~ConsumerHasOne' BY <2>1 DEF ConsumerHasOne
  <2>3. Available' = Available /\ (ProducerHasOne' <=> ProducerHasOne)
    BY <2>1 DEF Available, ProducerHasOne
  <2>4. InQueue' = InQueue - 1 BY <1>1, <1>8, SMT DEF Take, TypeOK
  <2>5. SemaphoreCountsElements'
    BY <1>1, <1>2, <2>2, <2>3, <2>4, SMT DEF SemaphoreCountsElements, InHand
  <2> QED BY <1>1, <2>1, <2>5
<1>9. CASE \E o \in Ops : Dequeue(o)
  <2>1. PICK o \in Ops : Dequeue(o) BY <1>9
  <2>2. /\ UNCHANGED <<inner, producer>> /\ consumer = "idle" /\ consumer' = "sema"
        /\ Wait(WaitOf(o)) /\ WaitOf(o) \in WaitKinds
    BY <2>1, WaitOfKind DEF Dequeue, producerVars
  <2>3. Available' = Available BY <1>1, <2>2, WaitKeeps
  <2>4. waiter' = "idle" => ~answer' BY <2>2 DEF Wait, Go, Refused
  <2>5. ~ConsumerHasOne /\ ~ConsumerHasOne' BY <2>2, <2>4 DEF ConsumerHasOne
  <2> QED BY <1>1, <2>2, <2>3, <2>5 DEF SemaphoreCountsElements, InHand, ProducerHasOne
<1>10. CASE Peek \/ UNCHANGED vars
  <2>1. UNCHANGED <<inner, producer, consumer, count, waiter, answer>>
    BY <1>10 DEF Peek, vars, producerVars, consumerVars, semaVars
  <2> QED BY <1>1, <2>1
    DEF SemaphoreCountsElements, InHand, ProducerHasOne, ConsumerHasOne, Available
<1> QED BY <1>3, <1>4, <1>5, <1>6, <1>7, <1>8, <1>9, <1>10
  DEF Next, ProducerStep, ConsumerStep

\* The inductive invariant of the composition holds in every reachable state: the
\* semaphore counts the elements but for those in one of the threads' hands.
THEOREM BlockingInvariance == Spec => []BlockingInv
<1>1. Init /\ SemaInv => BlockingInv
  <2> SUFFICES ASSUME Init, SemaInv PROVE BlockingInv OBVIOUS
  <2>1. TypeOK BY InitTypes
  <2>2. ~ProducerHasOne /\ ~ConsumerHasOne BY DEF Init, ProducerHasOne, ConsumerHasOne
  <2>3. inner = <<>> /\ count = 0 /\ waiter = "idle" BY DEF Init, SemaInit
  <2>4. SemaphoreCountsElements
    BY <2>2, <2>3, SMT DEF SemaphoreCountsElements, InHand, Available, Announced
  <2> QED BY <2>1, <2>3, <2>4 DEF BlockingInv
<1>2. BlockingInv /\ SemaInv' /\ [Next]_vars => BlockingInv'
  BY CountKept, TypesKept DEF BlockingInv
<1> QED BY <1>1, <1>2, SemaphoreRuns, SemaInvariance, PTL DEF Spec

\* The assertion after each wait: whoever has got a unit finds an element.
THEOREM DequeuesSucceed == Spec => []DequeueSucceeds
<1>1. BlockingInv => DequeueSucceeds
  <2> SUFFICES ASSUME BlockingInv, consumer = "take" PROVE inner # <<>> BY DEF DequeueSucceeds
  <2>1. ConsumerHasOne /\ SemaphoreCountsElements BY DEF BlockingInv, ConsumerHasOne
  <2>2. Available \in Nat
    BY SMT DEF BlockingInv, SemaInv, CountInv, UnitsConserved, SemaTypeOK, Available
  <2>3. Len(inner) # 0 BY <2>1, <2>2, SMT DEF SemaphoreCountsElements, InHand
  <2> QED BY <2>3
<1> QED BY <1>1, BlockingInvariance, PTL

\* A refusal is given at a moment when no unit is there, so that the only element
\* there may be is one that enqueue has not finished with.
THEOREM RefusalsRight == Spec => RefusedOnlyWhenNoneReady
<1> DEFINE Refuses == /\ consumer' = "sema" /\ (consumer = "idle" \/ waiter # "idle")
                      /\ waiter' = "idle" /\ ~answer'
           NoneReady == Len(inner) = IF producer = "signal" THEN 1 ELSE 0
<1>1. BlockingInv /\ [Next]_vars => [Refuses => NoneReady]_vars
  <2> SUFFICES ASSUME BlockingInv, Next, Refuses PROVE NoneReady BY DEF vars
  <2>1. SemaInv /\ SemaphoreCountsElements /\ (consumer # "sema" => waiter = "idle") BY DEF BlockingInv
  <2>2. SUFFICES Available = 0 /\ ~ConsumerHasOne
    BY <2>1, SMT DEF SemaphoreCountsElements, InHand, ProducerHasOne
  <2>3. Available >= 0 /\ count \in Int
    BY <2>1 DEF SemaInv, CountInv, UnitsConserved, SemaTypeOK
  <2>4. CASE \E o \in Ops : Dequeue(o)
    <3>1. PICK o \in Ops : Dequeue(o) BY <2>4
    <3>2. consumer = "idle" /\ waiter = "idle" /\ ~(count > 0) BY <3>1 DEF Dequeue, Wait, Go
    <3>3. Available = count BY <3>2, <2>3, SMT DEF Available, Announced
    <3>4. ~ConsumerHasOne BY <3>2 DEF ConsumerHasOne
    <3> QED BY <2>3, <3>2, <3>3, <3>4, SMT
  <2>5. CASE WaitStep
    <3>1. consumer = "sema" /\ waiter # "idle" /\ WaiterStep BY <2>1, <2>5, WaiterKeeps DEF WaitStep
    <3>2. Restore /\ NotSignalled(count)
      BY <3>1 DEF WaiterStep, Spin, Grab, Decrement, KernelWait, KernelTimeout, Restore, Retake,
                  TryKernel, Granted, Refused, Go
    <3>3. waiter = "restore" /\ count < 0 BY <3>2 DEF Restore, NotSignalled
    <3>4. Available = count + 1 BY <3>3 DEF Available, Announced
    <3>5. ~ConsumerHasOne BY <3>1 DEF ConsumerHasOne
    <3> QED BY <2>3, <3>3, <3>4, <3>5, SMT
  <2>6. ~Enqueue /\ ~ProducerStep /\ ~Waited /\ ~Take /\ ~Peek
    <3>1. consumer = "idle" => waiter = "idle" /\ consumer' # consumer BY <2>1
    <3>2. ~Enqueue BY <3>1 DEF Enqueue, consumerVars, semaVars
    <3>3. ~ProducerStep
      BY <3>1 DEF ProducerStep, SignalElement, PostElement, Signal, Post, consumerVars
    <3>4. ~Waited /\ ~Take /\ ~Peek BY <3>1 DEF Waited, Take, Peek
    <3> QED BY <3>2, <3>3, <3>4
  <2> QED BY <2>4, <2>5, <2>6 DEF Next, ConsumerStep
<1> QED BY <1>1, BlockingInvariance, PTL DEF Spec, RefusedOnlyWhenNoneReady
==============================================================================
