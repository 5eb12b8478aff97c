-------------------- MODULE LightweightSemaphoreProperties --------------------
(***************************************************************************)
(* What the semaphore promises its signaling and its waiting thread.       *)
(***************************************************************************)
EXTENDS LightweightSemaphore

\* Where the waiter's announcement is still in the count.
Announced == {"kernel", "restore", "tryKernel"}

SemaTypeOK ==
  /\ count \in Int /\ kernel \in Nat
  /\ signaler \in {"idle", "post"}
  /\ waiter \in Announced \union {"idle", "spin", "grab", "decrement", "retake"}
  /\ kind \in WaitKinds
  /\ signalled \in Nat /\ granted \in Nat

\* Units a wait could still get: the count without the waiter's announcement.
Available == count + IF waiter \in Announced THEN 1 ELSE 0

\* No wait is granted a unit that was never signalled, and none disappears: a
\* timed wait that gives up as a signal arrives neither takes it nor drops it.
UnitsConserved == Available = InitialCount + signalled - granted /\ Available >= 0

\* A unit is in the kernel semaphore, or on its way there, exactly while a
\* waiter that announced itself has been answered.  So nobody sleeps beside a
\* unit, and no unit is left in the kernel to wake a later wait for nothing.
KernelMatchesWaiter ==
  kernel + (IF signaler = "post" THEN 1 ELSE 0)
    = IF \/ waiter \in Announced /\ count >= 0
         \/ waiter = "retake"
      THEN 1 ELSE 0

\* Where the waiter is tells what it knows of the count.
WaiterKnows ==
  /\ waiter \in {"grab", "retake"} => count > 0
  /\ waiter = "tryKernel" => count >= 0

CountInv == SemaTypeOK /\ UnitsConserved /\ KernelMatchesWaiter /\ WaiterKnows

\* The inductive invariant.
SemaInv == CountInv /\ answer \in BOOLEAN

\* The semaphore is a counting semaphore.
Counting == INSTANCE CountingSemaphore
              WITH Initial <- InitialCount, Counts <- SignalCounts, value <- Available
CountingSpec == Counting!Spec
==============================================================================
