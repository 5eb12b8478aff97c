---------------------- MODULE LightweightSemaphoreProofs ----------------------
(***************************************************************************)
(* Proofs that the semaphore keeps SemaInv, whatever it is signalled with  *)
(* and however its waits end, and that it is a counting semaphore.  The    *)
(* lemmas are about single actions, for the queue that takes them too.     *)
(***************************************************************************)
EXTENDS LightweightSemaphoreProperties, TLAPS

USE DEF CountInv, SemaTypeOK, UnitsConserved, KernelMatchesWaiter, WaiterKnows,
        Available, Announced, WaitKinds

\* signal's fetch_add adds units, and sends one to the kernel for a waiter only.
LEMMA SignalKeeps ==
  ASSUME SemaInv, NEW n \in Nat \ {0}, Signal(n), InitialCount \in Nat
  PROVE  SemaInv' /\ Available' = Available + n
<1>1. CountInv' /\ Available' = Available + n BY SMT DEF SemaInv, Signal, Wakes
<1> QED BY <1>1 DEF SemaInv, Signal

\* The unit on its way to the kernel arrives.
LEMMA PostKeeps ==
  ASSUME SemaInv, Post
  PROVE  SemaInv' /\ Available' = Available
<1>1. CountInv' /\ Available' = Available BY SMT DEF SemaInv, Post
<1> QED BY <1>1 DEF SemaInv, Post

\* A call of wait begins.
LEMMA WaitKeeps ==
  ASSUME SemaInv, NEW k \in WaitKinds, Wait(k)
  PROVE  SemaInv' /\ Available' = Available
<1>1. answer' \in BOOLEAN BY DEF SemaInv, Wait, Go, Refused
<1>2. /\ waiter = "idle" /\ kind' = k
      /\ UNCHANGED <<count, kernel, signaler, signalled, granted>>
      /\ waiter' = IF count > 0 THEN "grab" ELSE IF k = "try" THEN "idle" ELSE "spin"
  BY Zenon DEF Wait, Go, Refused
<1>3. CountInv' /\ Available' = Available BY <1>2, SMT DEF SemaInv
<1> QED BY <1>1, <1>3 DEF SemaInv

\* The three ways a step of a wait ends, and what they do to the rest.
LEMMA Endings ==
  /\ Granted => waiter' = "idle" /\ granted' = granted + 1
  /\ Refused => waiter' = "idle" /\ granted' = granted
  /\ \A place : Go(place) => waiter' = place /\ granted' = granted
BY DEF Granted, Refused, Go

\* Every step of a wait, up to its return.
LEMMA WaiterKeeps ==
  ASSUME SemaInv, WaiterStep, InitialCount \in Nat
  PROVE  /\ SemaInv'
         /\ waiter # "idle" /\ UNCHANGED signalled
         /\ \/ Granted
            \/ Refused
            \/ waiter' # "idle" /\ UNCHANGED granted
<1>1. answer' \in BOOLEAN
  BY DEF SemaInv, WaiterStep, Spin, Grab, Decrement, KernelWait, KernelTimeout, Restore, Retake,
         TryKernel, Granted, Refused, Go
<1>2. CountInv' /\ waiter # "idle" /\ UNCHANGED signalled
  <2>1. CASE Spin BY <2>1, Endings, SMT DEF SemaInv, Spin
  <2>2. CASE Grab BY <2>2, Endings, SMT DEF SemaInv, Grab
  <2>3. CASE Decrement BY <2>3, Endings, SMT DEF SemaInv, Decrement
  <2>4. CASE KernelWait BY <2>4, Endings, SMT DEF SemaInv, KernelWait
  <2>5. CASE KernelTimeout BY <2>5, Endings, SMT DEF SemaInv, KernelTimeout
  <2>6. CASE Restore BY <2>6, Endings, SMT DEF SemaInv, Restore, NotSignalled
  <2>7. CASE Retake BY <2>7, Endings, SMT DEF SemaInv, Retake
  <2>8. CASE TryKernel BY <2>8, Endings, SMT DEF SemaInv, TryKernel
  <2> QED BY <2>1, <2>2, <2>3, <2>4, <2>5, <2>6, <2>7, <2>8 DEF WaiterStep
<1>3. Granted \/ Refused \/ (waiter' # "idle" /\ UNCHANGED granted)
  BY Endings DEF WaiterStep, Spin, Grab, Decrement, KernelWait, KernelTimeout, Restore, Retake, TryKernel
<1> QED BY <1>1, <1>2, <1>3 DEF SemaInv

\* The inductive invariant holds in every reachable state of the semaphore: no
\* unit is made or lost, and none lies in the kernel beside nobody.
THEOREM SemaInvariance == SemaSpec => []SemaInv
<1>1. SemaInit => SemaInv
  <2> SUFFICES ASSUME SemaInit PROVE SemaInv OBVIOUS
  <2>1. answer \in BOOLEAN BY DEF SemaInit
  <2>2. /\ count = InitialCount /\ kernel = 0 /\ signaler = "idle" /\ waiter = "idle"
        /\ kind = "try" /\ signalled = 0 /\ granted = 0
    BY DEF SemaInit
  <2>3. CountInv BY <2>2, SemaphoreAssumption, SMT
  <2> QED BY <2>1, <2>3 DEF SemaInv
<1>2. SemaInv /\ [SemaNext]_semaVars => SemaInv'
  <2> SUFFICES ASSUME SemaInv, [SemaNext]_semaVars PROVE SemaInv' OBVIOUS
  <2>1. InitialCount \in Nat /\ SignalCounts \subseteq Nat \ {0} /\ Waits \subseteq WaitKinds
    BY SemaphoreAssumption
  <2>2. CASE Post BY <2>2, PostKeeps
  <2>3. CASE WaiterStep BY <2>1, <2>3, WaiterKeeps
  <2>4. CASE \E n \in SignalCounts : Signal(n)
    <3>1. PICK n \in SignalCounts : Signal(n) BY <2>4
    <3> QED BY <2>1, <3>1, SignalKeeps
  <2>5. CASE \E k \in Waits : Wait(k)
    <3>1. PICK k \in Waits : Wait(k) BY <2>5
    <3>2. k \in WaitKinds BY <2>1
    <3> HIDE DEF WaitKinds
    <3> QED BY <3>1, <3>2, WaitKeeps
  <2>6. CASE UNCHANGED semaVars BY <2>6 DEF SemaInv, semaVars
  <2> QED BY <2>2, <2>3, <2>4, <2>5, <2>6 DEF SemaNext
<1> QED BY <1>1, <1>2, PTL DEF SemaSpec

\* A semaphore is a counting semaphore: signal adds what it says, and a wait takes
\* one unit or none.
THEOREM SemaCounts == SemaSpec => CountingSpec
<1> USE SemaphoreAssumption
<1>1. SemaInit => Counting!Init BY DEF SemaInit, Counting!Init
<1>2. SemaInv /\ SemaInv' /\ [SemaNext]_semaVars => [Counting!Next]_Available
  <2> SUFFICES ASSUME SemaInv, SemaInv', [SemaNext]_semaVars PROVE [Counting!Next]_Available
    OBVIOUS
  <2> DEFINE Conserved == Available = InitialCount + signalled - granted /\ Available >= 0
  <2>1. /\ Conserved /\ Conserved'
        /\ InitialCount \in Nat /\ signalled \in Nat /\ granted \in Nat
        /\ SignalCounts \subseteq Nat \ {0} /\ Waits \subseteq WaitKinds
    BY DEF SemaInv
  <2>2. CASE Post
    <3>1. Available' = Available BY <2>2, PostKeeps
    <3> QED BY <3>1
  <2>3. CASE WaiterStep
    <3>1. /\ UNCHANGED signalled
          /\ granted' = granted + 1 \/ granted' = granted
      BY <2>1, <2>3, WaiterKeeps, Endings
    <3>2. Available' = Available \/ (Available > 0 /\ Available' = Available - 1)
      <4> HIDE DEF Available
      <4> QED BY <2>1, <3>1, SMT
    <3> QED BY <3>2 DEF Counting!Next, Counting!Wait
  <2>4. CASE \E n \in SignalCounts : Signal(n)
    <3>1. PICK n \in SignalCounts : Signal(n) BY <2>4
    <3>2. Available' = Available + n BY <2>1, <3>1, SignalKeeps
    <3> QED BY <3>2 DEF Counting!Next, Counting!Signal
  <2>5. CASE \E k \in Waits : Wait(k)
    <3>1. PICK k \in Waits : Wait(k) BY <2>5
    <3>2. k \in WaitKinds BY <2>1
    <3> HIDE DEF WaitKinds
    <3>3. Available' = Available BY <3>1, <3>2, WaitKeeps
    <3> QED BY <3>3
  <2>6. CASE UNCHANGED semaVars BY <2>6 DEF semaVars
  <2> QED BY <2>2, <2>3, <2>4, <2>5, <2>6 DEF SemaNext
<1> QED BY <1>1, <1>2, SemaInvariance, PTL DEF SemaSpec, CountingSpec, Counting!Spec
==============================================================================
