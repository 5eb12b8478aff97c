------------------------- MODULE LightweightSemaphore -------------------------
(***************************************************************************)
(* moodycamel::spsc_sema::LightweightSemaphore (base/atomicops.h): a       *)
(* semaphore for one thread that signals and one that waits.  It counts in *)
(* an atomic and goes to the kernel semaphore (Semaphore, here the POSIX   *)
(* one) only when the waiter has found nothing and must sleep.             *)
(*                                                                         *)
(* Each step makes one access to m_count or to the kernel semaphore.  The  *)
(* 1024 rounds of spinning are any number of them, and the kernel calls,   *)
(* retried by the code when a signal handler interrupts them, are taken to *)
(* have no other failure than the time running out.  The module describes  *)
(* the semaphore alone (SemaSpec) and is extended by the queue that has    *)
(* one.                                                                    *)
(***************************************************************************)
EXTENDS Integers

CONSTANTS InitialCount,  \* initialCount; 0 by default
          SignalCounts,  \* what signal may be called with; 1 by default.  Not 0, which
                         \* its assertion admits: it would wake a waiter for nothing
          Waits,         \* the calls the waiter makes, of the four in WaitKinds
          MaxSignalled   \* bound: units signalled

\* tryWait(), wait() or a negative timeout, a timeout of 0, and a positive one.
WaitKinds == {"try", "forever", "zero", "timed"}

ASSUME SemaphoreAssumption ==
  /\ InitialCount \in Nat /\ SignalCounts \subseteq Nat \ {0}
  /\ Waits \subseteq WaitKinds /\ MaxSignalled \in Nat

VARIABLES
  count,     \* m_count
  kernel,    \* value of m_sema
  signaler,  \* "post" between signal's fetch_add and its m_sema.signal
  waiter,    \* where the waiting thread is in its call; "idle" between calls
  kind,      \* which wait the waiter is in, or was in last
  answer,    \* what that wait returned
  \* Ghosts: units signalled and units obtained by waits.
  signalled, granted

semaVars == <<count, kernel, signaler, waiter, kind, answer, signalled, granted>>

SemaInit ==
  /\ count = InitialCount /\ kernel = 0
  /\ signaler = "idle" /\ waiter = "idle"
  /\ kind = "try" /\ answer = FALSE
  /\ signalled = 0 /\ granted = 0

(***************************************************************************)
(* signal(n).                                                              *)
(***************************************************************************)
\* Variant: the count below which somebody waits taken one too low.
WakesBelow(old) == old < -1
Wakes(old) == old < 0

Signal(n) ==
  /\ signaler = "idle" /\ signalled + n <= MaxSignalled
  /\ count' = count + n
  /\ signalled' = signalled + n
  /\ signaler' = IF Wakes(count) THEN "post" ELSE "idle"
  /\ UNCHANGED <<kernel, waiter, kind, answer, granted>>

Post ==
  /\ signaler = "post"
  /\ kernel' = kernel + 1
  /\ signaler' = "idle"
  /\ UNCHANGED <<count, waiter, kind, answer, signalled, granted>>

(***************************************************************************)
(* tryWait, wait and timed wait, with waitWithPartialSpinning.             *)
(***************************************************************************)
Granted == waiter' = "idle" /\ answer' = TRUE /\ granted' = granted + 1
Refused == waiter' = "idle" /\ answer' = FALSE /\ UNCHANGED granted
Go(place) == waiter' = place /\ UNCHANGED <<answer, granted>>

\* The load of tryWait, with which every wait begins.
Wait(k) ==
  /\ waiter = "idle"
  /\ kind' = k
  /\ IF count > 0 THEN Go("grab") ELSE IF k = "try" THEN Refused ELSE Go("spin")
  /\ UNCHANGED <<count, kernel, signaler, signalled>>

\* A round of spinning that finds a unit, or the last one that does not.
Spin ==
  /\ waiter = "spin"
  /\ Go(IF count > 0 THEN "grab" ELSE "decrement")
  /\ UNCHANGED <<count, kernel, signaler, kind, signalled>>

\* Only this thread takes units, so the one it has seen is still there.
Grab ==
  /\ waiter = "grab"
  /\ count' = count - 1
  /\ Granted
  /\ UNCHANGED <<kernel, signaler, kind, signalled>>

\* Announce the wait; a timeout of 0 does not go to the kernel.
Decrement ==
  /\ waiter = "decrement"
  /\ count' = count - 1
  /\ IF count > 0 THEN Granted ELSE Go(IF kind = "zero" THEN "restore" ELSE "kernel")
  /\ UNCHANGED <<kernel, signaler, kind, signalled>>

KernelWait ==
  /\ waiter = "kernel" /\ kernel > 0
  /\ kernel' = kernel - 1
  /\ Granted
  /\ UNCHANGED <<count, signaler, kind, signalled>>

KernelTimeout ==
  /\ waiter = "kernel" /\ kind = "timed" /\ kernel = 0
  /\ Go("restore")
  /\ UNCHANGED <<count, kernel, signaler, kind, signalled>>

\* Variant: a signal that came after the time ran out is not looked for.
LateSignalIgnored(old) == TRUE
NotSignalled(old) == old < 0

\* Take the announcement back, unless a signal has answered it since.
Restore ==
  /\ waiter = "restore"
  /\ count' = count + 1
  /\ IF NotSignalled(count) THEN Refused ELSE Go("retake")
  /\ UNCHANGED <<kernel, signaler, kind, signalled>>

Retake ==
  /\ waiter = "retake"
  /\ count' = count - 1
  /\ Go(IF count > 0 THEN "tryKernel" ELSE "restore")
  /\ UNCHANGED <<kernel, signaler, kind, signalled>>

\* Variant: the unit counted is taken without the one in the kernel.
GrantedAtOnce ==
  /\ waiter = "tryKernel"
  /\ Granted
  /\ UNCHANGED <<count, kernel, signaler, kind, signalled>>

\* The signal counted may not have reached the kernel yet: then once more.
TryKernel ==
  /\ waiter = "tryKernel"
  /\ kernel' = IF kernel > 0 THEN kernel - 1 ELSE kernel
  /\ IF kernel > 0 THEN Granted ELSE Go("restore")
  /\ UNCHANGED <<count, signaler, kind, signalled>>

WaiterStep == Spin \/ Grab \/ Decrement \/ KernelWait \/ KernelTimeout
                \/ Restore \/ Retake \/ TryKernel

SemaNext == Post \/ WaiterStep
              \/ (\E n \in SignalCounts : Signal(n)) \/ (\E k \in Waits : Wait(k))

SemaSpec == SemaInit /\ [][SemaNext]_semaVars
==============================================================================
