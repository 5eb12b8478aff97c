-------------------------- MODULE CountingSemaphore --------------------------
(***************************************************************************)
(* What a user of spsc_sema::LightweightSemaphore may assume: a number of  *)
(* units, to which signal adds and from which each wait takes one.  A wait *)
(* that gives up changes nothing.                                          *)
(***************************************************************************)
EXTENDS Naturals

CONSTANTS Initial,  \* units at the start
          Counts    \* what signal may add

VARIABLE value

Init == value = Initial

Signal(n) == value' = value + n

Wait == value > 0 /\ value' = value - 1

Next == Wait \/ \E n \in Counts : Signal(n)

Spec == Init /\ [][Next]_value
==============================================================================
