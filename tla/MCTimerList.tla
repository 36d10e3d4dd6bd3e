--------------------------- MODULE MCTimerList ---------------------------
(* Instances of TimerList for TLC: a periodic timer and a one-shot that is  *)
(* due at once.                                                             *)
EXTENDS TimerList

CONSTANTS u1, u2

MCStart == [u \in Timers |-> IF u = u1 THEN 1 ELSE 0]
MCFrequency == [u \in Timers |-> IF u = u1 THEN 1 ELSE 0]
=============================================================================
