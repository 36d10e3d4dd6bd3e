-------------------------- MODULE RecursiveLock --------------------------
(***************************************************************************)
(* What a CRITICALSECTION promises (include/timers.h:406-412): "Only a     *)
(* single thread may be in a critical section ... The same thread may      *)
(* enter a critical section multiple times.  For each time a critical      *)
(* section is entered, the thread must also leave the critical section."   *)
(***************************************************************************)
EXTENDS Naturals

CONSTANTS Threads, None

VARIABLES holder,   \* the thread in the section, or None
          depth     \* how many of its entries it has not left yet

Init == holder = None /\ depth = 0

Enter(t) ==
  /\ holder \in {None, t}
  /\ holder' = t
  /\ depth' = depth + 1

Leave(t) ==
  /\ holder = t
  /\ depth' = depth - 1
  /\ holder' = IF depth' = 0 THEN None ELSE t

Next == \E t \in Threads : Enter(t) \/ Leave(t)

Spec == Init /\ [][Next]_<<holder, depth>>
=============================================================================
