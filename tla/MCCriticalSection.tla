------------------------ MODULE MCCriticalSection ------------------------
(* Instances of CriticalSection for TLC: threads are interchangeable. *)
EXTENDS CriticalSection, TLC

Symmetry == Permutations(Threads)
=============================================================================
