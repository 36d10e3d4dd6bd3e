--------------------------- MODULE MCGenericSet ---------------------------
(* Instances of GenericSet for TLC: blocks of memory are interchangeable. *)
EXTENDS GenericSet, TLC

Symmetry == Permutations(Blocks)
=============================================================================
