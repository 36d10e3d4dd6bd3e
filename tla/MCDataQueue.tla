---------------------------- MODULE MCDataQueue ----------------------------
(* Data queues of a few items that grow by no, one or two slots.           *)
EXTENDS DataQueue
CONSTANTS a, b

=============================================================================
