-------------------------- MODULE MCMessageQueue --------------------------
(* A ring of sixteen words, messages of three and four words with three    *)
(* IDs, a thread that reads one ID and a thread that reads any.            *)
EXTENDS MessageQueue
CONSTANTS t1, t2

MCMessages == {[id |-> 1, len |-> 3], [id |-> 2, len |-> 4], [id |-> 3, len |-> 4]}
(* The second buffer is too small for the longer messages. *)
MCBlocks == (t1 :> {[id |-> 1, buffer |-> 8]}) @@ (t2 :> {[id |-> 0, buffer |-> 4]})
MCPolls == {[id |-> 2, buffer |-> 8]}
=============================================================================
