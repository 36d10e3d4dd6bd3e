---------------------------- MODULE MCTcpWrite ----------------------------
(* Three short writes and a long one on a socket that takes two bytes.       *)
EXTENDS TcpWrite
CONSTANTS m1, m2, m3, m4

MCLength == (m1 :> 2) @@ (m2 :> 1) @@ (m3 :> 3) @@ (m4 :> 1)
=============================================================================
