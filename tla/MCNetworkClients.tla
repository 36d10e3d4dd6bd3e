------------------------- MODULE MCNetworkClients -------------------------
(* Programs for TLC. *)
EXTENDS NetworkClients

MCUse(listen, clients, fs, open, read, close, n, m) ==
  [listen |-> listen, clients |-> clients, fds |-> fs, open |-> open, read |-> read, close |-> close,
   opens |-> n, errors |-> m]

AnyOf(S) == {CHOOSE e \in S : TRUE}

(* One that blocks in OpenTCPClient; one that is a server and connects     *)
(* again when a client is closed; and one with a single client, that also  *)
(* closes what it has read.                                                *)
MCUses ==
  {MCUse(FALSE, Clients, AnyOf(Fds), "block", {}, {}, 1, 1),
   MCUse(TRUE, Clients, Fds, "async", {}, {"open"}, 2, 0),
   MCUse(FALSE, AnyOf(Clients), AnyOf(Fds), "async", {"close"}, {"open"}, 2, 1)}

(* It blocks in OpenTCPClient, and is a server. *)
MCBoth == {MCUse(TRUE, Clients, Fds, "block", {}, {}, 2, 0)}
=============================================================================
