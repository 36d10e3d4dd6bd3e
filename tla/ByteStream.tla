----------------------------- MODULE ByteStream -----------------------------
(***************************************************************************)
(* What doTCPWriteExx of netlib/tcpnetwork.c promises (include/network.h:  *)
(* 569-597): a write it accepts is data of a stream, which the socket gets *)
(* byte for byte in the order of the calls, now or later.                  *)
(***************************************************************************)
EXTENDS Naturals, SequencesExt

CONSTANTS
  Messages,  \* the buffers that are written
  Length     \* the bytes of each

VARIABLES
  accepted,  \* the writes accepted, in the order of the calls
  wire       \* the bytes the socket has taken

vars == <<accepted, wire>>

Bytes(msg, from, count) == [i \in 1 .. count |-> [of |-> msg, at |-> from + i]]
Stream(msgs) == FlattenSeq([i \in DOMAIN msgs |-> Bytes(msgs[i], 0, Length[msgs[i]])])

Init == accepted = << >> /\ wire = << >>

Accept(msg) == accepted' = Append(accepted, msg) /\ UNCHANGED wire

Deliver ==
  /\ \E n \in Len(wire) + 1 .. Len(Stream(accepted)) : wire' = SubSeq(Stream(accepted), 1, n)
  /\ UNCHANGED accepted

Next == Deliver \/ \E msg \in Messages : Accept(msg)

Spec == Init /\ [][Next]_vars
=============================================================================
