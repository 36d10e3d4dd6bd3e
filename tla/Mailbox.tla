------------------------------ MODULE Mailbox ------------------------------
(***************************************************************************)
(* What the message queues of typelib/msgqueue.c promise (include/         *)
(* typelib.h:411-473, and the order typetest/testmsgq.c tests): a message  *)
(* stays in the box until a read takes it, a read takes the oldest message *)
(* with the ID it asks for (ID 0: the oldest of all), and it finds nothing *)
(* only when there is no such message.                                     *)
(***************************************************************************)
EXTENDS Naturals, Sequences

CONSTANTS
  Messages,   \* what is posted: [id |-> its MsgID, len |-> its length]
  Ids,        \* the IDs asked for, 0 among them
  Buffers,    \* the sizes of the callers' buffers
  NoMessage   \* the answer when there is nothing

VARIABLES
  box,   \* the messages not yet read, the oldest first
  out    \* what the last read returned

vars == <<box, out>>

Asked(msg, id) == id = 0 \/ msg.id = id

(* The places of the messages a read for "id" would take. *)
Candidates(id) == {i \in DOMAIN box : Asked(box[i], id)}
IsOldest(i, id) == i \in Candidates(id) /\ \A j \in Candidates(id) : i <= j

Init == box = << >> /\ out = NoMessage

Post(msg) == box' = Append(box, msg) /\ UNCHANGED out

Take(id) ==
  \E i \in DOMAIN box :
    /\ IsOldest(i, id)
    /\ out' = box[i]
    /\ box' = [j \in 1 .. Len(box) - 1 |-> box[IF j < i THEN j ELSE j + 1]]

FindNothing(id) == Candidates(id) = {} /\ out' = NoMessage /\ UNCHANGED box

(* MSGQUE_ERROR_E2BIG: the message stays. *)
FindTooBig(id, buffer) ==
  /\ \E i \in DOMAIN box : IsOldest(i, id) /\ buffer <= box[i].len
  /\ out' = NoMessage
  /\ UNCHANGED box

Next ==
  \/ \E msg \in Messages : Post(msg)
  \/ \E id \in Ids : Take(id) \/ FindNothing(id)
                     \/ \E buffer \in Buffers : FindTooBig(id, buffer)

Spec == Init /\ [][Next]_vars
=============================================================================
