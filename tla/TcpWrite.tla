------------------------------ MODULE TcpWrite ------------------------------
(***************************************************************************)
(* Writing to a TCP client of netlib/tcpnetwork.c: doTCPWriteExx sends     *)
(* what the socket takes and leaves the rest pending; the network thread,  *)
(* which watches clients with CF_WRITEPENDING, and PendingTimer send it on *)
(* with TCPWriteEx.  TCPWriteEx calls the client's WriteComplete when a    *)
(* pending buffer is done, and that may write again: "stack" holds the     *)
(* calls in progress.                                                      *)
(*                                                                         *)
(* All of it happens under the client's csLock, taken with EnterCriticalSec *)
(* (CriticalSection), so that the steps of one call only interleave with   *)
(* the peer's and with what its callbacks call.                            *)
(*                                                                         *)
(* A pending buffer either holds a copy of the data or points to the       *)
(* caller's buffer.  The caller uses that again once a write without       *)
(* bLongBuffer has returned, and what is sent from it then is garbage.     *)
(*                                                                         *)
(* Abstracted: a call with failpending that finds data pending, which      *)
(* changes nothing; the close callback (NetworkClients has it); a connect  *)
(* that fails.                                                             *)
(***************************************************************************)
EXTENDS Naturals, SequencesExt

CONSTANTS
  Messages,   \* the buffers written, each at most once
  Length,     \* their lengths in bytes
  Long,       \* those written with bLongBuffer
  Room,       \* what the socket takes without blocking when its peer has read all
  MaxErrors,  \* bound on the errors of send other than EPIPE
  Garbage,    \* what is in a buffer that is used again
  NoMessage

ASSUME MessagesAssumption ==
  /\ Long \subseteq Messages /\ {Garbage, NoMessage} \cap Messages = {}
  /\ Length \in [Messages -> Nat \ {0}]
ASSUME RoomAssumption == Room \in Nat \ {0} /\ MaxErrors \in Nat

VARIABLES
  active,        \* CF_ACTIVE
  connected,     \* CF_CONNECTED
  pending,       \* lpFirstPending ... lpLastPending
  writepending,  \* CF_WRITEPENDING
  notifying,     \* bWriteComplete
  stack,         \* the calls in progress, the innermost last
  room,          \* what the socket takes now
  gone,          \* the peer has closed: send fails with EPIPE
  errors,        \* the errors of send other than EPIPE so far
  retry,         \* the last TCPWriteEx ended with one
  watching,      \* the socket's bit in the network thread's fd set "write"
  accepted,      \* the writes that returned TRUE, or will
  wire           \* what the socket has taken

client == <<active, connected, pending, writepending, notifying>>
peer == <<room, gone, errors, retry, watching>>
stream == <<accepted, wire>>
vars == <<client, stack, peer, stream>>

(* Calls: "steal" uses FirstWritePending, "pend" a new buffer, "event" is  *)
(* the network thread's or the timer's, "accept" AcceptClient's.  A call   *)
(* is in TCPWriteEx's "loop", in the WriteComplete "callback" or in the    *)
(* callbacks of a connection that "opened".                                *)
Call(kind, msg, at) == [kind |-> kind, msg |-> msg, at |-> at]
Top == Last(stack)
At(at) == stack # << >> /\ Top.at = at
Goes(at) == stack' = [stack EXCEPT ![Len(stack)].at = at]

(* A client that connects, or one that was accepted, whose WriteComplete   *)
(* AcceptClient calls first.                                               *)
Init ==
  /\ active = TRUE
  /\ connected \in BOOLEAN
  /\ pending = << >> /\ writepending = FALSE
  /\ notifying = connected
  /\ stack = IF connected THEN <<Call("accept", NoMessage, "callback")>> ELSE << >>
  /\ room = Room /\ gone = FALSE /\ errors = 0 /\ retry = FALSE /\ watching = "no"
  /\ accepted = << >> /\ wire = << >>

----------------------------------------------------------------------------
(* The caller's buffer of a short write is his again when it has returned. *)
Reused(msg) == msg \notin Long /\ \A i \in DOMAIN stack : stack[i].msg # msg

(* A pending buffer points to data of "from", or to a copy of it; what was *)
(* written is "msg".  The client's FirstWritePending is "first".           *)
Buffer(msg, copy, first) ==
  [msg |-> msg, from |-> msg, copy |-> copy, first |-> first, used |-> 0, avail |-> Length[msg]]
Data(buffer) == IF ~buffer.copy /\ Reused(buffer.from) THEN Garbage ELSE buffer.from

(* Callers hold no csLock, or are callbacks, which run under it. *)
MayCall == stack = << >> \/ At("callback") \/ At("opened")

(* Mutant: a short write that has to wait keeps the caller's buffer. *)
PendWrite_NoCopy(msg) ==
  /\ pending' = Append(pending, Buffer(msg, FALSE, FALSE))
  /\ stack' = Append(stack, Call("pend", msg, "loop"))

(* Mutant: the new buffer becomes the first one. *)
PendWrite_First(msg) ==
  /\ pending' = <<Buffer(msg, msg \notin Long, FALSE)>> \o pending
  /\ stack' = Append(stack, Call("pend", msg, "loop"))

PendWrite(msg) ==
  /\ pending' = Append(pending, Buffer(msg, msg \notin Long, FALSE))
  /\ stack' = Append(stack, Call("pend", msg, "loop"))

StealBuffer(msg) ==
  /\ pending' = <<Buffer(msg, FALSE, TRUE)>>
  /\ stack' = Append(stack, Call("steal", msg, "loop"))

(* doTCPWriteExx up to its call of TCPWriteEx; an inactive client takes    *)
(* nothing.                                                                *)
Write(msg) ==
  /\ MayCall /\ active
  /\ msg \notin Range(accepted)
  /\ accepted' = Append(accepted, msg)
  /\ IF pending # << >> THEN PendWrite(msg) ELSE StealBuffer(msg)
  /\ UNCHANGED <<active, connected, writepending, notifying, peer, wire>>

(* doTCPWriteExx after TCPWriteEx: with data left, it copies its message   *)
(* into FirstWritePending, which it takes for its own.                     *)
Recopied(buffers, unsent) ==
  IF Top.kind = "steal" /\ unsent /\ Top.msg \notin Long
  THEN [i \in DOMAIN buffers |->
          IF buffers[i].first THEN [buffers[i] EXCEPT !.from = Top.msg, !.copy = TRUE]
          ELSE buffers[i]]
  ELSE buffers

(* TCPWriteEx returns "unsent", and so does its caller. *)
Return(buffers, unsent) ==
  /\ pending' = Recopied(buffers, unsent)
  /\ stack' = Front(stack)

----------------------------------------------------------------------------
(* TCPWriteEx. *)

Sending == At("loop") /\ connected /\ pending # << >>

NothingToSend ==
  /\ At("loop") /\ pending = << >>
  /\ Return(pending, FALSE)
  /\ retry' = FALSE
  /\ UNCHANGED <<active, connected, writepending, notifying, room, gone, errors, watching, stream>>

NotConnected ==
  /\ At("loop") /\ ~connected /\ pending # << >>
  /\ Return(pending, TRUE)
  /\ UNCHANGED <<active, connected, writepending, notifying, peer, stream>>

(* Mutant: the network thread is not told to watch the socket. *)
WouldBlock_Unwatched ==
  /\ Sending /\ ~gone /\ room = 0
  /\ Return(pending, TRUE)
  /\ retry' = FALSE
  /\ UNCHANGED <<active, connected, writepending, notifying, room, gone, errors, watching, stream>>

WouldBlock ==
  /\ Sending /\ ~gone /\ room = 0
  /\ writepending' = TRUE
  /\ Return(pending, TRUE)
  /\ retry' = FALSE
  /\ UNCHANGED <<active, connected, notifying, room, gone, errors, watching, stream>>

(* The socket takes what it has room for. *)
Sent(count) ==
  LET first == Head(pending)
  IN  /\ room' = room - count
      /\ wire' = wire \o [i \in 1 .. count |-> [of |-> Data(first), at |-> first.used + i]]

(* Mutant: the rest of the data is sent from the start of the buffer. *)
SendSome_NotUsed ==
  LET first == Head(pending)
  IN  /\ Sending /\ ~gone /\ room > 0 /\ first.avail > room
      /\ Sent(room)
      /\ writepending' = TRUE
      /\ Return([pending EXCEPT ![1].avail = @ - room], TRUE)
      /\ retry' = FALSE
      /\ UNCHANGED <<active, connected, notifying, gone, errors, watching, accepted>>

SendSome ==
  LET first == Head(pending)
  IN  /\ Sending /\ ~gone /\ room > 0 /\ first.avail > room
      /\ Sent(room)
      /\ writepending' = TRUE
      /\ Return([pending EXCEPT ![1].used = @ + room, ![1].avail = @ - room], TRUE)
      /\ retry' = FALSE
      /\ UNCHANGED <<active, connected, notifying, gone, errors, watching, accepted>>

(* A buffer is done: WriteComplete, but not out of another one, and the    *)
(* loop goes on.                                                           *)
SendRest ==
  LET first == Head(pending)
  IN  /\ Sending /\ ~gone /\ room > 0 /\ first.avail <= room
      /\ Sent(first.avail)
      /\ pending' = Tail(pending)
      /\ IF notifying
         THEN writepending' = (writepending /\ Tail(pending) # << >>) /\ UNCHANGED <<notifying, stack>>
         ELSE notifying' = TRUE /\ Goes("callback") /\ UNCHANGED writepending
      /\ UNCHANGED <<active, connected, gone, errors, retry, watching, accepted>>

(* EPIPE: InternalRemoveClient takes the client off the active ones. *)
SendBroken ==
  /\ Sending /\ gone
  /\ active' = FALSE
  /\ Return(pending, FALSE)
  /\ UNCHANGED <<connected, writepending, notifying, peer, stream>>

(* Another error is logged, and the data stays as it is. *)
SendError ==
  /\ Sending /\ ~gone /\ errors < MaxErrors
  /\ errors' = errors + 1
  /\ retry' = TRUE
  /\ Return(pending, FALSE)
  /\ UNCHANGED <<active, connected, writepending, notifying, room, gone, watching, stream>>

(* WriteComplete returns, to TCPWriteEx or to AcceptClient. *)
Notified ==
  /\ At("callback")
  /\ notifying' = FALSE
  /\ IF Top.kind = "accept"
     THEN stack' = Front(stack) /\ UNCHANGED writepending
     ELSE Goes("loop") /\ writepending' = (writepending /\ pending # << >>)
  /\ UNCHANGED <<active, connected, pending, peer, stream>>

----------------------------------------------------------------------------
(* The network thread, the timer, the application and the peer. *)

(* A pass of the network thread: it builds its sets under csNetwork, not   *)
(* under csLock, once, and sleeps in select for up to five seconds.  What  *)
(* becomes pending meanwhile is not watched before the next pass.          *)
BuildSets ==
  /\ watching # "ready"
  /\ watching' = IF active /\ (writepending \/ ~connected) THEN "set" ELSE "no"
  /\ UNCHANGED <<client, stack, room, gone, errors, retry, stream>>

(* select finds the socket writable, broken or connected. *)
Select ==
  /\ watching = "set" /\ (connected => room > 0 \/ gone)
  /\ watching' = "ready"
  /\ UNCHANGED <<client, stack, room, gone, errors, retry, stream>>

(* The thread has the client's csLock: it looks neither at CF_WRITEPENDING *)
(* nor at the room again.                                                  *)
WriteEvent ==
  /\ stack = << >> /\ active /\ connected /\ watching = "ready"
  /\ watching' = "no"
  /\ stack' = <<Call("event", NoMessage, "loop")>>
  /\ UNCHANGED <<client, room, gone, errors, retry, stream>>

(* Mutant: the timer only looks at clients that select watches. *)
PendingTimer_Watched ==
  /\ stack = << >> /\ active /\ pending # << >> /\ writepending
  /\ stack' = <<Call("event", NoMessage, "loop")>>
  /\ UNCHANGED <<client, peer, stream>>

(* PendingTimer, every five seconds. *)
PendingTimer ==
  /\ stack = << >> /\ active /\ pending # << >>
  /\ stack' = <<Call("event", NoMessage, "loop")>>
  /\ UNCHANGED <<client, peer, stream>>

(* The connection is made: ThisConnected and ReadComplete may write before *)
(* what is pending is sent.                                                *)
ConnectEvent ==
  /\ stack = << >> /\ active /\ ~connected /\ watching = "ready"
  /\ watching' = "no"
  /\ connected' = TRUE
  /\ stack' = <<Call("event", NoMessage, "opened")>>
  /\ UNCHANGED <<active, pending, writepending, notifying, room, gone, errors, retry, stream>>

Opened == At("opened") /\ Goes("loop") /\ UNCHANGED <<client, peer, stream>>

(* RemoveClient, by the application or out of a callback, releases what is *)
(* pending and clears the record.                                          *)
RemoveClient ==
  /\ MayCall /\ active
  /\ active' = FALSE /\ connected' = FALSE
  /\ pending' = << >> /\ writepending' = FALSE /\ notifying' = FALSE
  /\ UNCHANGED <<stack, peer, stream>>

PeerReads == ~gone /\ room < Room /\ room' = Room /\ UNCHANGED <<client, stack, gone, errors, retry, watching, stream>>
PeerCloses == ~gone /\ gone' = TRUE /\ UNCHANGED <<client, stack, room, errors, retry, watching, stream>>

(* The client has nothing more to do: all is written, or it is closed. *)
Done ==
  /\ stack = << >>
  /\ ~active \/ (pending = << >> /\ Range(accepted) = Messages)
  /\ UNCHANGED vars

----------------------------------------------------------------------------
(* Where the code sends something else than what was written: a pending    *)
(* buffer points to a caller's buffer that is used again, or holds the     *)
(* copy of another message.  The model follows the code up to there.       *)
Exposed == \E i \in DOMAIN pending : Data(pending[i]) = Garbage
Mixed == \E i \in DOMAIN pending : pending[i].from # pending[i].msg
Spoiled == active /\ (Exposed \/ Mixed)

Loop ==
  \/ NothingToSend \/ NotConnected \/ WouldBlock \/ SendSome \/ SendRest \/ SendBroken
  \/ Notified \/ Opened

Next ==
  \/ /\ ~Spoiled
     /\ \/ \E msg \in Messages : Write(msg)
        \/ Loop \/ SendError
        \/ BuildSets \/ Select \/ WriteEvent \/ ConnectEvent
        \/ PendingTimer \/ RemoveClient
        \/ PeerReads \/ PeerCloses
  \/ (Spoiled /\ UNCHANGED vars)
  \/ Done

(* Calls and callbacks go on; the network thread runs select again and     *)
(* again; the timer is periodic; the peer reads; a connect is made, and    *)
(* the network thread, which tries again at once when csLock is taken,     *)
(* gets to tell the client so between the timer's calls.                   *)
Fairness ==
  /\ WF_vars(~Spoiled /\ Loop)
  /\ WF_vars(~Spoiled /\ BuildSets) /\ WF_vars(~Spoiled /\ Select) /\ WF_vars(~Spoiled /\ WriteEvent)
  /\ WF_vars(~Spoiled /\ PendingTimer) /\ WF_vars(~Spoiled /\ PeerReads)
  /\ SF_vars(~Spoiled /\ ConnectEvent)

Spec == Init /\ [][Next]_vars /\ Fairness

----------------------------------------------------------------------------
(* Properties. *)

(* The types of the variables. *)
TypeOK ==
  /\ {active, connected, writepending, notifying, gone, retry} \subseteq BOOLEAN
  /\ pending \in Seq([msg : Messages, from : Messages, copy : BOOLEAN, first : BOOLEAN,
                      used : Nat, avail : Nat \ {0}])
  /\ stack \in Seq([kind : {"steal", "pend", "event", "accept"}, msg : Messages \cup {NoMessage},
                    at : {"loop", "callback", "opened"}])
  /\ room \in 0 .. Room /\ errors \in 0 .. MaxErrors /\ watching \in {"no", "set", "ready"}
  /\ accepted \in Seq(Messages)
  /\ wire \in Seq([of : Messages \cup {Garbage}, at : Nat])

Out == INSTANCE ByteStream

(* Whatever calls and callbacks are under way, what the socket has taken   *)
(* and what is pending are together all that was accepted, in order:       *)
(* nothing is lost, sent twice or overtaken by a callback's write.         *)
NothingLost ==
  active /\ ~Spoiled =>
    wire \o FlattenSeq([i \in DOMAIN pending |->
                          Out!Bytes(pending[i].msg, pending[i].used, pending[i].avail)])
      = Out!Stream(accepted)

(* The write path is a byte stream. *)
ImplementsStream == Out!Init /\ [][Out!Next]_<<accepted, wire>>

(* When no call is under way the network thread's next pass watches the    *)
(* socket of a client with data pending (CF_WRITEPENDING), but for one     *)
(* whose last send failed, which waits for PendingTimer.                   *)
PendingWatched ==
  active /\ connected /\ stack = << >> /\ pending # << >> => writepending \/ retry

(* A short write's buffer is copied before the caller gets it back ("caller *)
(* will assume the buffer usable on return"), and the copy is its own: but *)
(* for an error of send, and for a write by the WriteComplete that the     *)
(* short write caused, which is left in FirstWritePending.                 *)
CopiesOver ==
  /\ Len(stack') < Len(stack) /\ Top.kind = "steal"
  /\ \E i \in DOMAIN pending : pending[i].first /\ pending[i].msg # Top.msg
CopiedInTime == [][~Spoiled /\ Spoiled' => errors' # errors \/ CopiesOver]_vars

(* What was accepted is sent, if the client stays. *)
EverythingSent == pending # << >> ~> (pending = << >> \/ ~active \/ gone \/ Spoiled)
=============================================================================
