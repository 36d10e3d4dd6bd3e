--------------------------- MODULE TcpWrite_proofs ---------------------------
(***************************************************************************)
(* Proofs about TcpWrite for any messages and lengths, any room of the     *)
(* socket and any depth of writes out of WriteComplete callbacks.          *)
(***************************************************************************)
EXTENDS TcpWrite, WellFoundedInduction, SequenceTheorems, TLAPS

Buffers == [msg : Messages, from : Messages, copy : BOOLEAN, first : BOOLEAN,
            used : Nat, avail : Nat \ {0}]
CallSet == [kind : {"steal", "pend", "event", "accept"}, msg : Messages \cup {NoMessage},
            at : {"loop", "callback", "opened"}]
WireBytes == [of : Messages \cup {Garbage}, at : Nat]

(* AcceptClient is only under the other calls, in WriteComplete; a write   *)
(* has a message.                                                          *)
Calls ==
  \A i \in DOMAIN stack :
    /\ stack[i].kind = "accept" => i = 1 /\ stack[i].at = "callback"
    /\ stack[i].kind = "steal" => stack[i].msg \in Messages

(* Nothing that would go on sending is under way: PendingWatched must also *)
(* hold while AcceptClient's callback runs, for it returns no data.        *)
Resting == stack = << >> \/ (Len(stack) = 1 /\ stack[1].kind = "accept")
Watched == Resting /\ active /\ connected /\ pending # << >> => writepending \/ retry

IInv == TypeOK /\ Calls /\ Watched

(* TypeOK in two parts: the sequences, and the rest. *)
Bools == {active, connected, writepending, notifying, gone, retry} \subseteq BOOLEAN
Bounds ==
  /\ room \in 0 .. Room /\ errors \in 0 .. MaxErrors /\ watching \in {"no", "set", "ready"}
  /\ accepted \in Seq(Messages)
Types == Bools /\ Bounds

LEMMA AllTypes ==
  TypeOK <=> /\ Types /\ pending \in Seq(Buffers) /\ stack \in Seq(CallSet)
             /\ wire \in Seq(WireBytes)
BY DEF TypeOK, Types, Bools, Bounds, Buffers, CallSet, WireBytes

LEMMA AllTypesNext ==
  TypeOK' <=> /\ Types' /\ pending' \in Seq(Buffers) /\ stack' \in Seq(CallSet)
              /\ wire' \in Seq(WireBytes)
BY DEF TypeOK, Types, Bools, Bounds, Buffers, CallSet, WireBytes

LEMMA CallType ==
  ASSUME NEW kind \in {"steal", "pend", "event", "accept"}, NEW msg \in Messages \cup {NoMessage},
         NEW at \in {"loop", "callback", "opened"}
  PROVE  /\ Call(kind, msg, at) \in CallSet /\ Call(kind, msg, at).kind = kind
         /\ Call(kind, msg, at).msg = msg /\ Call(kind, msg, at).at = at
         /\ \A call \in CallSet : LET moved == [call EXCEPT !.at = at]
                                IN  moved \in CallSet /\ moved.kind = call.kind /\ moved.msg = call.msg
BY DEF Call, CallSet

LEMMA BufferType ==
  ASSUME NEW msg \in Messages
  PROVE  /\ \A copy, first \in BOOLEAN : Buffer(msg, copy, first) \in Buffers
         /\ \A b \in Buffers : [b EXCEPT !.from = msg, !.copy = TRUE] \in Buffers
<1>1. Length[msg] \in Nat \ {0} BY MessagesAssumption
<1>2. \A copy, first \in BOOLEAN : Buffer(msg, copy, first) \in Buffers
  BY <1>1 DEF Buffer, Buffers
<1>3. \A b \in Buffers : [b EXCEPT !.from = msg, !.copy = TRUE] \in Buffers
  BY DEF Buffers
<1> QED BY <1>2, <1>3

LEMMA BufferSent ==
  ASSUME NEW b \in Buffers, NEW n \in Nat
  PROVE  /\ [b EXCEPT !.used = @ + n] \in Buffers /\ [b EXCEPT !.used = @ + n].avail = b.avail
         /\ b.avail > n => [b EXCEPT !.avail = @ - n] \in Buffers
BY DEF Buffers

LEMMA InitIInv == Init => IInv
<1> SUFFICES ASSUME Init PROVE IInv
  OBVIOUS
<1>1. stack \in Seq(CallSet) BY CallType DEF Init
<1>2. Types
  <2>1. Bools BY Zenon DEF Init, Bools
  <2>2. Bounds BY RoomAssumption DEF Init, Bounds
  <2> QED BY <2>1, <2>2 DEF Types
<1>3. pending \in Seq(Buffers) /\ wire \in Seq(WireBytes) BY DEF Init
<1>4. Calls BY DEF Init, Calls, Call
<1>5. Watched BY DEF Init, Watched
<1> QED BY <1>1, <1>2, <1>3, <1>4, <1>5, AllTypes DEF IInv

----------------------------------------------------------------------------
(* What the parts of the steps do to the stack and the pending buffers.    *)

LEMMA TopType ==
  ASSUME IInv, stack # << >>
  PROVE  /\ stack \in Seq(CallSet) /\ Len(stack) \in Nat \ {0} /\ Len(stack) \in DOMAIN stack
         /\ DOMAIN stack = 1 .. Len(stack)
         /\ Top = stack[Len(stack)] /\ Top \in CallSet
         /\ Top.kind = "accept" => Len(stack) = 1 /\ Top.at = "callback"
         /\ Top.kind # "accept" => ~Resting
<1>1. stack \in Seq(CallSet) /\ Len(stack) \in Nat \ {0} /\ DOMAIN stack = 1 .. Len(stack)
  BY DEF IInv, TypeOK, CallSet
<1>2. Len(stack) \in DOMAIN stack /\ Top = stack[Len(stack)] /\ Top \in CallSet
  BY <1>1 DEF Top, Last
<1> QED BY <1>1, <1>2 DEF IInv, Calls, Resting

LEMMA Pushed ==
  ASSUME IInv, NEW call \in CallSet, call.kind # "accept",
         call.kind = "steal" => call.msg \in Messages, stack' = Append(stack, call)
  PROVE  stack' \in Seq(CallSet) /\ Calls' /\ ~Resting'
<1>1. stack \in Seq(CallSet) /\ Len(stack) \in Nat /\ DOMAIN stack = 1 .. Len(stack)
  BY DEF IInv, TypeOK, CallSet
<1>2. /\ stack' \in Seq(CallSet) /\ DOMAIN stack' = 1 .. Len(stack) + 1
      /\ Len(stack') = Len(stack) + 1 /\ stack'[Len(stack) + 1] = call
      /\ \A i \in DOMAIN stack : stack'[i] = stack[i]
  BY <1>1
<1>3. \A i \in DOMAIN stack' : i \in DOMAIN stack \/ i = Len(stack) + 1
  BY <1>1, <1>2
<1>4. Calls' BY <1>2, <1>3 DEF IInv, Calls
<1>5. ~Resting' BY <1>1, <1>2 DEF Resting
<1> QED BY <1>2, <1>4, <1>5

LEMMA Popped ==
  ASSUME IInv, stack # << >>, stack' = Front(stack)
  PROVE  stack' \in Seq(CallSet) /\ Calls'
<1>1. stack \in Seq(CallSet) /\ Len(stack) \in Nat \ {0} /\ DOMAIN stack = 1 .. Len(stack)
  BY TopType
<1>2. /\ stack' \in Seq(CallSet) /\ DOMAIN stack' = 1 .. Len(stack) - 1
      /\ \A i \in DOMAIN stack' : i \in DOMAIN stack /\ stack'[i] = stack[i]
  BY <1>1 DEF Front
<1> QED BY <1>2 DEF IInv, Calls

LEMMA Moved ==
  ASSUME IInv, stack # << >>, Top.kind # "accept", NEW at \in {"loop", "callback", "opened"},
         Goes(at)
  PROVE  stack' \in Seq(CallSet) /\ Calls' /\ ~Resting'
<1>1. /\ stack \in Seq(CallSet) /\ Len(stack) \in Nat \ {0} /\ Top = stack[Len(stack)]
      /\ DOMAIN stack = 1 .. Len(stack) /\ Len(stack) \in DOMAIN stack /\ ~Resting
  BY TopType
<1>2. stack' = [stack EXCEPT ![Len(stack)] = [Top EXCEPT !.at = at]]
  BY <1>1 DEF Goes
<1>3. LET moved == [Top EXCEPT !.at = at]
      IN  moved \in CallSet /\ moved.kind = Top.kind /\ moved.msg = Top.msg
  <2>1. Top \in CallSet BY TopType
  <2> QED BY <2>1, CallType
<1>4. /\ stack' \in Seq(CallSet) /\ Len(stack') = Len(stack) /\ DOMAIN stack' = DOMAIN stack
      /\ \A i \in DOMAIN stack : i # Len(stack) => stack'[i] = stack[i]
      /\ stack'[Len(stack)] = [Top EXCEPT !.at = at]
  BY <1>1, <1>2, <1>3
<1>5. \A i \in DOMAIN stack : stack'[i].kind = stack[i].kind /\ stack'[i].msg = stack[i].msg
  BY <1>1, <1>3, <1>4
<1>6. Calls' BY <1>1, <1>4, <1>5 DEF IInv, Calls
<1>7. ~Resting' BY <1>1, <1>4, <1>5 DEF Resting
<1> QED BY <1>4, <1>6, <1>7

(* doTCPWriteExx's second look at FirstWritePending leaves a buffer where  *)
(* one was.                                                                *)
LEMMA RecopiedType ==
  ASSUME IInv, stack # << >>, NEW buffers \in Seq(Buffers), NEW unsent \in BOOLEAN
  PROVE  /\ Recopied(buffers, unsent) \in Seq(Buffers)
         /\ Len(Recopied(buffers, unsent)) = Len(buffers)
<1>1. CASE ~(Top.kind = "steal" /\ unsent /\ Top.msg \notin Long)
  BY <1>1 DEF Recopied
<1>2. CASE Top.kind = "steal" /\ unsent /\ Top.msg \notin Long
  <2>1. Top.msg \in Messages BY <1>2, TopType DEF IInv, Calls
  <2>2. \A i \in DOMAIN buffers :
          [buffers[i] EXCEPT !.from = Top.msg, !.copy = TRUE] \in Buffers
    <3> TAKE i \in DOMAIN buffers
    <3>1. buffers[i] \in Buffers OBVIOUS
    <3> QED BY <2>1, <3>1, BufferType
  <2>3. DOMAIN buffers = 1 .. Len(buffers) /\ Len(buffers) \in Nat OBVIOUS
  <2>4. Recopied(buffers, unsent) =
          [i \in 1 .. Len(buffers) |->
             IF buffers[i].first THEN [buffers[i] EXCEPT !.from = Top.msg, !.copy = TRUE]
             ELSE buffers[i]]
    BY <1>2, <2>3 DEF Recopied
  <2>5. \A i \in 1 .. Len(buffers) :
          (IF buffers[i].first THEN [buffers[i] EXCEPT !.from = Top.msg, !.copy = TRUE]
           ELSE buffers[i]) \in Buffers
    <3> TAKE i \in 1 .. Len(buffers)
    <3>1. i \in DOMAIN buffers /\ buffers[i] \in Buffers BY <2>3
    <3> QED BY <2>2, <3>1
  <2>6. Recopied(buffers, unsent) \in [1 .. Len(buffers) -> Buffers] BY <2>4, <2>5
  <2> QED BY <2>3, <2>6
<1> QED BY <1>1, <1>2

LEMMA Returned ==
  ASSUME IInv, At("loop"), NEW buffers \in Seq(Buffers), NEW unsent \in BOOLEAN,
         Return(buffers, unsent)
  PROVE  /\ pending' \in Seq(Buffers) /\ Len(pending') = Len(buffers)
         /\ stack' \in Seq(CallSet) /\ Calls'
<1>1. stack # << >> BY DEF At
<1> QED BY <1>1, RecopiedType, Popped DEF Return

LEMMA SentType ==
  ASSUME IInv, pending # << >>, NEW count \in Nat, Sent(count)
  PROVE  wire' \in Seq(WireBytes)
<1> DEFINE bytes == [i \in 1 .. count |-> [of |-> Data(Head(pending)), at |-> Head(pending).used + i]]
<1>1. Head(pending) \in Buffers
  <2>1. pending \in Seq(Buffers) BY AllTypes DEF IInv
  <2> QED BY <2>1
<1>2. Data(Head(pending)) \in Messages \cup {Garbage} /\ Head(pending).used \in Nat
  BY <1>1 DEF Data, Buffers
<1>3. \A i \in 1 .. count : [of |-> Data(Head(pending)), at |-> Head(pending).used + i] \in WireBytes
  BY <1>2 DEF WireBytes
<1>4. bytes \in Seq(WireBytes) BY <1>3
<1>5. wire \in Seq(WireBytes) BY DEF IInv, TypeOK, WireBytes
<1>6. wire' = wire \o bytes BY DEF Sent
<1> HIDE DEF bytes
<1> QED BY <1>4, <1>5, <1>6

----------------------------------------------------------------------------
(* Steps. *)

LEMMA WriteIInv ==
  ASSUME IInv, NEW msg \in Messages, Write(msg)
  PROVE  IInv'
<1>1. Types'
  <2>1. Bools /\ Bounds BY AllTypes DEF IInv, Types
  <2>2. Bools' BY <2>1, Zenon DEF Write, Bools, peer
  <2>3. Bounds' BY <2>1 DEF Write, Bounds, peer
  <2> QED BY <2>2, <2>3 DEF Types
<1>2. pending \in Seq(Buffers) /\ wire' \in Seq(WireBytes) BY AllTypes DEF IInv, Write
<1>3. \A copy, first \in BOOLEAN : Buffer(msg, copy, first) \in Buffers
  BY BufferType
<1>4. CASE PendWrite(msg)
  <2>1. pending' \in Seq(Buffers)
    <3>1. \E b \in Buffers : pending' = Append(pending, b) BY <1>3, <1>4, Zenon DEF PendWrite
    <3> QED BY <1>2, <3>1
  <2>2. Call("pend", msg, "loop") \in CallSet /\ Call("pend", msg, "loop").kind = "pend"
    BY CallType
  <2>3. stack' \in Seq(CallSet) /\ Calls' /\ ~Resting' BY <1>4, <2>2, Pushed DEF PendWrite
  <2> QED BY <1>1, <1>2, <2>1, <2>3, AllTypesNext DEF IInv, Watched
<1>5. CASE StealBuffer(msg)
  <2>1. pending' \in Seq(Buffers)
    <3>1. \E b \in Buffers : pending' = <<b>> BY <1>3, <1>5, Zenon DEF StealBuffer
    <3> QED BY <3>1
  <2>2. /\ Call("steal", msg, "loop") \in CallSet /\ Call("steal", msg, "loop").kind = "steal"
        /\ Call("steal", msg, "loop").msg = msg
    BY CallType
  <2>3. stack' \in Seq(CallSet) /\ Calls' /\ ~Resting' BY <1>5, <2>2, Pushed DEF StealBuffer
  <2> QED BY <1>1, <1>2, <2>1, <2>3, AllTypesNext DEF IInv, Watched
<1> QED BY <1>4, <1>5 DEF Write

LEMMA LoopReturnIInv ==
  ASSUME IInv, NothingToSend \/ NotConnected \/ WouldBlock \/ SendBroken \/ SendError
  PROVE  IInv'
<1>1. Types'
  <2>1. Bools /\ Bounds BY AllTypes DEF IInv, Types
  <2>2. Bools'
    BY <2>1, Zenon DEF NothingToSend, NotConnected, WouldBlock, SendBroken, SendError, Bools, peer
  <2>3. Bounds'
    <3>1. CASE SendError BY <2>1, <3>1, RoomAssumption DEF SendError, Bounds, stream
    <3>2. CASE NothingToSend \/ NotConnected \/ WouldBlock \/ SendBroken
      BY <2>1, <3>2 DEF NothingToSend, NotConnected, WouldBlock, SendBroken, Bounds, peer, stream
    <3> QED BY <3>1, <3>2
  <2> QED BY <2>2, <2>3 DEF Types
<1>2. pending \in Seq(Buffers) /\ wire' \in Seq(WireBytes)
  BY AllTypes DEF IInv, NothingToSend, NotConnected, WouldBlock, SendBroken, SendError, stream
<1>3. At("loop") /\ \E unsent \in BOOLEAN : Return(pending, unsent)
  BY DEF NothingToSend, NotConnected, WouldBlock, SendBroken, SendError, Sending
<1>4. /\ pending' \in Seq(Buffers) /\ Len(pending') = Len(pending)
      /\ stack' \in Seq(CallSet) /\ Calls'
  BY <1>2, <1>3, Returned
<1>5. Watched'
  <2>1. CASE NothingToSend
    <3>1. pending' = << >> BY <1>2, <1>4, <2>1 DEF NothingToSend
    <3> QED BY <3>1 DEF Watched
  <2>2. CASE NotConnected \/ WouldBlock \/ SendBroken \/ SendError
    BY <2>2 DEF NotConnected, WouldBlock, SendBroken, SendError, Watched
  <2> QED BY <2>1, <2>2
<1> QED BY <1>1, <1>2, <1>4, <1>5, AllTypesNext DEF IInv

LEMMA SendSomeIInv ==
  ASSUME IInv, SendSome
  PROVE  IInv'
<1> DEFINE buffers == [pending EXCEPT ![1].used = @ + room, ![1].avail = @ - room]
<1>1. pending \in Seq(Buffers) /\ pending # << >> /\ room \in Nat /\ pending[1].avail > room
  BY RoomAssumption, AllTypes DEF SendSome, Sending, IInv, Types, Bounds
<1>2. buffers \in Seq(Buffers)
  <2>1. pending[1] \in Buffers /\ 1 \in DOMAIN pending BY <1>1
  <2> DEFINE more == [pending EXCEPT ![1].used = @ + room]
  <2>2. [pending[1] EXCEPT !.used = @ + room] \in Buffers BY <1>1, <2>1, BufferSent
  <2>3. more \in Seq(Buffers) /\ 1 \in DOMAIN more /\ more[1] = [pending[1] EXCEPT !.used = @ + room]
    BY <1>1, <2>1, <2>2
  <2>4. [more[1] EXCEPT !.avail = @ - room] \in Buffers
    <3>1. more[1] \in Buffers /\ more[1].avail > room BY <1>1, <2>1, <2>2, <2>3, BufferSent
    <3> HIDE DEF more
    <3> QED BY <1>1, <3>1, BufferSent
  <2>5. buffers = [more EXCEPT ![1].avail = @ - room] OBVIOUS
  <2> HIDE DEF more, buffers
  <2> QED BY <2>3, <2>4, <2>5
<1>3. /\ pending' \in Seq(Buffers) /\ stack' \in Seq(CallSet) /\ Calls'
  BY <1>2, Returned DEF SendSome, Sending
<1>4. wire' \in Seq(WireBytes) BY <1>1, SentType DEF SendSome
<1>5. Types'
  <2>1. Bools /\ Bounds BY AllTypes DEF IInv, Types
  <2>2. Bools' BY <2>1, Zenon DEF SendSome, Bools
  <2>3. Bounds' BY <1>1, <2>1, RoomAssumption DEF SendSome, Sent, Bounds
  <2> QED BY <2>2, <2>3 DEF Types
<1>6. Watched' BY DEF SendSome, Watched
<1> QED BY <1>3, <1>4, <1>5, <1>6, AllTypesNext DEF IInv

LEMMA SendRestIInv ==
  ASSUME IInv, SendRest
  PROVE  IInv'
<1>1. /\ pending \in Seq(Buffers) /\ pending # << >> /\ room \in Nat
      /\ Head(pending).avail \in Nat /\ Head(pending).avail <= room
  <2>1. pending \in Seq(Buffers) /\ pending # << >> /\ room \in Nat
    BY RoomAssumption, AllTypes DEF SendRest, Sending, IInv, Types, Bounds
  <2>2. Head(pending) \in Buffers BY <2>1
  <2> QED BY <2>1, <2>2 DEF SendRest, Buffers
<1>2. pending' \in Seq(Buffers) BY <1>1 DEF SendRest
<1>3. wire' \in Seq(WireBytes) BY <1>1, SentType DEF SendRest
<1>4. Types'
  <2>1. Bools /\ Bounds BY AllTypes DEF IInv, Types
  <2>2. Bools' BY <2>1, Zenon DEF SendRest, Bools
  <2>3. Bounds' BY <1>1, <2>1, RoomAssumption DEF SendRest, Sent, Bounds
  <2> QED BY <2>2, <2>3 DEF Types
<1>5. stack # << >> /\ Top.kind # "accept" BY TopType DEF SendRest, Sending, At
<1>6. stack' \in Seq(CallSet) /\ Calls' /\ ~Resting'
  <2>1. CASE stack' = stack
    BY <1>5, <2>1, TopType DEF IInv, Calls, Resting
  <2>2. CASE Goes("callback") BY <1>5, <2>2, Moved
  <2> QED BY <2>1, <2>2 DEF SendRest
<1> QED BY <1>2, <1>3, <1>4, <1>6, AllTypesNext DEF IInv, Watched

LEMMA NotifiedIInv ==
  ASSUME IInv, Notified
  PROVE  IInv'
<1>1. pending' \in Seq(Buffers) /\ wire' \in Seq(WireBytes)
  BY AllTypes DEF IInv, Notified, stream
<1>2. Types'
  <2>1. Bools /\ Bounds BY AllTypes DEF IInv, Types
  <2>2. Bools' BY <2>1, Zenon DEF Notified, Bools, peer
  <2>3. Bounds' BY <2>1 DEF Notified, Bounds, peer, stream
  <2> QED BY <2>2, <2>3 DEF Types
<1>3. stack # << >> BY DEF Notified, At
<1>4. CASE Top.kind = "accept"
  <2>1. Resting BY <1>3, <1>4, TopType DEF Resting
  <2>2. stack' \in Seq(CallSet) /\ Calls' BY <1>3, <1>4, Popped DEF Notified
  <2>3. Watched' BY <1>4, <2>1 DEF Notified, IInv, Watched, peer
  <2> QED BY <1>1, <1>2, <2>2, <2>3, AllTypesNext DEF IInv
<1>5. CASE Top.kind # "accept"
  <2>1. stack' \in Seq(CallSet) /\ Calls' /\ ~Resting' BY <1>3, <1>5, Moved DEF Notified
  <2> QED BY <1>1, <1>2, <2>1, AllTypesNext DEF IInv, Watched
<1> QED BY <1>4, <1>5

LEMMA EventIInv ==
  ASSUME IInv, WriteEvent \/ PendingTimer \/ ConnectEvent \/ Opened
  PROVE  IInv'
<1>1. pending' \in Seq(Buffers) /\ wire' \in Seq(WireBytes)
  BY AllTypes DEF IInv, WriteEvent, PendingTimer, ConnectEvent, Opened, client, stream
<1>2. Types'
  <2>1. Bools /\ Bounds BY AllTypes DEF IInv, Types
  <2>2. Bools'
    BY <2>1, Zenon DEF WriteEvent, PendingTimer, ConnectEvent, Opened, Bools, client, peer
  <2>3. Bounds'
    BY <2>1 DEF WriteEvent, PendingTimer, ConnectEvent, Opened, Bounds, peer, stream
  <2> QED BY <2>2, <2>3 DEF Types
<1>3. CASE Opened
  <2>1. stack # << >> /\ Top.kind # "accept" BY <1>3, TopType DEF Opened, At
  <2> QED BY <1>1, <1>2, <1>3, <2>1, Moved, AllTypesNext DEF Opened, IInv, Watched
<1>4. ASSUME NEW at \in {"loop", "opened"}, stack' = <<Call("event", NoMessage, at)>> PROVE IInv'
  <2>1. Call("event", NoMessage, at) \in CallSet /\ Call("event", NoMessage, at).kind = "event"
    BY CallType
  <2>2. stack' \in Seq(CallSet) /\ Calls' /\ ~Resting'
    BY <1>4, <2>1 DEF Calls, Resting
  <2> QED BY <1>1, <1>2, <2>2, AllTypesNext DEF IInv, Watched
<1> QED BY <1>3, <1>4 DEF WriteEvent, PendingTimer, ConnectEvent

LEMMA RestIInv ==
  ASSUME IInv, RemoveClient \/ BuildSets \/ Select \/ PeerReads \/ PeerCloses \/ UNCHANGED vars
  PROVE  IInv'
<1>1. pending' \in Seq(Buffers) /\ wire' \in Seq(WireBytes) /\ stack' \in Seq(CallSet)
  <2>1. pending \in Seq(Buffers) /\ wire \in Seq(WireBytes) /\ stack \in Seq(CallSet)
    BY AllTypes DEF IInv
  <2>2. pending' = pending \/ pending' = << >>
    BY DEF RemoveClient, BuildSets, Select, PeerReads, PeerCloses, vars, client
  <2>3. wire' = wire /\ stack' = stack
    BY DEF RemoveClient, BuildSets, Select, PeerReads, PeerCloses, vars, client, stream
  <2>4. pending' \in Seq(Buffers)
    <3>1. CASE pending' = pending BY <2>1, <3>1
    <3>2. CASE pending' = << >> BY <3>2
    <3> QED BY <2>2, <3>1, <3>2
  <2> QED BY <2>1, <2>3, <2>4
<1>2. Types'
  <2>1. Bools /\ Bounds BY AllTypes DEF IInv, Types
  <2>2. Bools' BY <2>1, Zenon DEF RemoveClient, BuildSets, Select, PeerReads, PeerCloses, vars,
     Bools, client, peer
  <2>3. Bounds'
    BY <2>1, RoomAssumption DEF RemoveClient, BuildSets, Select, PeerReads, PeerCloses, vars,
       Bounds, peer, stream
  <2> QED BY <2>2, <2>3 DEF Types
<1>3. stack' = stack BY DEF RemoveClient, BuildSets, Select, PeerReads, PeerCloses, vars
<1>4. Calls' BY <1>3 DEF IInv, Calls
<1>5. Watched'
  BY <1>3 DEF RemoveClient, BuildSets, Select, PeerReads, PeerCloses, vars, IInv, Watched, Resting,
     client, peer
<1> QED BY <1>1, <1>2, <1>4, <1>5, AllTypesNext DEF IInv

LEMMA StepIInv == IInv /\ [Next]_vars => IInv'
<1> SUFFICES ASSUME IInv, [Next]_vars PROVE IInv'
  OBVIOUS
<1> QED BY WriteIInv, LoopReturnIInv, SendSomeIInv, SendRestIInv, NotifiedIInv, EventIInv, RestIInv
        DEF Next, Loop, Done

----------------------------------------------------------------------------
(* The variables keep their types: the bytes on the wire are bytes of      *)
(* messages or of a buffer used again, and a pending buffer is not empty.  *)
THEOREM TypeCorrect == Spec => []TypeOK
<1>1. IInv => TypeOK BY DEF IInv
<1> QED BY <1>1, InitIInv, StepIInv, PTL DEF Spec

(* Whatever writes came out of callbacks of other writes, when the last    *)
(* call has returned with data pending the network thread watches the      *)
(* socket (CF_WRITEPENDING), but after an error of send.                   *)
THEOREM WatchedWhenIdle == Spec => []PendingWatched
<1>1. IInv => PendingWatched BY DEF IInv, Watched, Resting, PendingWatched
<1> QED BY <1>1, InitIInv, StepIInv, PTL DEF Spec
----------------------------------------------------------------------------
(* Induction on the naturals for a set, from the least element of its      *)
(* complement; and what FlattenSeq makes of a sequence that grows at       *)
(* either end.                                                             *)

Less == {ss \in Nat \X Nat : ss[1] < ss[2]}

LEMMA LessWellFounded == IsWellFoundedOn(Less, Nat)
BY NatLessThanWellFounded DEF OpToRel, Less

LEMMA NatMinimum ==
  ASSUME NEW T \in SUBSET Nat, T # {}
  PROVE  \E x \in T : \A y \in T : x <= y
<1>1. PICK x \in T : \A y \in T : ~ (<<y, x>> \in Less)
  BY LessWellFounded, WFMin
<1>2. ASSUME NEW y \in T, y < x PROVE FALSE
  <2>1. <<y, x>> \in Nat \X Nat /\ <<y, x>>[1] = y /\ <<y, x>>[2] = x OBVIOUS
  <2>2. <<y, x>> \in Less BY <2>1, <1>2 DEF Less
  <2> QED BY <1>1, <2>2
<1> QED BY <1>2

LEMMA NatSetInduction ==
  ASSUME NEW S, 0 \in S, \A n \in Nat : n \in S => n + 1 \in S
  PROVE  Nat \subseteq S
<1> SUFFICES ASSUME Nat \ S # {} PROVE FALSE
  OBVIOUS
<1>1. PICK n \in Nat \ S : \A m \in Nat \ S : n <= m BY NatMinimum
<1>2. n # 0 OBVIOUS
<1>3. n - 1 \in Nat /\ n - 1 \in S BY <1>1, <1>2
<1> QED BY <1>3

(* f holds the concatenations of the first sequences of s. *)
Flattens(f, s) == f = [i \in 1 .. Len(s) |-> IF i = 1 THEN s[i] ELSE f[i - 1] \o s[i]]

LEMMA FlattensExists ==
  ASSUME NEW S, NEW s \in Seq(Seq(S))
  PROVE  \E f \in [1 .. Len(s) -> Seq(S)] : Flattens(f, s)
<1> DEFINE Step(f, i) == IF i = 1 THEN s[i] ELSE f[i - 1] \o s[i]
           Has(n) == \E f \in [1 .. n -> Seq(S)] : \A i \in 1 .. n : f[i] = Step(f, i)
           Good == {n \in Nat : n <= Len(s) => Has(n)}
<1>1. Has(0)
  <2>1. [i \in 1 .. 0 |-> << >>] \in [1 .. 0 -> Seq(S)] /\ \A i \in 1 .. 0 : FALSE OBVIOUS
  <2> QED BY <2>1
<1>2. ASSUME NEW n \in Nat, n + 1 <= Len(s), Has(n) PROVE Has(n + 1)
  <2>1. PICK f \in [1 .. n -> Seq(S)] : \A i \in 1 .. n : f[i] = Step(f, i)
    BY <1>2
  <2> DEFINE new == Step(f, n + 1)
             g == [i \in 1 .. n + 1 |-> IF i = n + 1 THEN new ELSE f[i]]
  <2>2. s[n + 1] \in Seq(S) BY <1>2
  <2>3. new \in Seq(S)
    <3>1. CASE n = 0 BY <2>2, <3>1
    <3>2. CASE n # 0
      <4>1. f[n] \in Seq(S) BY <3>2
      <4> QED BY <2>2, <3>2, <4>1
    <3> QED BY <3>1, <3>2
  <2>4. g \in [1 .. n + 1 -> Seq(S)]
    <3> HIDE DEF new
    <3> QED BY <2>3
  <2>5. ASSUME NEW i \in 1 .. n + 1 PROVE g[i] = Step(g, i)
    <3>1. Step(g, i) = Step(f, i)
      <4>1. CASE i = 1 BY <4>1
      <4>2. CASE i # 1
        <5>1. i - 1 \in 1 .. n + 1 /\ i - 1 # n + 1 BY <4>2
        <5>2. g[i - 1] = f[i - 1] BY <5>1
        <5> HIDE DEF g
        <5> QED BY <4>2, <5>2
      <4> QED BY <4>1, <4>2
    <3>2. g[i] = Step(f, i)
      <4>1. CASE i = n + 1 BY <4>1
      <4>2. CASE i # n + 1
        <5>1. i \in 1 .. n BY <4>2
        <5>2. g[i] = f[i] BY <4>2
        <5> HIDE DEF g, Step
        <5> QED BY <2>1, <5>1, <5>2
      <4> QED BY <4>1, <4>2
    <3> HIDE DEF g, Step
    <3> QED BY <3>1, <3>2
  <2> HIDE DEF g, Step
  <2> QED BY <2>4, <2>5
<1> HIDE DEF Has
<1>3. 0 \in Good BY <1>1
<1>4. ASSUME NEW n \in Nat, n \in Good PROVE n + 1 \in Good
  <2>1. n + 1 <= Len(s) => Has(n + 1) BY <1>2, <1>4
  <2> QED BY <2>1
<1>5. Nat \subseteq Good
  <2> HIDE DEF Good
  <2> QED BY <1>3, <1>4, NatSetInduction
<1>6. Len(s) \in Nat /\ Has(Len(s)) BY <1>5
<1>7. PICK f \in [1 .. Len(s) -> Seq(S)] : \A i \in 1 .. Len(s) : f[i] = Step(f, i)
  BY <1>6 DEF Has
<1>8. f = [i \in 1 .. Len(s) |-> Step(f, i)]
  <2> HIDE DEF Step
  <2> QED BY <1>7
<1> QED BY <1>8 DEF Flattens

(* Where two sequences agree, so do the concatenations. *)
LEMMA FlattensAgree ==
  ASSUME NEW s, NEW t, NEW f, NEW g, Flattens(f, s), Flattens(g, t), NEW n \in Nat,
         Len(s) \in Nat, Len(t) \in Nat, n <= Len(s), n <= Len(t),
         \A i \in 1 .. n : s[i] = t[i]
  PROVE  \A i \in 1 .. n : f[i] = g[i]
<1> DEFINE Good == {i \in Nat : i \in 1 .. n => f[i] = g[i]}
<1>1. 0 \in Good OBVIOUS
<1>2. ASSUME NEW i \in Nat, i \in Good PROVE i + 1 \in Good
  <2> SUFFICES ASSUME i + 1 \in 1 .. n PROVE f[i + 1] = g[i + 1]
    OBVIOUS
  <2>1. /\ f[i + 1] = IF i = 0 THEN s[i + 1] ELSE f[i] \o s[i + 1]
        /\ g[i + 1] = IF i = 0 THEN t[i + 1] ELSE g[i] \o t[i + 1]
    <3>1. i + 1 \in 1 .. Len(s) /\ i + 1 \in 1 .. Len(t) /\ (i + 1) - 1 = i /\ (i + 1 = 1 <=> i = 0)
      OBVIOUS
    <3>2. f[i + 1] = IF i + 1 = 1 THEN s[i + 1] ELSE f[(i + 1) - 1] \o s[i + 1]
      BY <3>1, Zenon DEF Flattens
    <3>3. g[i + 1] = IF i + 1 = 1 THEN t[i + 1] ELSE g[(i + 1) - 1] \o t[i + 1]
      BY <3>1, Zenon DEF Flattens
    <3> QED BY <3>1, <3>2, <3>3
  <2>2. i # 0 => f[i] = g[i] BY <1>2
  <2> QED BY <2>1, <2>2
<1>3. Nat \subseteq Good
  <2> HIDE DEF Good
  <2> QED BY <1>1, <1>2, NatSetInduction
<1> QED BY <1>3

LEMMA FlattensPrefix ==
  ASSUME NEW s, NEW t, NEW f, NEW g, Flattens(f, s), Flattens(g, t),
         Len(s) \in Nat, Len(t) \in Nat, Len(s) <= Len(t), \A i \in 1 .. Len(s) : s[i] = t[i]
  PROVE  \A i \in 1 .. Len(s) : f[i] = g[i]
BY FlattensAgree

LEMMA Concatenated ==
  ASSUME NEW S, NEW r \in Seq(S), NEW s \in Seq(S), NEW t \in Seq(S)
  PROVE  (r \o s) \o t = r \o (s \o t)
OBVIOUS

(* The same, as a fact the provers need not look into. *)
Joins(r, s, t) == (r \o s) \o t = r \o (s \o t)
LEMMA JoinsAlways ==
  ASSUME NEW S, NEW r \in Seq(S), NEW s \in Seq(S), NEW t \in Seq(S)
  PROVE  Joins(r, s, t)
BY Concatenated DEF Joins

LEMMA FlattenSeqIs ==
  ASSUME NEW S, NEW s \in Seq(Seq(S)), s # << >>
  PROVE  \E f \in [1 .. Len(s) -> Seq(S)] : Flattens(f, s) /\ FlattenSeq(s) = f[Len(s)]
<1>1. PICK f \in [1 .. Len(s) -> Seq(S)] : Flattens(f, s) BY FlattensExists
<1> DEFINE c == CHOOSE g : Flattens(g, s)
<1>2. Flattens(c, s) BY <1>1
<1>3. FlattenSeq(s) = c[Len(s)] BY DEF FlattenSeq, Flattens
<1>4. Len(s) \in Nat \ {0} OBVIOUS
<1> HIDE DEF c
<1>5. c[Len(s)] = f[Len(s)]
  <2>1. \A i \in 1 .. Len(s) : c[i] = f[i] BY <1>1, <1>2, <1>4, FlattensAgree
  <2> QED BY <1>4, <2>1
<1> QED BY <1>1, <1>3, <1>5

LEMMA FlattenType ==
  ASSUME NEW S, NEW s \in Seq(Seq(S))
  PROVE  FlattenSeq(s) \in Seq(S)
<1>1. CASE s = << >> BY <1>1 DEF FlattenSeq
<1>2. CASE s # << >>
  <2>1. Len(s) \in 1 .. Len(s) BY <1>2
  <2>2. PICK f \in [1 .. Len(s) -> Seq(S)] : FlattenSeq(s) = f[Len(s)] BY <1>2, FlattenSeqIs
  <2> QED BY <2>1, <2>2
<1> QED BY <1>1, <1>2

LEMMA FlattenEmpty == FlattenSeq(<< >>) = << >>
BY DEF FlattenSeq

LEMMA FlattenAppend ==
  ASSUME NEW S, NEW s \in Seq(Seq(S)), NEW x \in Seq(S)
  PROVE  FlattenSeq(Append(s, x)) = FlattenSeq(s) \o x
<1> DEFINE t == Append(s, x)
<1>1. /\ t \in Seq(Seq(S)) /\ t # << >> /\ Len(t) = Len(s) + 1 /\ Len(s) \in Nat
      /\ t[Len(s) + 1] = x /\ \A i \in 1 .. Len(s) : t[i] = s[i]
  <2>1. t \in Seq(Seq(S)) /\ Len(t) = Len(s) + 1 /\ Len(s) \in Nat OBVIOUS
  <2>2. t[Len(s) + 1] = x OBVIOUS
  <2>3. \A i \in 1 .. Len(s) : t[i] = s[i] OBVIOUS
  <2> HIDE DEF t
  <2>4. t # << >> BY <2>1
  <2> QED BY <2>1, <2>2, <2>3, <2>4
<1> HIDE DEF t
<1>2. PICK g : Flattens(g, t) /\ FlattenSeq(t) = g[Len(s) + 1]
  BY <1>1, FlattenSeqIs
<1>3. g[Len(s) + 1] = IF Len(s) = 0 THEN x ELSE g[Len(s)] \o x
  <2>1. /\ Len(s) + 1 \in 1 .. Len(t) /\ (Len(s) + 1) - 1 = Len(s)
        /\ (Len(s) + 1 = 1 <=> Len(s) = 0)
    BY <1>1
  <2>2. g[Len(s) + 1] =
          IF Len(s) + 1 = 1 THEN t[Len(s) + 1] ELSE g[(Len(s) + 1) - 1] \o t[Len(s) + 1]
    BY <1>2, <2>1, Zenon DEF Flattens
  <2> QED BY <1>1, <2>1, <2>2
<1>4. CASE s = << >>
  <2>1. FlattenSeq(t) = x /\ FlattenSeq(s) = << >> BY <1>2, <1>3, <1>4, FlattenEmpty
  <2> QED BY <2>1 DEF t
<1>5. CASE s # << >>
  <2>1. PICK f : Flattens(f, s) /\ FlattenSeq(s) = f[Len(s)]
    BY <1>5, FlattenSeqIs
  <2>2. Len(s) \in Nat \ {0} /\ Len(s) \in 1 .. Len(s) BY <1>5
  <2>3. \A i \in 1 .. Len(s) : f[i] = g[i]
    <3>1. /\ Len(s) \in Nat /\ Len(t) \in Nat /\ Len(s) <= Len(t)
          /\ \A i \in 1 .. Len(s) : s[i] = t[i]
      BY <1>1
    <3>2. Flattens(f, s) /\ Flattens(g, t) BY <1>2, <2>1
    <3> QED BY <3>1, <3>2, FlattensPrefix, SMTT(30)
  <2> QED BY <1>2, <1>3, <2>1, <2>2, <2>3 DEF t
<1> QED BY <1>4, <1>5

(* <<x>> \o s, with its elements. *)
Before(t, x, s) ==
  /\ Len(t) = Len(s) + 1 /\ t[1] = x
  /\ \A i \in 1 .. Len(s) : t[i + 1] = s[i]

LEMMA FlattenBefore ==
  ASSUME NEW S, NEW s \in Seq(Seq(S)), NEW t \in Seq(Seq(S)), NEW x \in Seq(S), Before(t, x, s)
  PROVE  FlattenSeq(t) = x \o FlattenSeq(s)
<1>1. Len(s) \in Nat /\ t # << >> /\ Len(t) = Len(s) + 1 BY DEF Before
<1>2. PICK g : Flattens(g, t) /\ FlattenSeq(t) = g[Len(s) + 1]
  BY <1>1, FlattenSeqIs
<1>3. g[1] = x
  <2>1. 1 \in 1 .. Len(t) BY <1>1
  <2>2. g[1] = t[1] BY <1>2, <2>1, Zenon DEF Flattens
  <2> QED BY <2>2 DEF Before
<1>4. ASSUME NEW i \in 1 .. Len(s) PROVE g[i + 1] = g[i] \o s[i]
  <2>1. i + 1 \in 1 .. Len(t) /\ (i + 1) - 1 = i /\ i + 1 # 1 BY <1>1
  <2>2. g[i + 1] = IF i + 1 = 1 THEN t[i + 1] ELSE g[(i + 1) - 1] \o t[i + 1]
    BY <1>2, <2>1, Zenon DEF Flattens
  <2>3. t[i + 1] = s[i] BY DEF Before
  <2> QED BY <2>1, <2>2, <2>3
<1>5. CASE s = << >>
  <2>1. FlattenSeq(t) = x /\ FlattenSeq(s) = << >> BY <1>2, <1>3, <1>5, FlattenEmpty
  <2> QED BY <2>1
<1>6. CASE s # << >>
  <2>1. PICK f \in [1 .. Len(s) -> Seq(S)] : Flattens(f, s) /\ FlattenSeq(s) = f[Len(s)]
    BY <1>6, FlattenSeqIs
  <2>2. Len(s) \in Nat \ {0} /\ Len(s) \in 1 .. Len(s) BY <1>6
  <2> DEFINE Good == {i \in Nat : i \in 1 .. Len(s) => g[i + 1] = x \o f[i]}
  <2>3. 0 \in Good OBVIOUS
  <2>4. ASSUME NEW i \in Nat, i \in Good PROVE i + 1 \in Good
    <3> SUFFICES ASSUME i + 1 \in 1 .. Len(s) PROVE g[(i + 1) + 1] = x \o f[i + 1]
      OBVIOUS
    <3>1. f[i + 1] = IF i = 0 THEN s[i + 1] ELSE f[i] \o s[i + 1]
      <4>1. (i + 1) - 1 = i /\ (i + 1 = 1 <=> i = 0) OBVIOUS
      <4>2. f[i + 1] = IF i + 1 = 1 THEN s[i + 1] ELSE f[(i + 1) - 1] \o s[i + 1]
        BY <2>1, Zenon DEF Flattens
      <4> QED BY <4>1, <4>2
    <3>2. g[(i + 1) + 1] = g[i + 1] \o s[i + 1] BY <1>4
    <3>3. CASE i = 0
      <4>1. i + 1 = 1 BY <3>3
      <4> QED BY <1>3, <3>1, <3>2, <3>3, <4>1
    <3>4. CASE i # 0
      <4>1. i \in 1 .. Len(s) /\ g[i + 1] = x \o f[i] BY <2>4, <3>4
      <4>2. f[i] \in Seq(S) BY <4>1
      <4>3. s[i + 1] \in Seq(S)
        <5>1. i + 1 \in DOMAIN s OBVIOUS
        <5> QED BY <5>1
      <4>4. (x \o f[i]) \o s[i + 1] = x \o (f[i] \o s[i + 1])
        <5> DEFINE a == f[i]
                   b == s[i + 1]
        <5>1. a \in Seq(S) /\ b \in Seq(S) BY <4>2, <4>3
        <5> HIDE DEF a, b
        <5>2. Joins(x, a, b) BY <5>1, JoinsAlways
        <5> QED BY <5>2, Zenon DEF Joins, a, b
      <4> QED BY <3>1, <3>2, <3>4, <4>1, <4>4
    <3> QED BY <3>3, <3>4
  <2>5. Nat \subseteq Good
    <3> HIDE DEF Good
    <3> QED BY <2>3, <2>4, NatSetInduction
  <2>6. g[Len(s) + 1] = x \o f[Len(s)] BY <2>2, <2>5
  <2> QED BY <1>2, <2>1, <2>6
<1> QED BY <1>5, <1>6

----------------------------------------------------------------------------
(* The stream: what is left to send of the pending buffers.                *)

MsgBytes == [of : Messages, at : Nat]
Left(b) == Out!Bytes(b.msg, b.used, b.avail)
Lefts(buffers) == [i \in DOMAIN buffers |-> Left(buffers[i])]

LEMMA StreamIs ==
  ASSUME NEW msgs
  PROVE  Out!Stream(msgs) = FlattenSeq([i \in DOMAIN msgs |-> Out!Bytes(msgs[i], 0, Length[msgs[i]])])
BY DEF Out!Stream, Out!FlattenSeq, FlattenSeq

LEMMA BytesType ==
  ASSUME NEW msg \in Messages, NEW from \in Nat, NEW count \in Nat
  PROVE  /\ Out!Bytes(msg, from, count) \in Seq(MsgBytes)
         /\ Len(Out!Bytes(msg, from, count)) = count
<1>1. \A i \in 1 .. count : [of |-> msg, at |-> from + i] \in MsgBytes BY DEF MsgBytes
<1>2. [i \in 1 .. count |-> [of |-> msg, at |-> from + i]] \in [1 .. count -> MsgBytes] BY <1>1
<1> QED BY <1>2 DEF Out!Bytes

(* The first bytes of a buffer and the rest are the buffer. *)
LEMMA BytesSplit ==
  ASSUME NEW msg \in Messages, NEW from \in Nat, NEW n \in Nat, NEW count \in Nat, n <= count
  PROVE  Out!Bytes(msg, from, count) = Out!Bytes(msg, from, n) \o Out!Bytes(msg, from + n, count - n)
<1> DEFINE all == Out!Bytes(msg, from, count)
           some == Out!Bytes(msg, from, n)
           rest == Out!Bytes(msg, from + n, count - n)
<1>1. /\ all \in Seq(MsgBytes) /\ Len(all) = count
      /\ some \in Seq(MsgBytes) /\ Len(some) = n
      /\ rest \in Seq(MsgBytes) /\ Len(rest) = count - n
  <2>1. from + n \in Nat /\ count - n \in Nat OBVIOUS
  <2> QED BY <2>1, BytesType
<1>2. \A i \in 1 .. count : all[i] = [of |-> msg, at |-> from + i] BY DEF Out!Bytes
<1>3. \A i \in 1 .. n : some[i] = [of |-> msg, at |-> from + i] BY DEF Out!Bytes
<1>4. \A i \in 1 .. count - n : rest[i] = [of |-> msg, at |-> (from + n) + i] BY DEF Out!Bytes
<1> HIDE DEF all, some, rest
<1>5. some \o rest \in Seq(MsgBytes) /\ Len(some \o rest) = count BY <1>1
<1>6. ASSUME NEW i \in 1 .. count PROVE (some \o rest)[i] = all[i]
  <2>1. CASE i <= n
    <3>1. i \in 1 .. n /\ (some \o rest)[i] = some[i] BY <1>1, <2>1
    <3> QED BY <1>2, <1>3, <3>1
  <2>2. CASE i > n
    <3>1. i - n \in 1 .. count - n /\ (from + n) + (i - n) = from + i BY <2>2
    <3>2. (some \o rest)[i] = rest[i - n] BY <1>1, <2>2
    <3> QED BY <1>2, <1>4, <3>1, <3>2
  <2>3. i <= n \/ i > n OBVIOUS
  <2> QED BY <2>1, <2>2, <2>3, Zenon
<1>7. all = some \o rest BY <1>1, <1>5, <1>6
<1> QED BY <1>7 DEF all, some, rest

LEMMA LeftType ==
  ASSUME NEW b \in Buffers
  PROVE  Left(b) \in Seq(MsgBytes)
<1>1. b.msg \in Messages /\ b.used \in Nat /\ b.avail \in Nat BY DEF Buffers
<1> QED BY <1>1, BytesType DEF Left

LEMMA LeftsType ==
  ASSUME NEW buffers \in Seq(Buffers)
  PROVE  /\ Lefts(buffers) \in Seq(Seq(MsgBytes)) /\ Len(Lefts(buffers)) = Len(buffers)
         /\ \A i \in 1 .. Len(buffers) : Lefts(buffers)[i] = Left(buffers[i])
<1>1. \A i \in 1 .. Len(buffers) : Left(buffers[i]) \in Seq(MsgBytes)
  <2> TAKE i \in 1 .. Len(buffers)
  <2>1. buffers[i] \in Buffers OBVIOUS
  <2> QED BY <2>1, LeftType
<1>2. DOMAIN buffers = 1 .. Len(buffers) /\ Len(buffers) \in Nat OBVIOUS
<1>3. Lefts(buffers) = [i \in 1 .. Len(buffers) |-> Left(buffers[i])] BY <1>2, Zenon DEF Lefts
<1>4. Lefts(buffers) \in [1 .. Len(buffers) -> Seq(MsgBytes)] BY <1>1, <1>3
<1> QED BY <1>2, <1>3, <1>4

(* Buffers that are left with other data pointers are the same data. *)
LEMMA RecopiedLefts ==
  ASSUME NEW buffers \in Seq(Buffers), NEW unsent \in BOOLEAN
  PROVE  Lefts(Recopied(buffers, unsent)) = Lefts(buffers)
<1>1. CASE ~(Top.kind = "steal" /\ unsent /\ Top.msg \notin Long)
  BY <1>1 DEF Recopied
<1>2. CASE Top.kind = "steal" /\ unsent /\ Top.msg \notin Long
  <2> DEFINE copied == Recopied(buffers, unsent)
  <2>1. copied = [i \in DOMAIN buffers |->
                    IF buffers[i].first THEN [buffers[i] EXCEPT !.from = Top.msg, !.copy = TRUE]
                    ELSE buffers[i]]
    BY <1>2 DEF Recopied
  <2> HIDE DEF copied
  <2>2. DOMAIN copied = DOMAIN buffers BY <2>1
  <2>3. ASSUME NEW i \in DOMAIN buffers PROVE Left(copied[i]) = Left(buffers[i])
    <3>1. buffers[i] \in Buffers OBVIOUS
    <3>2. /\ copied[i].msg = buffers[i].msg /\ copied[i].used = buffers[i].used
          /\ copied[i].avail = buffers[i].avail
      BY <2>1, <3>1 DEF Buffers
    <3> QED BY <3>2 DEF Left
  <2>4. Lefts(copied) = Lefts(buffers) BY <2>2, <2>3, Zenon DEF Lefts
  <2> QED BY <2>4 DEF copied
<1> QED BY <1>1, <1>2

LEMMA LeftsAppend ==
  ASSUME NEW buffers \in Seq(Buffers), NEW b \in Buffers
  PROVE  FlattenSeq(Lefts(Append(buffers, b))) = FlattenSeq(Lefts(buffers)) \o Left(b)
<1> DEFINE more == Append(buffers, b)
           lefts == Append(Lefts(buffers), Left(b))
<1>1. more \in Seq(Buffers) /\ Len(more) = Len(buffers) + 1 /\ Len(buffers) \in Nat OBVIOUS
<1>2. Lefts(buffers) \in Seq(Seq(MsgBytes)) /\ Len(Lefts(buffers)) = Len(buffers)
  BY LeftsType
<1>3. Left(b) \in Seq(MsgBytes) BY LeftType
<1>4. /\ Lefts(more) \in Seq(Seq(MsgBytes)) /\ Len(Lefts(more)) = Len(buffers) + 1
      /\ \A i \in 1 .. Len(buffers) + 1 : Lefts(more)[i] = Left(more[i])
  <2> HIDE DEF more
  <2> QED BY <1>1, LeftsType
<1>5. /\ lefts \in Seq(Seq(MsgBytes)) /\ Len(lefts) = Len(buffers) + 1
      /\ \A i \in 1 .. Len(buffers) : lefts[i] = Left(buffers[i])
      /\ lefts[Len(buffers) + 1] = Left(b)
  <2>1. \A i \in 1 .. Len(buffers) : Lefts(buffers)[i] = Left(buffers[i]) BY LeftsType
  <2> QED BY <1>2, <1>3, <2>1
<1>6. more[Len(buffers) + 1] = b /\ \A i \in 1 .. Len(buffers) : more[i] = buffers[i]
  OBVIOUS
<1>7. ASSUME NEW i \in 1 .. Len(buffers) + 1 PROVE Lefts(more)[i] = lefts[i]
  <2> HIDE DEF more, lefts
  <2>1. i \in 1 .. Len(buffers) \/ i = Len(buffers) + 1 BY <1>1
  <2> QED BY <1>4, <1>5, <1>6, <2>1
<1>8. Lefts(more) = lefts
  <2> HIDE DEF more, lefts
  <2> QED BY <1>4, <1>5, <1>7
<1>9. FlattenSeq(lefts) = FlattenSeq(Lefts(buffers)) \o Left(b)
  BY <1>2, <1>3, FlattenAppend
<1> QED BY <1>8, <1>9

LEMMA LeftsHead ==
  ASSUME NEW buffers \in Seq(Buffers), buffers # << >>
  PROVE  FlattenSeq(Lefts(buffers)) = Left(Head(buffers)) \o FlattenSeq(Lefts(Tail(buffers)))
<1> DEFINE rest == Tail(buffers)
<1>1. /\ rest \in Seq(Buffers) /\ Len(buffers) = Len(rest) + 1 /\ Len(rest) \in Nat
      /\ Head(buffers) = buffers[1] /\ Head(buffers) \in Buffers
      /\ \A i \in 1 .. Len(rest) : rest[i] = buffers[i + 1]
  OBVIOUS
<1> HIDE DEF rest
<1>2. /\ Lefts(buffers) \in Seq(Seq(MsgBytes)) /\ Len(Lefts(buffers)) = Len(buffers)
      /\ \A i \in 1 .. Len(buffers) : Lefts(buffers)[i] = Left(buffers[i])
  BY LeftsType
<1>3. /\ Lefts(rest) \in Seq(Seq(MsgBytes)) /\ Len(Lefts(rest)) = Len(rest)
      /\ \A i \in 1 .. Len(rest) : Lefts(rest)[i] = Left(rest[i])
  BY <1>1, LeftsType
<1>4. Left(Head(buffers)) \in Seq(MsgBytes) BY <1>1, LeftType
<1>5. Before(Lefts(buffers), Left(Head(buffers)), Lefts(rest))
  <2>1. Lefts(buffers)[1] = Left(Head(buffers))
    <3>1. 1 \in 1 .. Len(buffers) BY <1>1
    <3> QED BY <1>1, <1>2, <3>1
  <2>2. ASSUME NEW i \in 1 .. Len(rest) PROVE Lefts(buffers)[i + 1] = Lefts(rest)[i]
    <3>1. i + 1 \in 1 .. Len(buffers) BY <1>1
    <3>2. Lefts(buffers)[i + 1] = Left(buffers[i + 1]) BY <1>2, <3>1
    <3>3. Lefts(rest)[i] = Left(rest[i]) BY <1>3
    <3>4. rest[i] = buffers[i + 1] BY <1>1
    <3> QED BY <3>2, <3>3, <3>4, Zenon
  <2>3. Len(Lefts(buffers)) = Len(Lefts(rest)) + 1 BY <1>1, <1>2, <1>3
  <2> QED BY <1>3, <2>1, <2>2, <2>3, Zenon DEF Before
<1>6. FlattenSeq(Lefts(buffers)) = Left(Head(buffers)) \o FlattenSeq(Lefts(rest))
  BY <1>2, <1>3, <1>4, <1>5, FlattenBefore
<1> QED BY <1>6 DEF rest

LEMMA FlatType ==
  ASSUME NEW buffers \in Seq(Buffers)
  PROVE  FlattenSeq(Lefts(buffers)) \in Seq(MsgBytes)
BY LeftsType, FlattenType

(* The stream of one more message. *)
LEMMA StreamAppend ==
  ASSUME NEW msgs \in Seq(Messages), NEW msg \in Messages
  PROVE  /\ Out!Stream(msgs) \in Seq(MsgBytes)
         /\ Out!Stream(Append(msgs, msg)) = Out!Stream(msgs) \o Out!Bytes(msg, 0, Length[msg])
<1> DEFINE Whole(m) == Out!Bytes(m, 0, Length[m])
           Wholes(ms) == [i \in DOMAIN ms |-> Whole(ms[i])]
<1>1. \A m \in Messages : Whole(m) \in Seq(MsgBytes)
  <2> TAKE m \in Messages
  <2>1. Length[m] \in Nat BY MessagesAssumption
  <2> QED BY <2>1, BytesType
<1>2. \A ms : Out!Stream(ms) = FlattenSeq(Wholes(ms)) BY StreamIs, Zenon
<1> HIDE DEF Whole
<1>3. \A ms \in Seq(Messages) : /\ Wholes(ms) \in Seq(Seq(MsgBytes)) /\ Len(Wholes(ms)) = Len(ms)
                                /\ \A i \in 1 .. Len(ms) : Wholes(ms)[i] = Whole(ms[i])
  <2> TAKE ms \in Seq(Messages)
  <2>1. DOMAIN ms = 1 .. Len(ms) /\ Len(ms) \in Nat OBVIOUS
  <2>2. \A i \in 1 .. Len(ms) : Whole(ms[i]) \in Seq(MsgBytes)
    <3> TAKE i \in 1 .. Len(ms)
    <3>1. ms[i] \in Messages OBVIOUS
    <3> QED BY <1>1, <3>1
  <2>3. Wholes(ms) = [i \in 1 .. Len(ms) |-> Whole(ms[i])] BY <2>1, Zenon
  <2>4. Wholes(ms) \in [1 .. Len(ms) -> Seq(MsgBytes)] BY <2>2, <2>3
  <2> QED BY <2>1, <2>3, <2>4
<1> DEFINE more == Append(msgs, msg)
           wholes == Append(Wholes(msgs), Whole(msg))
<1>4. /\ more \in Seq(Messages) /\ Len(more) = Len(msgs) + 1 /\ Len(msgs) \in Nat
      /\ more[Len(msgs) + 1] = msg /\ \A i \in 1 .. Len(msgs) : more[i] = msgs[i]
  OBVIOUS
<1> HIDE DEF Wholes, more
<1>5. /\ Wholes(msgs) \in Seq(Seq(MsgBytes)) /\ Len(Wholes(msgs)) = Len(msgs)
      /\ \A i \in 1 .. Len(msgs) : Wholes(msgs)[i] = Whole(msgs[i])
  BY <1>3
<1>6. /\ Wholes(more) \in Seq(Seq(MsgBytes)) /\ Len(Wholes(more)) = Len(msgs) + 1
      /\ \A i \in 1 .. Len(msgs) + 1 : Wholes(more)[i] = Whole(more[i])
  BY <1>3, <1>4
<1>7. Whole(msg) \in Seq(MsgBytes) BY <1>1
<1>8. /\ wholes \in Seq(Seq(MsgBytes)) /\ Len(wholes) = Len(msgs) + 1
      /\ \A i \in 1 .. Len(msgs) : wholes[i] = Whole(msgs[i])
      /\ wholes[Len(msgs) + 1] = Whole(msg)
  BY <1>5, <1>7
<1>9. ASSUME NEW i \in 1 .. Len(msgs) + 1 PROVE Wholes(more)[i] = wholes[i]
  <2> HIDE DEF wholes
  <2>1. i \in 1 .. Len(msgs) \/ i = Len(msgs) + 1 BY <1>4
  <2> QED BY <1>4, <1>6, <1>8, <2>1
<1>10. Wholes(more) = wholes
  <2> HIDE DEF wholes
  <2> QED BY <1>6, <1>8, <1>9
<1>11. FlattenSeq(wholes) = FlattenSeq(Wholes(msgs)) \o Whole(msg)
  BY <1>5, <1>7, FlattenAppend
<1>12. FlattenSeq(Wholes(msgs)) \in Seq(MsgBytes) BY <1>5, FlattenType
<1> QED BY <1>2, <1>10, <1>11, <1>12 DEF more, Whole

LEMMA MsgWire == Seq(MsgBytes) \subseteq Seq(WireBytes)
<1>1. MsgBytes \subseteq WireBytes BY DEF MsgBytes, WireBytes
<1> QED BY <1>1

Regroups(w, s, t, u) == w \o ((s \o t) \o u) = (w \o s) \o (t \o u)
LEMMA Regrouped ==
  ASSUME NEW S, NEW w \in Seq(S), NEW s \in Seq(S), NEW t \in Seq(S), NEW u \in Seq(S)
  PROVE  Regroups(w, s, t, u)
<1>1. (s \o t) \o u = s \o (t \o u) BY Concatenated
<1>2. t \o u \in Seq(S) BY ConcatProperties
<1> DEFINE v == t \o u
<1>3. w \o (s \o v) = (w \o s) \o v
  <2> HIDE DEF v
  <2>1. v \in Seq(S) BY <1>2 DEF v
  <2>2. Joins(w, s, v) BY <2>1, JoinsAlways
  <2> QED BY <2>2, Zenon DEF Joins
<1> QED BY <1>1, <1>3, Zenon DEF Regroups

LEMMA LeftSplit ==
  ASSUME NEW b \in Buffers, NEW n \in Nat, n <= b.avail
  PROVE  Left(b) = Out!Bytes(b.msg, b.used, n) \o Out!Bytes(b.msg, b.used + n, b.avail - n)
<1>1. PICK msg \in Messages, used \in Nat, avail \in Nat :
        msg = b.msg /\ used = b.used /\ avail = b.avail
  BY DEF Buffers
<1>2. Out!Bytes(msg, used, avail) = Out!Bytes(msg, used, n) \o Out!Bytes(msg, used + n, avail - n)
  <2>1. n <= avail BY <1>1
  <2> QED BY <2>1, BytesSplit
<1> QED BY <1>1, <1>2 DEF Left

----------------------------------------------------------------------------
(* While the client is active the wire and what is pending are all that    *)
(* was accepted; afterwards nothing is sent: RemoveClient has released the *)
(* pending buffers, or each further send of a call under way fails as the  *)
(* one did that ended the connection.                                      *)

Conserved == active => wire \o FlattenSeq(Lefts(pending)) = Out!Stream(accepted)
Ended == ~active => gone \/ pending = << >>
SInv == IInv /\ Conserved /\ Ended

LEMMA InitSInv == Init => SInv
<1> SUFFICES ASSUME Init PROVE Conserved /\ Ended
  BY InitIInv DEF SInv
<1>1. pending = << >> /\ wire = << >> /\ accepted = << >> /\ active = TRUE BY DEF Init
<1>2. FlattenSeq(Lefts(pending)) = << >>
  <2>1. pending \in Seq(Buffers) /\ Len(pending) = 0 BY <1>1
  <2>2. Lefts(pending) \in Seq(Seq(MsgBytes)) /\ Len(Lefts(pending)) = 0 BY <2>1, LeftsType
  <2>3. Lefts(pending) = << >> BY <2>2
  <2> QED BY <2>3, FlattenEmpty
<1>3. Out!Stream(accepted) = << >>
  <2> DEFINE none == [i \in DOMAIN accepted |-> Out!Bytes(accepted[i], 0, Length[accepted[i]])]
  <2>1. none = << >> BY <1>1
  <2> HIDE DEF none
  <2>2. FlattenSeq(none) = << >> BY <2>1, FlattenEmpty
  <2> QED BY <2>2, StreamIs DEF none
<1>4. Conserved BY <1>1, <1>2, <1>3 DEF Conserved
<1> QED BY <1>1, <1>4 DEF Ended

LEMMA SentMsg ==
  ASSUME IInv, active, ~Spoiled, pending # << >>, NEW count \in Nat, Sent(count)
  PROVE  wire' = wire \o Out!Bytes(Head(pending).msg, Head(pending).used, count)
<1>1. pending[1] \in Buffers /\ 1 \in DOMAIN pending /\ Head(pending) = pending[1]
  <2>1. pending \in Seq(Buffers) BY AllTypes DEF IInv
  <2> QED BY <2>1
<1>2. Data(pending[1]) # Garbage /\ pending[1].from = pending[1].msg
  BY <1>1 DEF Spoiled, Exposed, Mixed
<1>3. Data(pending[1]) = pending[1].msg BY <1>2 DEF Data
<1> QED BY <1>1, <1>3, Zenon DEF Sent, Out!Bytes

LEMMA Delivered ==
  ASSUME NEW S, wire \in Seq(S), NEW bytes \in Seq(S), NEW rest \in Seq(S), bytes # << >>,
         wire' = wire \o bytes, accepted' = accepted, Out!Stream(accepted) = wire' \o rest
  PROVE  Out!Deliver
<1> DEFINE n == Len(wire')
<1>1. wire' \in Seq(S) /\ n = Len(wire) + Len(bytes) /\ Len(wire) \in Nat /\ Len(bytes) \in Nat \ {0}
  OBVIOUS
<1>2. Len(Out!Stream(accepted)) = n + Len(rest) /\ Len(rest) \in Nat BY <1>1
<1>3. n \in Len(wire) + 1 .. Len(Out!Stream(accepted)) BY <1>1, <1>2
<1>4. wire' = SubSeq(Out!Stream(accepted), 1, n)
  <2>1. SubSeq(wire' \o rest, 1, n) = wire' BY <1>1
  <2> QED BY <2>1
<1> HIDE DEF n
<1> QED BY <1>3, <1>4, Zenon DEF Out!Deliver

LEMMA SendSomeStream ==
  ASSUME SInv, ~Spoiled, SendSome
  PROVE  Conserved' /\ Ended' /\ Out!Deliver
<1> DEFINE first == Head(pending)
           buffers == [pending EXCEPT ![1].used = @ + room, ![1].avail = @ - room]
           bytes == Out!Bytes(first.msg, first.used, room)
           left == Out!Bytes(first.msg, first.used + room, first.avail - room)
           rest == FlattenSeq(Lefts(Tail(pending)))
<1>1. IInv /\ pending # << >> /\ ~gone /\ active BY DEF SInv, Ended, SendSome, Sending
<1>2. pending \in Seq(Buffers) /\ wire \in Seq(WireBytes) /\ room \in Nat \ {0} /\ first.avail > room
  BY <1>1, RoomAssumption, AllTypes DEF SendSome, Sending, IInv, Types, Bounds
<1>3. /\ first \in Buffers /\ first = pending[1] /\ Len(pending) \in Nat \ {0}
      /\ first.msg \in Messages /\ first.used \in Nat /\ first.avail \in Nat
      /\ first.used + room \in Nat /\ first.avail - room \in Nat \ {0}
  <2>1. first \in Buffers /\ first = pending[1] /\ Len(pending) \in Nat \ {0} BY <1>1, <1>2
  <2>2. first.msg \in Messages /\ first.used \in Nat /\ first.avail \in Nat BY <2>1 DEF Buffers
  <2> QED BY <1>2, <2>1, <2>2
<1>4. /\ buffers \in Seq(Buffers) /\ Len(buffers) = Len(pending)
      /\ buffers[1].msg = first.msg /\ buffers[1].used = first.used + room
      /\ buffers[1].avail = first.avail - room
      /\ \A i \in 2 .. Len(pending) : buffers[i] = pending[i]
  <2> DEFINE new == [first EXCEPT !.used = @ + room, !.avail = @ - room]
  <2>1. /\ new \in Buffers /\ new.msg = first.msg /\ new.used = first.used + room
        /\ new.avail = first.avail - room
    BY <1>3 DEF Buffers
  <2>2. buffers = [pending EXCEPT ![1] = new] BY <1>1, <1>2, <1>3
  <2> HIDE DEF new, buffers
  <2>3. 1 \in DOMAIN pending BY <1>2, <1>3
  <2>4. buffers[1] = new /\ Len(buffers) = Len(pending) /\ buffers \in Seq(Buffers)
    BY <1>2, <2>1, <2>2, <2>3
  <2>5. \A i \in 2 .. Len(pending) : buffers[i] = pending[i] BY <1>2, <2>2
  <2> QED BY <2>1, <2>4, <2>5
<1>5. pending' = Recopied(buffers, TRUE) BY DEF SendSome, Return
<1>6. wire' = wire \o bytes
  <2>1. Sent(room) BY DEF SendSome
  <2> QED BY <1>1, <1>2, <2>1, SentMsg
<1> HIDE DEF buffers
<1>7. Head(buffers) = buffers[1] /\ buffers # << >> /\ Tail(buffers) = Tail(pending)
  BY <1>2, <1>3, <1>4, SMTT(30)
<1>8. Left(Head(buffers)) = left
  BY <1>4, <1>7 DEF Left
<1>9. FlattenSeq(Lefts(pending')) = left \o rest
  <2>1. Lefts(pending') = Lefts(buffers) BY <1>4, <1>5, RecopiedLefts
  <2>2. FlattenSeq(Lefts(buffers)) = Left(Head(buffers)) \o FlattenSeq(Lefts(Tail(buffers)))
    BY <1>4, <1>7, LeftsHead
  <2> QED BY <1>7, <1>8, <2>1, <2>2
<1>10. FlattenSeq(Lefts(pending)) = (bytes \o left) \o rest
  <2>1. FlattenSeq(Lefts(pending)) = Left(first) \o rest BY <1>1, <1>2, LeftsHead
  <2>2. Left(first) = bytes \o left
    <3>1. room <= first.avail /\ room \in Nat BY <1>2, <1>3
    <3> QED BY <1>3, <3>1, LeftSplit
  <2> QED BY <2>1, <2>2
<1>11. /\ bytes \in Seq(MsgBytes) /\ left \in Seq(MsgBytes) /\ rest \in Seq(MsgBytes)
       /\ Len(bytes) = room
  <2>1. Tail(pending) \in Seq(Buffers) BY <1>1, <1>2
  <2> QED BY <1>2, <1>3, <2>1, BytesType, FlatType
<1> HIDE DEF bytes, left, rest, first
<1>12. bytes \in Seq(WireBytes) /\ left \in Seq(WireBytes) /\ rest \in Seq(WireBytes)
  BY <1>11, MsgWire
<1>13. wire \o ((bytes \o left) \o rest) = (wire \o bytes) \o (left \o rest)
  <2>1. Regroups(wire, bytes, left, rest) BY <1>2, <1>12, Regrouped
  <2> QED BY <2>1, Zenon DEF Regroups
<1>14. wire' \o FlattenSeq(Lefts(pending')) = Out!Stream(accepted)
  BY <1>1, <1>6, <1>9, <1>10, <1>13 DEF SInv, Conserved
<1>15. accepted' = accepted /\ active' = active BY DEF SendSome
<1>16. Out!Stream(accepted)' = Out!Stream(accepted) BY <1>15, Zenon DEF Out!Stream
<1>17. Conserved' BY <1>14, <1>15, <1>16 DEF Conserved
<1>18. Ended' BY <1>1, <1>15 DEF Ended
<1>19. Out!Deliver
  <2>1. left \o rest \in Seq(WireBytes) BY <1>12
  <2>2. bytes # << >> BY <1>2, <1>11
  <2> QED BY <1>2, <1>6, <1>9, <1>12, <1>14, <1>15, <2>1, <2>2, Delivered
<1> QED BY <1>17, <1>18, <1>19

LEMMA SendRestStream ==
  ASSUME SInv, ~Spoiled, SendRest
  PROVE  Conserved' /\ Ended' /\ Out!Deliver
<1> DEFINE first == Head(pending)
           bytes == Out!Bytes(first.msg, first.used, first.avail)
           rest == FlattenSeq(Lefts(Tail(pending)))
<1>1. IInv /\ pending # << >> /\ ~gone /\ active BY DEF SInv, Ended, SendRest, Sending
<1>2. pending \in Seq(Buffers) /\ wire \in Seq(WireBytes)
  BY <1>1, AllTypes DEF IInv
<1>3. first \in Buffers /\ first.msg \in Messages /\ first.used \in Nat /\ first.avail \in Nat \ {0}
  <2>1. first \in Buffers BY <1>1, <1>2
  <2> QED BY <2>1 DEF Buffers
<1>4. wire' = wire \o bytes
  <2>1. Sent(first.avail) /\ first.avail \in Nat BY <1>3 DEF SendRest
  <2> QED BY <1>1, <2>1, SentMsg
<1>5. FlattenSeq(Lefts(pending)) = bytes \o rest
  BY <1>1, <1>2, LeftsHead DEF Left
<1>6. bytes \in Seq(MsgBytes) /\ rest \in Seq(MsgBytes) /\ Len(bytes) = first.avail
  <2>1. Tail(pending) \in Seq(Buffers) BY <1>1, <1>2
  <2>2. first.avail \in Nat BY <1>3
  <2> QED BY <1>3, <2>1, <2>2, BytesType, FlatType
<1>7. bytes # << >> BY <1>3, <1>6
<1>8. pending' = Tail(pending) /\ accepted' = accepted /\ active' = active /\ gone' = gone
  BY DEF SendRest
<1> HIDE DEF bytes, rest, first
<1>9. bytes \in Seq(WireBytes) /\ rest \in Seq(WireBytes) BY <1>6, MsgWire
<1>10. wire \o (bytes \o rest) = (wire \o bytes) \o rest
  BY <1>2, <1>9, Concatenated, SMTT(30)
<1>11. wire' \o rest = Out!Stream(accepted)
  BY <1>1, <1>4, <1>5, <1>10 DEF SInv, Conserved
<1>12. Out!Stream(accepted)' = Out!Stream(accepted) BY <1>8, Zenon DEF Out!Stream
<1>13. FlattenSeq(Lefts(pending))' = rest BY <1>8 DEF rest
<1>14. Conserved' BY <1>11, <1>12, <1>13, Zenon DEF Conserved
<1>15. Ended' BY <1>1, <1>8 DEF Ended
<1>16. Out!Deliver BY <1>2, <1>4, <1>7, <1>8, <1>9, <1>11, Delivered
<1> QED BY <1>14, <1>15, <1>16

LEMMA WriteStream ==
  ASSUME SInv, NEW msg \in Messages, Write(msg)
  PROVE  Conserved' /\ Ended' /\ Out!Accept(msg)
<1>1. /\ IInv /\ active /\ active' = active /\ wire' = wire
      /\ accepted' = Append(accepted, msg)
  BY DEF SInv, Write
<1>2. /\ pending \in Seq(Buffers) /\ wire \in Seq(WireBytes) /\ accepted \in Seq(Messages)
  BY <1>1, AllTypes DEF IInv, Types, Bounds
<1>3. PICK b \in Buffers : pending' = Append(pending, b) /\ Left(b) = Out!Bytes(msg, 0, Length[msg])
  <2>1. \A copy, first \in BOOLEAN :
          /\ Buffer(msg, copy, first) \in Buffers
          /\ Left(Buffer(msg, copy, first)) = Out!Bytes(msg, 0, Length[msg])
    <3> TAKE copy, first \in BOOLEAN
    <3>1. /\ Buffer(msg, copy, first).msg = msg /\ Buffer(msg, copy, first).used = 0
          /\ Buffer(msg, copy, first).avail = Length[msg]
      BY DEF Buffer
    <3>2. Left(Buffer(msg, copy, first)) = Out!Bytes(msg, 0, Length[msg])
      BY <3>1, Zenon DEF Left
    <3> QED BY <3>2, BufferType
  <2>2. CASE PendWrite(msg)
    <3>1. pending' = Append(pending, Buffer(msg, msg \notin Long, FALSE)) BY <2>2 DEF PendWrite
    <3>2. (msg \notin Long) \in BOOLEAN /\ FALSE \in BOOLEAN OBVIOUS
    <3> QED BY <2>1, <3>1, <3>2, Zenon
  <2>3. CASE pending = << >> /\ StealBuffer(msg)
    <3>1. pending' = Append(pending, Buffer(msg, FALSE, TRUE)) BY <2>3 DEF StealBuffer
    <3> QED BY <2>1, <3>1, Zenon
  <2> QED BY <2>2, <2>3 DEF Write
<1> DEFINE bytes == Out!Bytes(msg, 0, Length[msg])
           flat == FlattenSeq(Lefts(pending))
<1>4. FlattenSeq(Lefts(pending')) = flat \o bytes BY <1>2, <1>3, LeftsAppend
<1>5. Out!Stream(accepted') = Out!Stream(accepted) \o bytes BY <1>1, <1>2, StreamAppend
<1>6. bytes \in Seq(MsgBytes) /\ flat \in Seq(MsgBytes)
  <2>1. Length[msg] \in Nat BY MessagesAssumption
  <2> QED BY <1>2, <2>1, BytesType, FlatType
<1>7. Out!Stream(accepted) = wire \o flat BY <1>1 DEF SInv, Conserved
<1> HIDE DEF bytes, flat
<1>8. bytes \in Seq(WireBytes) /\ flat \in Seq(WireBytes) BY <1>6, MsgWire
<1>9. wire \o (flat \o bytes) = (wire \o flat) \o bytes
  BY <1>2, <1>8, Concatenated, SMTT(30)
<1>10. wire' \o FlattenSeq(Lefts(pending')) = Out!Stream(accepted')
  BY <1>1, <1>4, <1>5, <1>7, <1>9
<1>11. FlattenSeq(Lefts(pending))' = FlattenSeq(Lefts(pending')) BY Zenon DEF Lefts
<1>12. Out!Stream(accepted)' = Out!Stream(accepted') BY Zenon DEF Out!Stream
<1>13. Conserved' BY <1>10, <1>11, <1>12, Zenon DEF Conserved
<1>14. Ended' BY <1>1 DEF Ended
<1>15. Out!Accept(msg) BY <1>1 DEF Out!Accept
<1> QED BY <1>13, <1>14, <1>15

(* The other steps send and accept nothing, and leave the pending data as  *)
(* it is or end the stream.                                                *)
LEMMA QuietStream ==
  ASSUME SInv, ~Spoiled,
         \/ NothingToSend \/ NotConnected \/ WouldBlock \/ SendBroken \/ SendError
         \/ Notified \/ Opened \/ WriteEvent \/ PendingTimer \/ ConnectEvent \/ RemoveClient
         \/ BuildSets \/ Select \/ PeerReads \/ PeerCloses \/ UNCHANGED vars
  PROVE  Conserved' /\ Ended' /\ UNCHANGED <<accepted, wire>>
<1>1. UNCHANGED <<accepted, wire>>
  BY DEF NothingToSend, NotConnected, WouldBlock, SendBroken, SendError, Notified, Opened,
         WriteEvent, PendingTimer, ConnectEvent, RemoveClient, BuildSets, Select, PeerReads,
            PeerCloses, vars, stream
<1>2. \/ active' = FALSE /\ (gone' \/ pending' = << >>)
      \/ active' = active /\ (gone' \/ gone' = gone) /\ Lefts(pending') = Lefts(pending)
         /\ (pending = << >> => pending' = << >>)
  <2>1. pending \in Seq(Buffers) BY AllTypes DEF SInv, IInv
  <2>2. CASE NothingToSend \/ NotConnected \/ WouldBlock \/ SendError
    <3>1. \E unsent \in BOOLEAN : pending' = Recopied(pending, unsent)
      BY <2>2 DEF NothingToSend, NotConnected, WouldBlock, SendError, Return
    <3>2. Lefts(pending') = Lefts(pending) BY <2>1, <3>1, RecopiedLefts
    <3>3. active' = active /\ gone' = gone
      BY <2>2 DEF NothingToSend, NotConnected, WouldBlock, SendError, peer
    <3>4. pending = << >> => pending' = << >>
      BY <3>1 DEF Recopied
    <3> QED BY <3>2, <3>3, <3>4
  <2>3. CASE SendBroken BY <2>3 DEF SendBroken, Sending, peer
  <2>4. CASE RemoveClient BY <2>4 DEF RemoveClient
  <2>5. CASE \/ Notified \/ Opened \/ WriteEvent \/ PendingTimer \/ ConnectEvent
             \/ BuildSets \/ Select \/ PeerReads \/ PeerCloses \/ UNCHANGED vars
    BY <2>5 DEF Notified, Opened, WriteEvent, PendingTimer, ConnectEvent, BuildSets, Select,
       PeerReads, PeerCloses,
                vars, client, peer
  <2> QED BY <2>2, <2>3, <2>4, <2>5
<1>3. Ended' BY <1>2 DEF SInv, Ended
<1>4. Lefts(pending)' = Lefts(pending') BY Zenon DEF Lefts
<1>5. Out!Stream(accepted)' = Out!Stream(accepted) BY <1>1, Zenon DEF Out!Stream
<1>6. Conserved'
  <2>1. CASE active' = FALSE BY <2>1 DEF Conserved
  <2>2. CASE active' = active /\ Lefts(pending') = Lefts(pending)
    <3>1. FlattenSeq(Lefts(pending))' = FlattenSeq(Lefts(pending)) BY <1>4, <2>2
    <3> QED BY <1>1, <1>5, <2>2, <3>1, Zenon DEF SInv, Conserved
  <2> QED BY <1>2, <2>1, <2>2
<1> QED BY <1>1, <1>3, <1>6

LEMMA StepSInv == SInv /\ [Next]_vars => SInv' /\ [Out!Next]_<<accepted, wire>>
<1> SUFFICES ASSUME SInv, [Next]_vars PROVE SInv' /\ [Out!Next]_<<accepted, wire>>
  OBVIOUS
<1>1. IInv' BY StepIInv DEF SInv
<1>2. CASE UNCHANGED vars
  <2>1. UNCHANGED <<accepted, wire>> BY <1>2 DEF vars, stream
  <2>2. Conserved'
    <3>1. UNCHANGED <<active, pending>> BY <1>2 DEF vars, client
    <3>2. Out!Stream(accepted)' = Out!Stream(accepted) BY <2>1, Zenon DEF Out!Stream
    <3>3. FlattenSeq(Lefts(pending))' = FlattenSeq(Lefts(pending)) BY <3>1, Zenon DEF Lefts
    <3> QED BY <2>1, <3>1, <3>2, <3>3, Zenon DEF SInv, Conserved
  <2>3. Ended' BY <1>2 DEF vars, client, peer, SInv, Ended
  <2> QED BY <1>1, <2>1, <2>2, <2>3 DEF SInv
<1>3. ASSUME ~Spoiled, NEW msg \in Messages, Write(msg) PROVE SInv' /\ Out!Next
  BY <1>1, <1>3, WriteStream DEF SInv, Out!Next
<1>4. CASE ~Spoiled /\ SendSome
  BY <1>1, <1>4, SendSomeStream DEF SInv, Out!Next
<1>5. CASE ~Spoiled /\ SendRest
  BY <1>1, <1>5, SendRestStream DEF SInv, Out!Next
<1>6. CASE /\ ~Spoiled
           /\ \/ NothingToSend \/ NotConnected \/ WouldBlock \/ SendBroken \/ SendError
              \/ Notified \/ Opened \/ WriteEvent \/ PendingTimer \/ ConnectEvent \/ RemoveClient
              \/ BuildSets \/ Select \/ PeerReads \/ PeerCloses
  BY <1>1, <1>6, QuietStream DEF SInv
<1> QED BY <1>2, <1>3, <1>4, <1>5, <1>6 DEF Next, Loop, Done

(* Whatever the lengths of the messages, what the socket takes of them at  *)
(* a time, and whatever writes come out of callbacks of others, what the   *)
(* socket has taken and what is pending are all that was accepted, in the  *)
(* order of the calls of doTCPWriteExx, as long as the pending buffers     *)
(* hold what was written.                                                  *)
THEOREM StreamConserved == Spec => []NothingLost
<1>1. SInv => NothingLost
  <2>1. Lefts(pending) =
          [i \in DOMAIN pending |-> Out!Bytes(pending[i].msg, pending[i].used, pending[i].avail)]
    BY DEF Lefts, Left
  <2> QED BY <2>1 DEF SInv, Conserved, NothingLost
<1> QED BY <1>1, InitSInv, StepSInv, PTL DEF Spec

(* The write path is the byte stream of ByteStream: doTCPWriteExx accepts, *)
(* and each send of TCPWriteEx delivers the next bytes.                    *)
THEOREM WritesAStream == Spec => ImplementsStream
<1>1. Init => Out!Init BY DEF Init, Out!Init
<1> QED BY <1>1, InitSInv, StepSInv, PTL DEF Spec, ImplementsStream

----------------------------------------------------------------------------
(* The buffers of short writes.  A pending buffer that is not a copy       *)
(* points to what was written; if the caller wants that back it is the     *)
(* client's FirstWritePending, and of the calls in progress only one that  *)
(* uses FirstWritePending has its message.                                 *)

Owned ==
  /\ \A i \in DOMAIN pending :
       /\ pending[i].msg \in Range(accepted)
       /\ ~pending[i].copy => pending[i].from = pending[i].msg
       /\ ~pending[i].copy /\ pending[i].from \notin Long =>
            /\ pending[i].first
            /\ \A j \in DOMAIN stack : stack[j].msg = pending[i].from => stack[j].kind = "steal"
  /\ \A j \in DOMAIN stack :
       /\ stack[j].msg \in Range(accepted) \cup {NoMessage}
       /\ stack[j].kind = "accept" => stack[j].msg = NoMessage

OInv == SInv /\ Owned

LEMMA InitOInv == Init => OInv
<1> SUFFICES ASSUME Init PROVE Owned
  BY InitSInv DEF OInv
<1>1. pending = << >> BY DEF Init
<1>2. \A j \in DOMAIN stack : stack[j].msg = NoMessage BY DEF Init, Call
<1> QED BY <1>1, <1>2 DEF Owned

(* What the steps other than a write do: a buffer stays what it was, or is *)
(* made a copy, or goes; a call goes on, or ends, or is an event's.        *)
Kept ==
  \A i \in DOMAIN pending' : \E k \in DOMAIN pending :
    /\ pending'[i].msg = pending[k].msg /\ pending'[i].first = pending[k].first
    /\ \/ pending'[i].copy
       \/ pending'[i].copy = pending[k].copy /\ pending'[i].from = pending[k].from
Under ==
  \A j \in DOMAIN stack' :
    \/ stack'[j].msg = NoMessage
    \/ \E k \in DOMAIN stack : stack'[j].msg = stack[k].msg /\ stack'[j].kind = stack[k].kind

LEMMA KeptOwned ==
  ASSUME OInv, Kept, Under, accepted' = accepted
  PROVE  Owned'
<1>1. /\ Owned /\ pending \in Seq(Buffers) /\ accepted \in Seq(Messages)
      /\ Range(accepted) \subseteq Messages
  <2>1. Owned /\ pending \in Seq(Buffers) /\ accepted \in Seq(Messages)
    BY AllTypes DEF OInv, SInv, IInv, Types, Bounds
  <2> QED BY <2>1 DEF Range
<1>2. ASSUME NEW i \in DOMAIN pending'
      PROVE  /\ pending'[i].msg \in Range(accepted)
             /\ ~pending'[i].copy => pending'[i].from = pending'[i].msg
             /\ ~pending'[i].copy /\ pending'[i].from \notin Long =>
                  /\ pending'[i].first
                  /\ \A j \in DOMAIN stack' :
                       stack'[j].msg = pending'[i].from => stack'[j].kind = "steal"
  <2>1. PICK k \in DOMAIN pending :
          /\ pending'[i].msg = pending[k].msg /\ pending'[i].first = pending[k].first
          /\ \/ pending'[i].copy
             \/ pending'[i].copy = pending[k].copy /\ pending'[i].from = pending[k].from
    BY DEF Kept
  <2>2. pending'[i].msg \in Range(accepted) BY <1>1, <2>1 DEF Owned
  <2>3. ~pending'[i].copy => pending'[i].from = pending'[i].msg BY <1>1, <2>1 DEF Owned
  <2>4. ASSUME ~pending'[i].copy, pending'[i].from \notin Long PROVE pending'[i].first
    BY <1>1, <2>1, <2>4 DEF Owned
  <2>5. ASSUME ~pending'[i].copy, pending'[i].from \notin Long, NEW j \in DOMAIN stack',
               stack'[j].msg = pending'[i].from
        PROVE  stack'[j].kind = "steal"
    <3>1. stack'[j].msg # NoMessage
      BY <1>1, <2>2, <2>3, <2>5, MessagesAssumption
    <3>2. PICK l \in DOMAIN stack : stack'[j].msg = stack[l].msg /\ stack'[j].kind = stack[l].kind
      BY <3>1 DEF Under
    <3>3. ~pending[k].copy /\ pending[k].from \notin Long /\ stack[l].msg = pending[k].from
      BY <2>1, <2>5, <3>2
    <3> QED BY <1>1, <3>2, <3>3 DEF Owned
  <2> QED BY <2>2, <2>3, <2>4, <2>5
<1>3. \A j \in DOMAIN stack' : /\ stack'[j].msg \in Range(accepted) \cup {NoMessage}
                               /\ stack'[j].kind = "accept" => stack'[j].msg = NoMessage
  BY <1>1 DEF Under, Owned
<1> QED BY <1>2, <1>3 DEF Owned

(* Of what TCPWriteEx has left, a buffer the caller takes for his own is   *)
(* copied, and the others stay.                                            *)
LEMMA RecopiedIs ==
  ASSUME OInv, stack # << >>, NEW buffers \in Seq(Buffers), NEW unsent \in BOOLEAN
  PROVE  /\ DOMAIN Recopied(buffers, unsent) = DOMAIN buffers
         /\ \A i \in DOMAIN buffers :
              LET b == Recopied(buffers, unsent)[i]
              IN  /\ b.msg = buffers[i].msg /\ b.first = buffers[i].first
                  /\ \/ /\ Top.kind = "steal" /\ unsent /\ Top.msg \notin Long /\ b.first
                        /\ b.copy /\ b.from = Top.msg
                     \/ /\ ~(Top.kind = "steal" /\ unsent /\ Top.msg \notin Long /\ b.first)
                        /\ b.copy = buffers[i].copy /\ b.from = buffers[i].from
<1>1. CASE ~(Top.kind = "steal" /\ unsent /\ Top.msg \notin Long)
  <2>1. Recopied(buffers, unsent) = buffers BY <1>1 DEF Recopied
  <2> QED BY <1>1, <2>1, Zenon
<1>2. CASE Top.kind = "steal" /\ unsent /\ Top.msg \notin Long
  <2> DEFINE copied == Recopied(buffers, unsent)
  <2>1. copied = [i \in DOMAIN buffers |->
                    IF buffers[i].first THEN [buffers[i] EXCEPT !.from = Top.msg, !.copy = TRUE]
                    ELSE buffers[i]]
    BY <1>2 DEF Recopied
  <2> HIDE DEF copied
  <2>2. DOMAIN copied = DOMAIN buffers BY <2>1
  <2>3. ASSUME NEW i \in DOMAIN buffers
        PROVE  /\ copied[i].msg = buffers[i].msg /\ copied[i].first = buffers[i].first
               /\ copied[i].first => copied[i].copy /\ copied[i].from = Top.msg
               /\ ~copied[i].first => copied[i] = buffers[i]
    <3>1. buffers[i] \in Buffers OBVIOUS
    <3>2. CASE buffers[i].first
      <4>1. copied[i] = [buffers[i] EXCEPT !.from = Top.msg, !.copy = TRUE] BY <2>1, <3>2
      <4> QED BY <3>1, <3>2, <4>1 DEF Buffers
    <3>3. CASE ~buffers[i].first
      <4>1. copied[i] = buffers[i] BY <2>1, <3>3
      <4> QED BY <3>3, <4>1
    <3> QED BY <3>2, <3>3
  <2> QED BY <1>2, <2>2, <2>3 DEF copied
<1> QED BY <1>1, <1>2

LEMMA FrontIs ==
  ASSUME IInv, stack # << >>, stack' = Front(stack)
  PROVE  /\ \A j \in DOMAIN stack' : j \in DOMAIN stack /\ stack'[j] = stack[j]
         /\ \A j \in DOMAIN stack : j # Len(stack) => j \in DOMAIN stack' /\ stack'[j] = stack[j]
<1>1. stack \in Seq(CallSet) /\ Len(stack) \in Nat \ {0} /\ DOMAIN stack = 1 .. Len(stack)
  BY TopType
<1>2. /\ DOMAIN stack' = 1 .. Len(stack) - 1
      /\ \A i \in DOMAIN stack' : i \in DOMAIN stack /\ stack'[i] = stack[i]
  BY <1>1 DEF Front
<1> QED BY <1>1, <1>2

LEMMA GoesIs ==
  ASSUME IInv, stack # << >>, NEW at, Goes(at)
  PROVE  /\ DOMAIN stack' = DOMAIN stack /\ Len(stack') = Len(stack)
         /\ \A j \in DOMAIN stack : stack'[j].msg = stack[j].msg /\ stack'[j].kind = stack[j].kind
<1>1. stack \in Seq(CallSet) /\ Len(stack) \in Nat \ {0} /\ Len(stack) \in DOMAIN stack
  BY TopType
<1>2. stack' = [stack EXCEPT ![Len(stack)] = [stack[Len(stack)] EXCEPT !.at = at]]
  BY <1>1 DEF Goes
<1>3. DOMAIN stack' = DOMAIN stack BY <1>2
<1>4. ASSUME NEW j \in DOMAIN stack
      PROVE  stack'[j].msg = stack[j].msg /\ stack'[j].kind = stack[j].kind
  <2>1. stack[j] \in CallSet BY <1>1
  <2>2. CASE j = Len(stack)
    <3>1. stack'[j] = [stack[j] EXCEPT !.at = at] BY <1>1, <1>2, <2>2
    <3> QED BY <2>1, <3>1 DEF CallSet
  <2>3. CASE j # Len(stack)
    <3>1. stack'[j] = stack[j] BY <1>2, <2>3
    <3> QED BY <3>1
  <2> QED BY <2>2, <2>3
<1>5. Len(stack') = Len(stack) BY <1>1, <1>3, <1>2
<1> QED BY <1>3, <1>4, <1>5

(* Exposed, with Data and Reused expanded. *)
Shown ==
  \E i \in DOMAIN pending :
    /\ ~pending[i].copy /\ pending[i].from \notin Long
    /\ \A j \in DOMAIN stack : stack[j].msg # pending[i].from

LEMMA SpoiledIs == TypeOK => (Spoiled <=> active /\ (Shown \/ Mixed))
<1> SUFFICES ASSUME TypeOK PROVE Exposed <=> Shown
  BY DEF Spoiled
<1>1. ASSUME NEW i \in DOMAIN pending
      PROVE  Data(pending[i]) = Garbage <=> ~pending[i].copy /\ Reused(pending[i].from)
  <2>1. pending[i] \in Buffers BY AllTypes
  <2>2. pending[i].from # Garbage BY <2>1, MessagesAssumption DEF Buffers
  <2> QED BY <2>2 DEF Data
<1> QED BY <1>1, Zenon DEF Exposed, Shown, Reused

LEMMA SpoiledIsNext == TypeOK' => (Spoiled' <=> active' /\ (Shown' \/ Mixed'))
<1> SUFFICES ASSUME TypeOK' PROVE Exposed' <=> Shown'
  BY DEF Spoiled
<1>1. ASSUME NEW i \in DOMAIN pending'
      PROVE  Data(pending[i])' = Garbage <=> ~pending'[i].copy /\ Reused(pending[i].from)'
  <2>1. pending'[i] \in Buffers BY AllTypesNext
  <2>2. pending'[i].from # Garbage BY <2>1, MessagesAssumption DEF Buffers
  <2> QED BY <2>2 DEF Data
<1> QED BY <1>1, Zenon DEF Exposed, Shown, Reused

Same(buffers) ==
  /\ buffers \in Seq(Buffers) /\ DOMAIN buffers = DOMAIN pending
  /\ \A i \in DOMAIN pending :
       /\ buffers[i].msg = pending[i].msg /\ buffers[i].first = pending[i].first
       /\ buffers[i].copy = pending[i].copy /\ buffers[i].from = pending[i].from

(* TCPWriteEx returns: what would spoil the stream are a short write whose *)
(* data is left after an error, and a copy over another message.           *)
LEMMA ReturnOwned ==
  ASSUME OInv, TypeOK', stack # << >>, NEW buffers, Same(buffers), NEW unsent \in BOOLEAN,
         Return(buffers, unsent), accepted' = accepted
  PROVE  /\ Owned'
         /\ active /\ ~Spoiled /\ Spoiled' => CopiesOver \/ (Top.kind = "steal" /\ ~unsent)
<1>1. IInv /\ Owned /\ TypeOK BY DEF OInv, SInv, IInv
<1>2. /\ DOMAIN pending' = DOMAIN pending
      /\ \A i \in DOMAIN pending :
           /\ pending'[i].msg = pending[i].msg /\ pending'[i].first = pending[i].first
           /\ \/ /\ Top.kind = "steal" /\ unsent /\ Top.msg \notin Long /\ pending[i].first
                 /\ pending'[i].copy /\ pending'[i].from = Top.msg
              \/ /\ ~(Top.kind = "steal" /\ unsent /\ Top.msg \notin Long /\ pending[i].first)
                 /\ pending'[i].copy = pending[i].copy /\ pending'[i].from = pending[i].from
  <2>1. pending' = Recopied(buffers, unsent) BY DEF Return
  <2>2. buffers \in Seq(Buffers) BY DEF Same
  <2> QED BY <2>1, <2>2, RecopiedIs DEF Same
<1>3. /\ \A j \in DOMAIN stack' : j \in DOMAIN stack /\ stack'[j] = stack[j]
      /\ \A j \in DOMAIN stack : j # Len(stack) => j \in DOMAIN stack' /\ stack'[j] = stack[j]
      /\ Len(stack') < Len(stack)
  <2>1. stack' = Front(stack) BY DEF Return
  <2>2. Len(stack') < Len(stack)
    <3>1. stack \in Seq(CallSet) /\ Len(stack) \in Nat \ {0} BY <1>1, TopType
    <3> QED BY <2>1, <3>1 DEF Front
  <2> QED BY <1>1, <2>1, <2>2, FrontIs
<1>4. Owned'
  <2>1. Kept BY <1>2 DEF Kept
  <2>2. Under BY <1>3 DEF Under
  <2> QED BY <2>1, <2>2, KeptOwned
<1>5. ASSUME active, ~Spoiled, Spoiled', Top.kind = "steal" => unsent
      PROVE  CopiesOver
  <2>1. ~Shown /\ ~Mixed BY <1>1, <1>5, SpoiledIs
  <2>2. Shown' \/ Mixed' BY <1>5, SpoiledIsNext
  <2>3. Top = stack[Len(stack)] BY <1>1, TopType
  <2>4. ~Shown'
    <3> SUFFICES ASSUME NEW i \in DOMAIN pending, ~pending'[i].copy, pending'[i].from \notin Long
                 PROVE  \E j \in DOMAIN stack' : stack'[j].msg = pending'[i].from
      BY <1>2 DEF Shown
    <3>1. /\ pending'[i].copy = pending[i].copy /\ pending'[i].from = pending[i].from
          /\ ~(Top.kind = "steal" /\ unsent /\ Top.msg \notin Long /\ pending[i].first)
      BY <1>2
    <3>2. PICK j \in DOMAIN stack : stack[j].msg = pending[i].from
      BY <2>1, <3>1 DEF Shown
    <3>3. stack[j].kind = "steal" /\ pending[i].first BY <1>1, <3>1, <3>2 DEF Owned
    <3>4. j # Len(stack) BY <1>5, <2>3, <3>1, <3>2, <3>3
    <3> QED BY <1>3, <3>1, <3>2, <3>4
  <2>5. PICK i \in DOMAIN pending : pending'[i].from # pending'[i].msg
    BY <1>2, <2>2, <2>4 DEF Mixed
  <2>6. pending[i].from = pending[i].msg BY <2>1 DEF Mixed
  <2>7. Top.kind = "steal" /\ pending[i].first /\ pending[i].msg # Top.msg
    BY <1>2, <2>5, <2>6
  <2> QED BY <1>3, <2>7 DEF CopiesOver
<1> QED BY <1>4, <1>5

(* The other steps but a write leave the buffers that remain, and calls    *)
(* with a message go on.                                                   *)
Moves ==
  /\ \A i \in DOMAIN pending' : \E k \in DOMAIN pending :
       /\ pending'[i].msg = pending[k].msg /\ pending'[i].first = pending[k].first
       /\ pending'[i].copy = pending[k].copy /\ pending'[i].from = pending[k].from
  /\ \A j \in DOMAIN stack :
       stack[j].msg = NoMessage \/ \E l \in DOMAIN stack' : stack'[l].msg = stack[j].msg

LEMMA MovesOwned ==
  ASSUME OInv, TypeOK', Moves, Under, accepted' = accepted
  PROVE  Owned' /\ (active /\ ~Spoiled => ~Spoiled')
<1>1. TypeOK /\ pending \in Seq(Buffers) BY AllTypes DEF OInv, SInv, IInv
<1>2. Owned'
  <2>1. Kept BY DEF Moves, Kept
  <2> QED BY <2>1, KeptOwned
<1>3. ASSUME active, ~Spoiled PROVE ~Spoiled'
  <2>1. ~Shown /\ ~Mixed BY <1>1, <1>3, SpoiledIs
  <2>2. ASSUME NEW i \in DOMAIN pending'
        PROVE  /\ pending'[i].from = pending'[i].msg
               /\ \/ pending'[i].copy \/ pending'[i].from \in Long
                  \/ \E j \in DOMAIN stack' : stack'[j].msg = pending'[i].from
    <3>1. PICK k \in DOMAIN pending :
            /\ pending'[i].msg = pending[k].msg /\ pending'[i].first = pending[k].first
            /\ pending'[i].copy = pending[k].copy /\ pending'[i].from = pending[k].from
      BY DEF Moves
    <3>2. pending[k].from = pending[k].msg BY <2>1 DEF Mixed
    <3>3. ASSUME ~pending[k].copy, pending[k].from \notin Long
          PROVE  \E j \in DOMAIN stack' : stack'[j].msg = pending[k].from
      <4>1. PICK j \in DOMAIN stack : stack[j].msg = pending[k].from
        BY <2>1, <3>3 DEF Shown
      <4>2. stack[j].msg # NoMessage
        <5>1. pending[k] \in Buffers BY <1>1
        <5> QED BY <4>1, <5>1, MessagesAssumption DEF Buffers
      <4> QED BY <4>1, <4>2 DEF Moves
    <3> QED BY <3>1, <3>2, <3>3
  <2>3. ~Shown' BY <2>2 DEF Shown
  <2>4. ~Mixed' BY <2>2 DEF Mixed
  <2> QED BY <2>3, <2>4, SpoiledIsNext
<1> QED BY <1>2, <1>3

LEMMA WriteOwned ==
  ASSUME OInv, TypeOK', NEW msg \in Messages, Write(msg)
  PROVE  Owned' /\ (~Spoiled => ~Spoiled')
<1>1. /\ TypeOK /\ Owned /\ pending \in Seq(Buffers) /\ stack \in Seq(CallSet)
      /\ accepted \in Seq(Messages) /\ active /\ active'
  BY AllTypes DEF OInv, SInv, IInv, Types, Bounds, Write
<1>2. Range(accepted') = Range(accepted) \cup {msg} /\ msg \notin Range(accepted)
      /\ msg # NoMessage
  <2>1. accepted' = Append(accepted, msg) /\ msg \notin Range(accepted) BY DEF Write
  <2>2. /\ DOMAIN accepted' = DOMAIN accepted \cup {Len(accepted) + 1}
        /\ accepted'[Len(accepted) + 1] = msg
        /\ \A i \in DOMAIN accepted : accepted'[i] = accepted[i]
    BY <1>1, <2>1
  <2>3. Range(accepted') = Range(accepted) \cup {msg} BY <2>2 DEF Range
  <2> QED BY <2>1, <2>3, MessagesAssumption
<1>3. PICK b \in Buffers, call \in CallSet :
        /\ pending' = Append(pending, b) /\ stack' = Append(stack, call)
        /\ b.msg = msg /\ b.from = msg /\ call.msg = msg
        /\ \/ call.kind = "pend" /\ (~b.copy => msg \in Long)
           \/ call.kind = "steal" /\ b.first
  <2>1. \A copy, first \in BOOLEAN : Buffer(msg, copy, first) \in Buffers BY BufferType
  <2>2. CASE PendWrite(msg)
    <3>1. Buffer(msg, msg \notin Long, FALSE) \in Buffers BY <2>1, Zenon
    <3>2. /\ Buffer(msg, msg \notin Long, FALSE).msg = msg
          /\ Buffer(msg, msg \notin Long, FALSE).from = msg
          /\ Buffer(msg, msg \notin Long, FALSE).copy = (msg \notin Long)
      BY Zenon DEF Buffer
    <3>3. /\ Call("pend", msg, "loop") \in CallSet /\ Call("pend", msg, "loop").kind = "pend"
          /\ Call("pend", msg, "loop").msg = msg
      BY CallType
    <3> QED BY <2>2, <3>1, <3>2, <3>3, Zenon DEF PendWrite
  <2>3. CASE pending = << >> /\ StealBuffer(msg)
    <3>1. Buffer(msg, FALSE, TRUE) \in Buffers BY <2>1, Zenon
    <3>2. /\ Buffer(msg, FALSE, TRUE).msg = msg /\ Buffer(msg, FALSE, TRUE).from = msg
          /\ Buffer(msg, FALSE, TRUE).first
      BY Zenon DEF Buffer
    <3>3. /\ Call("steal", msg, "loop") \in CallSet /\ Call("steal", msg, "loop").kind = "steal"
          /\ Call("steal", msg, "loop").msg = msg
      BY CallType
    <3>4. pending' = Append(pending, Buffer(msg, FALSE, TRUE)) BY <2>3 DEF StealBuffer
    <3> QED BY <2>3, <3>1, <3>2, <3>3, <3>4, Zenon DEF StealBuffer
  <2> QED BY <2>2, <2>3 DEF Write
<1>4. /\ DOMAIN pending' = DOMAIN pending \cup {Len(pending) + 1}
      /\ pending'[Len(pending) + 1] = b
      /\ \A i \in DOMAIN pending : pending'[i] = pending[i]
  BY <1>1, <1>3
<1>5. /\ DOMAIN stack' = DOMAIN stack \cup {Len(stack) + 1}
      /\ stack'[Len(stack) + 1] = call
      /\ \A j \in DOMAIN stack : stack'[j] = stack[j]
  BY <1>1, <1>3
<1>6. ASSUME NEW i \in DOMAIN pending
      PROVE  /\ pending[i].msg \in Range(accepted')
             /\ ~pending[i].copy => pending[i].from = pending[i].msg
             /\ ~pending[i].copy /\ pending[i].from \notin Long =>
                  /\ pending[i].first
                  /\ \A j \in DOMAIN stack' :
                       stack'[j].msg = pending[i].from => stack'[j].kind = "steal"
  <2>1. pending[i].msg \in Range(accepted) /\ (~pending[i].copy => pending[i].from = pending[i].msg)
    BY <1>1 DEF Owned
  <2>2. ASSUME ~pending[i].copy, pending[i].from \notin Long, NEW j \in DOMAIN stack',
               stack'[j].msg = pending[i].from
        PROVE  stack'[j].kind = "steal"
    <3>1. pending[i].from # msg BY <1>2, <2>1, <2>2
    <3>2. j \in DOMAIN stack BY <1>3, <1>5, <2>2, <3>1
    <3> QED BY <1>1, <1>5, <2>2, <3>2 DEF Owned
  <2>3. ~pending[i].copy /\ pending[i].from \notin Long => pending[i].first
    BY <1>1 DEF Owned
  <2> QED BY <1>2, <2>1, <2>2, <2>3
<1>7. ASSUME ~b.copy, msg \notin Long
      PROVE  b.first /\ \A j \in DOMAIN stack' : stack'[j].msg = msg => stack'[j].kind = "steal"
  <2>1. call.kind = "steal" /\ b.first BY <1>3, <1>7
  <2>2. \A j \in DOMAIN stack : stack[j].msg # msg BY <1>1, <1>2 DEF Owned
  <2> QED BY <1>5, <2>1, <2>2
<1>8. Owned'
  <2>1. ASSUME NEW i \in DOMAIN pending'
        PROVE  /\ pending'[i].msg \in Range(accepted')
               /\ ~pending'[i].copy => pending'[i].from = pending'[i].msg
               /\ ~pending'[i].copy /\ pending'[i].from \notin Long =>
                    /\ pending'[i].first
                    /\ \A j \in DOMAIN stack' :
                         stack'[j].msg = pending'[i].from => stack'[j].kind = "steal"
    <3>1. CASE i \in DOMAIN pending BY <1>4, <1>6, <3>1
    <3>2. CASE i = Len(pending) + 1
      <4>1. pending'[i] = b BY <1>4, <3>2
      <4> QED BY <1>2, <1>3, <1>7, <4>1
    <3> QED BY <1>4, <3>1, <3>2
  <2>2. \A j \in DOMAIN stack' : /\ stack'[j].msg \in Range(accepted') \cup {NoMessage}
                                 /\ stack'[j].kind = "accept" => stack'[j].msg = NoMessage
    BY <1>1, <1>2, <1>3, <1>5 DEF Owned
  <2> QED BY <2>1, <2>2 DEF Owned
<1>9. ASSUME ~Spoiled PROVE ~Spoiled'
  <2>1. ~Shown /\ ~Mixed BY <1>1, <1>9, SpoiledIs
  <2>2. ~Mixed' BY <1>3, <1>4, <2>1 DEF Mixed
  <2>3. ~Shown'
    <3> SUFFICES ASSUME NEW i \in DOMAIN pending', ~pending'[i].copy, pending'[i].from \notin Long
                 PROVE  \E j \in DOMAIN stack' : stack'[j].msg = pending'[i].from
      BY DEF Shown
    <3>1. CASE i \in DOMAIN pending
      <4>1. PICK j \in DOMAIN stack : stack[j].msg = pending[i].from
        BY <1>4, <2>1, <3>1 DEF Shown
      <4> QED BY <1>4, <1>5, <3>1, <4>1
    <3>2. CASE i = Len(pending) + 1
      BY <1>3, <1>4, <1>5, <3>2
    <3> QED BY <1>4, <3>1, <3>2
  <2> QED BY <2>2, <2>3, SpoiledIsNext
<1> QED BY <1>8, <1>9

(* One step: the buffers stay theirs, and what spoils the stream is an     *)
(* error of send or a copy over another message.                           *)
LEMMA ReturnsOwned ==
  ASSUME OInv, TypeOK', ~Spoiled,
         NothingToSend \/ NotConnected \/ WouldBlock \/ SendSome \/ SendBroken \/ SendError
  PROVE  Owned' /\ (Spoiled' => errors' # errors \/ CopiesOver)
<1>1. stack # << >> /\ accepted' = accepted /\ pending \in Seq(Buffers) /\ TypeOK /\ IInv
  BY AllTypes DEF OInv, SInv, IInv, NothingToSend, NotConnected, WouldBlock, SendSome, SendBroken,
                  SendError, Sending, At, stream
<1>2. Same(pending) BY <1>1 DEF Same
<1>3. CASE NothingToSend
  <2>1. Owned' /\ pending' = << >>
    <3>1. Return(pending, FALSE) /\ pending = << >> BY <1>3 DEF NothingToSend
    <3>2. pending' = << >> BY <3>1 DEF Return, Recopied
    <3> QED BY <1>1, <1>2, <3>1, <3>2, ReturnOwned
  <2>2. ~Spoiled' BY <2>1, SpoiledIsNext DEF Shown, Mixed
  <2> QED BY <2>1, <2>2
<1>4. CASE SendBroken
  <2>1. Return(pending, FALSE) /\ active' = FALSE BY <1>4 DEF SendBroken
  <2> QED BY <1>1, <1>2, <2>1, ReturnOwned DEF Spoiled
<1>5. CASE SendError
  <2>1. Return(pending, FALSE) /\ errors' = errors + 1 BY <1>5 DEF SendError
  <2>2. errors \in Nat BY <1>1 DEF TypeOK
  <2>3. errors' # errors BY <2>1, <2>2
  <2>4. Owned' BY <1>1, <1>2, <2>1, ReturnOwned
  <2> QED BY <2>3, <2>4
<1>6. ASSUME NEW buffers, Same(buffers), Return(buffers, TRUE), active' = active
      PROVE  Owned' /\ (Spoiled' => errors' # errors \/ CopiesOver)
  BY <1>1, <1>6, ReturnOwned DEF Spoiled
<1>7. CASE NotConnected \/ WouldBlock
  BY <1>2, <1>6, <1>7 DEF NotConnected, WouldBlock
<1>8. CASE SendSome
  <2> DEFINE buffers == [pending EXCEPT ![1].used = @ + room, ![1].avail = @ - room]
  <2>1. pending # << >> /\ room \in Nat /\ pending[1].avail > room
    BY <1>1, <1>8, RoomAssumption, SMTT(30) DEF SendSome, Sending, TypeOK
  <2>2. Same(buffers)
    <3>1. pending[1] \in Buffers /\ 1 \in DOMAIN pending BY <1>1, <2>1
    <3> DEFINE new == [pending[1] EXCEPT !.used = @ + room, !.avail = @ - room]
    <3>2. /\ new \in Buffers /\ new.msg = pending[1].msg /\ new.first = pending[1].first
          /\ new.copy = pending[1].copy /\ new.from = pending[1].from
      <4>1. pending[1].used + room \in Nat /\ pending[1].avail - room \in Nat \ {0}
        BY <2>1, <3>1 DEF Buffers
      <4> QED BY <3>1, <4>1 DEF Buffers
    <3>3. buffers = [pending EXCEPT ![1] = new] BY <1>1, <3>1
    <3> HIDE DEF new, buffers
    <3>4. buffers[1] = new /\ DOMAIN buffers = DOMAIN pending /\ buffers \in Seq(Buffers)
      BY <1>1, <3>1, <3>2, <3>3
    <3>5. \A i \in DOMAIN pending : i # 1 => buffers[i] = pending[i] BY <1>1, <3>3
    <3> QED BY <3>2, <3>4, <3>5 DEF Same
  <2>3. Return(buffers, TRUE) /\ active' = active BY <1>8 DEF SendSome
  <2> HIDE DEF buffers
  <2> QED BY <1>6, <2>2, <2>3
<1> QED BY <1>3, <1>4, <1>5, <1>7, <1>8

LEMMA GoesOn ==
  ASSUME OInv, \/ stack' = stack
               \/ stack # << >> /\ \E at : Goes(at)
               \/ stack # << >> /\ stack' = Front(stack) /\ Top.msg = NoMessage
               \/ stack = << >> /\ \E at : stack' = <<Call("event", NoMessage, at)>>
  PROVE  /\ Under
         /\ \A j \in DOMAIN stack :
              stack[j].msg = NoMessage \/ \E l \in DOMAIN stack' : stack'[l].msg = stack[j].msg
<1>1. IInv BY DEF OInv, SInv
<1>2. CASE stack' = stack BY <1>2 DEF Under
<1>3. CASE stack # << >> /\ \E at : Goes(at) BY <1>1, <1>3, GoesIs DEF Under
<1>4. CASE stack # << >> /\ stack' = Front(stack) /\ Top.msg = NoMessage
  <2>1. Top = stack[Len(stack)] BY <1>1, <1>4, TopType
  <2> QED BY <1>1, <1>4, <2>1, FrontIs DEF Under
<1>5. CASE stack = << >> /\ \E at : stack' = <<Call("event", NoMessage, at)>>
  <2>1. \A j \in DOMAIN stack' : stack'[j].msg = NoMessage BY <1>5 DEF Call
  <2> QED BY <1>5, <2>1 DEF Under
<1> QED BY <1>2, <1>3, <1>4, <1>5

LEMMA GoingOwned ==
  ASSUME OInv, TypeOK', ~Spoiled,
         \/ SendRest \/ Notified \/ Opened \/ WriteEvent \/ PendingTimer \/ ConnectEvent
         \/ RemoveClient \/ BuildSets \/ Select \/ PeerReads \/ PeerCloses \/ UNCHANGED vars
  PROVE  Owned' /\ ~Spoiled'
<1>1. pending \in Seq(Buffers) /\ IInv /\ Owned
  BY AllTypes DEF OInv, SInv, IInv
<1>2. accepted' = accepted
  BY DEF SendRest, Notified, Opened, WriteEvent, PendingTimer, ConnectEvent, RemoveClient,
         BuildSets, Select, PeerReads, PeerCloses, vars, stream
<1>3. \/ stack' = stack
      \/ stack # << >> /\ \E at : Goes(at)
      \/ stack # << >> /\ stack' = Front(stack) /\ Top.msg = NoMessage
      \/ stack = << >> /\ \E at : stack' = <<Call("event", NoMessage, at)>>
  <2>1. CASE Notified
    <3>1. stack # << >> BY <2>1 DEF Notified, At
    <3>2. Top = stack[Len(stack)] /\ Len(stack) \in DOMAIN stack BY <1>1, <3>1, TopType
    <3>3. Top.kind = "accept" => Top.msg = NoMessage BY <1>1, <3>2 DEF Owned
    <3> QED BY <2>1, <3>1, <3>3 DEF Notified
  <2>2. CASE SendRest BY <2>2 DEF SendRest, Sending, At
  <2>3. CASE Opened BY <2>3 DEF Opened, At
  <2>4. CASE WriteEvent \/ PendingTimer \/ ConnectEvent
    BY <2>4 DEF WriteEvent, PendingTimer, ConnectEvent
  <2>5. CASE RemoveClient \/ BuildSets \/ Select \/ PeerReads \/ PeerCloses \/ UNCHANGED vars
    BY <2>5 DEF RemoveClient, BuildSets, Select, PeerReads, PeerCloses, vars
  <2> QED BY <2>1, <2>2, <2>3, <2>4, <2>5
<1>4. \/ pending' = pending \/ pending' = << >>
      \/ pending # << >> /\ pending' = Tail(pending)
  BY DEF SendRest, Sending, Notified, Opened, WriteEvent, PendingTimer, ConnectEvent,
         RemoveClient, BuildSets, Select, PeerReads, PeerCloses, vars, client
<1>5. \A i \in DOMAIN pending' : \E k \in DOMAIN pending : pending'[i] = pending[k]
  <2>1. CASE pending' = pending \/ pending' = << >> BY <2>1
  <2>2. CASE pending # << >> /\ pending' = Tail(pending)
    <3> TAKE i \in DOMAIN pending'
    <3>1. i + 1 \in DOMAIN pending /\ pending'[i] = pending[i + 1] BY <1>1, <2>2
    <3> QED BY <3>1
  <2> QED BY <1>4, <2>1, <2>2
<1>6. Under /\ Moves
  <2>1. /\ Under
        /\ \A j \in DOMAIN stack :
             stack[j].msg = NoMessage \/ \E l \in DOMAIN stack' : stack'[l].msg = stack[j].msg
    BY <1>3, GoesOn
  <2>2. \A i \in DOMAIN pending' : \E k \in DOMAIN pending :
          /\ pending'[i].msg = pending[k].msg /\ pending'[i].first = pending[k].first
          /\ pending'[i].copy = pending[k].copy /\ pending'[i].from = pending[k].from
    BY <1>5, Zenon
  <2> QED BY <2>1, <2>2, Zenon DEF Moves
<1>7. active' => active
  BY DEF SendRest, Notified, Opened, WriteEvent, PendingTimer, ConnectEvent, RemoveClient,
         BuildSets, Select, PeerReads, PeerCloses, vars, client
<1>8. Owned' /\ (active /\ ~Spoiled => ~Spoiled') BY <1>2, <1>6, MovesOwned
<1> QED BY <1>7, <1>8 DEF Spoiled

LEMMA StepOInv ==
  OInv /\ [Next]_vars => OInv' /\ (~Spoiled /\ Spoiled' => errors' # errors \/ CopiesOver)
<1> SUFFICES ASSUME OInv, [Next]_vars
             PROVE  OInv' /\ (~Spoiled /\ Spoiled' => errors' # errors \/ CopiesOver)
  OBVIOUS
<1>1. SInv' BY StepSInv DEF OInv
<1>2. TypeOK' BY <1>1 DEF SInv, IInv
<1>3. CASE UNCHANGED vars
  <2>1. UNCHANGED <<active, pending, stack, accepted>> BY <1>3 DEF vars, client, stream
  <2>2. Owned' BY <2>1 DEF OInv, Owned
  <2>3. Shown' <=> Shown BY <2>1 DEF Shown
  <2>4. Mixed' <=> Mixed BY <2>1 DEF Mixed
  <2>5. Spoiled' <=> Spoiled
    BY <1>2, <2>1, <2>3, <2>4, SpoiledIs, SpoiledIsNext DEF OInv, SInv, IInv
  <2> QED BY <1>1, <2>2, <2>5 DEF OInv
<1>4. ASSUME ~Spoiled, NEW msg \in Messages, Write(msg)
      PROVE  Owned' /\ ~Spoiled'
  BY <1>2, <1>4, WriteOwned
<1>5. CASE ~Spoiled /\ (NothingToSend \/ NotConnected \/ WouldBlock \/ SendSome \/ SendBroken \/ SendError)
  BY <1>1, <1>2, <1>5, ReturnsOwned DEF OInv
<1>6. CASE ~Spoiled /\ (SendRest \/ Notified \/ Opened \/ WriteEvent \/ PendingTimer \/ ConnectEvent
                        \/ RemoveClient \/ BuildSets \/ Select \/ PeerReads \/ PeerCloses)
  BY <1>1, <1>2, <1>6, GoingOwned DEF OInv
<1> QED BY <1>1, <1>3, <1>4, <1>5, <1>6 DEF OInv, Next, Loop, Done

(* However writes come out of WriteComplete callbacks of other writes, a   *)
(* short write's caller gets his buffer back with the data in it pending   *)
(* only after an error of send, and a pending buffer holds another         *)
(* message's data only when doTCPWriteExx copies its own over what a       *)
(* callback left in FirstWritePending.                                     *)
THEOREM CopiedBeforeReuse == Spec => CopiedInTime
<1>1. OInv /\ [Next]_vars => [~Spoiled /\ Spoiled' => errors' # errors \/ CopiesOver]_vars
  BY StepOInv
<1> QED BY <1>1, InitOInv, StepOInv, PTL DEF Spec, CopiedInTime
=============================================================================
