--------------------------- MODULE NetworkClients ---------------------------
(***************************************************************************)
(* The life of a TCP client of netlib/network.c and netlib/tcpnetwork.c:   *)
(* taken from the available ones, opened or accepted, connected, closed,   *)
(* and made available again.  Application threads open clients; the        *)
(* network thread runs select and handles what it reports; the timer       *)
(* thread runs PendingTimer.  The callbacks of the application run in the  *)
(* last two, and may close clients and open new ones.                      *)
(*                                                                         *)
(* Two kinds of section protect the records: g.csNetwork the three lists,  *)
(* csLock of a client the client.  Both are taken again by their owner     *)
(* (CriticalSection); EnterCriticalSecNoWait never waits.  "stack" holds   *)
(* the calls a thread is in.                                               *)
(*                                                                         *)
(* Abstracted: what is read and written (TcpWrite has the writing), so     *)
(* that an established client always has a read pending or is in a         *)
(* callback; the listening client, which nobody closes; exceptional data;  *)
(* UDP; the sleep of a blocking open, which ends by itself.                *)
(*                                                                         *)
(* A statement that changes dwFlags is one step, but the |= that           *)
(* InternalRemoveClient does without csLock (RemoveLoads, RemoveStores).   *)
(* So what only csNetwork protects (the reset of that flag, network.c:     *)
(* 2822) does not mix with what csLock does.  A move from list to list is  *)
(* one step as well, also the one under no section (2803).  ClearClient    *)
(* saves csLock, zeroes it with the record and restores it (405-408); here *)
(* it leaves it alone.                                                     *)
(***************************************************************************)
EXTENDS Naturals, FiniteSets, SequencesExt

CONSTANTS
  Openers,   \* the application threads
  Net,       \* the network thread
  Timer,     \* the timer thread
  Clients,   \* the client records
  Fds,       \* the socket descriptors there are
  None,      \* nobody, NULL
  Invalid,   \* INVALID_SOCKET
  Zero,      \* descriptor 0, which a cleared record has
  Uses       \* what programs do: see UsesAssumption

(* listen: there is a listening client; clients, fds: the records and the  *)
(* descriptors there are; open: how OpenTCPClient is called, with a        *)
(* connect callback or to block; read, close: what the ReadComplete and    *)
(* the close callback do; opens, errors: how many clients are opened,      *)
(* either way, and how often socket, connect or accept fails, at most.     *)
ASSUME UsesAssumption ==
  Uses \subseteq [listen : BOOLEAN, clients : SUBSET Clients, fds : SUBSET Fds,
                  open : {"async", "block"}, read : SUBSET {"close", "open"},
                  close : SUBSET {"open"}, opens : Nat, errors : Nat]
ASSUME ClientsAssumption == IsFiniteSet(Clients)
ASSUME ThreadsAssumption ==
  Net # Timer /\ {Net, Timer, None} \cap Openers = {} /\ None \notin {Net, Timer} \cup Clients
ASSUME SocketsAssumption == {Invalid, Zero} \cap Fds = {} /\ Invalid # Zero

VARIABLES
  use,       \* which of the uses this program is; it never changes
  list,      \* g.ActiveClients, g.AvailableClients and g.ClosedClients
  flags,     \* dwFlags
  sock,      \* Socket
  calls,     \* the callbacks are set
  told,      \* history: how often the close callback ran since the record was cleared
  old,       \* it is closed and LastEvent more than two seconds ago
  network,   \* the owner of g.csNetwork
  owner,     \* the owner of csLock
  depth,     \* how often it has entered it
  stack,     \* the calls of each thread, the innermost last
  next,      \* "next" of PendingTimer
  ready,     \* the descriptors in the sets of select
  cnt,       \* how many of them select has reported that are not handled yet
  awake,     \* the network thread's sleep is or will be broken
  fds,       \* the state of the sockets
  backlog,   \* connections that wait to be accepted
  opens,     \* clients opened and connections to the listening client so far
  errors     \* failures so far

record == <<list, flags, sock, calls, told, old>>
locks == <<network, owner, depth>>
selects == <<ready, cnt, awake>>
outside == <<fds, backlog, opens, errors>>
vars == <<record, locks, stack, next, selects, outside>>

Threads == Openers \cup {Net, Timer}
States == {"ACTIVE", "AVAILABLE", "CLOSED"}
AllFlags == States \cup {"CLOSING", "WANTS", "CONNECTING", "CONNECTED", "CONNECTERROR", "READPENDING"}

(* A call: of GetFreeNetworkClient and its caller ("open", of the kind     *)
(* "async", "block" or "accept"), of InternalRemoveClient ("remove":       *)
(* "close" notifies the application and goes on with TerminateClosedClient, *)
(* "reset" only notifies, "silent" does neither), or the loop of a thread. *)
Call(op, at, c, kind) == [op |-> op, at |-> at, c |-> c, kind |-> kind, seen |-> {}]
Top(t) == Last(stack[t])
At(t, op, at) == stack[t] # << >> /\ Top(t).op = op /\ Top(t).at = at
Replaced(t, frame) == [stack[t] EXCEPT ![Len(stack[t])] = frame]
GoesWith(t, at, c) == stack' = [stack EXCEPT ![t] = Replaced(t, [Top(t) EXCEPT !.at = at, !.c = c])]
Goes(t, at) == GoesWith(t, at, Top(t).c)
Calls(t, at, frame) ==
  stack' = [stack EXCEPT ![t] = Append(Replaced(t, [Top(t) EXCEPT !.at = at]), frame)]
Returns(t) == stack' = [stack EXCEPT ![t] = Front(@)]

NoSets == [read |-> {}, write |-> {}, accept |-> FALSE]

Init ==
  /\ use \in Uses
  /\ list = [s \in States |-> IF s = "AVAILABLE" THEN SetToSeq(use.clients) ELSE << >>]
  /\ flags = [c \in Clients |-> IF c \in use.clients THEN {"AVAILABLE"} ELSE {}]
  /\ sock = [c \in Clients |-> Invalid]
  /\ calls = [c \in Clients |-> FALSE] /\ told = [c \in Clients |-> 0]
  /\ old = [c \in Clients |-> FALSE]
  /\ network = None /\ owner = [c \in Clients |-> None] /\ depth = [c \in Clients |-> 0]
  /\ stack = [t \in Threads |-> IF t = Net THEN <<Call("net", "build", None, "")>>
                                ELSE IF t = Timer THEN <<Call("timer", "idle", None, "")>>
                                ELSE << >>]
  /\ next = None
  /\ ready = NoSets /\ cnt = 0 /\ awake = FALSE
  /\ fds = [f \in Fds |-> "free"] /\ backlog = 0 /\ opens = 0 /\ errors = 0

----------------------------------------------------------------------------
(* Records and sections. *)

Flag(c, minus, plus) == flags' = [flags EXCEPT ![c] = (@ \ minus) \cup plus]

(* GrabClient, and AddActive, AddAvailable or AddClosed; "kept" are the    *)
(* flags a ClearClient before it leaves.                                   *)
Unlinked(s, c) == IF c \in Range(s) THEN RemoveAt(s, CHOOSE i \in DOMAIN s : s[i] = c) ELSE s
Moved(c, state) ==
  [s \in States |-> (IF s = state THEN <<c>> ELSE << >>) \o Unlinked(list[s], c)]
MoveTo(c, state, kept) ==
  /\ list' = Moved(c, state)
  /\ flags' = [flags EXCEPT ![c] = (kept \ States) \cup {state}]

(* Mutant: ClearClient forgets which list the client is on. *)
Cleared_All(c) == flags[c] \cap {"CLOSING"}

Cleared(c) == flags[c] \cap (States \cup {"CLOSING"})

MayTake(t, c) == owner[c] \in {None, t}
Take(t, c) == owner' = [owner EXCEPT ![c] = t] /\ depth' = [depth EXCEPT ![c] = @ + 1]
Leave(c) ==
  /\ depth' = [depth EXCEPT ![c] = @ - 1]
  /\ owner' = [owner EXCEPT ![c] = IF depth[c] = 1 THEN None ELSE @]

----------------------------------------------------------------------------
(* GetFreeNetworkClient, and the callers that open the client. *)

OpenCall == Call("open", "getfree", None, "async")

OpenTCPClient(t) ==
  /\ stack[t] = << >> /\ opens < use.opens
  /\ opens' = opens + 1
  /\ stack' = [stack EXCEPT ![t] = <<[OpenCall EXCEPT !.kind = use.open]>>]
  /\ UNCHANGED <<record, locks, next, selects, fds, backlog, errors>>

(* The first available client; it is active before its csLock is taken.    *)
GetFree(t) ==
  /\ At(t, "open", "getfree") /\ network = None
  /\ LET free == {i \in DOMAIN list["AVAILABLE"] :
                     "CLOSING" \notin flags[list["AVAILABLE"][i]]}
     IN  \/ \E i \in free :
              /\ \A j \in free : i <= j
              /\ MoveTo(list["AVAILABLE"][i], "ACTIVE", flags[list["AVAILABLE"][i]])
              /\ network' = t
              /\ GoesWith(t, "lock", list["AVAILABLE"][i])
         \/ free = {} /\ Goes(t, "again") /\ UNCHANGED <<list, flags, network>>
  /\ UNCHANGED <<sock, calls, told, old, owner, depth, next, selects, outside>>

GetLock(t) ==
  /\ At(t, "open", "lock") /\ MayTake(t, Top(t).c)
  /\ Take(t, Top(t).c)
  /\ network' = None
  /\ flags' = [flags EXCEPT ![Top(t).c] = Cleared(Top(t).c)]
  /\ sock' = [sock EXCEPT ![Top(t).c] = Zero]
  /\ calls' = [calls EXCEPT ![Top(t).c] = FALSE]
  /\ told' = [told EXCEPT ![Top(t).c] = 0]
  /\ Goes(t, "socket")
  /\ UNCHANGED <<list, old, next, selects, outside>>

(* Mutant: another try in any case. *)
GetAgain_Always(t) ==
  /\ At(t, "open", "again")
  /\ Goes(t, "getfree")
  /\ UNCHANGED <<record, locks, next, selects, outside>>

(* None is free: another try if there is one by now; else the caller gets  *)
(* NULL, and AcceptClient drops the connection.                            *)
GetAgain(t) ==
  /\ At(t, "open", "again")
  /\ IF list["AVAILABLE"] # << >>
     THEN Goes(t, "getfree") /\ UNCHANGED backlog
     ELSE /\ Returns(t)
          /\ backlog' = IF Top(t).kind = "accept" THEN backlog - 1 ELSE backlog
  /\ UNCHANGED <<record, locks, next, selects, fds, opens, errors>>

(* socket or accept fails: InternalRemoveClient does nothing without a     *)
(* socket, and the client stays active for ever.                           *)
NoSocket(t) ==
  LET c == Top(t).c
  IN  /\ At(t, "open", "socket") /\ errors < use.errors
      /\ errors' = errors + 1
      /\ backlog' = IF Top(t).kind = "accept" THEN backlog - 1 ELSE backlog
      /\ sock' = [sock EXCEPT ![c] = Invalid]
      /\ calls' = [calls EXCEPT ![c] = Top(t).kind = "accept"]
      /\ Leave(c)
      /\ Returns(t)
      /\ UNCHANGED <<list, flags, told, old, network, next, selects, fds, opens>>

(* The descriptor the system gives is one that is not open. *)
Opens(c, state) ==
  \E f \in use.fds :
     /\ fds[f] = "free"
     /\ fds' = [fds EXCEPT ![f] = state]
     /\ sock' = [sock EXCEPT ![c] = f]

(* Mutant: the network thread is not woken. *)
Connect_NoWake(t) ==
  LET c == Top(t).c
  IN  /\ At(t, "open", "socket") /\ Top(t).kind # "accept"
      /\ calls' = [calls EXCEPT ![c] = TRUE]
      /\ Flag(c, {}, {"CONNECTING"})
      /\ \/ /\ Opens(c, "connecting")
            /\ Leave(c)
            /\ IF Top(t).kind = "block" THEN Goes(t, "wait") ELSE Returns(t)
            /\ UNCHANGED errors
         \/ /\ errors < use.errors /\ errors' = errors + 1
            /\ Opens(c, "failed")
            /\ Calls(t, "failed", Call("remove", "check", c, "silent"))
            /\ UNCHANGED <<owner, depth>>
      /\ UNCHANGED <<list, told, old, network, next, selects, backlog, opens>>

(* socket and connect, which may fail at once; else csLock is left and the *)
(* network thread is woken to find out when it is done.                    *)
Connect(t) ==
  LET c == Top(t).c
  IN  /\ At(t, "open", "socket") /\ Top(t).kind # "accept"
      /\ calls' = [calls EXCEPT ![c] = TRUE]
      /\ Flag(c, {}, {"CONNECTING"})
      /\ \/ /\ Opens(c, "connecting")
            /\ Leave(c)
            /\ awake' = TRUE
            /\ IF Top(t).kind = "block" THEN Goes(t, "wait") ELSE Returns(t)
            /\ UNCHANGED errors
         \/ /\ errors < use.errors /\ errors' = errors + 1
            /\ Opens(c, "failed")
            /\ Calls(t, "failed", Call("remove", "check", c, "silent"))
            /\ UNCHANGED <<owner, depth, awake>>
      /\ UNCHANGED <<list, told, old, network, next, ready, cnt, backlog, opens>>

ConnectFailed(t) ==
  /\ At(t, "open", "failed")
  /\ Leave(Top(t).c) /\ Returns(t)
  /\ UNCHANGED <<record, network, next, selects, outside>>

(* A blocking open looks at the flags until there is an answer or          *)
(* g.dwConnectTimeout is over.  It removes the client after an error, or   *)
(* when ten seconds are over by then, connected or not; else it returns    *)
(* the client, connected or, with a shorter time-out, not.                 *)
WaitDone(t) ==
  /\ At(t, "open", "wait")
  /\ "CONNECTERROR" \notin flags[Top(t).c]
  /\ Returns(t)
  /\ UNCHANGED <<record, locks, next, selects, outside>>

WaitFailed(t) ==
  /\ At(t, "open", "wait")
  /\ stack' = [stack EXCEPT ![t] = <<Call("remove", "check", Top(t).c, "silent")>>]
  /\ UNCHANGED <<record, locks, next, selects, outside>>

(* AcceptClient, up to the callbacks. *)
Accept(t) ==
  LET c == Top(t).c
  IN  /\ At(t, "open", "socket") /\ Top(t).kind = "accept"
      /\ Opens(c, "up")
      /\ backlog' = backlog - 1
      /\ calls' = [calls EXCEPT ![c] = TRUE]
      /\ Flag(c, {}, {"CONNECTED"})
      /\ Goes(t, "callback")
      /\ UNCHANGED <<list, told, old, locks, next, selects, opens, errors>>

AcceptDone(t) ==
  /\ At(t, "open", "leave")
  /\ Leave(Top(t).c) /\ Returns(t)
  /\ UNCHANGED <<record, network, next, selects, outside>>

----------------------------------------------------------------------------
(* InternalRemoveClient and TerminateClosedClient. *)

(* What follows if there is nothing to remove. *)
Closes(t) ==
  IF Top(t).kind = "close" /\ "CLOSED" \in flags[Top(t).c] THEN Goes(t, "terminate") ELSE Returns(t)

(* The flags are read before any section is taken.  Nothing is done        *)
(* without a socket; an available client only goes to the head of its list *)
(* again; a closed one stays.  An active one is marked as waited for, and  *)
(* who has its csLock is alone with its flags.                             *)
RemoveCheck(t) ==
  LET c == Top(t).c
  IN  /\ At(t, "remove", "check")
      /\ IF sock[c] # Invalid /\ "ACTIVE" \in flags[c]
         THEN /\ IF owner[c] = t THEN Flag(c, {}, {"WANTS"}) /\ Goes(t, "enter")
                                 ELSE Goes(t, "mark") /\ UNCHANGED flags
              /\ UNCHANGED list
         ELSE /\ Closes(t)
              /\ IF sock[c] # Invalid /\ "AVAILABLE" \in flags[c]
                 THEN MoveTo(c, "AVAILABLE", flags[c])
                 ELSE UNCHANGED <<list, flags>>
      /\ UNCHANGED <<sock, calls, told, old, locks, next, selects, outside>>

(* Without csLock dwFlags |= CF_WANTS_GLOBAL_LOCK is a load and a store    *)
(* under no section: what others do to the flags in between is undone.     *)
RemoveLoads(t) ==
  /\ At(t, "remove", "mark")
  /\ stack' = [stack EXCEPT ![t] = Replaced(t, [Top(t) EXCEPT !.at = "store", !.seen = flags[Top(t).c]])]
  /\ UNCHANGED <<record, locks, next, selects, outside>>

RemoveStores(t) ==
  /\ At(t, "remove", "store")
  /\ flags' = [flags EXCEPT ![Top(t).c] = Top(t).seen \cup {"WANTS"}]
  /\ stack' = [stack EXCEPT ![t] = Replaced(t, [Top(t) EXCEPT !.at = "enter", !.seen = {}])]
  /\ UNCHANGED <<list, sock, calls, told, old, locks, next, selects, outside>>

(* The application is told, but not twice, and not if there is no callback. *)
Notifies(t) == Top(t).kind # "silent" /\ "CLOSING" \notin flags[Top(t).c]
Tells(t) == Notifies(t) /\ calls[Top(t).c]

RemoveEntered(t) ==
  LET c == Top(t).c
  IN  /\ Flag(c, {"WANTS"}, IF Notifies(t) THEN {"CLOSING"} ELSE {})
      /\ told' = [told EXCEPT ![c] = IF Tells(t) THEN @ + 1 ELSE @]
      /\ Goes(t, IF Tells(t) THEN "callback" ELSE "close")

(* Mutant: the client's section is not asked for. *)
RemoveEnters_NoLock(t) ==
  /\ At(t, "remove", "enter") /\ network = None
  /\ RemoveEntered(t)
  /\ depth' = [depth EXCEPT ![Top(t).c] = @ + 1]
  /\ UNCHANGED <<list, sock, calls, old, network, owner, next, selects, outside>>

(* Mutant: the client is made available before the callback. *)
RemoveEnters_FreedFirst(t) ==
  LET c == Top(t).c
  IN  /\ At(t, "remove", "enter") /\ network = None /\ MayTake(t, c)
      /\ Take(t, c)
      /\ MoveTo(c, "AVAILABLE", {})
      /\ told' = [told EXCEPT ![c] = IF Tells(t) THEN @ + 1 ELSE @]
      /\ Goes(t, IF Tells(t) THEN "callback" ELSE "close")
      /\ UNCHANGED <<sock, calls, old, network, next, selects, outside>>

(* csNetwork, csLock without waiting, csNetwork left, and the callback. *)
RemoveEnters(t) ==
  /\ At(t, "remove", "enter") /\ network = None /\ MayTake(t, Top(t).c)
  /\ Take(t, Top(t).c)
  /\ RemoveEntered(t)
  /\ UNCHANGED <<list, sock, calls, old, network, next, selects, outside>>

(* csLock is taken: csNetwork is left, and all is tried again. *)
RemoveRetries(t) ==
  /\ At(t, "remove", "enter") /\ network = None /\ ~MayTake(t, Top(t).c)
  /\ Flag(Top(t).c, {"WANTS"}, {})
  /\ Goes(t, "mark")
  /\ UNCHANGED <<list, sock, calls, told, old, locks, next, selects, outside>>

(* csNetwork is entered with csLock held, after the callback if there is   *)
(* one.  TerminateClosedClient looks at the flag before it enters it.      *)
RemoveCloses(t) ==
  LET c == Top(t).c
  IN  /\ At(t, "remove", "close") \/ At(t, "remove", "callback")
      /\ network = None
      /\ MoveTo(c, "CLOSED", flags[c])
      /\ old' = [old EXCEPT ![c] = FALSE]
      /\ Leave(c)
      /\ IF Top(t).kind = "close" THEN Goes(t, "terminate") ELSE Returns(t)
      /\ UNCHANGED <<sock, calls, told, network, next, selects, outside>>

(* Mutant: the socket is left open when the other side has closed it. *)
Closed_NotTwice(c) ==
  fds' = [f \in Fds |-> IF fds[f] # "closed" /\ sock[c] = f THEN "free" ELSE fds[f]]

Closed(c) == fds' = [f \in Fds |-> IF sock[c] = f THEN "free" ELSE fds[f]]

(* The socket is closed and the record cleared and made available; with    *)
(* CLOSING cleared as well nothing but that is left of the flags.          *)
Terminated(c) ==
  /\ Closed(c)
  /\ MoveTo(c, "AVAILABLE", {})
  /\ sock' = [sock EXCEPT ![c] = Zero]
  /\ calls' = [calls EXCEPT ![c] = FALSE]
  /\ told' = [told EXCEPT ![c] = 0]
  /\ old' = [old EXCEPT ![c] = FALSE]

Terminate(t) ==
  /\ At(t, "remove", "terminate") /\ network = None
  /\ Terminated(Top(t).c)
  /\ Returns(t)
  /\ UNCHANGED <<locks, next, selects, backlog, opens, errors>>

----------------------------------------------------------------------------
(* The callbacks of the application.  ReadComplete runs in an event, in    *)
(* PendingTimer or in AcceptClient; it may close the client, or leaves     *)
(* another read pending.                                                   *)

InRead(t) == stack[t] # << >> /\ Top(t).op # "remove" /\ Top(t).at \in {"callback", "closed"}

ReadCloses(t) ==
  /\ InRead(t) /\ Top(t).at = "callback" /\ "close" \in use.read
  /\ Calls(t, "closed", Call("remove", "check", Top(t).c, "close"))
  /\ UNCHANGED <<record, locks, next, selects, outside>>

CallbackOpens(t) ==
  /\ \/ InRead(t) /\ "open" \in use.read
     \/ At(t, "remove", "callback") /\ "open" \in use.close
  /\ opens < use.opens
  /\ opens' = opens + 1
  /\ Calls(t, Top(t).at, OpenCall)
  /\ UNCHANGED <<record, locks, next, selects, fds, backlog, errors>>

ReadReturns(t) ==
  /\ InRead(t)
  /\ IF Top(t).at = "callback" THEN Flag(Top(t).c, {}, {"READPENDING"}) ELSE UNCHANGED flags
  /\ Goes(t, "leave")
  /\ UNCHANGED <<list, sock, calls, told, old, locks, next, selects, outside>>

(* FinishPendingRead: no data, data for ReadComplete, or the end of the    *)
(* connection, for which the client is removed.                            *)
FinishPendingRead(t, c, kind) ==
  LET state == IF sock[c] \in Fds THEN fds[sock[c]] ELSE "free"
      pending == {"CONNECTED", "READPENDING"} \subseteq flags[c]
  IN  \/ /\ ~pending \/ state = "up"
         /\ GoesWith(t, "leave", c) /\ UNCHANGED flags
      \/ /\ pending /\ state = "up"
         /\ Flag(c, {"READPENDING"}, {})
         /\ GoesWith(t, "callback", c)
      \/ /\ pending /\ state # "up"
         /\ stack' = [stack EXCEPT ![t] = Append(Replaced(t, [Top(t) EXCEPT !.at = "leave", !.c = c]),
                                                Call("remove", "check", c, kind))]
         /\ UNCHANGED flags

----------------------------------------------------------------------------
(* The network thread. *)

Watched(fs) == {sock[c] : c \in {d \in Range(list["ACTIVE"]) : fs \cap flags[d] # {}}} \cap Fds
NoSockets == ~use.listen /\ \A c \in Range(list["ACTIVE"]) : sock[c] = Invalid

(* The sets for select; without any socket it sleeps until it is woken. *)
Build ==
  /\ At(Net, "net", "build") /\ network = None
  /\ ready' = [read |-> Watched({"READPENDING"}), write |-> Watched({"CONNECTING"}),
               accept |-> use.listen]
  /\ Goes(Net, IF NoSockets THEN "asleep" ELSE "select")
  /\ UNCHANGED <<record, locks, next, cnt, awake, outside>>

WakeUp ==
  /\ At(Net, "net", "asleep") /\ awake
  /\ awake' = FALSE
  /\ Goes(Net, "build")
  /\ UNCHANGED <<record, locks, next, ready, cnt, outside>>

Rebuilds == GoesWith(Net, "build", None) /\ ready' = NoSets /\ cnt' = 0

(* select returns when something is ready, or after five seconds; a        *)
(* descriptor that is not open any more makes it fail.                     *)
Select ==
  /\ At(Net, "net", "select")
  /\ \E data \in SUBSET {f \in ready.read : fds[f] = "up"} :
       LET sets == [read |-> data \cup {f \in ready.read : fds[f] = "closed"},
                    write |-> {f \in ready.write : fds[f] # "connecting"},
                    accept |-> ready.accept /\ backlog > 0]
           count == Cardinality(sets.read) + Cardinality(sets.write)
                      + IF sets.accept THEN 1 ELSE 0
       IN  IF (\E f \in ready.read \cup ready.write : fds[f] = "free") \/ count = 0
           THEN Rebuilds
           ELSE Goes(Net, "scan") /\ ready' = sets /\ cnt' = count
  /\ UNCHANGED <<record, locks, next, awake, outside>>

Hit(c) == sock[c] \in ready.read \cup ready.write

(* CONNECTED is set before the result of the connect is known. *)
WriteEvent(c) ==
  IF "CONNECTING" \in flags[c]
  THEN Flag(c, {"CONNECTING"}, {"CONNECTED"}) /\ GoesWith(Net, "connected", c)
  ELSE GoesWith(Net, "leave", c) /\ UNCHANGED flags

(* The places of the active clients that the scan does not pass by. *)
Seen == {i \in DOMAIN list["ACTIVE"] :
           LET c == list["ACTIVE"][i]
           IN  sock[c] # Invalid /\ ("WANTS" \in flags[c] \/ Hit(c))}
FirstSeen(c) == \E i \in Seen : c = list["ACTIVE"][i] /\ \A j \in Seen : i <= j

(* Mutant: the client's section is left to whoever has it. *)
Scan_NoLock ==
  /\ At(Net, "net", "scan") /\ network = None
  /\ \/ Seen = {} /\ Rebuilds /\ UNCHANGED <<flags, owner, depth>>
     \/ \E c \in Range(list["ACTIVE"]) :
          /\ FirstSeen(c) /\ "WANTS" \notin flags[c]
          /\ Take(Net, c)
          /\ IF sock[c] \in ready.read THEN FinishPendingRead(Net, c, "close") ELSE WriteEvent(c)
          /\ UNCHANGED <<ready, cnt>>
  /\ UNCHANGED <<list, sock, calls, told, old, network, next, awake, outside>>

(* The first active client that is in the sets, with its csLock, and what  *)
(* has happened to it (what is on the list is active, so that the code's   *)
(* second look at CF_ACTIVE finds it set); the scan starts again while its *)
(* csLock is taken, or a client before it is wanted by a thread that waits *)
(* for csNetwork.                                                          *)
Scan ==
  /\ At(Net, "net", "scan") /\ network = None
  /\ \/ Seen = {} /\ Rebuilds /\ UNCHANGED <<flags, owner, depth>>
     \/ \E c \in Range(list["ACTIVE"]) :
          /\ FirstSeen(c) /\ "WANTS" \notin flags[c] /\ MayTake(Net, c)
          /\ Take(Net, c)
          /\ IF sock[c] \in ready.read THEN FinishPendingRead(Net, c, "close") ELSE WriteEvent(c)
          /\ UNCHANGED <<ready, cnt>>
  /\ UNCHANGED <<list, sock, calls, told, old, network, next, awake, outside>>

(* The listening client is in the list as well. *)
AcceptClient ==
  /\ At(Net, "net", "scan") /\ network = None /\ ready.accept
  /\ cnt' = cnt - 1
  /\ ready' = IF cnt = 1 THEN NoSets ELSE [ready EXCEPT !.accept = FALSE]
  /\ Calls(Net, IF cnt = 1 THEN "build" ELSE "scan", [OpenCall EXCEPT !.kind = "accept"])
  /\ UNCHANGED <<record, locks, next, awake, outside>>

(* ReadComplete is called for the first time.  After an error the          *)
(* descriptor stays in the write set and the count.                        *)
Connected ==
  LET c == Top(Net).c
  IN  /\ At(Net, "net", "connected")
      /\ IF sock[c] \in Fds /\ fds[sock[c]] = "failed"
         THEN Flag(c, {}, {"CONNECTERROR"}) /\ Leave(c) /\ GoesWith(Net, "scan", None)
         ELSE Goes(Net, "callback") /\ UNCHANGED <<flags, owner, depth>>
      /\ UNCHANGED <<list, sock, calls, told, old, network, next, selects, outside>>

(* FD_CLR of the socket the client has by now. *)
EventDone ==
  LET c == Top(Net).c
  IN  /\ At(Net, "net", "leave")
      /\ Leave(c)
      /\ IF cnt = 1 THEN Rebuilds
         ELSE /\ cnt' = cnt - 1
              /\ ready' = IF sock[c] \in ready.read THEN [ready EXCEPT !.read = @ \ {sock[c]}]
                       ELSE [ready EXCEPT !.write = @ \ {sock[c]}]
              /\ GoesWith(Net, "scan", None)
      /\ UNCHANGED <<record, network, next, awake, outside>>

NetStep ==
  Build \/ WakeUp \/ Select \/ Scan \/ AcceptClient \/ Connected \/ EventDone

----------------------------------------------------------------------------
(* PendingTimer: every five seconds, or sooner when no client was free. *)

HeadOf(state) == IF list[state] = << >> THEN None ELSE Head(list[state])

(* pc->next, in whatever list the client is. *)
After(c) ==
  LET s == CHOOSE s \in States : c \in Range(list[s])
      i == CHOOSE i \in DOMAIN list[s] : list[s][i] = c
  IN  IF i = Len(list[s]) THEN None ELSE list[s][i + 1]

(* LeaveCriticalSec of a section the thread is not in does nothing. *)
TimerLeavesNetwork == network' = IF network = Timer THEN None ELSE network

TimerStart ==
  /\ At(Timer, "timer", "idle") /\ network = None
  /\ network' = Timer
  /\ GoesWith(Timer, "walk", HeadOf("ACTIVE"))
  /\ UNCHANGED <<record, owner, depth, next, selects, outside>>

(* A client whose csLock is free is looked at without csNetwork. *)
TimerWalk ==
  LET c == Top(Timer).c
  IN  /\ At(Timer, "timer", "walk") /\ c # None
      /\ IF sock[c] # Invalid /\ MayTake(Timer, c)
         THEN /\ Take(Timer, c)
              /\ next' = After(c)
              /\ TimerLeavesNetwork
              /\ IF "ACTIVE" \in flags[c] THEN FinishPendingRead(Timer, c, "reset")
                                          ELSE Goes(Timer, "restart") /\ UNCHANGED flags
         ELSE /\ GoesWith(Timer, "walk", After(c))
              /\ UNCHANGED <<owner, depth, network, next, flags>>
      /\ UNCHANGED <<list, sock, calls, told, old, selects, outside>>

(* The client has left the active list, as "next" may have while csNetwork *)
(* was left: the walk starts again, but without csNetwork.                 *)
TimerRestart ==
  /\ At(Timer, "timer", "restart")
  /\ Leave(Top(Timer).c)
  /\ GoesWith(Timer, "walk", HeadOf("ACTIVE"))
  /\ next' = None
  /\ UNCHANGED <<record, network, selects, outside>>

TimerLeaves ==
  /\ At(Timer, "timer", "leave")
  /\ Leave(Top(Timer).c)
  /\ Goes(Timer, "left")
  /\ UNCHANGED <<record, network, next, selects, outside>>

TimerNext ==
  /\ At(Timer, "timer", "left") /\ network = None
  /\ network' = Timer
  /\ GoesWith(Timer, "walk", next) /\ next' = None
  /\ UNCHANGED <<record, owner, depth, selects, outside>>

(* In the end, the clients that have been closed for two seconds. *)
TimerWalksClosed ==
  /\ At(Timer, "timer", "walk") /\ Top(Timer).c = None
  /\ GoesWith(Timer, "closing", HeadOf("CLOSED"))
  /\ UNCHANGED <<record, locks, next, selects, outside>>

TimerCloses ==
  LET c == Top(Timer).c
  IN  /\ At(Timer, "timer", "closing") /\ c # None
      /\ IF old[c] /\ "CLOSED" \in flags[c]
         THEN network \in {None, Timer} /\ Terminated(c)
         ELSE UNCHANGED <<record, fds>>
      /\ GoesWith(Timer, "closing", After(c))
      /\ UNCHANGED <<locks, next, selects, backlog, opens, errors>>

TimerEnds ==
  /\ At(Timer, "timer", "closing") /\ Top(Timer).c = None
  /\ TimerLeavesNetwork
  /\ Goes(Timer, "idle")
  /\ UNCHANGED <<record, owner, depth, next, selects, outside>>

TimerStep ==
  TimerStart \/ TimerWalk \/ TimerRestart \/ TimerLeaves \/ TimerNext
  \/ TimerWalksClosed \/ TimerCloses \/ TimerEnds

----------------------------------------------------------------------------
(* The system and the other sides of the connections. *)

Established(f) == fds[f] = "connecting" /\ fds' = [fds EXCEPT ![f] = "up"]
Refused(f) ==
  /\ fds[f] = "connecting" /\ errors < use.errors
  /\ fds' = [fds EXCEPT ![f] = "failed"]
  /\ errors' = errors + 1
PeerCloses(f) == fds[f] = "up" /\ fds' = [fds EXCEPT ![f] = "closed"]

Peer ==
  /\ \E f \in Fds : \/ (Established(f) \/ PeerCloses(f)) /\ UNCHANGED <<backlog, opens, errors>>
                    \/ Refused(f) /\ UNCHANGED <<backlog, opens>>
  /\ UNCHANGED <<record, locks, stack, next, selects>>

(* A connection to the listening client. *)
PeerConnects ==
  /\ use.listen /\ opens < use.opens
  /\ backlog' = backlog + 1 /\ opens' = opens + 1
  /\ UNCHANGED <<record, locks, stack, next, selects, fds, errors>>

(* Two seconds after it was closed.  In that time the thread that closes a *)
(* client gets to terminate it, and the network thread to handle what      *)
(* select had reported (an assumption about time, as the code makes it).   *)
TwoSeconds(c) ==
  /\ c \in Range(list["CLOSED"]) /\ ~old[c]
  /\ ~ \E t \in Threads : At(t, "remove", "terminate") /\ Top(t).c = c
  /\ sock[c] \notin ready.read \cup ready.write
  /\ old' = [old EXCEPT ![c] = TRUE]
  /\ UNCHANGED <<list, flags, sock, calls, told, locks, stack, next, selects, outside>>

----------------------------------------------------------------------------
(* What a thread does as a caller, and as itself.                          *)
OpenStep(t) ==
  \/ GetFree(t) \/ GetLock(t) \/ GetAgain(t) \/ NoSocket(t) \/ Connect(t) \/ ConnectFailed(t)
  \/ WaitDone(t) \/ WaitFailed(t) \/ Accept(t) \/ AcceptDone(t)
RemoveStep(t) ==
  \/ RemoveCheck(t) \/ RemoveLoads(t) \/ RemoveStores(t) \/ RemoveEnters(t) \/ RemoveCloses(t)
  \/ Terminate(t)
CallbackStep(t) == ReadCloses(t) \/ CallbackOpens(t) \/ ReadReturns(t)

Step(t) ==
  \/ OpenStep(t) \/ RemoveStep(t) \/ CallbackStep(t)
  \/ t = Net /\ NetStep
  \/ t = Timer /\ TimerStep

Next ==
  /\ \/ \E t \in Openers : OpenTCPClient(t)
     \/ \E t \in Threads : Step(t) \/ RemoveRetries(t)
     \/ Peer \/ PeerConnects
     \/ \E c \in Clients : TwoSeconds(c)
  /\ UNCHANGED use

(* Threads go on, PendingTimer is periodic, and time passes.  A thread     *)
(* that waits for a section gets it between the others, hence strong       *)
(* fairness, and one that tries again and again gets it in the end: both   *)
(* are so while the section is not Contended.  A thread is at one place,   *)
(* so that it is fair to the step it waits for.                            *)
Fairness ==
  /\ \A t \in Threads : SF_stack(Step(t))
  /\ <>[][\A t \in Threads : ~RemoveRetries(t)]_stack
  /\ SF_old(\E c \in Clients : TwoSeconds(c))

Spec == Init /\ [][Next]_<<use, vars>> /\ Fairness

----------------------------------------------------------------------------
(* Properties. *)

(* A blocking open that has given up closes c, without its csLock. *)
RemovedUnheld(c) ==
  \E t \in Openers : stack[t] # << >> /\ stack[t][1].op = "remove" /\ stack[t][1].c = c

OnlyOn(c, s) == \A r \in States : c \in Range(list[r]) <=> r = s

(* A client is on one list, once; and its state flag names the list, but   *)
(* while a blocking open closes the client, who does not have its csLock   *)
(* and may write back flags that are out of date (RemoveStores).           *)
OnItsList ==
  /\ \A s \in States : IsInjective(list[s])
  /\ \A c \in use.clients : \E s \in States :
       OnlyOn(c, s) /\ (RemovedUnheld(c) \/ flags[c] \cap States = {s})

(* Every open socket belongs to one client, which is active or closed: no  *)
(* descriptor is lost, closed twice or shared.                             *)
SocketsOwned ==
  \A f \in Fds : fds[f] # "free" <=>
    \E c \in Range(list["ACTIVE"]) \cup Range(list["CLOSED"]) :
      \A d \in Clients : sock[d] = f <=> d = c

(* The close callback runs at most once, by the thread that has csLock,    *)
(* before the client leaves the active list.                               *)
ToldInTime ==
  \A c \in Clients :
    /\ told[c] <= 1
    /\ \A t \in Threads : At(t, "remove", "callback") /\ Top(t).c = c
                            => owner[c] = t /\ c \in Range(list["ACTIVE"])

(* Nobody takes a client off the active list but the thread that has its   *)
(* csLock: not while another one handles an event of it or opens it.       *)
HolderCloses ==
  [][\A c \in Range(list["ACTIVE"]) \ Range(list'["ACTIVE"]) :
       owner[c] # None /\ stack'[owner[c]] # stack[owner[c]]]_vars

(* The call is removing c and has csNetwork still to enter. *)
RemovesHeld(t, c) == (At(t, "remove", "close") \/ At(t, "remove", "callback")) /\ Top(t).c = c

(* The thread that opens a client waits for its csLock with csNetwork; it  *)
(* never waits for one that waits for csNetwork ("oterhwise we'll deadlock *)
(* the closing client", network.c:2123).                                   *)
OpenWaitsSafely ==
  \A t, u \in Threads :
    At(t, "open", "lock") /\ owner[Top(t).c] = u => u = t \/ ~RemovesHeld(u, Top(t).c)

(* The thread enters csNetwork next, or is in it. *)
AtNetwork(t) ==
  \/ network = t
  \/ At(t, "open", "getfree")
  \/ \E at \in {"enter", "callback", "close", "terminate"} : At(t, "remove", at)
  \/ At(t, "net", "build") \/ At(t, "net", "scan")
  \/ At(t, "timer", "idle") \/ At(t, "timer", "left") \/ At(t, "timer", "closing")

(* Where a section may forget who waits for it (CriticalSection): two      *)
(* threads wait for a third; PendingTimer, which keeps no prior waiter,    *)
(* tries the csLock another one waits for.                                 *)
Contended ==
  \/ Cardinality({t \in Threads : AtNetwork(t)}) > 2
  \/ \E t \in Threads : /\ At(t, "open", "lock") /\ At(Timer, "timer", "walk")
                        /\ Top(Timer).c = Top(t).c

SocketIs(c, states) == sock[c] \in Fds /\ fds[sock[c]] \in states

(* Something is to be done for a client: its connect is done or has        *)
(* failed; the other side has closed while a read is pending; it is closed *)
(* and to be made available again.                                         *)
Due(c) ==
  \/ "CONNECTING" \in flags[c] /\ SocketIs(c, {"up", "failed", "closed"})
  \/ "READPENDING" \in flags[c] /\ SocketIs(c, {"closed"})
  \/ c \in Range(list["CLOSED"])

(* It is done: the network thread is awake when there is something to      *)
(* watch, it does not wait for ever for a section, and a client that is    *)
(* closed is terminated by one thread or another.                          *)
DoneInTheEnd == []~Contended => \A c \in Clients : Due(c) ~> ~Due(c)

(* OpenTCPClient returns, if no section is ever contended. *)
CallsReturn == []~Contended => \A t \in Openers : stack[t] # << >> ~> stack[t] = << >>
=============================================================================
