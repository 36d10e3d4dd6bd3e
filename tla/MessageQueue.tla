--------------------------- MODULE MessageQueue ---------------------------
(***************************************************************************)
(* The message queues of typelib/msgqueue.c: messages of different lengths *)
(* in a ring of fixed size in shared memory, read by message ID, and a     *)
(* ring of the threads that sleep until a message for them is posted.      *)
(*                                                                         *)
(* Every call holds the queue's critical section (CriticalSection) from    *)
(* its first access to its sleep or its return, so a call is one step, or  *)
(* two when it sleeps.  Positions and lengths are counted in words of four *)
(* bytes: "len" is the realsize of a message, its header included.         *)
(*                                                                         *)
(* Abstracted: the contents of messages; words that no walk from Bottom to *)
(* Top reads, which are forgotten, among them what a refused EnqueMsg      *)
(* leaves at Top; posts marked MSGQUE_WAIT_ID and changes of *MsgID during *)
(* a sleep, which no caller makes.  The thread that posts only matters     *)
(* when it also reads, so posts have no thread.                            *)
(***************************************************************************)
EXTENDS Naturals, SequencesExt

CONSTANTS
  Size,       \* Size of the queue
  Hdr,        \* sizeof( MSGDATA )
  Messages,   \* what is posted: [id |-> its MsgID, len |-> its realsize]
  Threads,    \* the threads that read
  Blocks,     \* for each thread, its reads without MSGQUE_NOWAIT:
              \* [id |-> the ID asked for, buffer |-> the size]
  Polls,      \* the reads with MSGQUE_NOWAIT
  Slots,      \* the number of waiters[] (1024 in the code)
  NoMessage,  \* no message
  None        \* no thread

ASSUME SizesAssumption ==
  /\ Size \in Nat /\ Hdr \in Nat \ {0} /\ 4 * Hdr <= Size
  /\ Slots \in Nat \ {0}
ASSUME MessagesAssumption ==
  /\ Messages \subseteq [id : Nat \ {0}, len : Nat] /\ \A msg \in Messages : msg.len >= Hdr
  /\ NoMessage \notin [id : Nat, len : Nat]
ASSUME ReadersAssumption ==
  /\ None \notin Threads
  /\ Polls \subseteq [id : Nat, buffer : Nat]
  /\ Blocks \in [Threads -> SUBSET [id : Nat, buffer : Nat]]

VARIABLES
  bottom,    \* Bottom: the oldest message
  top,       \* Top: where the next one goes
  mem,       \* the headers between Bottom and Top, by position
  waiters,   \* waiters
  wbottom,   \* waiter_bottom
  wtop,      \* waiter_top
  section,   \* the thread that keeps the critical section for ever
  pc,        \* "idle", "asleep" in DequeMsg, "stuck" in it
  call,      \* the ID and the buffer of the thread's blocking read
  sem,       \* the thread's wake-up semaphore is non-zero
  out        \* what the last read returned

ring == <<bottom, top, mem>>
queue == <<waiters, wbottom, wtop>>
vars == <<ring, queue, section, pc, call, sem, out>>

Reads == Polls \cup UNION {Blocks[t] : t \in Threads}
Ids == {0} \cup {read.id : read \in Reads}
Entries == [me : Threads \cup {None}, msg : Ids]
NoEntry == [me |-> None, msg |-> 0]
NoCall == [id |-> 0, buffer |-> 0]
Headers == [id : Nat, len : Nat, read : BOOLEAN, end : BOOLEAN]
NoHeader == [id |-> 0, len |-> 0, read |-> FALSE, end |-> FALSE]

(* SackCreateMsgQueue: the space is created zeroed. *)
Init ==
  /\ bottom = 0 /\ top = 0 /\ mem = [p \in 0 .. Size - 1 |-> NoHeader]
  /\ waiters = [i \in 0 .. Slots - 1 |-> NoEntry] /\ wbottom = 0 /\ wtop = 0
  /\ section = None
  /\ pc = [t \in Threads |-> "idle"]
  /\ call = [t \in Threads |-> NoCall]
  /\ sem = [t \in Threads |-> FALSE]
  /\ out = NoMessage

----------------------------------------------------------------------------
(* Walking the ring. *)

IsHeader(p, m) == p < Size /\ m[p] # NoHeader

(* The message after the one at p: MARK_END_OF_QUE returns to the start. *)
After(p, m) == IF m[p].end THEN 0 ELSE p + m[p].len

(* The positions a walk from b visits, until it is at t or finds no header *)
(* where it is; it cannot meet more than Size headers.                     *)
Walk(b, t, m) ==
  LET walk[n \in 0 .. Size] ==
        [p \in Nat |-> IF n = 0 \/ p = t \/ ~IsHeader(p, m) THEN <<p>>
                       ELSE <<p>> \o walk[n - 1][After(p, m)]]
  IN  walk[Size][b]

(* The ring is intact when the headers lead from Bottom to Top. *)
Intact == Last(Walk(bottom, top, mem)) = top

(* The memory m without the headers elsewhere than at the places kept. *)
Only(m) ==
  [kept \in SUBSET Nat |-> [p \in 0 .. Size - 1 |-> IF p \in kept THEN m[p] ELSE NoHeader]]

(* What is left of the memory m for walks from b to t. *)
Visited(b, t, m) == Only(m)[Range(Walk(b, t, m)) \ {t}]

----------------------------------------------------------------------------
(* EnqueMsg. *)

ExactFit(len) == top + len = Size

(* Mutant: the header that returns to the start would just not fit. *)
TooNear_Late(len) == top + len # Size /\ top + len > Size - Hdr

TooNear(len) == top + len # Size /\ top + len >= Size - Hdr
StoreAt(len) == IF TooNear(len) THEN 0 ELSE top
NewTop(len) == IF ExactFit(len) THEN 0 ELSE StoreAt(len) + len

(* Mutant: Bottom may be where the new Top is: a full ring looks empty. *)
NoRoom_Full(len) ==
  \/ TooNear(len) /\ bottom <= len
  \/ ~ExactFit(len) /\ ~TooNear(len) /\ top < bottom /\ bottom < NewTop(len)

(* No room: the caller leaves the section and tries again. *)
NoRoom(len) ==
  \/ TooNear(len) /\ bottom <= len
  \/ ~ExactFit(len) /\ ~TooNear(len) /\ top < bottom /\ bottom < NewTop(len)
  \/ NewTop(len) = bottom

(* What is left at Top when the message goes to the start of the ring. *)
Junk == [id |-> 0, len |-> 0, read |-> TRUE, end |-> TRUE]

(* The new message overwrites what was in its place. *)
Stored(msg) ==
  LET at == StoreAt(msg.len)
      header == [id |-> msg.id, len |-> msg.len, read |-> FALSE, end |-> ExactFit(msg.len)]
  IN  [p \in 0 .. Size - 1 |->
        CASE p = at -> header
          [] p \in at + 1 .. at + msg.len - 1 -> NoHeader
          [] p = top /\ TooNear(msg.len) -> Junk
          [] OTHER -> mem[p]]

----------------------------------------------------------------------------
(* The sleeping threads. *)

Next1(i) == IF i + 1 >= Slots THEN 0 ELSE i + 1
Previous(i) == IF i = 0 THEN Slots - 1 ELSE i - 1
Ahead(i, b) == IF i < b THEN i + Slots - b ELSE i - b
InQueue(i, b) == Ahead(i, b) < Ahead(wtop, b)

(* Mutant: only an entry that moves counts as found. *)
CollapseTurn_FindsMoved(s, id) ==
  LET entry == s.w[s.next]
      goes == entry.me = None \/ (id # 0 /\ entry.msg = id)
  IN  [w |-> IF ~goes /\ s.marked THEN [s.w EXCEPT ![s.tmp] = entry] ELSE s.w,
       tmp |-> IF goes THEN (IF s.marked THEN s.tmp ELSE s.next)
               ELSE IF s.marked THEN Previous(s.tmp) ELSE s.tmp,
       marked |-> s.marked \/ goes,
       found |-> s.found \/ (~goes /\ s.marked),
       bottom |-> IF goes THEN Next1(s.bottom) ELSE s.bottom,
       next |-> Previous(s.next)]

(* One turn of CollapseWaiting, from the newest entry back to the oldest:  *)
(* an entry that goes makes the first hole ("marked"), one that stays      *)
(* moves into the hole "tmp", which moves back with it.                    *)
CollapseTurn(s, id) ==
  LET entry == s.w[s.next]
      goes == entry.me = None \/ (id # 0 /\ entry.msg = id)
  IN  [w |-> IF ~goes /\ s.marked THEN [s.w EXCEPT ![s.tmp] = entry] ELSE s.w,
       tmp |-> IF goes THEN (IF s.marked THEN s.tmp ELSE s.next)
               ELSE IF s.marked THEN Previous(s.tmp) ELSE s.tmp,
       marked |-> s.marked \/ goes,
       found |-> s.found \/ ~goes,
       bottom |-> IF goes THEN Next1(s.bottom) ELSE s.bottom,
       next |-> Previous(s.next)]

CollapseStates ==
  [w : [0 .. Slots - 1 -> Entries], tmp : 0 .. Slots - 1, marked : BOOLEAN, found : BOOLEAN,
   bottom : 0 .. Slots - 1, next : 0 .. Slots - 1]

(* CollapseWaiting: the entries w without those of no thread and those     *)
(* that wait for "id"; slots out of use are cleared, nothing reads them.   *)
Collapse(w, id) ==
  LET start == [w |-> w, tmp |-> Previous(wtop), marked |-> FALSE, found |-> FALSE,
                bottom |-> wbottom, next |-> Previous(wtop)]
      turn[s \in CollapseStates] == CollapseTurn(s, id)
      loop[n \in 0 .. Slots] == IF n = 0 THEN start ELSE turn[loop[n - 1]]
  IN  \E end \in {loop[Ahead(wtop, wbottom)]} :
        /\ wbottom' = IF ~end.found THEN wtop
                      ELSE IF end.marked THEN end.bottom ELSE wbottom
        /\ waiters' = [i \in 0 .. Slots - 1 |-> IF InQueue(i, wbottom') THEN end.w[i] ELSE NoEntry]
        /\ UNCHANGED wtop

(* The entries ScanForWaiting wakes: those that wait for this ID or any. *)
Woken(id) == {i \in DOMAIN waiters : /\ InQueue(i, wbottom) /\ waiters[i].me # None
                                     /\ waiters[i].msg \in {0, id}}

ScanForWaiting(id) ==
  LET woken == Woken(id)
      w == [i \in DOMAIN waiters |-> IF i \in woken THEN [waiters[i] EXCEPT !.me = None]
                                     ELSE waiters[i]]
  IN  /\ sem' = [t \in Threads |-> sem[t] \/ \E i \in woken : waiters[i].me = t]
      /\ IF woken = {} THEN UNCHANGED queue ELSE Collapse(w, 0)

(* A reader that got MSGQUE_ERROR_E2BIG never left the section: it alone   *)
(* enters it again.                                                        *)
MayEnter(t) == section \in {None, t}
MayPost == section \in Threads => pc[section] = "idle"

EnqueMsg(msg) ==
  /\ MayPost /\ Intact
  /\ msg.len <= Size \div 4
  /\ ~NoRoom(msg.len)
  /\ top' = NewTop(msg.len)
  /\ mem' = Visited(bottom, NewTop(msg.len), Stored(msg))
  /\ ScanForWaiting(msg.id)
  /\ UNCHANGED <<bottom, section, pc, call, out>>

----------------------------------------------------------------------------
(* DequeMsg. *)

(* Mutant: Bottom does not follow a return to the start. *)
PassRead_EndStays(s) ==
  [s EXCEPT !.at = After(s.at, s.mem),
            !.bottom = IF s.at = s.bottom /\ ~s.mem[s.at].end THEN After(s.at, s.mem) ELSE s.bottom]

(* Messages that have been read are passed; at Bottom they leave the ring, *)
(* behind another one ("last") their length is added to its length: again  *)
(* at every read if that one returns to the start.  From Size on a length  *)
(* leads out of the ring, and grows no more here.                          *)
PassRead(s) ==
  LET next == After(s.at, s.mem)
      joined(a, b) == IF a + b < Size THEN a + b ELSE Size
      joins == s.last # Size /\ s.mem[s.last].read
  IN  [s EXCEPT !.at = next,
                !.bottom = IF s.at = s.bottom THEN next ELSE s.bottom,
                !.mem = IF joins THEN [s.mem EXCEPT ![s.last].len = joined(@, s.mem[s.at].len)]
                        ELSE s.mem,
                !.last = IF joins THEN s.last ELSE s.at]

(* The message fits the buffer: it is copied and marked, and the loop      *)
(* passes it, and those read before, in its next turns.                    *)
CopyOut(s) == [s EXCEPT !.mem[s.at].read = TRUE,
                        !.found = [id |-> s.mem[s.at].id, len |-> s.mem[s.at].len]]

LoopStates ==
  [at : Nat, bottom : Nat, mem : [0 .. Size - 1 -> Headers], last : Nat,
   found : [id : Nat, len : Nat] \cup {NoMessage}, big : BOOLEAN]

(* One turn of the loop for a read of read.id with room for read.buffer;    *)
(* last = Size stands for pLastReadMsg = NULL.                             *)
Turn(s, read) ==
  IF s.at = top \/ s.big THEN s
  ELSE IF s.mem[s.at].read THEN PassRead(s)
  ELSE IF s.found # NoMessage THEN s
  ELSE IF read.id # 0 /\ s.mem[s.at].id # read.id
       THEN [s EXCEPT !.at = After(s.at, s.mem), !.last = Size]
  ELSE IF read.buffer > s.mem[s.at].len THEN CopyOut(s)
  ELSE [s EXCEPT !.big = TRUE]

(* The loop from Bottom until Top, the message or an error: a turn for each *)
(* header, and one for the message found.                                  *)
Scan(read) ==
  LET start == [at |-> bottom, bottom |-> bottom, mem |-> mem, last |-> Size,
                found |-> NoMessage, big |-> FALSE]
      turn[s \in LoopStates] == Turn(s, read)
      loop[n \in 0 .. Size + 1] == IF n = 0 THEN start ELSE turn[loop[n - 1]]
  IN  loop[Size + 1]

ScanRing(s) ==
  /\ bottom' = s.bottom
  /\ mem' = Visited(s.bottom, top, s.mem)
  /\ UNCHANGED top

(* The message, or MSGQUE_ERROR_E2BIG, which returns inside the section. *)
Return(t, s) ==
  /\ out' = s.found
  /\ section' = IF s.big THEN t ELSE section
  /\ pc' = [pc EXCEPT ![t] = "idle"]

CanRead(t) == MayEnter(t) /\ Intact /\ pc[t] = "idle"

(* MSGQUE_NOWAIT: the message, an error or MSGQUE_ERROR_NOMSG. *)
Poll(t, read) ==
  /\ CanRead(t)
  /\ \E s \in {Scan(read)} :
      /\ ScanRing(s)
      /\ Return(t, s)
      /\ UNCHANGED <<queue, call, sem>>

ReadAtOnce(t, read) ==
  /\ CanRead(t)
  /\ \E s \in {Scan(read)} :
      /\ s.found # NoMessage \/ s.big
      /\ ScanRing(s)
      /\ Return(t, s)
      /\ UNCHANGED <<queue, call, sem>>

(* Nothing for it: the thread enters itself as a waiter and sleeps. *)
ReadAndSleep(t, read) ==
  /\ CanRead(t)
  /\ \E s \in {Scan(read)} :
      /\ s.found = NoMessage /\ ~s.big
      /\ ScanRing(s)
      /\ Next1(wtop) # wbottom
      /\ waiters' = [waiters EXCEPT ![wtop] = [me |-> t, msg |-> read.id]]
      /\ wtop' = Next1(wtop)
      /\ call' = [call EXCEPT ![t] = read]
      /\ pc' = [pc EXCEPT ![t] = "asleep"]
      /\ UNCHANGED <<wbottom, section, sem, out>>

(* No slot is free: the loop tries again and never leaves the section. *)
ReadWithoutSlot(t, read) ==
  /\ CanRead(t)
  /\ \E s \in {Scan(read)} :
      /\ s.found = NoMessage /\ ~s.big
      /\ ScanRing(s)
      /\ Next1(wtop) = wbottom
      /\ section' = t
      /\ pc' = [pc EXCEPT ![t] = "stuck"]
      /\ UNCHANGED <<queue, call, sem, out>>

(* Once awake the thread takes the waiters of its ID off, and looks again, *)
(* once: with nothing for it, it returns MSGQUE_ERROR_NOMSG.               *)
Resume(t) ==
  /\ pc[t] = "asleep" /\ sem[t]
  /\ MayEnter(t) /\ Intact
  /\ \E s \in {Scan(call[t])} :
      /\ sem' = [sem EXCEPT ![t] = FALSE]
      /\ Collapse(waiters, call[t].id)
      /\ ScanRing(s)
      /\ Return(t, s)
      /\ call' = [call EXCEPT ![t] = NoCall]

(* WakeThread, by somebody who wants the thread to return ("someone wants  *)
(* to wakeup a process from Idle()").                                      *)
WakeThread(t) ==
  /\ ~sem[t]
  /\ sem' = [sem EXCEPT ![t] = TRUE]
  /\ UNCHANGED <<ring, queue, section, pc, call, out>>

(* Nothing more happens once a walk would leave the ring, where it reads   *)
(* whatever is there, or a thread loops for ever inside the section.       *)
Stopped ==
  /\ ~Intact \/ \E t \in Threads : pc[t] = "stuck"
  /\ UNCHANGED vars

Next ==
  \/ \E msg \in Messages : EnqueMsg(msg)
  \/ \E t \in Threads, read \in Polls : Poll(t, read)
  \/ \E t \in Threads : \E read \in Blocks[t] :
        ReadAtOnce(t, read) \/ ReadAndSleep(t, read) \/ ReadWithoutSlot(t, read)
  \/ \E t \in Threads : Resume(t) \/ WakeThread(t)
  \/ Stopped

Spec == Init /\ [][Next]_vars

----------------------------------------------------------------------------
(* Properties. *)

(* Wherever the ring wraps, Top stays so far from its end that the header  *)
(* that sends readers back to the start fits there (EnqueMsg's test against *)
(* Size - sizeof( MSGDATA )).                                              *)
TopLeavesRoom == top + Hdr < Size

(* The positions of the unread messages, and these messages in the order a  *)
(* walk meets them.                                                        *)
Unread == {p \in Range(Walk(bottom, top, mem)) \ {top} : ~mem[p].read}
UnreadAlong(w, t, m) ==
  LET mail[n \in 0 .. Len(w)] ==
        IF n = 0 THEN << >>
        ELSE IF w[n] = t \/ m[w[n]].read THEN mail[n - 1]
        ELSE Append(mail[n - 1], [id |-> m[w[n]].id, len |-> m[w[n]].len])
  IN  mail[Len(w)]

Box ==
  LET walk == Walk(bottom, top, mem)
  IN  IF Last(walk) = top THEN UnreadAlong(walk, top, mem) ELSE << >>

Mail == INSTANCE Mailbox WITH box <- Box, Buffers <- {read.buffer : read \in Reads}

(* Where the code loses messages: a post that wraps a ring which has       *)
(* wrapped already, for which EnqueMsg does not ask where Bottom is.       *)
Overruns == top < bottom /\ top' < top

(* ... and a read that adds to a header the length of one that returns to  *)
(* the start, and not its MARK_END_OF_QUE: walks then leave the ring.      *)
JoinsReturn ==
  \E p \in 0 .. Size - 1 :
    /\ mem'[p].read /\ ~mem[p].end /\ mem[p].len < mem'[p].len
    /\ \E q \in p + 1 .. Size - 1 : q < p + mem'[p].len /\ mem[q].end

(* The ring, with its wraps, its joined headers and its two ways to pass   *)
(* read messages, is a mailbox: it loses no message, gives none twice and  *)
(* a read finds the oldest for it, but in the two steps above.             *)
KeepsMessages == [][Mail!Next \/ Overruns \/ JoinsReturn]_<<Box, out>>

(* No call leaves a message for a thread that sleeps unwoken: the post     *)
(* woke it, or it looked under the lock before it slept, and no collapse   *)
(* of the waiters has lost its entry.                                      *)
NobodyOverlooked ==
  \A t \in Threads : Intact /\ pc[t] = "asleep" /\ ~sem[t] =>
    \A p \in Unread : ~Mail!Asked(mem[p], call[t].id)

(* A queue whose messages have all been read takes any message of legal    *)
(* length, wherever it has wrapped: the poster's retry loop gets through.  *)
DrainedTakesAny ==
  Intact /\ Unread = {} => \A msg \in Messages : msg.len <= Size \div 4 => ~NoRoom(msg.len)
=============================================================================
