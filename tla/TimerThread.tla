--------------------------- MODULE TimerThread ---------------------------
(***************************************************************************)
(* The timer thread of timerlib/timers.c and the threads that add, remove, *)
(* reschedule and change timers.                                           *)
(*                                                                         *)
(* Timers live in a list that csGrab protects.  A thread other than the    *)
(* timer thread normally hands a timer over in g.add_timer and asks for a  *)
(* removal in g.del_timer, one at a time under cs_timer_change, and wakes  *)
(* the timer thread; while a callback runs (away_in_timer) it puts the     *)
(* timer into the list itself.  A dispatched timer is in no list.          *)
(*                                                                         *)
(* Abstracted: when a timer is due (TimerList models the delays), so any   *)
(* listed timer may be dispatched; the order of the list; the identity of  *)
(* pool slots (a timer here is one call of AddTimer: its ID and record);   *)
(* which call starts the timer thread, when two are first.  A region under *)
(* csGrab that does not touch unlocked state is one step, and csGrab is a  *)
(* lock (CriticalSection).  The timer thread's semaphore is 0 or not: more *)
(* than one wake-up only makes it look again.                              *)
(***************************************************************************)
EXTENDS Naturals, Sequences, FiniteSets

CONSTANTS
  Clients,       \* the threads that call the timer functions
  TT,            \* the timer thread
  Timers,        \* the calls of AddTimer that are made
  None,          \* a NULL timer, ID 0, nobody
  Periodic,      \* the timers with a frequency; the others are one-shots
  Uses,          \* what the program calls: records of
                 \*   client: what each client calls, a subset of ClientCalls,
                 \*   callback: what callbacks call, a subset of CallbackCalls
  RemoveAgain,   \* bound: TRUE: several threads may remove the same timer
  MaxNest        \* bound: how deep callbacks nest through Idle

ASSUME ProcsAssumption   == TT \notin Clients /\ None \notin Clients \cup {TT}
ASSUME TimersAssumption  == None \notin Timers /\ Periodic \subseteq Timers
ClientCalls == {"add", "remove", "reschedule", "change"}
CallbackCalls == {"add", "remove", "removeself", "reschedule", "idle"}

ASSUME UsesAssumption ==
  Uses \subseteq [client : [Clients -> SUBSET ClientCalls], callback : SUBSET CallbackCalls]
ASSUME BoundsAssumption  == MaxNest \in Nat \ {0} /\ RemoveAgain \in BOOLEAN

VARIABLES
  use,       \* which of the uses this program is; it never changes
  linked,    \* the timers in g.timers
  freed,     \* the timers whose record went back to the pool
  stale,     \* those of them whose "me" still points into the list
  rescheduled, \* the timers with flags.bRescheduled
  add,       \* g.add_timer
  del,       \* g.del_timer
  change,    \* the owner of cs_timer_change
  grab,      \* the owner of csGrab, between steps
  current,   \* g.current_timer
  currentId, \* g.CurrentTimerID
  flags,     \* g.flags.away_in_timer and g.flags.insert_while_away
  frames,    \* the timers whose callbacks run, the innermost last
  sem,       \* the timer thread's semaphore is non-zero
  pc,        \* where each thread is
  arg,       \* the timer a client's call is about
  word,      \* g.flags as a thread loaded it to change one bit
  created,   \* history: the timers AddTimer was called for
  asked,     \* history: which thread called RemoveTimer for which timer
  missed,    \* history: the timers DoRemoveTimer was called for while they
             \* were neither in the list nor freed, so that it found nothing
  revived    \* history: the timers that were put back after they were freed

list == <<linked, freed, stale, missed, revived>>
hand == <<add, del, change, grab>>
disp == <<current, currentId, frames>>
vars == <<list, rescheduled, hand, disp, flags, sem, pc, arg, word, created, asked>>

ClientOps(c) == use.client[c]
CallbackOps == use.callback

Procs == Clients \cup {TT}
Labels == {"idle", "isaway", "setinsert", "stillaway", "insert", "inserted", "toolate",
           "lockadd", "waitadd", "lockdel", "waitdel", "wake", "return",
           "lookup", "markcurrent", "regrab", "relink",
           "off", "top", "asleep", "doze", "add", "added", "del", "deleted", "loop",
           "fire", "setaway", "callback", "lockself", "waitself", "clearaway",
           "waitinsert", "requeue"}
Flags == [away : BOOLEAN, insert : BOOLEAN]
InFrames == {frames[i] : i \in DOMAIN frames}

Init ==
  /\ use \in Uses
  /\ linked = {} /\ freed = {} /\ stale = {} /\ rescheduled = {}
  /\ add = None /\ del = None /\ change = None /\ grab = None
  /\ current = None /\ currentId = None /\ frames = << >>
  /\ flags = [away |-> FALSE, insert |-> FALSE]
  /\ sem = FALSE
  /\ pc = [p \in Procs |-> IF p = TT THEN "off" ELSE "idle"]
  /\ arg = [c \in Clients |-> None]
  /\ word = [p \in Procs |-> None]
  /\ created = {} /\ asked = {} /\ missed = {} /\ revived = {}

At(p, label) == pc[p] = label
Goto(p, label) == pc' = [pc EXCEPT ![p] = label]
GrabFree == grab = None

(* An assignment to a bit field of g.flags loads the word, which no lock   *)
(* protects, ...                                                           *)
LoadFlags(p, from) ==
  /\ At(p, from) /\ word[p] = None
  /\ word' = [word EXCEPT ![p] = flags]
  /\ UNCHANGED <<list, rescheduled, hand, disp, flags, sem, pc, arg, created, asked>>

(* ... and stores it with one bit changed.                                 *)
StoreFlag(p, from, bit, value, to) ==
  /\ At(p, from) /\ word[p] # None
  /\ flags' = [word[p] EXCEPT ![bit] = value]
  /\ word' = [word EXCEPT ![p] = None]
  /\ Goto(p, to)
  /\ UNCHANGED <<list, rescheduled, hand, disp, sem, arg, created, asked>>

WriteFlag(p, from, bit, value, to) ==
  LoadFlags(p, from) \/ StoreFlag(p, from, bit, value, to)

(* DoInsertTimer and DoRemoveTimer on the list, under csGrab. *)
Link(u) ==
  /\ GrabFree
  /\ linked' = linked \cup {u}
  /\ UNCHANGED <<freed, stale, missed, revived>>

Unlink(u) ==
  /\ GrabFree
  /\ IF u \in linked
     THEN /\ linked' = linked \ {u}
          /\ freed' = freed \cup {u}
          /\ stale' = stale \cup {u}
          /\ UNCHANGED missed
     ELSE /\ missed' = missed \cup ({u} \ freed)
          /\ UNCHANGED <<linked, freed, stale>>
  /\ UNCHANGED revived

(***************************************************************************)
(* Clients.                                                                *)
(***************************************************************************)

(* AddTimerExx: the first call starts the timer thread. *)
AddTimer(c, u) ==
  /\ At(c, "idle") /\ "add" \in ClientOps(c) /\ u \notin created
  /\ created' = created \cup {u}
  /\ arg' = [arg EXCEPT ![c] = u]
  /\ pc' = [pc EXCEPT ![c] = "isaway", ![TT] = IF @ = "off" THEN "top" ELSE @]
  /\ UNCHANGED <<list, rescheduled, hand, disp, flags, sem, word, asked>>

(* InsertTimer: while a callback runs the client may insert by itself, if  *)
(* the callback is still running after insert_while_away has been set.     *)
IsAway(c) ==
  /\ At(c, "isaway")
  /\ Goto(c, IF flags.away THEN "setinsert" ELSE "lockadd")
  /\ UNCHANGED <<list, rescheduled, hand, disp, flags, sem, arg, word, created, asked>>

SetInsert(c) == WriteFlag(c, "setinsert", "insert", TRUE, "stillaway")

StillAway(c) ==
  /\ At(c, "stillaway")
  /\ Goto(c, IF flags.away THEN "insert" ELSE "toolate")
  /\ UNCHANGED <<list, rescheduled, hand, disp, flags, sem, arg, word, created, asked>>

InsertWhileAway(c) ==
  /\ At(c, "insert")
  /\ Link(arg[c])
  /\ Goto(c, "inserted")
  /\ UNCHANGED <<rescheduled, hand, disp, flags, sem, arg, word, created, asked>>

(* Mutant: a client that comes too late leaves insert_while_away set. *)
ClearInsert_NotTooLate(c) ==
  \/ WriteFlag(c, "inserted", "insert", FALSE, "return")
  \/ WriteFlag(c, "toolate", "insert", TRUE, "lockadd")

ClearInsert(c) ==
  \/ WriteFlag(c, "inserted", "insert", FALSE, "return")
  \/ WriteFlag(c, "toolate", "insert", FALSE, "lockadd")

LockChange(c) ==
  /\ pc[c] \in {"lockadd", "lockdel"} /\ change = None
  /\ change' = c
  /\ Goto(c, IF At(c, "lockadd") THEN "waitadd" ELSE "waitdel")
  /\ UNCHANGED <<list, rescheduled, add, del, grab, disp, flags, sem, arg, word, created, asked>>

WakeWhileWaiting(c) ==
  /\ At(c, "waitadd") /\ add # None
  /\ sem' = TRUE
  /\ UNCHANGED <<list, rescheduled, hand, disp, flags, pc, arg, word, created, asked>>

HandOverAdd(c) ==
  /\ At(c, "waitadd") /\ add = None
  /\ add' = arg[c]
  /\ change' = None
  /\ Goto(c, "wake")
  /\ UNCHANGED <<list, rescheduled, del, grab, disp, flags, sem, arg, word, created, asked>>

Asked(u) == \E p \in Procs : <<p, u>> \in asked

(* A timer can be removed once AddTimer has returned its ID; each thread   *)
(* does so once.                                                           *)
MayRemove(p, u) ==
  /\ u \in created /\ <<p, u>> \notin asked /\ (RemoveAgain \/ ~Asked(u))
  /\ \A c \in Clients : arg[c] = u => pc[c] \in {"lockdel", "waitdel", "lookup",
                                              "markcurrent", "regrab", "relink"}

(* RemoveTimer by a thread that is not the timer thread. *)
RemoveTimer(c, u) ==
  /\ At(c, "idle") /\ "remove" \in ClientOps(c) /\ MayRemove(c, u)
  /\ asked' = asked \cup {<<c, u>>}
  /\ arg' = [arg EXCEPT ![c] = u]
  /\ Goto(c, "lockdel")
  /\ UNCHANGED <<list, rescheduled, hand, disp, flags, sem, word, created>>

(* Mutant: RemoveTimer does not wait for g.del_timer to be served. *)
HandOverDel_NoWait(c) ==
  /\ At(c, "waitdel")
  /\ del' = arg[c]
  /\ change' = None
  /\ Goto(c, "wake")
  /\ UNCHANGED <<list, rescheduled, add, grab, disp, flags, sem, arg, word, created, asked>>

(* Mutant: RemoveTimer does not leave cs_timer_change. *)
HandOverDel_KeepsChange(c) ==
  /\ At(c, "waitdel") /\ del = None
  /\ del' = arg[c]
  /\ Goto(c, "wake")
  /\ UNCHANGED <<list, rescheduled, add, change, grab, disp, flags, sem, arg, word, created, asked>>

HandOverDel(c) ==
  /\ At(c, "waitdel") /\ del = None
  /\ del' = arg[c]
  /\ change' = None
  /\ Goto(c, "wake")
  /\ UNCHANGED <<list, rescheduled, add, grab, disp, flags, sem, arg, word, created, asked>>

(* Mutant: the timer thread is not woken after the hand-over. *)
Wake_NoPost(c) ==
  /\ At(c, "wake")
  /\ Goto(c, "return")
  /\ UNCHANGED <<list, rescheduled, hand, disp, flags, sem, arg, word, created, asked>>

Wake(c) ==
  /\ At(c, "wake")
  /\ sem' = TRUE
  /\ Goto(c, "return")
  /\ UNCHANGED <<list, rescheduled, hand, disp, flags, arg, word, created, asked>>

Return(c) ==
  /\ At(c, "return")
  /\ arg' = [arg EXCEPT ![c] = None]
  /\ Goto(c, "idle")
  /\ UNCHANGED <<list, rescheduled, hand, disp, flags, sem, word, created, asked>>

(* RescheduleTimerEx: a listed timer is taken out and put back at once.    *)
(* A dispatched one is found through g.current_timer, which csGrab does    *)
(* not protect, and told to schedule itself again.                         *)
RescheduleListed(c, u) ==
  /\ At(c, "idle") /\ "reschedule" \in ClientOps(c) /\ u \in linked /\ GrabFree
  /\ rescheduled' = rescheduled \cup {u}
  /\ sem' \in {sem, TRUE}
  /\ UNCHANGED <<list, hand, disp, flags, pc, arg, word, created, asked>>

RescheduleCurrent(c, u) ==
  /\ At(c, "idle") /\ "reschedule" \in ClientOps(c) /\ GrabFree
  /\ u \in created \ linked /\ current = u
  /\ grab' = c
  /\ arg' = [arg EXCEPT ![c] = u]
  /\ Goto(c, "markcurrent")
  /\ UNCHANGED <<list, rescheduled, add, del, change, disp, flags, sem, word, created, asked>>

(* RescheduleTimer reads the head of the list before it has csGrab, and    *)
(* starts there when it has it ...                                         *)
RescheduleTimer(c, u) ==
  /\ At(c, "idle") /\ "reschedule" \in ClientOps(c) /\ u \in created \ freed /\ linked # {}
  /\ arg' = [arg EXCEPT ![c] = u]
  /\ Goto(c, "lookup")
  /\ UNCHANGED <<list, rescheduled, hand, disp, flags, sem, word, created, asked>>

(* ... so that from a head that was moved, dispatched or freed meanwhile   *)
(* it finds the timer where it is listed, where it was (a record whose     *)
(* "me" is still set is linked again), while it is dispatched, or not.     *)
Lookup(c) ==
  LET u == arg[c] IN
  /\ At(c, "lookup") /\ GrabFree
  /\ \/ /\ u \in linked \cup stale
        /\ linked' = linked \cup {u} /\ stale' = stale \ {u}
        /\ revived' = revived \cup ({u} \cap freed)
        /\ rescheduled' = rescheduled \cup {u}
        /\ sem' \in {sem, TRUE}
     \/ /\ u \in InFrames
        /\ rescheduled' = rescheduled \cup {u}
        /\ UNCHANGED <<linked, stale, revived, sem>>
     \/ /\ u # current
        /\ UNCHANGED <<linked, stale, revived, rescheduled, sem>>
  /\ arg' = [arg EXCEPT ![c] = None]
  /\ Goto(c, "idle")
  /\ UNCHANGED <<freed, missed, hand, disp, flags, word, created, asked>>

LookupCurrent(c) ==
  /\ At(c, "lookup") /\ GrabFree /\ current = arg[c]
  /\ grab' = c
  /\ Goto(c, "markcurrent")
  /\ UNCHANGED <<list, rescheduled, add, del, change, disp, flags, sem, arg, word, created, asked>>

MarkCurrent(c) ==
  /\ At(c, "markcurrent")
  /\ rescheduled' = rescheduled \cup {arg[c]}
  /\ grab' = None
  /\ arg' = [arg EXCEPT ![c] = None]
  /\ Goto(c, "idle")
  /\ UNCHANGED <<list, add, del, change, disp, flags, sem, word, created, asked>>

(* ChangeTimerEx looks the timer up without csGrab. *)
ChangeTimer(c, u) ==
  /\ At(c, "idle") /\ "change" \in ClientOps(c) /\ u \in linked
  /\ arg' = [arg EXCEPT ![c] = u]
  /\ Goto(c, "regrab")
  /\ UNCHANGED <<list, rescheduled, hand, disp, flags, sem, word, created, asked>>

(* Mutant: GrabTimer leaves "me" set, so a timer is grabbed twice. *)
Regrab_KeepsMe(c) ==
  /\ At(c, "regrab") /\ GrabFree
  /\ rescheduled' = rescheduled \cup {arg[c]}
  /\ linked' = linked \ {arg[c]}
  /\ stale' = stale \cup {arg[c]}
  /\ Goto(c, "relink")
  /\ UNCHANGED <<freed, missed, revived, hand, disp, flags, sem, arg, word, created, asked>>

(* InternalRescheduleTimerEx on it: GrabTimer succeeds if "me" is set, as  *)
(* it also is in a record that DoRemoveTimer gave back to the pool.        *)
Regrab(c) ==
  /\ At(c, "regrab") /\ GrabFree
  /\ rescheduled' = rescheduled \cup {arg[c]}
  /\ IF arg[c] \in linked \cup stale
     THEN /\ linked' = linked \ {arg[c]}
          /\ stale' = stale \ {arg[c]}
          /\ revived' = revived \cup ({arg[c]} \cap freed)
          /\ Goto(c, "relink")
          /\ UNCHANGED arg
     ELSE /\ Goto(c, "idle")
          /\ arg' = [arg EXCEPT ![c] = None]
          /\ UNCHANGED <<linked, stale, revived>>
  /\ UNCHANGED <<freed, missed, hand, disp, flags, sem, word, created, asked>>

Relink(c) ==
  /\ At(c, "relink")
  /\ Link(arg[c])
  /\ sem' \in {sem, TRUE}
  /\ arg' = [arg EXCEPT ![c] = None]
  /\ Goto(c, "idle")
  /\ UNCHANGED <<rescheduled, hand, disp, flags, word, created, asked>>

ClientStep(c) ==
  \/ IsAway(c) \/ SetInsert(c) \/ StillAway(c) \/ InsertWhileAway(c)
  \/ ClearInsert(c) \/ LockChange(c) \/ WakeWhileWaiting(c) \/ HandOverAdd(c)
  \/ HandOverDel(c) \/ Wake(c) \/ Return(c) \/ MarkCurrent(c) \/ Regrab(c) \/ Relink(c)
  \/ Lookup(c) \/ LookupCurrent(c)

ClientCall(c) ==
  \E u \in Timers :
    \/ AddTimer(c, u) \/ RemoveTimer(c, u) \/ ChangeTimer(c, u)
    \/ RescheduleListed(c, u) \/ RescheduleCurrent(c, u) \/ RescheduleTimer(c, u)

(***************************************************************************)
(* The timer thread: ThreadProc calls ProcessTimers( 1 ) for ever; a       *)
(* callback that calls Idle runs ProcessTimers( 0 ) inside.                *)
(***************************************************************************)

Nested == frames # << >>
Top == IF Nested THEN "callback" ELSE "top"     \* where ProcessTimers returns

(* Nothing to do: sleep until woken, or return to the callback. *)
NoTimers ==
  /\ At(TT, "top") /\ add = None /\ linked = {}
  /\ Goto(TT, IF Nested THEN "callback" ELSE "asleep")
  /\ UNCHANGED <<list, rescheduled, hand, disp, flags, sem, arg, word, created, asked>>

SomeTimers ==
  /\ At(TT, "top") /\ (add # None \/ linked # {})
  /\ Goto(TT, "add")
  /\ UNCHANGED <<list, rescheduled, hand, disp, flags, sem, arg, word, created, asked>>

(* TimerWakeableSleep: for ever, or until the alarm as well ("doze"); a    *)
(* computed time of 0 is no sleep at all.                                  *)
Sleep ==
  /\ \/ At(TT, "asleep") /\ sem /\ sem' = FALSE
     \/ At(TT, "doze") /\ sem' \in {FALSE, sem}
  /\ Goto(TT, "top")
  /\ UNCHANGED <<list, rescheduled, hand, disp, flags, arg, word, created, asked>>

TakeAdd ==
  /\ At(TT, "add")
  /\ IF add # None
     THEN Link(add) /\ Goto(TT, "added")
     ELSE Goto(TT, "del") /\ UNCHANGED list
  /\ UNCHANGED <<rescheduled, hand, disp, flags, sem, arg, word, created, asked>>

ClearAdd ==
  /\ At(TT, "added")
  /\ add' = None
  /\ Goto(TT, "del")
  /\ UNCHANGED <<list, rescheduled, del, change, grab, disp, flags, sem, arg, word, created, asked>>

(* Mutant: g.del_timer is cleared without removing the timer. *)
TakeDel_Forgets ==
  /\ At(TT, "del")
  /\ Goto(TT, IF del # None THEN "deleted" ELSE "loop")
  /\ UNCHANGED <<list, rescheduled, hand, disp, flags, sem, arg, word, created, asked>>

TakeDel ==
  /\ At(TT, "del")
  /\ IF del # None
     THEN Unlink(del) /\ Goto(TT, "deleted")
     ELSE Goto(TT, "loop") /\ UNCHANGED list
  /\ UNCHANGED <<rescheduled, hand, disp, flags, sem, arg, word, created, asked>>

ClearDel ==
  /\ At(TT, "deleted")
  /\ del' = None
  /\ Goto(TT, "loop")
  /\ UNCHANGED <<list, rescheduled, add, change, grab, disp, flags, sem, arg, word, created, asked>>

(* The first timer of the list is due: GrabTimer. *)
Dispatch(u) ==
  /\ At(TT, "loop") /\ u \in linked /\ GrabFree
  /\ linked' = linked \ {u}
  /\ frames' = Append(frames, u)
  /\ Goto(TT, "fire")
  /\ UNCHANGED <<freed, stale, missed, revived, rescheduled, hand, current, currentId, flags,
                 sem, arg, word, created, asked>>

(* No timer is due (any more). *)
NoneDue ==
  /\ At(TT, "loop") /\ GrabFree
  /\ Goto(TT, IF Nested THEN "callback" ELSE IF linked # {} THEN "doze" ELSE "top")
  /\ UNCHANGED <<list, rescheduled, hand, disp, flags, sem, arg, word, created, asked>>

Me == frames[Len(frames)]

Fire ==
  /\ At(TT, "fire")
  /\ current' = Me /\ currentId' = Me
  /\ rescheduled' = rescheduled \ {Me}
  /\ Goto(TT, "setaway")
  /\ UNCHANGED <<list, hand, frames, flags, sem, arg, word, created, asked>>

SetAway == WriteFlag(TT, "setaway", "away", TRUE, "callback")

(* What a callback may do: add a timer (InsertTimer on the timer thread),  *)
CallbackAdd(u) ==
  /\ At(TT, "callback") /\ "add" \in CallbackOps /\ u \notin created
  /\ created' = created \cup {u}
  /\ Link(u)
  /\ sem' \in {sem, TRUE}
  /\ UNCHANGED <<rescheduled, hand, disp, flags, pc, arg, word, asked>>

(* remove a timer that is not the one dispatched last,                     *)
CallbackRemove(u) ==
  /\ At(TT, "callback") /\ MayRemove(TT, u) /\ u # currentId
  /\ IF u \in InFrames THEN "removeself" \in CallbackOps ELSE "remove" \in CallbackOps
  /\ asked' = asked \cup {<<TT, u>>}
  /\ Unlink(u)
  /\ UNCHANGED <<rescheduled, hand, disp, flags, sem, pc, arg, word, created>>

(* remove the one dispatched last, through the hand-over: its own timer,   *)
(* or after Idle the last one that was dispatched inside,                  *)
CallbackRemoveCurrent ==
  /\ At(TT, "callback") /\ MayRemove(TT, currentId)
  /\ IF currentId \in InFrames THEN "removeself" \in CallbackOps ELSE "remove" \in CallbackOps
  /\ asked' = asked \cup {<<TT, currentId>>}
  /\ Goto(TT, "lockself")
  /\ UNCHANGED <<list, rescheduled, hand, disp, flags, sem, arg, word, created>>

LockSelf ==
  /\ At(TT, "lockself") /\ change = None
  /\ change' = TT
  /\ Goto(TT, "waitself")
  /\ UNCHANGED <<list, rescheduled, add, del, grab, disp, flags, sem, arg, word, created, asked>>

(* a pending removal of another timer is done on the spot; while one of    *)
(* the current timer is pending the loop spins,                            *)
RemoveSelf ==
  /\ At(TT, "waitself") /\ del # currentId
  /\ IF del # None THEN Unlink(del) ELSE UNCHANGED list
  /\ del' = currentId
  /\ change' = None
  /\ Goto(TT, "callback")
  /\ UNCHANGED <<rescheduled, add, grab, disp, flags, sem, arg, word, created, asked>>

(* reschedule a timer,                                                     *)
CallbackReschedule(u) ==
  /\ At(TT, "callback") /\ "reschedule" \in CallbackOps /\ GrabFree
  /\ u \in linked \/ u = current
  /\ rescheduled' = rescheduled \cup {u}
  /\ sem' \in {sem, TRUE}
  /\ UNCHANGED <<list, hand, disp, flags, pc, arg, word, created, asked>>

(* wait, processing the other timers,                                      *)
CallbackIdle ==
  /\ At(TT, "callback") /\ "idle" \in CallbackOps /\ Len(frames) < MaxNest
  /\ Goto(TT, "top")
  /\ UNCHANGED <<list, rescheduled, hand, disp, flags, sem, arg, word, created, asked>>

(* and return.                                                             *)
CallbackReturn ==
  /\ At(TT, "callback")
  /\ Goto(TT, "clearaway")
  /\ UNCHANGED <<list, rescheduled, hand, disp, flags, sem, arg, word, created, asked>>

ClearAway == WriteFlag(TT, "clearaway", "away", FALSE, "waitinsert")

WaitInsert ==
  /\ At(TT, "waitinsert") /\ ~flags.insert
  /\ current' = None
  /\ Goto(TT, "requeue")
  /\ UNCHANGED <<list, rescheduled, hand, currentId, frames, flags, sem, arg, word, created, asked>>

(* A periodic or rescheduled timer goes back into the list, a one-shot to  *)
(* the pool (without csGrab).                                              *)
Requeue ==
  /\ At(TT, "requeue") /\ (Me \in Periodic \/ Me \in rescheduled)
  /\ rescheduled' = rescheduled \ {Me}
  /\ Link(Me)
  /\ frames' = SubSeq(frames, 1, Len(frames) - 1)
  /\ Goto(TT, "loop")
  /\ UNCHANGED <<hand, current, currentId, flags, sem, arg, word, created, asked>>

FreeOneShot ==
  /\ At(TT, "requeue") /\ Me \notin Periodic \cup rescheduled
  /\ freed' = freed \cup {Me}
  /\ frames' = SubSeq(frames, 1, Len(frames) - 1)
  /\ Goto(TT, "loop")
  /\ UNCHANGED <<linked, stale, missed, revived, rescheduled, hand, current, currentId, flags,
                 sem, arg, word, created, asked>>

CallbackCall ==
  \/ \E u \in Timers : CallbackAdd(u) \/ CallbackRemove(u) \/ CallbackReschedule(u)
  \/ CallbackRemoveCurrent \/ CallbackIdle

TimerStep ==
  \/ NoTimers \/ SomeTimers \/ Sleep \/ TakeAdd \/ ClearAdd \/ TakeDel \/ ClearDel
  \/ (\E u \in Timers : Dispatch(u)) \/ NoneDue \/ Fire \/ SetAway
  \/ LockSelf \/ RemoveSelf \/ CallbackReturn \/ ClearAway \/ WaitInsert
  \/ Requeue \/ FreeOneShot

Next ==
  /\ \/ \E c \in Clients : ClientCall(c) \/ ClientStep(c)
     \/ TimerStep \/ CallbackCall
  /\ UNCHANGED use

Spec == Init /\ [][Next]_<<use, vars>>

(* Nobody reschedules: no callback makes itself due in the same pass.      *)
Steady ==
  /\ "reschedule" \notin CallbackOps
  /\ \A c \in Clients : {"reschedule", "change"} \cap ClientOps(c) = {}

(* A thread in a call is scheduled again; a callback returns, also one     *)
(* that waits in Idle.  Where nobody reschedules, a pass ends, as it       *)
(* compares with the time it read once, and the first timer being the one  *)
(* with the first deadline, every listed timer comes to be the first: what *)
(* runs before it goes back behind the time of the pass (TimerList).       *)
Fairness ==
  /\ WF_vars(TimerStep)
  /\ \A n \in 1..MaxNest : SF_vars(Len(frames) = n /\ CallbackReturn)
  /\ SF_vars(Steady /\ NoneDue)
  /\ \A u \in Timers : SF_vars(Steady /\ Dispatch(u))
  /\ \A c \in Clients : WF_vars(ClientStep(c))

FairSpec == Spec /\ Fairness

(***************************************************************************)
(* Properties.                                                             *)
(***************************************************************************)

TypeOK ==
  /\ use \in Uses
  /\ linked \subseteq Timers /\ freed \subseteq Timers
  /\ stale \subseteq Timers /\ rescheduled \subseteq Timers
  /\ {add, del, current, currentId} \subseteq Timers \cup {None}
  /\ change \in Procs \cup {None} /\ grab \in Clients \cup {None}
  /\ flags \in Flags
  /\ frames \in Seq(Timers) /\ Len(frames) <= MaxNest
  /\ sem \in BOOLEAN
  /\ pc \in [Procs -> Labels]
  /\ arg \in [Clients -> Timers \cup {None}]
  /\ word \in [Procs -> Flags \cup {None}]
  /\ created \subseteq Timers /\ asked \subseteq Procs \X created
  /\ missed \subseteq created /\ revived \subseteq freed

Adding(c, u) ==
  arg[c] = u /\ pc[c] \in {"isaway", "setinsert", "stillaway", "insert",
                           "toolate", "lockadd", "waitadd", "relink"}

(* Where the record of a timer can be: with the client that adds it, in    *)
(* add_timer, in the list, dispatched, or back in the pool.                *)
Places(u) ==
  {<<"client", c>> : c \in {d \in Clients : Adding(d, u)}}
    \cup {p \in {<<"add">>} : add = u /\ ~At(TT, "added")}
    \cup {p \in {<<"list">>} : u \in linked}
    \cup {p \in {<<"pool">>} : u \in freed}
    \cup {<<"frame", i>> : i \in {j \in DOMAIN frames : frames[j] = u}}

(* No timer gets lost between the hands it goes through, none is listed    *)
(* twice, listed while it is dispatched, or used after it was freed, but   *)
(* for those that a ChangeTimer or RescheduleTimer put back that found     *)
(* them in the list without csGrab, or from a head read without it         *)
(* (timers.c:1735, 1755), and that were removed before it had csGrab.      *)
OnePlace == \A u \in created \ revived : Cardinality(Places(u)) = 1

Asking(p, u) ==
  \/ p \in Clients /\ arg[p] = u /\ pc[p] \in {"lockdel", "waitdel"}
  \/ p = TT /\ pc[TT] \in {"lockself", "waitself"} /\ currentId = u

(* A removal that was asked for is done, pending in del_timer, or with the *)
(* thread that asks for it: "Stops a timer" (include/timers.h:139).  It is *)
(* lost only when it is carried out while the timer is in no list: still   *)
(* in add_timer, or dispatched, with its callback waiting in Idle          *)
(* (timers.c:1215-1239).                                                   *)
RemovalKept ==
  \A p \in Procs, u \in Timers :
    <<p, u>> \in asked => u \in freed \cup missed \/ del = u \/ Asking(p, u)

(* A callback that removes its own timer can get on: the removal slot it   *)
(* needs, or the lock on it, is not waiting for the callback to return.    *)
SelfRemovalGetsOn ==
  /\ At(TT, "lockself") => ~ \E c \in Clients :
                              \/ At(c, "waitdel") /\ del # None
                              \/ At(c, "waitadd") /\ add # None
  /\ At(TT, "waitself") => del # currentId

(* insert_while_away is set although nobody is inserting who would clear   *)
(* it, so that the timer thread waits for ever; it is clear although a     *)
(* client is about to insert, so that the timer thread does not wait and   *)
(* may sleep for ever on a list that is filled unseen; or away_in_timer is *)
(* set while no callback runs.                                             *)
Inserting(c) == pc[c] \in {"setinsert", "stillaway", "insert", "inserted", "toolate"}
Garbled ==
  \/ flags.insert /\ ~ \E c \in Clients : Inserting(c)
  \/ ~flags.insert /\ \E c \in Clients : pc[c] \in {"stillaway", "insert"}
  \/ flags.away /\ (~Nested \/ pc[TT] \in {"waitinsert", "requeue"})

(* A thread stores a word of flags that another one changed meanwhile;     *)
(* two clients insert, and one of them clears the flag for both.           *)
StaleStore == \E p \in Procs : word[p] \notin {None, flags} /\ word'[p] = None
SharedClear ==
  \E c, d \in Clients : c # d /\ Inserting(c) /\ ~Inserting(c)' /\ Inserting(d)

(* The two flags can only come to be wrong by one write of a bit field     *)
(* running into another one, or by two clients that insert at once         *)
(* (timers.c:157-164, 1249, 1258, 1447, 1450): the double check of         *)
(* away_in_timer keeps them right, whatever else runs between its steps.   *)
FlagsOwned == [][Garbled' => Garbled \/ StaleStore \/ SharedClear]_vars

(* The properties that follow are about programs that do not reschedule,   *)
(* as long as the flags are not garbled and no callback that removes its   *)
(* own timer is stuck (SelfRemovalGetsOn).                                 *)
Smooth == Steady /\ [](~Garbled /\ SelfRemovalGetsOn)

(* A timer runs unless it is removed, and a periodic one again and again:  *)
(* "From now, until the timer is removed with RemoveTimer, it will call    *)
(* the timer procedure" (include/timers.h:74).                             *)
Fires(u) == At(TT, "fire") /\ Me = u

KeepsFiring ==
  Smooth =>
    \A u \in Timers : (u \in created) ~> (Fires(u) \/ Asked(u) \/ u \in freed \ Periodic)

(* A removed timer stops for good, unless the removal was lost as          *)
(* RemovalKept says.                                                       *)
RemovedStops ==
  Smooth =>
    \A u \in Timers :
      Asked(u) ~> ([](u \in freed /\ u \notin linked \cup InFrames) \/ u \in missed)

(* Every call a client makes returns. *)
CallsReturn == Smooth => \A c \in Clients : ~At(c, "idle") ~> At(c, "idle")
=============================================================================
