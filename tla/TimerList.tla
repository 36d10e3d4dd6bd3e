---------------------------- MODULE TimerList ----------------------------
(***************************************************************************)
(* The list of timers of timerlib/timers.c with the delays: every timer    *)
(* holds the delay after the one before it ("delta"), the first one the    *)
(* delay after g.last_tick, and ProcessTimers dispatches what has become   *)
(* due, puts periodic timers back and sleeps until the first deadline.     *)
(*                                                                         *)
(* Abstracted: the hand-over between threads and nested callbacks (see     *)
(* TimerThread): here a call of a client is one step, and so is the way    *)
(* from the top of ProcessTimers to its loop, but for the two slots.       *)
(* Ticks are integers: the code only compares differences of ticks, as     *)
(* signed 32 bit numbers, so that their wrap around does not show.         *)
(***************************************************************************)
EXTENDS Integers, Sequences, FiniteSets, SequencesExt

CONSTANTS
  Timers,        \* the calls of AddTimer
  None,          \* no timer
  Start,         \* the delay AddTimer was called with, for each timer
  Frequency,     \* its frequency, 0 for a one-shot
  Delays,        \* the delays of RescheduleTimerEx
  Reschedulable, \* what clients reschedule: "none", the "last" listed timer, or
                 \* "any", which pulls the deadlines behind it forward: GrabTimer
                 \* does not give the delay to the next timer as DoRemoveTimer does
  MaxTime        \* bound: the time ends here

ASSUME DelaysAssumption ==
  /\ None \notin Timers
  /\ Start \in [Timers -> Nat] /\ Frequency \in [Timers -> Nat] /\ Delays \subseteq Nat
  /\ Reschedulable \in {"none", "last", "any"}
  /\ MaxTime \in Nat

VARIABLES
  now,       \* timeGetTime()
  last,      \* g.last_tick
  tick,      \* g.this_tick, newtick
  list,      \* g.timers
  delta,     \* delta of every timer
  add,       \* g.add_timer
  del,       \* g.del_timer
  sem,       \* the timer thread's semaphore
  pc,        \* where the timer thread is
  cur,       \* the dispatched timer; at "nap" the head of the list
  resched,   \* its flags.bRescheduled
  nap,       \* g.last_sleep
  created,   \* history: the timers that were added
  bed,       \* history: when the timer thread lay down to sleep, 0 while it is up
  runs       \* history: how often each timer ran in this pass, or since it was
             \* rescheduled

vars == <<now, last, tick, list, delta, add, del, sem, pc, cur, resched, nap,
          created, bed, runs>>

clock == <<now, last, tick>>

Init ==
  /\ now = 0 /\ last = 0 /\ tick = 0
  /\ list = << >> /\ delta = [u \in Timers |-> 0]
  /\ add = None /\ del = None /\ sem = FALSE
  /\ pc = "top" /\ cur = None /\ resched = FALSE
  /\ nap = 0
  /\ created = {} /\ bed = 0
  /\ runs = [u \in Timers |-> 0]

At(label) == pc = label
Listed == ToSet(list)

(* The delay from g.last_tick to the deadline of the i-th timer. *)
SumTo(l, d, i) == FoldLeft(LAMBDA sum, u : sum + d[u], 0, SubSeq(l, 1, i))

(* Mutant: "was previously <=": u goes before the timers due with it. *)
Insert_BeforeEqual(l, d, u, delay) ==
  LET later == {i \in DOMAIN l : delay <= SumTo(l, d, i)}
      i     == IF later = {} THEN Len(l) + 1 ELSE Min(later)
      rest  == delay - SumTo(l, d, i - 1)
  IN /\ list' = InsertAt(l, i, u)
     /\ delta' = [t \in Timers |->
                    CASE t = u -> rest
                      [] i <= Len(l) /\ t = l[i] -> d[t] - rest
                      [] OTHER -> d[t]]

(* DoInsertTimer: u goes before the first timer that is due later. *)
Insert(l, d, u, delay) ==
  LET later == {i \in DOMAIN l : delay < SumTo(l, d, i)}
      i     == IF later = {} THEN Len(l) + 1 ELSE Min(later)
      rest  == delay - SumTo(l, d, i - 1)
  IN /\ list' = InsertAt(l, i, u)
     /\ delta' = [t \in Timers |->
                    CASE t = u -> rest
                      [] i <= Len(l) /\ t = l[i] -> d[t] - rest
                      [] OTHER -> d[t]]

(* What comes behind u in the list. *)
Next1(u) == LET i == CHOOSE i \in DOMAIN list : list[i] = u
            IN IF i < Len(list) THEN {list[i + 1]} ELSE {}

(* DoRemoveTimer: the next timer inherits the delay. *)
Delete(u) ==
  IF u \in Listed
  THEN /\ list' = RemoveFirst(list, u)
       /\ delta' = [t \in Timers |-> IF t \in Next1(u) THEN delta[t] + delta[u] ELSE delta[t]]
  ELSE UNCHANGED <<list, delta>>

(***************************************************************************)
(* Time and clients.                                                       *)
(***************************************************************************)

Pass == /\ now < MaxTime
        /\ now' = now + 1
        /\ UNCHANGED <<last, tick, list, delta, add, del, sem, pc, cur, resched, nap,
                       created, bed, runs>>

(* AddTimerExx: into the list while a callback runs, else into the slot. *)
AddTimer(u) ==
  /\ u \notin created
  /\ created' = created \cup {u}
  /\ \/ /\ At("callback")
        /\ Insert(list, delta, u, Start[u])
        /\ sem' \in {sem, sem \/ Head(list') = u}
        /\ UNCHANGED add
     \/ /\ ~At("callback") /\ add = None
        /\ add' = u /\ delta' = [delta EXCEPT ![u] = Start[u]]
        /\ sem' = TRUE
        /\ UNCHANGED list
  /\ UNCHANGED <<clock, del, pc, cur, resched, nap, bed, runs>>

(* RemoveTimer: through the slot; a callback does not wake its own thread, *)
(* and removes a timer that is not the current one itself.                 *)
RemoveTimer(u) ==
  /\ u \in created /\ del = None
  /\ del' = u
  /\ sem' \in IF At("callback") /\ u = cur THEN {sem, TRUE} ELSE {TRUE}
  /\ UNCHANGED <<clock, list, delta, add, pc, cur, resched, nap, created, bed, runs>>

CallbackRemove(u) ==
  /\ At("callback") /\ u \in Listed
  /\ Delete(u)
  /\ UNCHANGED <<clock, add, del, sem, pc, cur, resched, nap, created, bed, runs>>

(* Mutant: a timer that becomes the first one does not wake the thread. *)
RescheduleListed_NoWake(u, delay) ==
  /\ u \in Listed
  /\ Insert(RemoveFirst(list, u), delta, u, delay)
  /\ runs' = [runs EXCEPT ![u] = 0]
  /\ UNCHANGED <<clock, add, del, sem, pc, cur, resched, nap, created, bed>>

(* InternalRescheduleTimerEx on a listed timer: GrabTimer takes it out, but *)
(* leaves the delay of the next one as it is.                               *)
RescheduleListed(u, delay) ==
  /\ u \in Listed
  /\ Insert(RemoveFirst(list, u), delta, u, delay)
  /\ sem' = (sem \/ Head(list') = u)
  /\ runs' = [runs EXCEPT ![u] = 0]
  /\ UNCHANGED <<clock, add, del, pc, cur, resched, nap, created, bed>>

Reschedule(u, delay) ==
  /\ Reschedulable # "none"
  /\ Reschedulable = "last" => list # << >> /\ u = Last(list)
  /\ RescheduleListed(u, delay)

(***************************************************************************)
(* The timer thread.                                                       *)
(***************************************************************************)

SleepForever ==
  /\ At("top") /\ add = None /\ list = << >>
  /\ pc' = "asleep"
  /\ UNCHANGED <<clock, list, delta, add, del, sem, cur, resched, nap, created, bed, runs>>

WakeUp ==
  /\ At("asleep") /\ sem
  /\ sem' = FALSE
  /\ last' = now
  /\ pc' = "top"
  /\ UNCHANGED <<now, tick, list, delta, add, del, cur, resched, nap, created, bed, runs>>

TakeAdd ==
  /\ At("top") /\ (add # None \/ list # << >>)
  /\ IF add # None THEN Insert(list, delta, add, delta[add]) ELSE UNCHANGED <<list, delta>>
  /\ add' = None
  /\ pc' = "del"
  /\ UNCHANGED <<clock, del, sem, cur, resched, nap, created, bed, runs>>

(* The removal, and the time of this pass. *)
TakeDel ==
  /\ At("del")
  /\ IF del # None THEN Delete(del) ELSE UNCHANGED <<list, delta>>
  /\ del' = None
  /\ tick' = now
  /\ runs' = [u \in Timers |-> 0]
  /\ pc' = "loop"
  /\ UNCHANGED <<now, last, add, sem, cur, resched, nap, created, bed>>

HeadDue == list # << >> /\ tick - last >= delta[Head(list)]

Dispatch ==
  /\ At("loop") /\ HeadDue
  /\ cur' = Head(list) /\ list' = Tail(list)
  /\ last' = last + delta[Head(list)]
  /\ resched' = FALSE
  /\ runs' = [runs EXCEPT ![Head(list)] = @ + 1]
  /\ pc' = "fire"
  /\ UNCHANGED <<now, tick, delta, add, del, sem, nap, created, bed>>

Callback ==
  /\ At("fire")
  /\ pc' = "callback"
  /\ UNCHANGED <<clock, list, delta, add, del, sem, cur, resched, nap, created, bed, runs>>

(* RescheduleTimerEx from within the callback. *)
RescheduleCurrent(delay) ==
  /\ At("callback")
  /\ resched' = TRUE
  /\ delta' = [delta EXCEPT ![cur] = delay]
  /\ runs' = [runs EXCEPT ![cur] = 0]
  /\ UNCHANGED <<clock, list, add, del, sem, pc, cur, nap, created, bed>>

(* Mutant: a late timer makes up for the runs it missed. *)
NextDelay_NoOverrun(u) == Frequency[u]

(* The delay of a periodic timer: its frequency after its deadline, or the *)
(* next tick after this pass if that has gone by.                          *)
NextDelay(u) ==
  IF tick - last > Frequency[u] THEN tick - last + 1 ELSE Frequency[u]

Requeue ==
  /\ At("callback")
  /\ IF resched THEN Insert(list, delta, cur, delta[cur])
     ELSE IF Frequency[cur] > 0 THEN Insert(list, delta, cur, NextDelay(cur))
     ELSE UNCHANGED <<list, delta>>
  /\ cur' = None
  /\ resched' = FALSE
  /\ pc' = "loop"
  /\ UNCHANGED <<clock, add, del, sem, nap, created, bed, runs>>

LoopEnds ==
  /\ At("loop") /\ ~HeadDue
  /\ cur' = IF list = << >> THEN None ELSE Head(list)
  /\ pc' = IF list = << >> THEN "top" ELSE "nap"
  /\ UNCHANGED <<clock, list, delta, add, del, sem, resched, nap, created, bed, runs>>

(* Sleep until the first deadline, read without csGrab from the timer that *)
(* was the first when the loop ended; 0 is no sleep.  The time to sleep is *)
(* counted from the time of the pass, and slept from now on.               *)
Nap ==
  LET time == delta[cur] - (tick - last) IN
  /\ At("nap")
  /\ nap' = IF time < 0 THEN 1 ELSE time
  /\ pc' = IF time = 0 THEN "top" ELSE "doze"
  /\ bed' = IF time = 0 THEN 0 ELSE now
  /\ cur' = None
  /\ UNCHANGED <<clock, list, delta, add, del, sem, resched, created, runs>>

(* Woken, or by the alarm, which may come at any time here: the deadlines  *)
(* are compared with the time again. *)
Doze ==
  /\ At("doze")
  /\ sem' = FALSE
  /\ nap' = 0 /\ bed' = 0
  /\ pc' = "top"
  /\ UNCHANGED <<clock, list, delta, add, del, cur, resched, created, runs>>

ClientCall ==
  \E u \in Timers :
    AddTimer(u) \/ RemoveTimer(u) \/ CallbackRemove(u) \/ \E d \in Delays : Reschedule(u, d)

TimerStep ==
  \/ SleepForever \/ WakeUp \/ TakeAdd \/ TakeDel \/ Dispatch \/ Callback
  \/ Requeue \/ LoopEnds \/ Nap \/ Doze
  \/ \E d \in Delays : RescheduleCurrent(d)

Next == Pass \/ ClientCall \/ TimerStep

Spec == Init /\ [][Next]_vars

----------------------------------------------------------------------------
(* Properties. *)

Deadline(i) == last + SumTo(list, delta, i)

(* The listed timers with their deadlines. *)
Queue == [i \in DOMAIN list |-> [timer |-> list[i], at |-> Deadline(i)]]

Abstract == INSTANCE DeadlineQueue WITH queue <- Queue

(* The chain of delays is a queue of deadlines: inserting, removing and    *)
(* dispatching one timer leaves the deadlines of the others alone, keeps   *)
(* them in order, and equal ones in the order of their arrival.            *)
ImplementsQueue == Abstract!Spec

(* The time to sleep is counted from the time of the pass, but slept from  *)
(* when the thread lies down (timers.c:1519, 1533), so that it may sleep   *)
(* beyond the first deadline: by no more than the callbacks and the rest   *)
(* of the pass took, unless it is going to be woken.                       *)
Oversleep == bed + nap - Deadline(1)
OversleepBound == At("doze") /\ ~sem /\ list # << >> => Oversleep <= bed - tick

(* One pass ends: "Otherwise we may NEVER get out of processing this       *)
(* timer" (timers.c:1467).  A timer that nobody reschedules runs at most   *)
(* twice in a pass, the second time if its next deadline is the time of    *)
(* the pass.                                                               *)
PassEnds == \A u \in Timers : runs[u] <= 2

(* A timer that is overdue by more than its frequency does not try to      *)
(* catch up: after its run the next deadline lies after the pass.          *)
NoCatchUp ==
  [][At("callback") /\ pc' = "loop" /\ ~resched /\ tick - last > Frequency[cur]
       => \A i \in DOMAIN list' : list'[i] = cur => SumTo(list', delta', i) > tick - last]_vars
=============================================================================
