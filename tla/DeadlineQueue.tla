-------------------------- MODULE DeadlineQueue --------------------------
(***************************************************************************)
(* What the timer list of timerlib/timers.c promises: timers wait in the   *)
(* order of their deadlines, equal deadlines in the order of arrival, the  *)
(* first one is taken, and nothing that happens to one timer moves the     *)
(* deadline of another.                                                    *)
(***************************************************************************)
EXTENDS Integers, SequencesExt

CONSTANT Timers

VARIABLE queue   \* the waiting timers with their deadlines

Entry(u, at) == [timer |-> u, at |-> at]
Places(u) == {i \in DOMAIN queue : queue[i].timer = u}

Init == queue = << >>

(* u goes between what is due no later and what is due later. *)
Place(q, u, at) ==
  \E i \in 1 .. Len(q) + 1 :
    /\ \A j \in DOMAIN q : j < i <=> q[j].at <= at
    /\ queue' = InsertAt(q, i, Entry(u, at))

Insert(u, at) == Places(u) = {} /\ Place(queue, u, at)

Move(u, at) == \E i \in Places(u) : Place(RemoveAt(queue, i), u, at)

Cancel(u) == \E i \in Places(u) : queue' = RemoveAt(queue, i)

Take == queue # << >> /\ queue' = Tail(queue)

(* The deadline a step gives a timer, if it gives it one. *)
Given(u) == {queue'[i].at : i \in {j \in DOMAIN queue' : queue'[j].timer = u}}

Next ==
  \/ Take
  \/ \E u \in Timers :
       \/ Cancel(u)
       \/ \E at \in Given(u) : Insert(u, at) \/ Move(u, at)

Spec == Init /\ [][Next]_queue
=============================================================================
