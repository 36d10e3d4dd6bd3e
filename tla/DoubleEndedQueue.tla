------------------------- MODULE DoubleEndedQueue -------------------------
(***************************************************************************)
(* What the data queues of typelib/typecode.c promise (typelib.h and       *)
(* sack_types.h): items leave in the order of their positions, whatever    *)
(* was added at which end and however often the queue has grown.           *)
(***************************************************************************)
EXTENDS Naturals, Sequences

CONSTANTS
  Items,      \* what may be queued
  NoItem,     \* the answer when there is nothing
  Positions   \* the places callers look at, 0 being the next to leave

VARIABLES
  items,   \* the queue, the next one to leave first
  out,     \* what the last call that takes an item returned
  seen     \* the place last looked at, and what was there

vars == <<items, out, seen>>

Init == items = << >> /\ out = NoItem /\ seen = <<0, NoItem>>

PutBack(x) == items' = Append(items, x) /\ UNCHANGED <<out, seen>>

PutFront(x) == items' = <<x>> \o items /\ UNCHANGED <<out, seen>>

TakeFront ==
  /\ items # << >>
  /\ out' = items[1]
  /\ items' = Tail(items)
  /\ UNCHANGED seen

TakeBack ==
  /\ items # << >>
  /\ out' = items[Len(items)]
  /\ items' = SubSeq(items, 1, Len(items) - 1)
  /\ UNCHANGED seen

TakeNothing == items = << >> /\ out' = NoItem /\ UNCHANGED <<items, seen>>

Look(i) ==
  /\ seen' = <<i, IF i < Len(items) THEN items[i + 1] ELSE NoItem>>
  /\ UNCHANGED <<items, out>>

Clear == items' = << >> /\ UNCHANGED <<out, seen>>

Next ==
  \/ \E x \in Items : PutBack(x) \/ PutFront(x)
  \/ TakeFront \/ TakeBack \/ TakeNothing
  \/ \E i \in Positions : Look(i)
  \/ Clear

Spec == Init /\ [][Next]_vars
=============================================================================
