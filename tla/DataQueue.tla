----------------------------- MODULE DataQueue -----------------------------
(***************************************************************************)
(* The data queues of typelib/typecode.c: structures copied into a ring    *)
(* that is replaced by a larger one when it is full.  One slot stays empty *)
(* so that Top = Bottom means an empty queue.                              *)
(*                                                                         *)
(* Every call holds the queue's spin lock from its first read to its last  *)
(* write, so a call is one step; what the lock itself does while the ring  *)
(* is replaced is not modelled.  The link queues of the same file run the  *)
(* same code on pointers, always expand by 16 and have no Unque or Empty.  *)
(* A put into a full ring that expands by 0 may leave a cursor outside the *)
(* ring; the next call writes past its end, and the model stops before it. *)
(***************************************************************************)
EXTENDS Integers, Sequences

CONSTANTS
  Items,          \* the structures callers enqueue
  NoItem,         \* no result, and the contents of fresh memory
  Entries,        \* the entries argument of CreateLargeDataQueue
  DefaultExpand,  \* ExpandBy of CreateDataQueue (16 in the code)
  LargeExpands,   \* the expand arguments of CreateLargeDataQueueEx (0 in the
                  \* CreateLargeDataQueue macro)
  Positions,      \* the idx arguments of PeekDataQueueEx
  MaxCnt          \* bound: no queue grows past this

ASSUME ItemsAssumption == NoItem \notin Items
ASSUME SizesAssumption ==
  /\ Entries \in Nat
  /\ DefaultExpand \in Nat
  /\ LargeExpands \subseteq Nat
  /\ Positions \subseteq Nat /\ 0 \in Positions
  /\ MaxCnt \in Nat

VARIABLES
  made,      \* *ppdq is not NULL
  cnt,       \* Cnt: the slots of the ring
  bottom,    \* Bottom: the slot of the next item to leave
  top,       \* Top: the slot for the next item
  expandBy,  \* ExpandBy
  data,      \* data
  out,       \* what the last DequeData or UnqueData returned
  seen       \* the idx of the last PeekDataQueueEx, and what it returned

ring == <<made, cnt, bottom, top, expandBy, data>>
vars == <<ring, out, seen>>

Slots == 0 .. cnt - 1

Init ==
  /\ made = FALSE
  /\ cnt = 2
  /\ bottom = 0
  /\ top = 0
  /\ expandBy = DefaultExpand
  /\ data = [i \in 0 .. 1 |-> NoItem]
  /\ out = NoItem
  /\ seen = <<0, NoItem>>

Wrap(i) == IF i >= cnt THEN i - cnt ELSE i

Length == (top - bottom) + (IF top < bottom THEN cnt ELSE 0)

----------------------------------------------------------------------------
(* The calls.                                                               *)

CreateSized(size, expand) ==
  /\ ~made
  /\ made' = TRUE
  /\ cnt' = size
  /\ bottom' = 0
  /\ top' = 0
  /\ expandBy' = expand
  /\ data' = [i \in 0 .. size - 1 |-> NoItem]
  /\ UNCHANGED <<out, seen>>

CreateDataQueue == CreateSized(2, DefaultExpand)

CreateLargeDataQueue ==
  \E expand \in LargeExpands : CreateSized(2 + Entries, expand)

DeleteDataQueue ==
  /\ made' = FALSE
  /\ UNCHANGED <<cnt, bottom, top, expandBy, data, out, seen>>

(* What ExpandDataQueueEx moves into the new ring, from its slot 0 on: the *)
(* items up to the end of the old ring and, when they wrap, those from its *)
(* start.                                                                  *)
NewTop ==
  IF bottom > top THEN (cnt - bottom) + top ELSE top - bottom

(* Mutant: the halves are exchanged. *)
Moved_Swapped(i) ==
  IF bottom <= top THEN data[bottom + i]
  ELSE IF i < top THEN data[i] ELSE data[bottom + (i - top)]
Moved(i) ==
  IF i < cnt - bottom THEN data[bottom + i] ELSE data[i - (cnt - bottom)]

Expanded ==
  [i \in 0 .. cnt + expandBy - 1 |->
     IF i < NewTop THEN Moved(i) ELSE NoItem]

Full == Wrap(top + 1) = bottom

HasRoom == Full => cnt + expandBy <= MaxCnt

(* Mutant: Top is not wrapped. *)
EnqueInPlace_NoWrap(x) ==
  /\ ~Full
  /\ data' = [data EXCEPT ![top] = x]
  /\ top' = top + 1
  /\ UNCHANGED <<cnt, bottom>>

EnqueInPlace(x) ==
  /\ ~Full
  /\ data' = [data EXCEPT ![top] = x]
  /\ top' = Wrap(top + 1)
  /\ UNCHANGED <<cnt, bottom>>

EnqueExpanded(x) ==
  /\ Full
  /\ cnt' = cnt + expandBy
  /\ bottom' = 0
  /\ data' = [Expanded EXCEPT ![NewTop] = x]
  /\ top' = NewTop + 1

EnqueData(x) ==
  /\ made /\ HasRoom
  /\ EnqueInPlace(x) \/ EnqueExpanded(x)
  /\ UNCHANGED <<made, expandBy, out, seen>>

Before == IF bottom = 0 THEN cnt - 1 ELSE bottom - 1

PrequeInPlace(x) ==
  /\ Before # top
  /\ data' = [data EXCEPT ![Before] = x]
  /\ bottom' = Before
  /\ UNCHANGED <<cnt, top>>

PrequeExpanded(x) ==
  /\ Before = top
  /\ cnt' = cnt + expandBy
  /\ bottom' = cnt' - 1
  /\ data' = [Expanded EXCEPT ![cnt' - 1] = x]
  /\ top' = NewTop

PrequeData(x) ==
  /\ made /\ HasRoom
  /\ PrequeInPlace(x) \/ PrequeExpanded(x)
  /\ UNCHANGED <<made, expandBy, out, seen>>

(* DequeData and UnqueData on an empty queue, or where there is none. *)
TakeNothing ==
  /\ ~made \/ bottom = top
  /\ out' = NoItem
  /\ UNCHANGED <<ring, seen>>

DequeData ==
  /\ made /\ bottom # top
  /\ out' = data[bottom]
  /\ bottom' = Wrap(bottom + 1)
  /\ UNCHANGED <<made, cnt, top, expandBy, data, seen>>

LastSlot == IF top > 0 THEN top - 1 ELSE cnt - 1

(* Mutant: the slot above the last item is read. *)
UnqueData_AtTop ==
  /\ made /\ bottom # top
  /\ out' = data[top]
  /\ top' = LastSlot
  /\ UNCHANGED <<made, cnt, bottom, expandBy, data, seen>>

UnqueData ==
  /\ made /\ bottom # top
  /\ out' = data[LastSlot]
  /\ top' = LastSlot
  /\ UNCHANGED <<made, cnt, bottom, expandBy, data, seen>>

(* The loop walks from Bottom and gives up in the slot Top. *)
Reached(i) == \A k \in 0 .. i : Wrap(bottom + k) # top

PeekDataQueue(i) ==
  /\ seen' =
       <<i, IF made /\ Reached(i) THEN data[Wrap(bottom + i)] ELSE NoItem>>
  /\ UNCHANGED <<ring, out>>

EmptyDataQueue ==
  /\ made
  /\ bottom' = 0
  /\ top' = 0
  /\ UNCHANGED <<made, cnt, expandBy, data, out, seen>>

InBounds == bottom < cnt /\ top < cnt

Next ==
  /\ InBounds
  /\ \/ CreateDataQueue \/ CreateLargeDataQueue \/ DeleteDataQueue
     \/ \E x \in Items : EnqueData(x) \/ PrequeData(x)
     \/ DequeData \/ UnqueData \/ TakeNothing
     \/ \E i \in Positions : PeekDataQueue(i)
     \/ EmptyDataQueue

Spec == Init /\ [][Next]_vars

----------------------------------------------------------------------------
(* Types, for the prover as well: a ring has a slot to spare. *)
TypeOK ==
  /\ made \in BOOLEAN
  /\ cnt \in Nat /\ cnt >= 2
  /\ bottom \in Nat
  /\ top \in Nat
  /\ expandBy \in LargeExpands \cup {DefaultExpand}
  /\ data \in [Slots -> Items \cup {NoItem}]
  /\ out \in Items \cup {NoItem}
  /\ seen \in Positions \X (Items \cup {NoItem})

(* A put into a full ring that does not expand: the code takes the slot    *)
(* after Top, or the last one, all the same ("should be room at the end of *)
(* phsyical array", typecode.c:952, 987).                                  *)
Overfills ==
  /\ Full /\ expandBy = 0
  /\ \E x \in Items : EnqueData(x) \/ PrequeData(x)

(* Both cursors stay inside the ring, across every wrap and growth; only   *)
(* that put can move one out of it.                                        *)
StaysInBounds == [][InBounds' \/ Overfills]_vars

(* Between Bottom and Top are items that were queued, never memory that    *)
(* was not written: a growth moves both halves of a wrapped ring.          *)
HoldsItems ==
  InBounds => \A i \in 0 .. Length - 1 : data[Wrap(bottom + i)] \in Items

(* A new ring is allocated only when every slot but one is taken.          *)
GrowsWhenFull ==
  [][made /\ made' /\ cnt' # cnt => Length = cnt - 1]_vars

(* The queue is a sequence whatever the ring's layout: items come out of   *)
(* both ends, and are looked at, in the order they were put in.  The one   *)
(* step that is none of a sequence is the put that overfills the ring.     *)
Contents == IF made THEN [i \in 1 .. Length |-> data[Wrap(bottom + i - 1)]]
            ELSE << >>

Abstract == INSTANCE DoubleEndedQueue WITH items <- Contents

ImplementsQueue ==
  Abstract!Init /\ [][Abstract!Next \/ Overfills]_<<Contents, out, seen>>
=============================================================================
