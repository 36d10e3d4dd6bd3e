------------------------ MODULE TimerThread_proofs ------------------------
(***************************************************************************)
(* Proofs about TimerThread for any clients, timers, uses and depth of     *)
(* nesting: a timer is always in one hand, no removal is forgotten, and    *)
(* the two flags only go wrong in the ways FlagsOwned names.               *)
(***************************************************************************)
EXTENDS TimerThread, FiniteSetTheorems, TLAPS

USE ProcsAssumption, TimersAssumption, UsesAssumption, BoundsAssumption

----------------------------------------------------------------------------
(* The inductive invariant. *)

(* Where the timer thread is when no callback is under way in this pass,   *)
(* and when one is.                                                        *)
OutLabels == {"off", "top", "asleep", "doze", "add", "added", "del", "deleted", "loop"}
InLabels == {"fire", "setaway", "callback", "lockself", "waitself", "clearaway",
             "waitinsert", "requeue"}
Nesting ==
  /\ \/ pc[TT] \in OutLabels /\ Len(frames) < MaxNest
     \/ pc[TT] \in InLabels /\ frames # << >>
  /\ \A i, j \in DOMAIN frames : frames[i] = frames[j] => i = j

(* The hands a timer can be in, and that no two of them have it: a record  *)
(* whose "me" is left set counts as one, so that a timer that was put back *)
(* after it was freed is never in two of the others either.                *)
InAdd(u) == add = u /\ ~At(TT, "added")
Held(u) ==
  \/ \E c \in Clients : Adding(c, u)
  \/ InAdd(u) \/ u \in linked \/ u \in freed \/ u \in InFrames
Exclusive(u) ==
  /\ \A c, d \in Clients : Adding(c, u) /\ Adding(d, u) => c = d
  /\ \A c \in Clients : Adding(c, u) => ~InAdd(u) /\ u \notin linked \cup stale \cup InFrames
  /\ InAdd(u) => u \notin linked \cup stale \cup InFrames
  /\ u \in linked => u \notin stale \cup InFrames
  /\ u \in stale => u \notin InFrames
  /\ u \in freed \ revived =>
       /\ u \notin linked \cup InFrames /\ ~InAdd(u)
       /\ \A c \in Clients : ~Adding(c, u)

(* Only timers that were added are anywhere. *)
Known ==
  /\ {add, del, currentId} \subseteq created \cup {None}
  /\ \A c \in Clients : arg[c] \in created \cup {None}
  /\ linked \subseteq created /\ freed \subseteq created /\ InFrames \subseteq created
  /\ stale \subseteq freed

Hands == Known /\ \A u \in created : Held(u) /\ Exclusive(u)

(* A call is about a timer, and g.add_timer stays set until the timer      *)
(* thread has listed the timer.                                            *)
Calls ==
  /\ \A c \in Clients : pc[c] # "idle" => arg[c] # None
  /\ At(TT, "added") => add # None

IInv == TypeOK /\ Nesting /\ Hands /\ Calls

LEMMA InitIInv == Init => IInv
<1> SUFFICES ASSUME Init PROVE IInv
  OBVIOUS
<1> USE DEF Init
<1>1. TypeOK
  <2>1. pc \in [Procs -> Labels] /\ frames \in Seq(Timers) /\ Len(frames) = 0
    BY DEF Procs, Labels
  <2>2. flags \in Flags /\ word \in [Procs -> Flags \cup {None}] BY DEF Flags
  <2>3. Len(frames) <= MaxNest BY <2>1
  <2>4. arg \in [Clients -> Timers \cup {None}] OBVIOUS
  <2> QED BY <2>1, <2>2, <2>3, <2>4 DEF TypeOK
<1>2. Nesting BY DEF Nesting, OutLabels, Procs
<1>3. Hands BY DEF Hands, Known, InFrames
<1>4. Calls BY DEF Calls, At, Procs
<1> QED BY <1>1, <1>2, <1>3, <1>4 DEF IInv

(* What Dispatch, and Requeue and FreeOneShot, do to the frames. *)
LEMMA Pushed ==
  ASSUME TypeOK, Nesting, NEW u \in Timers \ InFrames, frames' = Append(frames, u)
  PROVE  /\ frames' \in Seq(Timers) /\ Len(frames') = Len(frames) + 1 /\ frames' # << >>
         /\ InFrames' = InFrames \cup {u}
         /\ \A i, j \in DOMAIN frames' : frames'[i] = frames'[j] => i = j
<1>1. frames \in Seq(Timers) BY DEF TypeOK
<1>2. /\ frames' \in Seq(Timers) /\ Len(frames') = Len(frames) + 1
      /\ DOMAIN frames = 1 .. Len(frames) /\ DOMAIN frames' = 1 .. Len(frames) + 1
      /\ Len(frames) \in Nat
  BY <1>1
<1>3. /\ \A i \in DOMAIN frames : frames'[i] = frames[i]
      /\ frames'[Len(frames) + 1] = u
  BY <1>1, <1>2
<1>4. \A i \in DOMAIN frames' : i \in DOMAIN frames \/ i = Len(frames) + 1
  BY <1>2
<1>5. InFrames' = InFrames \cup {u}
  BY <1>2, <1>3, <1>4 DEF InFrames
<1>6. \A i \in DOMAIN frames : frames[i] # u
  BY DEF InFrames
<1>7. \A i, j \in DOMAIN frames' : frames'[i] = frames'[j] => i = j
  BY <1>2, <1>3, <1>4, <1>6 DEF Nesting
<1> QED BY <1>2, <1>5, <1>7

LEMMA Popped ==
  ASSUME TypeOK, Nesting, frames # << >>, frames' = SubSeq(frames, 1, Len(frames) - 1)
  PROVE  /\ frames' \in Seq(Timers) /\ Len(frames') = Len(frames) - 1
         /\ Me \in Timers /\ Me \in InFrames /\ InFrames' = InFrames \ {Me}
         /\ \A i, j \in DOMAIN frames' : frames'[i] = frames'[j] => i = j
<1>1. frames \in Seq(Timers) /\ Len(frames) \in Nat \ {0} /\ DOMAIN frames = 1 .. Len(frames)
  BY DEF TypeOK
<1>2. /\ frames' \in Seq(Timers) /\ Len(frames') = Len(frames) - 1
      /\ DOMAIN frames' = 1 .. Len(frames) - 1
      /\ \A i \in DOMAIN frames' : frames'[i] = frames[i]
  BY <1>1
<1>3. Len(frames) \in DOMAIN frames /\ Me \in Timers /\ Me \in InFrames
  BY <1>1 DEF Me, InFrames
<1>4. \A i \in DOMAIN frames : i \in DOMAIN frames' \/ i = Len(frames)
  BY <1>1, <1>2
<1>5. \A i \in DOMAIN frames' : frames[i] # Me
  <2> TAKE i \in DOMAIN frames'
  <2>1. i \in DOMAIN frames /\ i # Len(frames) BY <1>1, <1>2
  <2> QED BY <2>1, <1>3 DEF Nesting, Me
<1>6. InFrames' = InFrames \ {Me}
  <2>1. InFrames' \subseteq InFrames \ {Me}
    BY <1>1, <1>2, <1>5 DEF InFrames
  <2>2. InFrames \ {Me} \subseteq InFrames'
    BY <1>2, <1>4 DEF InFrames, Me
  <2> QED BY <2>1, <2>2
<1> QED BY <1>1, <1>2, <1>3, <1>6 DEF Nesting

----------------------------------------------------------------------------
(* Types and nesting. *)

TypesKept == TypeOK' /\ Nesting'

LEMMA GotoType ==
  ASSUME TypeOK, NEW p \in Procs, NEW label \in Labels, Goto(p, label)
  PROVE  /\ pc' \in [Procs -> Labels] /\ pc'[p] = label
         /\ \A q \in Procs \ {p} : pc'[q] = pc[q]
BY DEF TypeOK, Goto

LEMMA WriteFlagType ==
  ASSUME TypeOK, NEW p \in Procs, NEW from, NEW bit \in {"away", "insert"}, NEW value \in BOOLEAN,
         NEW to, WriteFlag(p, from, bit, value, to)
  PROVE  flags' \in Flags /\ word' \in [Procs -> Flags \cup {None}]
<1>1. CASE LoadFlags(p, from)
  BY <1>1 DEF LoadFlags, TypeOK
<1>2. CASE StoreFlag(p, from, bit, value, to)
  <2>1. word[p] \in Flags BY <1>2 DEF StoreFlag, TypeOK
  <2> QED BY <1>2, <2>1 DEF StoreFlag, TypeOK, Flags
<1> QED BY <1>1, <1>2 DEF WriteFlag

(* A client leaves the timer thread where it is. *)
LEMMA ClientNesting ==
  ASSUME Nesting, UNCHANGED frames, pc'[TT] = pc[TT]
  PROVE  Nesting'
BY DEF Nesting

LEMMA CallTypes ==
  ASSUME IInv, UNCHANGED use, NEW c \in Clients, NEW u \in Timers,
         \/ AddTimer(c, u) \/ RemoveTimer(c, u) \/ ChangeTimer(c, u)
         \/ RescheduleListed(c, u) \/ RescheduleCurrent(c, u) \/ RescheduleTimer(c, u)
  PROVE  TypesKept
<1> USE DEF list, hand, disp, Procs, IInv
<1>1. CASE AddTimer(c, u)
  <2>1. /\ pc' \in [Procs -> Labels]
        /\ pc'[TT] = IF pc[TT] = "off" THEN "top" ELSE pc[TT]
    BY <1>1 DEF AddTimer, TypeOK, Labels
  <2>2. TypeOK' BY <1>1, <2>1 DEF AddTimer, TypeOK
  <2>3. Nesting' BY <1>1, <2>1 DEF AddTimer, Nesting, OutLabels, InLabels
  <2> QED BY <2>2, <2>3 DEF TypesKept
<1>2. CASE RemoveTimer(c, u)
  <2>1. pc' \in [Procs -> Labels] /\ pc'[TT] = pc[TT] BY <1>2 DEF RemoveTimer, TypeOK, Labels, Goto, At
  <2>2. u \in created BY <1>2 DEF RemoveTimer, MayRemove
  <2>4. asked' \subseteq Procs \X created' BY <1>2, <2>2 DEF RemoveTimer, TypeOK
  <2>5. arg' \in [Clients -> Timers \cup {None}] BY <1>2 DEF RemoveTimer, TypeOK
  <2>3. TypeOK' BY <1>2, <2>1, <2>4, <2>5 DEF RemoveTimer, TypeOK
  <2> QED BY <1>2, <2>1, <2>3, ClientNesting DEF TypesKept, RemoveTimer
<1>3. CASE RescheduleListed(c, u)
  <2>1. TypeOK' BY <1>3 DEF RescheduleListed, TypeOK
  <2>2. UNCHANGED <<frames, pc>> BY <1>3 DEF RescheduleListed
  <2> QED BY <2>1, <2>2 DEF TypesKept, Nesting
<1>5. CASE RescheduleCurrent(c, u)
  <2>1. pc' \in [Procs -> Labels] /\ pc'[TT] = pc[TT]
    BY <1>5 DEF RescheduleCurrent, TypeOK, Labels, Goto, At
  <2>2. TypeOK' BY <1>5, <2>1 DEF RescheduleCurrent, TypeOK
  <2> QED BY <1>5, <2>1, <2>2, ClientNesting DEF TypesKept, RescheduleCurrent
<1>6. CASE RescheduleTimer(c, u)
  <2>1. pc' \in [Procs -> Labels] /\ pc'[TT] = pc[TT]
    BY <1>6 DEF RescheduleTimer, TypeOK, Labels, Goto, At
  <2>2. TypeOK' BY <1>6, <2>1 DEF RescheduleTimer, TypeOK
  <2> QED BY <1>6, <2>1, <2>2, ClientNesting DEF TypesKept, RescheduleTimer
<1>4. CASE ChangeTimer(c, u)
  <2>1. pc' \in [Procs -> Labels] /\ pc'[TT] = pc[TT] BY <1>4 DEF ChangeTimer, TypeOK, Labels, Goto, At
  <2>2. TypeOK' BY <1>4, <2>1 DEF ChangeTimer, TypeOK
  <2> QED BY <1>4, <2>1, <2>2, ClientNesting DEF TypesKept, ChangeTimer
<1> QED BY <1>1, <1>2, <1>3, <1>4, <1>5, <1>6

LEMMA ClientTypes ==
  ASSUME IInv, UNCHANGED use, NEW c \in Clients, ClientStep(c)
  PROVE  TypesKept
<1> USE DEF list, hand, disp, Procs, IInv
<1>1. CASE IsAway(c)
  <2>1. pc' \in [Procs -> Labels] /\ pc'[TT] = pc[TT] BY <1>1 DEF IsAway, TypeOK, Labels, Goto, At
  <2>2. TypeOK' BY <1>1, <2>1 DEF IsAway, TypeOK
  <2> QED BY <1>1, <2>1, <2>2, ClientNesting DEF TypesKept, IsAway
<1>2. CASE SetInsert(c)
  <2>1. pc' \in [Procs -> Labels] /\ pc'[TT] = pc[TT] BY <1>2 DEF SetInsert, WriteFlag, LoadFlags, StoreFlag, TypeOK, Labels, Goto, At
  <2>2. flags' \in Flags /\ word' \in [Procs -> Flags \cup {None}] BY <1>2, WriteFlagType DEF SetInsert
  <2>3. TypeOK' BY <1>2, <2>1, <2>2 DEF SetInsert, WriteFlag, LoadFlags, StoreFlag, TypeOK
  <2> QED BY <1>2, <2>1, <2>3, ClientNesting DEF TypesKept, SetInsert, WriteFlag, LoadFlags, StoreFlag
<1>3. CASE StillAway(c)
  <2>1. pc' \in [Procs -> Labels] /\ pc'[TT] = pc[TT] BY <1>3 DEF StillAway, TypeOK, Labels, Goto, At
  <2>2. TypeOK' BY <1>3, <2>1 DEF StillAway, TypeOK
  <2> QED BY <1>3, <2>1, <2>2, ClientNesting DEF TypesKept, StillAway
<1>4. CASE InsertWhileAway(c)
  <2>1. pc' \in [Procs -> Labels] /\ pc'[TT] = pc[TT] BY <1>4 DEF InsertWhileAway, Link, TypeOK, Labels, Goto, At
  <2>2. arg[c] \in Timers BY <1>4 DEF InsertWhileAway, TypeOK, Calls, At
  <2>3. TypeOK' BY <1>4, <2>1, <2>2 DEF InsertWhileAway, Link, TypeOK
  <2> QED BY <1>4, <2>1, <2>3, ClientNesting DEF TypesKept, InsertWhileAway, Link
<1>5. CASE ClearInsert(c)
  <2>1. pc' \in [Procs -> Labels] /\ pc'[TT] = pc[TT] BY <1>5 DEF ClearInsert, WriteFlag, LoadFlags, StoreFlag, TypeOK, Labels, Goto, At
  <2>2. flags' \in Flags /\ word' \in [Procs -> Flags \cup {None}] BY <1>5, WriteFlagType DEF ClearInsert
  <2>3. TypeOK' BY <1>5, <2>1, <2>2 DEF ClearInsert, WriteFlag, LoadFlags, StoreFlag, TypeOK
  <2> QED BY <1>5, <2>1, <2>3, ClientNesting DEF TypesKept, ClearInsert, WriteFlag, LoadFlags, StoreFlag
<1>6. CASE LockChange(c)
  <2>1. pc' \in [Procs -> Labels] /\ pc'[TT] = pc[TT] BY <1>6 DEF LockChange, TypeOK, Labels, Goto, At
  <2>2. TypeOK' BY <1>6, <2>1 DEF LockChange, TypeOK
  <2> QED BY <1>6, <2>1, <2>2, ClientNesting DEF TypesKept, LockChange
<1>7. CASE WakeWhileWaiting(c)
  <2>1. pc' \in [Procs -> Labels] /\ pc'[TT] = pc[TT] BY <1>7 DEF WakeWhileWaiting, TypeOK, Labels, Goto, At
  <2>2. TypeOK' BY <1>7, <2>1 DEF WakeWhileWaiting, TypeOK
  <2> QED BY <1>7, <2>1, <2>2, ClientNesting DEF TypesKept, WakeWhileWaiting
<1>8. CASE HandOverAdd(c)
  <2>1. pc' \in [Procs -> Labels] /\ pc'[TT] = pc[TT] BY <1>8 DEF HandOverAdd, TypeOK, Labels, Goto, At
  <2>2. TypeOK' BY <1>8, <2>1 DEF HandOverAdd, TypeOK
  <2> QED BY <1>8, <2>1, <2>2, ClientNesting DEF TypesKept, HandOverAdd
<1>9. CASE HandOverDel(c)
  <2>1. pc' \in [Procs -> Labels] /\ pc'[TT] = pc[TT] BY <1>9 DEF HandOverDel, TypeOK, Labels, Goto, At
  <2>2. TypeOK' BY <1>9, <2>1 DEF HandOverDel, TypeOK
  <2> QED BY <1>9, <2>1, <2>2, ClientNesting DEF TypesKept, HandOverDel
<1>10. CASE Wake(c)
  <2>1. pc' \in [Procs -> Labels] /\ pc'[TT] = pc[TT] BY <1>10 DEF Wake, TypeOK, Labels, Goto, At
  <2>2. TypeOK' BY <1>10, <2>1 DEF Wake, TypeOK
  <2> QED BY <1>10, <2>1, <2>2, ClientNesting DEF TypesKept, Wake
<1>11. CASE Return(c)
  <2>1. pc' \in [Procs -> Labels] /\ pc'[TT] = pc[TT] BY <1>11 DEF Return, TypeOK, Labels, Goto, At
  <2>2. TypeOK' BY <1>11, <2>1 DEF Return, TypeOK
  <2> QED BY <1>11, <2>1, <2>2, ClientNesting DEF TypesKept, Return
<1>12. CASE MarkCurrent(c)
  <2>1. pc' \in [Procs -> Labels] /\ pc'[TT] = pc[TT] BY <1>12 DEF MarkCurrent, TypeOK, Labels, Goto, At
  <2>2. arg[c] \in Timers BY <1>12 DEF MarkCurrent, TypeOK, Calls, At
  <2>3. TypeOK' BY <1>12, <2>1, <2>2 DEF MarkCurrent, TypeOK
  <2> QED BY <1>12, <2>1, <2>3, ClientNesting DEF TypesKept, MarkCurrent
<1>13. CASE Regrab(c)
  <2>1. pc' \in [Procs -> Labels] /\ pc'[TT] = pc[TT] BY <1>13 DEF Regrab, TypeOK, Labels, Goto, At
  <2>2. arg[c] \in Timers BY <1>13 DEF Regrab, TypeOK, Calls, At
  <2>3. TypeOK' BY <1>13, <2>1, <2>2 DEF Regrab, TypeOK
  <2> QED BY <1>13, <2>1, <2>3, ClientNesting DEF TypesKept, Regrab
<1>14. CASE Relink(c)
  <2>1. pc' \in [Procs -> Labels] /\ pc'[TT] = pc[TT] BY <1>14 DEF Relink, Link, TypeOK, Labels, Goto, At
  <2>2. arg[c] \in Timers BY <1>14 DEF Relink, TypeOK, Calls, At
  <2>3. TypeOK' BY <1>14, <2>1, <2>2 DEF Relink, Link, TypeOK
  <2> QED BY <1>14, <2>1, <2>3, ClientNesting DEF TypesKept, Relink, Link
<1>15. CASE Lookup(c)
  <2>1. pc' \in [Procs -> Labels] /\ pc'[TT] = pc[TT] BY <1>15 DEF Lookup, TypeOK, Labels, Goto, At
  <2>2. arg[c] \in Timers BY <1>15 DEF Lookup, TypeOK, Calls, At
  <2>3. /\ linked' \subseteq Timers /\ stale' \subseteq Timers /\ rescheduled' \subseteq Timers
        /\ revived' \subseteq freed /\ sem' \in BOOLEAN
    BY <1>15, <2>2 DEF Lookup, TypeOK
  <2>4. TypeOK' BY <1>15, <2>1, <2>3 DEF Lookup, TypeOK
  <2> QED BY <1>15, <2>1, <2>4, ClientNesting DEF TypesKept, Lookup
<1>16. CASE LookupCurrent(c)
  <2>1. pc' \in [Procs -> Labels] /\ pc'[TT] = pc[TT]
    BY <1>16 DEF LookupCurrent, TypeOK, Labels, Goto, At
  <2>2. TypeOK' BY <1>16, <2>1 DEF LookupCurrent, TypeOK
  <2> QED BY <1>16, <2>1, <2>2, ClientNesting DEF TypesKept, LookupCurrent
<1> QED BY <1>1, <1>2, <1>3, <1>4, <1>5, <1>6, <1>7, <1>8, <1>9, <1>10, <1>11, <1>12, <1>13, <1>14,
           <1>15, <1>16 DEF ClientStep

LEMMA MeType ==
  ASSUME TypeOK, Nesting, pc[TT] \in InLabels
  PROVE  Me \in Timers /\ Me \in InFrames
<1>1. frames # << >> BY DEF Nesting, OutLabels, InLabels
<1>2. frames \in Seq(Timers) /\ Len(frames) \in DOMAIN frames BY <1>1 DEF TypeOK
<1> QED BY <1>2 DEF Me, InFrames

LEMMA TimerTypes ==
  ASSUME IInv, UNCHANGED use, TimerStep
  PROVE  TypesKept
<1> USE DEF list, hand, disp, Procs, IInv, TypesKept
<1>1. CASE NoTimers
  <2>1. pc' \in [Procs -> Labels] BY <1>1 DEF NoTimers, TypeOK, Labels, Goto
  <2>2. TypeOK' BY <1>1, <2>1 DEF NoTimers, TypeOK, At
  <2>3. Nesting' BY <1>1, <2>1 DEF NoTimers, Nesting, TypeOK, Goto, At, OutLabels, InLabels, Top, Nested
  <2> QED BY <2>2, <2>3
<1>2. CASE SomeTimers
  <2>1. pc' \in [Procs -> Labels] BY <1>2 DEF SomeTimers, TypeOK, Labels, Goto
  <2>2. TypeOK' BY <1>2, <2>1 DEF SomeTimers, TypeOK, At
  <2>3. Nesting' BY <1>2, <2>1 DEF SomeTimers, Nesting, TypeOK, Goto, At, OutLabels, InLabels, Top, Nested
  <2> QED BY <2>2, <2>3
<1>3. CASE Sleep
  <2>1. pc' \in [Procs -> Labels] BY <1>3 DEF Sleep, TypeOK, Labels, Goto
  <2>2. TypeOK' BY <1>3, <2>1 DEF Sleep, TypeOK, At
  <2>3. Nesting' BY <1>3, <2>1 DEF Sleep, Nesting, TypeOK, Goto, At, OutLabels, InLabels, Top, Nested
  <2> QED BY <2>2, <2>3
<1>4. CASE TakeAdd
  <2>1. pc' \in [Procs -> Labels] BY <1>4 DEF TakeAdd, Link, TypeOK, Labels, Goto
  <2>2. TypeOK' BY <1>4, <2>1 DEF TakeAdd, Link, TypeOK, At
  <2>3. Nesting' BY <1>4, <2>1 DEF TakeAdd, Link, Nesting, TypeOK, Goto, At, OutLabels, InLabels, Top, Nested
  <2> QED BY <2>2, <2>3
<1>5. CASE ClearAdd
  <2>1. pc' \in [Procs -> Labels] BY <1>5 DEF ClearAdd, TypeOK, Labels, Goto
  <2>2. TypeOK' BY <1>5, <2>1 DEF ClearAdd, TypeOK, At
  <2>3. Nesting' BY <1>5, <2>1 DEF ClearAdd, Nesting, TypeOK, Goto, At, OutLabels, InLabels, Top, Nested
  <2> QED BY <2>2, <2>3
<1>6. CASE TakeDel
  <2>1. pc' \in [Procs -> Labels] BY <1>6 DEF TakeDel, Unlink, TypeOK, Labels, Goto
  <2>2. del \in created \cup {None} BY DEF Hands, Known
  <2>4. TypeOK' BY <1>6, <2>1, <2>2 DEF TakeDel, Unlink, TypeOK, At
  <2>3. Nesting' BY <1>6, <2>1 DEF TakeDel, Unlink, Nesting, TypeOK, Goto, At, OutLabels, InLabels, Top, Nested
  <2> QED BY <2>4, <2>3
<1>7. CASE ClearDel
  <2>1. pc' \in [Procs -> Labels] BY <1>7 DEF ClearDel, TypeOK, Labels, Goto
  <2>2. TypeOK' BY <1>7, <2>1 DEF ClearDel, TypeOK, At
  <2>3. Nesting' BY <1>7, <2>1 DEF ClearDel, Nesting, TypeOK, Goto, At, OutLabels, InLabels, Top, Nested
  <2> QED BY <2>2, <2>3
<1>8. CASE NoneDue
  <2>1. pc' \in [Procs -> Labels] BY <1>8 DEF NoneDue, TypeOK, Labels, Goto
  <2>2. TypeOK' BY <1>8, <2>1 DEF NoneDue, TypeOK, At
  <2>3. Nesting' BY <1>8, <2>1 DEF NoneDue, Nesting, TypeOK, Goto, At, OutLabels, InLabels, Top, Nested
  <2> QED BY <2>2, <2>3
<1>9. CASE Fire
  <2>1. pc' \in [Procs -> Labels] /\ pc[TT] = "fire" /\ pc'[TT] = "setaway"
    BY <1>9 DEF Fire, TypeOK, Labels, Goto, At
  <2>2. Me \in Timers BY <2>1, MeType DEF InLabels
  <2>3. TypeOK' BY <1>9, <2>1, <2>2 DEF Fire, TypeOK
  <2>4. Nesting' BY <1>9, <2>1 DEF Fire, Nesting, OutLabels, InLabels
  <2> QED BY <2>3, <2>4
<1>10. CASE SetAway
  <2>1. pc' \in [Procs -> Labels] /\ pc'[TT] \in InLabels /\ pc[TT] \in InLabels
    BY <1>10 DEF SetAway, WriteFlag, LoadFlags, StoreFlag, TypeOK, Labels, Goto, At, InLabels
  <2>2. flags' \in Flags /\ word' \in [Procs -> Flags \cup {None}] BY <1>10, WriteFlagType DEF SetAway
  <2>3. TypeOK' BY <1>10, <2>1, <2>2 DEF SetAway, WriteFlag, LoadFlags, StoreFlag, TypeOK
  <2>4. Nesting' BY <1>10, <2>1 DEF SetAway, WriteFlag, LoadFlags, StoreFlag, Nesting, OutLabels, InLabels
  <2> QED BY <2>3, <2>4
<1>11. CASE LockSelf
  <2>1. pc' \in [Procs -> Labels] BY <1>11 DEF LockSelf, TypeOK, Labels, Goto
  <2>2. TypeOK' BY <1>11, <2>1 DEF LockSelf, TypeOK, At
  <2>3. Nesting' BY <1>11, <2>1 DEF LockSelf, Nesting, TypeOK, Goto, At, OutLabels, InLabels, Top, Nested
  <2> QED BY <2>2, <2>3
<1>12. CASE RemoveSelf
  <2>1. pc' \in [Procs -> Labels] /\ pc[TT] \in InLabels /\ pc'[TT] \in InLabels
    BY <1>12 DEF RemoveSelf, TypeOK, Labels, Goto, At, InLabels
  <2>2. del \in created \cup {None} BY DEF Hands, Known
  <2>3. TypeOK' BY <1>12, <2>1, <2>2 DEF RemoveSelf, Unlink, TypeOK
  <2>4. Nesting' BY <1>12, <2>1 DEF RemoveSelf, Nesting, OutLabels, InLabels
  <2> QED BY <2>3, <2>4
<1>13. CASE CallbackReturn
  <2>1. pc' \in [Procs -> Labels] BY <1>13 DEF CallbackReturn, TypeOK, Labels, Goto
  <2>2. TypeOK' BY <1>13, <2>1 DEF CallbackReturn, TypeOK, At
  <2>3. Nesting' BY <1>13, <2>1 DEF CallbackReturn, Nesting, TypeOK, Goto, At, OutLabels, InLabels, Top, Nested
  <2> QED BY <2>2, <2>3
<1>14. CASE ClearAway
  <2>1. pc' \in [Procs -> Labels] /\ pc'[TT] \in InLabels /\ pc[TT] \in InLabels
    BY <1>14 DEF ClearAway, WriteFlag, LoadFlags, StoreFlag, TypeOK, Labels, Goto, At, InLabels
  <2>2. flags' \in Flags /\ word' \in [Procs -> Flags \cup {None}] BY <1>14, WriteFlagType DEF ClearAway
  <2>3. TypeOK' BY <1>14, <2>1, <2>2 DEF ClearAway, WriteFlag, LoadFlags, StoreFlag, TypeOK
  <2>4. Nesting' BY <1>14, <2>1 DEF ClearAway, WriteFlag, LoadFlags, StoreFlag, Nesting, OutLabels, InLabels
  <2> QED BY <2>3, <2>4
<1>15. CASE WaitInsert
  <2>1. pc' \in [Procs -> Labels] BY <1>15 DEF WaitInsert, TypeOK, Labels, Goto
  <2>2. TypeOK' BY <1>15, <2>1 DEF WaitInsert, TypeOK, At
  <2>3. Nesting' BY <1>15, <2>1 DEF WaitInsert, Nesting, TypeOK, Goto, At, OutLabels, InLabels, Top, Nested
  <2> QED BY <2>2, <2>3
<1>16. CASE \E u \in Timers : Dispatch(u)
  <2> PICK u \in Timers : Dispatch(u) BY <1>16
  <2>1. u \notin InFrames BY DEF Dispatch, Hands, Known, Exclusive
  <2>2. pc' \in [Procs -> Labels] /\ pc'[TT] = "fire" /\ pc[TT] = "loop"
    BY DEF Dispatch, TypeOK, Labels, Goto, At
  <2>3. frames' \in Seq(Timers) /\ Len(frames') = Len(frames) + 1 /\ frames' # << >>
    BY <2>1, Pushed DEF Dispatch
  <2>4. Len(frames) < MaxNest /\ Len(frames) \in Nat BY <2>2 DEF Nesting, InLabels, TypeOK
  <2>5. Len(frames') <= MaxNest BY <2>3, <2>4
  <2>6. TypeOK' BY <2>2, <2>3, <2>5 DEF Dispatch, TypeOK
  <2>7. \A i, j \in DOMAIN frames' : frames'[i] = frames'[j] => i = j
    BY <2>1, Pushed DEF Dispatch
  <2>8. Nesting' BY <2>2, <2>3, <2>7 DEF Nesting, InLabels
  <2> QED BY <2>6, <2>8
<1>17. CASE Requeue
  <2>1. pc' \in [Procs -> Labels] /\ pc'[TT] = "loop" /\ pc[TT] = "requeue"
    BY <1>17 DEF Requeue, TypeOK, Labels, Goto, At
  <2>2. frames # << >> BY <2>1 DEF Nesting, OutLabels
  <2>3. /\ frames' \in Seq(Timers) /\ Len(frames') = Len(frames) - 1 /\ Me \in Timers
        /\ \A i, j \in DOMAIN frames' : frames'[i] = frames'[j] => i = j
    BY <1>17, <2>2, Popped DEF Requeue
  <2>4. Len(frames') < MaxNest /\ Len(frames') <= MaxNest BY <2>3 DEF TypeOK
  <2>5. TypeOK' BY <1>17, <2>1, <2>3, <2>4 DEF Requeue, Link, TypeOK
  <2>6. Nesting' BY <2>1, <2>3, <2>4 DEF Nesting, OutLabels
  <2> QED BY <2>5, <2>6
<1>18. CASE FreeOneShot
  <2>1. pc' \in [Procs -> Labels] /\ pc'[TT] = "loop" /\ pc[TT] = "requeue"
    BY <1>18 DEF FreeOneShot, TypeOK, Labels, Goto, At
  <2>2. frames # << >> BY <2>1 DEF Nesting, OutLabels
  <2>3. /\ frames' \in Seq(Timers) /\ Len(frames') = Len(frames) - 1 /\ Me \in Timers
        /\ \A i, j \in DOMAIN frames' : frames'[i] = frames'[j] => i = j
    BY <1>18, <2>2, Popped DEF FreeOneShot
  <2>4. Len(frames') < MaxNest /\ Len(frames') <= MaxNest BY <2>3 DEF TypeOK
  <2>5. TypeOK' BY <1>18, <2>1, <2>3, <2>4 DEF FreeOneShot, Link, TypeOK
  <2>6. Nesting' BY <2>1, <2>3, <2>4 DEF Nesting, OutLabels
  <2> QED BY <2>5, <2>6
<1> QED BY <1>1, <1>2, <1>3, <1>4, <1>5, <1>6, <1>7, <1>8, <1>9, <1>10, <1>11, <1>12, <1>13, <1>14, <1>15, <1>16, <1>17, <1>18 DEF TimerStep

LEMMA CallbackTypes ==
  ASSUME IInv, UNCHANGED use, CallbackCall
  PROVE  TypesKept
<1> USE DEF list, hand, disp, Procs, IInv, TypesKept
<1>1. ASSUME NEW u \in Timers, CallbackAdd(u) PROVE TypesKept
  <2>1. TypeOK' BY <1>1 DEF CallbackAdd, Link, TypeOK
  <2>2. Nesting' BY <1>1 DEF CallbackAdd, Nesting
  <2> QED BY <2>1, <2>2
<1>2. ASSUME NEW u \in Timers, CallbackRemove(u) PROVE TypesKept
  <2>1. TypeOK' BY <1>2 DEF CallbackRemove, Unlink, MayRemove, TypeOK
  <2>2. Nesting' BY <1>2 DEF CallbackRemove, Nesting
  <2> QED BY <2>1, <2>2
<1>3. ASSUME NEW u \in Timers, CallbackReschedule(u) PROVE TypesKept
  <2>1. TypeOK' BY <1>3 DEF CallbackReschedule, TypeOK
  <2>2. Nesting' BY <1>3 DEF CallbackReschedule, Nesting
  <2> QED BY <2>1, <2>2
<1>4. CASE CallbackRemoveCurrent
  <2>1. pc' \in [Procs -> Labels] /\ pc[TT] \in InLabels /\ pc'[TT] \in InLabels
    BY <1>4 DEF CallbackRemoveCurrent, TypeOK, Labels, Goto, At, InLabels
  <2>3. TypeOK' BY <1>4, <2>1 DEF CallbackRemoveCurrent, MayRemove, TypeOK
  <2>4. Nesting' BY <1>4, <2>1 DEF CallbackRemoveCurrent, Nesting, OutLabels, InLabels
  <2> QED BY <2>3, <2>4
<1>5. CASE CallbackIdle
  <2>1. pc' \in [Procs -> Labels] BY <1>5 DEF CallbackIdle, TypeOK, Labels, Goto
  <2>2. TypeOK' BY <1>5, <2>1 DEF CallbackIdle, TypeOK, At
  <2>3. Nesting' BY <1>5, <2>1 DEF CallbackIdle, Nesting, TypeOK, Goto, At, OutLabels, InLabels, Top, Nested
  <2> QED BY <2>2, <2>3
<1> QED BY <1>1, <1>2, <1>3, <1>4, <1>5 DEF CallbackCall

----------------------------------------------------------------------------
(* Calls. *)

LEMMA CallsOfClients ==
  ASSUME IInv, UNCHANGED use, NEW c \in Clients, ClientStep(c) \/ ClientCall(c)
  PROVE  Calls'
<1> USE DEF IInv, list, hand, disp, At, Goto, TypeOK, Procs
<1>2. ASSUME NEW u \in Timers, AddTimer(c, u) PROVE Calls'
  BY <1>2 DEF AddTimer, Calls
<1>3. ASSUME NEW u \in Timers, RemoveTimer(c, u) PROVE Calls'
  BY <1>3 DEF RemoveTimer, Calls
<1>4. ASSUME NEW u \in Timers, RescheduleListed(c, u) \/ RescheduleCurrent(c, u) \/ RescheduleTimer(c, u)
      PROVE  Calls'
  BY <1>4 DEF RescheduleListed, RescheduleCurrent, RescheduleTimer, Calls
<1>5. ASSUME NEW u \in Timers, ChangeTimer(c, u) PROVE Calls'
  BY <1>5 DEF ChangeTimer, Calls
<1>6. CASE IsAway(c) BY <1>6 DEF IsAway, Calls
<1>7. CASE SetInsert(c) BY <1>7 DEF SetInsert, WriteFlag, LoadFlags, StoreFlag, Calls
<1>8. CASE StillAway(c) BY <1>8 DEF StillAway, Calls
<1>9. CASE InsertWhileAway(c) BY <1>9 DEF InsertWhileAway, Link, Calls
<1>10. CASE ClearInsert(c) BY <1>10 DEF ClearInsert, WriteFlag, LoadFlags, StoreFlag, Calls
<1>11. CASE LockChange(c) BY <1>11 DEF LockChange, Calls
<1>12. CASE WakeWhileWaiting(c) BY <1>12 DEF WakeWhileWaiting, Calls
<1>13. CASE HandOverAdd(c) BY <1>13 DEF HandOverAdd, Calls
<1>14. CASE HandOverDel(c) BY <1>14 DEF HandOverDel, Calls
<1>15. CASE Wake(c) BY <1>15 DEF Wake, Calls
<1>16. CASE Return(c) BY <1>16 DEF Return, Calls
<1>17. CASE MarkCurrent(c) BY <1>17 DEF MarkCurrent, Calls
<1>18. CASE Regrab(c) BY <1>18 DEF Regrab, Calls
<1>19. CASE Relink(c) BY <1>19 DEF Relink, Link, Calls
<1>20. CASE Lookup(c) BY <1>20 DEF Lookup, Calls
<1>21. CASE LookupCurrent(c) BY <1>21 DEF LookupCurrent, Calls
<1> QED BY <1>2, <1>3, <1>4, <1>5, <1>6, <1>7, <1>8, <1>9, <1>10, <1>11, <1>12, <1>13, <1>14, <1>15, <1>16, <1>17, <1>18, <1>19, <1>20, <1>21 DEF ClientStep, ClientCall

LEMMA CallsOfTimerThread ==
  ASSUME IInv, UNCHANGED use, TimerStep \/ CallbackCall
  PROVE  Calls'
<1> USE DEF IInv, list, hand, disp, At, Goto, TypeOK, Procs
<1>2. CASE NoTimers BY <1>2 DEF NoTimers, Calls, Top, Nested
<1>3. CASE SomeTimers BY <1>3 DEF SomeTimers, Calls
<1>4. CASE Sleep BY <1>4 DEF Sleep, Calls
<1>5. CASE TakeAdd BY <1>5 DEF TakeAdd, Link, Calls
<1>6. CASE ClearAdd BY <1>6 DEF ClearAdd, Calls
<1>7. CASE TakeDel BY <1>7 DEF TakeDel, Unlink, Calls
<1>8. CASE ClearDel BY <1>8 DEF ClearDel, Calls
<1>9. CASE NoneDue BY <1>9 DEF NoneDue, Calls
<1>10. CASE Fire BY <1>10 DEF Fire, Calls
<1>11. CASE SetAway BY <1>11 DEF SetAway, WriteFlag, LoadFlags, StoreFlag, Calls
<1>12. CASE LockSelf BY <1>12 DEF LockSelf, Calls
<1>13. CASE RemoveSelf BY <1>13 DEF RemoveSelf, Unlink, Calls
<1>14. CASE CallbackReturn BY <1>14 DEF CallbackReturn, Calls
<1>15. CASE ClearAway BY <1>15 DEF ClearAway, WriteFlag, LoadFlags, StoreFlag, Calls
<1>16. CASE WaitInsert BY <1>16 DEF WaitInsert, Calls
<1>17. CASE Requeue BY <1>17 DEF Requeue, Link, Calls
<1>18. CASE FreeOneShot BY <1>18 DEF FreeOneShot, Calls
<1>19. ASSUME NEW u \in Timers, Dispatch(u) PROVE Calls'
  BY <1>19 DEF Dispatch, Calls
<1>20. ASSUME NEW u \in Timers, CallbackAdd(u) PROVE Calls'
  BY <1>20 DEF CallbackAdd, Link, Calls
<1>21. ASSUME NEW u \in Timers, CallbackRemove(u) PROVE Calls'
  BY <1>21 DEF CallbackRemove, Unlink, Calls
<1>22. ASSUME NEW u \in Timers, CallbackReschedule(u) PROVE Calls'
  BY <1>22 DEF CallbackReschedule, Calls
<1>23. CASE CallbackRemoveCurrent BY <1>23 DEF CallbackRemoveCurrent, Calls
<1>24. CASE CallbackIdle BY <1>24 DEF CallbackIdle, Calls
<1> QED BY <1>2, <1>3, <1>4, <1>5, <1>6, <1>7, <1>8, <1>9, <1>10, <1>11, <1>12, <1>13, <1>14, <1>15, <1>16, <1>17, <1>18, <1>19, <1>20, <1>21, <1>22, <1>23, <1>24 DEF TimerStep, CallbackCall

----------------------------------------------------------------------------
(* Hands. *)

(* A step that moves no timer. *)
Quiet ==
  /\ UNCHANGED <<linked, freed, stale, revived, add, frames, created>>
  /\ \A c \in Clients, u \in Timers : Adding(c, u)' <=> Adding(c, u)
  /\ \A c \in Clients : arg'[c] \in created \cup {None}
  /\ {del', currentId'} \subseteq created \cup {None}
  /\ At(TT, "added")' <=> At(TT, "added")

LEMMA QuietHands ==
  ASSUME IInv, Quiet
  PROVE  Hands'
<1>1. UNCHANGED InFrames BY DEF Quiet, InFrames
<1>2. Known' BY <1>1 DEF IInv, Hands, Known, Quiet
<1>3. ASSUME NEW u \in created' PROVE Held(u)' /\ Exclusive(u)'
  <2>1. u \in created /\ u \in Timers BY DEF IInv, TypeOK, Quiet
  <2>2. InAdd(u)' <=> InAdd(u) BY DEF Quiet, InAdd
  <2>3. \A c \in Clients : Adding(c, u)' <=> Adding(c, u) BY <2>1 DEF Quiet
  <2> HIDE DEF IInv
  <2>4. Held(u) /\ Exclusive(u) BY <2>1 DEF IInv, Hands
  <2>5. UNCHANGED <<linked, freed, stale, revived>> BY DEF Quiet
  <2>6. Held(u)' BY <1>1, <2>2, <2>3, <2>4, <2>5 DEF Held
  <2>7. Exclusive(u)' BY <1>1, <2>2, <2>3, <2>4, <2>5 DEF Exclusive
  <2> QED BY <2>6, <2>7
<1> QED BY <1>2, <1>3 DEF Hands

(* The list, the pool and the slots as DoRemoveTimer changes them: a       *)
(* listed timer goes to the pool.                                          *)
Removed(u) ==
  /\ \/ linked' = linked \ {u} /\ freed' = freed \cup {u} /\ stale' = stale \cup {u} /\ u \in linked
     \/ UNCHANGED <<linked, freed, stale>>
  /\ UNCHANGED <<revived, add, frames, created, currentId, arg>>
  /\ del' \in created \cup {None}
  /\ \A c \in Clients : pc'[c] = pc[c]
  /\ At(TT, "added")' <=> At(TT, "added")

LEMMA RemovedHands ==
  ASSUME IInv, NEW v, Removed(v)
  PROVE  Hands'
<1>1. UNCHANGED InFrames BY DEF Removed, InFrames
<1>2. Known' BY <1>1 DEF IInv, Hands, Known, Removed
<1>3. ASSUME NEW u \in created' PROVE Held(u)' /\ Exclusive(u)'
  <2>1. Held(u) /\ Exclusive(u) BY DEF IInv, Hands, Removed
  <2>2. InAdd(u)' <=> InAdd(u) BY DEF Removed, InAdd
  <2>3. \A c \in Clients : Adding(c, u)' <=> Adding(c, u) BY DEF Removed, Adding
  <2>4. Held(u)' BY <1>1, <2>1, <2>2, <2>3 DEF Held, Removed
  <2>5. Exclusive(u)' BY <1>1, <2>1, <2>2, <2>3 DEF Exclusive, Removed
  <2> QED BY <2>4, <2>5
<1> QED BY <1>2, <1>3 DEF Hands

LEMMA QuietClient ==
  ASSUME IInv, NEW c \in Clients,
         \/ IsAway(c) \/ SetInsert(c) \/ StillAway(c) \/ ClearInsert(c) \/ LockChange(c)
         \/ WakeWhileWaiting(c) \/ HandOverDel(c) \/ Wake(c) \/ Return(c) \/ MarkCurrent(c)
         \/ LookupCurrent(c)
         \/ \E u \in Timers : \/ RemoveTimer(c, u) \/ ChangeTimer(c, u)
                             \/ RescheduleListed(c, u) \/ RescheduleCurrent(c, u) \/ RescheduleTimer(c, u)
  PROVE  Quiet
<1> USE DEF IInv, TypeOK, Procs, list, hand, disp, Hands, Known, At, Goto, Adding, Quiet
<1>1. CASE IsAway(c) BY <1>1 DEF IsAway
<1>2. CASE SetInsert(c) BY <1>2 DEF SetInsert, WriteFlag, LoadFlags, StoreFlag
<1>3. CASE StillAway(c) BY <1>3 DEF StillAway
<1>4. CASE ClearInsert(c) BY <1>4 DEF ClearInsert, WriteFlag, LoadFlags, StoreFlag
<1>5. CASE LockChange(c) BY <1>5 DEF LockChange
<1>6. CASE WakeWhileWaiting(c) BY <1>6 DEF WakeWhileWaiting
<1>7. CASE HandOverDel(c) BY <1>7 DEF HandOverDel
<1>8. CASE Wake(c) BY <1>8 DEF Wake
<1>9. CASE Return(c) BY <1>9 DEF Return
<1>10. CASE MarkCurrent(c) BY <1>10 DEF MarkCurrent
<1>11. ASSUME NEW u \in Timers, RemoveTimer(c, u) PROVE Quiet BY <1>11 DEF RemoveTimer, MayRemove
<1>12. ASSUME NEW u \in Timers, RescheduleListed(c, u) PROVE Quiet BY <1>12 DEF RescheduleListed
<1>14. ASSUME NEW u \in Timers, RescheduleCurrent(c, u) PROVE Quiet BY <1>14 DEF RescheduleCurrent
<1>15. ASSUME NEW u \in Timers, RescheduleTimer(c, u) PROVE Quiet BY <1>15 DEF RescheduleTimer
<1>16. CASE LookupCurrent(c) BY <1>16 DEF LookupCurrent
<1>13. ASSUME NEW u \in Timers, ChangeTimer(c, u) PROVE Quiet BY <1>13 DEF ChangeTimer
<1> QED BY <1>1, <1>2, <1>3, <1>4, <1>5, <1>6, <1>7, <1>8, <1>9, <1>10, <1>11, <1>12, <1>13,
           <1>14, <1>15, <1>16

LEMMA QuietTimerThread ==
  ASSUME IInv,
         \/ NoTimers \/ SomeTimers \/ Sleep \/ ClearDel \/ NoneDue \/ Fire \/ SetAway
         \/ CallbackRemoveCurrent \/ LockSelf \/ CallbackIdle \/ CallbackReturn \/ ClearAway
         \/ WaitInsert \/ \E u \in Timers : CallbackReschedule(u)
  PROVE  Quiet
<1> USE DEF IInv, TypeOK, Procs, list, hand, disp, Hands, Known, At, Goto, Adding, Quiet
<1>1. CASE NoTimers BY <1>1 DEF NoTimers, Nested
<1>2. CASE SomeTimers BY <1>2 DEF SomeTimers
<1>3. CASE Sleep BY <1>3 DEF Sleep
<1>4. CASE ClearDel BY <1>4 DEF ClearDel
<1>5. CASE NoneDue BY <1>5 DEF NoneDue, Nested
<1>6. CASE Fire
  <2>1. Me \in InFrames BY <1>6, MeType DEF Fire, InLabels
  <2>2. Me \in created BY <2>1
  <2> QED BY <1>6, <2>2 DEF Fire
<1>7. CASE SetAway BY <1>7 DEF SetAway, WriteFlag, LoadFlags, StoreFlag
<1>8. CASE CallbackRemoveCurrent BY <1>8 DEF CallbackRemoveCurrent
<1>9. CASE LockSelf BY <1>9 DEF LockSelf
<1>10. CASE CallbackIdle BY <1>10 DEF CallbackIdle
<1>11. CASE CallbackReturn BY <1>11 DEF CallbackReturn
<1>12. CASE ClearAway BY <1>12 DEF ClearAway, WriteFlag, LoadFlags, StoreFlag
<1>13. CASE WaitInsert BY <1>13 DEF WaitInsert
<1>14. ASSUME NEW u \in Timers, CallbackReschedule(u) PROVE Quiet BY <1>14 DEF CallbackReschedule
<1> QED BY <1>1, <1>2, <1>3, <1>4, <1>5, <1>6, <1>7, <1>8, <1>9, <1>10, <1>11, <1>12, <1>13, <1>14

(* Steps that hand a timer on. *)

Nowhere(u) ==
  /\ u \notin linked \cup freed \cup stale \cup InFrames /\ ~InAdd(u)
  /\ \A c \in Clients : ~Adding(c, u)

LEMMA UnaddedNowhere ==
  ASSUME IInv, NEW u \in Timers \ created
  PROVE  Nowhere(u)
BY TimersAssumption DEF IInv, Hands, Known, InAdd, Adding, Nowhere

LEMMA AddTimerHands ==
  ASSUME IInv, NEW c \in Clients, NEW v \in Timers, AddTimer(c, v)
  PROVE  Hands'
<1> USE DEF list, hand, disp, Procs
<1>0. v \notin created BY DEF AddTimer
<1>1. \A d \in Clients, u \in Timers : Adding(d, u)' <=> Adding(d, u) \/ (d = c /\ u = v)
  BY <1>0 DEF AddTimer, Adding, At, Goto, IInv, TypeOK
<1>2. \A u \in Timers : InAdd(u)' <=> InAdd(u)
  BY <1>0 DEF AddTimer, InAdd, At, Goto, IInv, TypeOK
<1>3. linked' = linked /\ freed' = freed /\ stale' = stale /\ revived' = revived
  BY <1>0 DEF AddTimer
<1>4. InFrames' = InFrames
  BY <1>0 DEF AddTimer, InFrames
<1>5. created' = created \cup {v} /\ created' \subseteq Timers
  BY <1>0 DEF AddTimer, IInv, TypeOK
<1>6. Known'
  BY <1>0, <1>3, <1>4, <1>5 DEF AddTimer, IInv, TypeOK, Hands, Known, At, Goto
<1>7. ASSUME NEW u \in created' PROVE Held(u)' /\ Exclusive(u)'
  <2>1. u \in created => Held(u) /\ Exclusive(u) BY DEF IInv, Hands
  <2>2. u \notin created => Nowhere(u) BY <1>5, UnaddedNowhere
  <2>3. Held(u)' BY <1>0, <1>1, <1>2, <1>3, <1>4, <1>5, <2>1, <2>2 DEF Held, Nowhere
  <2>4. Exclusive(u)' BY <1>0, <1>1, <1>2, <1>3, <1>4, <1>5, <2>1, <2>2 DEF Exclusive, Nowhere
  <2> QED BY <2>3, <2>4
<1> QED BY <1>6, <1>7 DEF Hands

LEMMA InsertHands ==
  ASSUME IInv, NEW c \in Clients, InsertWhileAway(c)
  PROVE  Hands'
<1> USE DEF list, hand, disp, Procs
<1>0. /\ Adding(c, arg[c]) /\ arg[c] \in created /\ arg[c] \in Timers
      /\ \A u \in Timers : Adding(c, u) => u = arg[c]
  BY DEF InsertWhileAway, Adding, At, Hands, Known, Calls, IInv, TypeOK
<1>1. \A d \in Clients, u \in Timers : Adding(d, u)' <=> Adding(d, u) /\ d # c
  BY <1>0 DEF InsertWhileAway, Link, Adding, At, Goto, IInv, TypeOK
<1>2. \A u \in Timers : InAdd(u)' <=> InAdd(u)
  BY <1>0 DEF InsertWhileAway, Link, InAdd, At, Goto, IInv, TypeOK
<1>3. linked' = linked \cup {arg[c]} /\ freed' = freed /\ stale' = stale /\ revived' = revived
  BY <1>0 DEF InsertWhileAway, Link
<1>4. InFrames' = InFrames
  BY <1>0 DEF InsertWhileAway, Link, InFrames
<1>5. created' = created /\ created' \subseteq Timers
  BY <1>0 DEF InsertWhileAway, Link, IInv, TypeOK
<1>6. Known'
  BY <1>0, <1>3, <1>4, <1>5 DEF InsertWhileAway, Link, IInv, TypeOK, Hands, Known, At, Goto
<1>7. ASSUME NEW u \in created' PROVE Held(u)' /\ Exclusive(u)'
  <2>1. u \in created => Held(u) /\ Exclusive(u) BY DEF IInv, Hands
  <2>2. u \notin created => Nowhere(u) BY <1>5, UnaddedNowhere
  <2>3. Held(u)' BY <1>0, <1>1, <1>2, <1>3, <1>4, <1>5, <2>1, <2>2 DEF Held, Nowhere
  <2>4. Exclusive(u)' BY <1>0, <1>1, <1>2, <1>3, <1>4, <1>5, <2>1, <2>2 DEF Exclusive, Nowhere
  <2> QED BY <2>3, <2>4
<1> QED BY <1>6, <1>7 DEF Hands

LEMMA RelinkHands ==
  ASSUME IInv, NEW c \in Clients, Relink(c)
  PROVE  Hands'
<1> USE DEF list, hand, disp, Procs
<1>0. /\ Adding(c, arg[c]) /\ arg[c] \in created /\ arg[c] \in Timers
      /\ \A u \in Timers : Adding(c, u) => u = arg[c]
  BY DEF Relink, Adding, At, Hands, Known, Calls, IInv, TypeOK
<1>1. \A d \in Clients, u \in Timers : Adding(d, u)' <=> Adding(d, u) /\ d # c
  BY <1>0 DEF Relink, Link, Adding, At, Goto, IInv, TypeOK
<1>2. \A u \in Timers : InAdd(u)' <=> InAdd(u)
  BY <1>0 DEF Relink, Link, InAdd, At, Goto, IInv, TypeOK
<1>3. linked' = linked \cup {arg[c]} /\ freed' = freed /\ stale' = stale /\ revived' = revived
  BY <1>0 DEF Relink, Link
<1>4. InFrames' = InFrames
  BY <1>0 DEF Relink, Link, InFrames
<1>5. created' = created /\ created' \subseteq Timers
  BY <1>0 DEF Relink, Link, IInv, TypeOK
<1>6. Known'
  BY <1>0, <1>3, <1>4, <1>5 DEF Relink, Link, IInv, TypeOK, Hands, Known, At, Goto
<1>7. ASSUME NEW u \in created' PROVE Held(u)' /\ Exclusive(u)'
  <2>1. u \in created => Held(u) /\ Exclusive(u) BY DEF IInv, Hands
  <2>2. u \notin created => Nowhere(u) BY <1>5, UnaddedNowhere
  <2>3. Held(u)' BY <1>0, <1>1, <1>2, <1>3, <1>4, <1>5, <2>1, <2>2 DEF Held, Nowhere
  <2>4. Exclusive(u)' BY <1>0, <1>1, <1>2, <1>3, <1>4, <1>5, <2>1, <2>2 DEF Exclusive, Nowhere
  <2> QED BY <2>3, <2>4
<1> QED BY <1>6, <1>7 DEF Hands

LEMMA HandOverHands ==
  ASSUME IInv, NEW c \in Clients, HandOverAdd(c)
  PROVE  Hands'
<1> USE DEF list, hand, disp, Procs
<1>0. /\ Adding(c, arg[c]) /\ arg[c] \in created /\ arg[c] \in Timers
      /\ \A u \in Timers : Adding(c, u) => u = arg[c]
      /\ ~At(TT, "added") /\ add = None /\ \A u \in Timers : ~InAdd(u)
  BY DEF HandOverAdd, Adding, InAdd, At, Hands, Known, Calls, IInv, TypeOK
<1>1. \A d \in Clients, u \in Timers : Adding(d, u)' <=> Adding(d, u) /\ d # c
  BY <1>0 DEF HandOverAdd, Adding, At, Goto, IInv, TypeOK
<1>2. \A u \in Timers : InAdd(u)' <=> u = arg[c]
  BY <1>0 DEF HandOverAdd, InAdd, At, Goto, IInv, TypeOK
<1>3. linked' = linked /\ freed' = freed /\ stale' = stale /\ revived' = revived
  BY <1>0 DEF HandOverAdd
<1>4. InFrames' = InFrames
  BY <1>0 DEF HandOverAdd, InFrames
<1>5. created' = created /\ created' \subseteq Timers
  BY <1>0 DEF HandOverAdd, IInv, TypeOK
<1>6. Known'
  BY <1>0, <1>3, <1>4, <1>5 DEF HandOverAdd, IInv, TypeOK, Hands, Known, At, Goto
<1>7. ASSUME NEW u \in created' PROVE Held(u)' /\ Exclusive(u)'
  <2>1. u \in created => Held(u) /\ Exclusive(u) BY DEF IInv, Hands
  <2>2. u \notin created => Nowhere(u) BY <1>5, UnaddedNowhere
  <2>3. Held(u)' BY <1>0, <1>1, <1>2, <1>3, <1>4, <1>5, <2>1, <2>2 DEF Held, Nowhere
  <2>4. Exclusive(u)' BY <1>0, <1>1, <1>2, <1>3, <1>4, <1>5, <2>1, <2>2 DEF Exclusive, Nowhere
  <2> QED BY <2>3, <2>4
<1> QED BY <1>6, <1>7 DEF Hands

LEMMA RegrabHands ==
  ASSUME IInv, NEW c \in Clients, arg[c] \in linked \cup stale, Regrab(c)
  PROVE  Hands'
<1> USE DEF list, hand, disp, Procs
<1>1. \A d \in Clients, u \in Timers : Adding(d, u)' <=> Adding(d, u) \/ (d = c /\ u = arg[c])
  BY DEF Regrab, Adding, At, Goto, IInv, TypeOK
<1>2. \A u \in Timers : InAdd(u)' <=> InAdd(u)
  BY DEF Regrab, InAdd, At, Goto, IInv, TypeOK
<1>3. /\ linked' = linked \ {arg[c]} /\ freed' = freed
      /\ stale' = stale \ {arg[c]} /\ revived' = revived \cup ({arg[c]} \cap freed)
  BY DEF Regrab
<1>4. InFrames' = InFrames
  BY DEF Regrab, InFrames
<1>5. created' = created /\ created' \subseteq Timers
  BY DEF Regrab, IInv, TypeOK
<1>6. Known'
  BY <1>3, <1>4, <1>5 DEF Regrab, IInv, TypeOK, Hands, Known, At, Goto
<1>7. ASSUME NEW u \in created' PROVE Held(u)' /\ Exclusive(u)'
  <2>1. u \in created => Held(u) /\ Exclusive(u) BY DEF IInv, Hands
  <2>2. u \notin created => Nowhere(u) BY <1>5, UnaddedNowhere
  <2>3. Held(u)' BY <1>1, <1>2, <1>3, <1>4, <1>5, <2>1, <2>2 DEF Held, Nowhere
  <2>4. Exclusive(u)' BY <1>1, <1>2, <1>3, <1>4, <1>5, <2>1, <2>2 DEF Exclusive, Nowhere
  <2> QED BY <2>3, <2>4
<1> QED BY <1>6, <1>7 DEF Hands

LEMMA TakeAddHands ==
  ASSUME IInv, add # None, TakeAdd
  PROVE  Hands'
<1> USE DEF list, hand, disp, Procs
<1>0. InAdd(add) /\ add \in created /\ \A u \in Timers : InAdd(u) => u = add
  BY DEF TakeAdd, InAdd, At, Hands, Known, IInv
<1>1. \A d \in Clients, u \in Timers : Adding(d, u)' <=> Adding(d, u)
  BY <1>0 DEF TakeAdd, Link, Adding, At, Goto, IInv, TypeOK
<1>2. \A u \in Timers : InAdd(u)' <=> FALSE
  BY <1>0 DEF TakeAdd, Link, InAdd, At, Goto, IInv, TypeOK
<1>3. linked' = linked \cup {add} /\ freed' = freed /\ stale' = stale /\ revived' = revived
  BY <1>0 DEF TakeAdd, Link
<1>4. InFrames' = InFrames
  BY <1>0 DEF TakeAdd, Link, InFrames
<1>5. created' = created /\ created' \subseteq Timers
  BY <1>0 DEF TakeAdd, Link, IInv, TypeOK
<1>6. Known'
  BY <1>0, <1>3, <1>4, <1>5 DEF TakeAdd, Link, IInv, TypeOK, Hands, Known, At, Goto
<1>7. ASSUME NEW u \in created' PROVE Held(u)' /\ Exclusive(u)'
  <2>1. u \in created => Held(u) /\ Exclusive(u) BY DEF IInv, Hands
  <2>2. u \notin created => Nowhere(u) BY <1>5, UnaddedNowhere
  <2>3. Held(u)' BY <1>0, <1>1, <1>2, <1>3, <1>4, <1>5, <2>1, <2>2 DEF Held, Nowhere
  <2>4. Exclusive(u)' BY <1>0, <1>1, <1>2, <1>3, <1>4, <1>5, <2>1, <2>2 DEF Exclusive, Nowhere
  <2> QED BY <2>3, <2>4
<1> QED BY <1>6, <1>7 DEF Hands

LEMMA ClearAddHands ==
  ASSUME IInv, ClearAdd
  PROVE  Hands'
<1> USE DEF list, hand, disp, Procs
<1>1. \A d \in Clients, u \in Timers : Adding(d, u)' <=> Adding(d, u)
  BY DEF ClearAdd, Adding, At, Goto, IInv, TypeOK
<1>2. \A u \in Timers : InAdd(u)' <=> InAdd(u)
  BY DEF ClearAdd, InAdd, At, Goto, IInv, TypeOK
<1>3. linked' = linked /\ freed' = freed /\ stale' = stale /\ revived' = revived
  BY DEF ClearAdd
<1>4. InFrames' = InFrames
  BY DEF ClearAdd, InFrames
<1>5. created' = created /\ created' \subseteq Timers
  BY DEF ClearAdd, IInv, TypeOK
<1>6. Known'
  BY <1>3, <1>4, <1>5 DEF ClearAdd, IInv, TypeOK, Hands, Known, At, Goto
<1>7. ASSUME NEW u \in created' PROVE Held(u)' /\ Exclusive(u)'
  <2>1. u \in created => Held(u) /\ Exclusive(u) BY DEF IInv, Hands
  <2>2. u \notin created => Nowhere(u) BY <1>5, UnaddedNowhere
  <2>3. Held(u)' BY <1>1, <1>2, <1>3, <1>4, <1>5, <2>1, <2>2 DEF Held, Nowhere
  <2>4. Exclusive(u)' BY <1>1, <1>2, <1>3, <1>4, <1>5, <2>1, <2>2 DEF Exclusive, Nowhere
  <2> QED BY <2>3, <2>4
<1> QED BY <1>6, <1>7 DEF Hands

LEMMA CallbackAddHands ==
  ASSUME IInv, NEW v \in Timers, CallbackAdd(v)
  PROVE  Hands'
<1> USE DEF list, hand, disp, Procs
<1>0. v \notin created BY DEF CallbackAdd
<1>1. \A d \in Clients, u \in Timers : Adding(d, u)' <=> Adding(d, u)
  BY <1>0 DEF CallbackAdd, Link, Adding, At, Goto, IInv, TypeOK
<1>2. \A u \in Timers : InAdd(u)' <=> InAdd(u)
  BY <1>0 DEF CallbackAdd, Link, InAdd, At, Goto, IInv, TypeOK
<1>3. linked' = linked \cup {v} /\ freed' = freed /\ stale' = stale /\ revived' = revived
  BY <1>0 DEF CallbackAdd, Link
<1>4. InFrames' = InFrames
  BY <1>0 DEF CallbackAdd, Link, InFrames
<1>5. created' = created \cup {v} /\ created' \subseteq Timers
  BY <1>0 DEF CallbackAdd, Link, IInv, TypeOK
<1>6. Known'
  BY <1>0, <1>3, <1>4, <1>5 DEF CallbackAdd, Link, IInv, TypeOK, Hands, Known, At, Goto
<1>7. ASSUME NEW u \in created' PROVE Held(u)' /\ Exclusive(u)'
  <2>1. u \in created => Held(u) /\ Exclusive(u) BY DEF IInv, Hands
  <2>2. u \notin created => Nowhere(u) BY <1>5, UnaddedNowhere
  <2>3. Held(u)' BY <1>0, <1>1, <1>2, <1>3, <1>4, <1>5, <2>1, <2>2 DEF Held, Nowhere
  <2>4. Exclusive(u)' BY <1>0, <1>1, <1>2, <1>3, <1>4, <1>5, <2>1, <2>2 DEF Exclusive, Nowhere
  <2> QED BY <2>3, <2>4
<1> QED BY <1>6, <1>7 DEF Hands

LEMMA DispatchHands ==
  ASSUME IInv, NEW v \in Timers, Dispatch(v)
  PROVE  Hands'
<1> USE DEF list, hand, disp, Procs
<1>0. v \in linked /\ v \in created /\ v \notin InFrames
  BY DEF Dispatch, IInv, Hands, Known, Exclusive
<1>1. \A d \in Clients, u \in Timers : Adding(d, u)' <=> Adding(d, u)
  BY <1>0 DEF Dispatch, Adding, At, Goto, IInv, TypeOK
<1>2. \A u \in Timers : InAdd(u)' <=> InAdd(u)
  BY <1>0 DEF Dispatch, InAdd, At, Goto, IInv, TypeOK
<1>3. linked' = linked \ {v} /\ freed' = freed /\ stale' = stale /\ revived' = revived
  BY <1>0 DEF Dispatch
<1>4. InFrames' = InFrames \cup {v}
  BY <1>0, Pushed DEF Dispatch, IInv
<1>5. created' = created /\ created' \subseteq Timers
  BY <1>0 DEF Dispatch, IInv, TypeOK
<1>6. Known'
  BY <1>0, <1>3, <1>4, <1>5 DEF Dispatch, IInv, TypeOK, Hands, Known, At, Goto
<1>7. ASSUME NEW u \in created' PROVE Held(u)' /\ Exclusive(u)'
  <2>1. u \in created => Held(u) /\ Exclusive(u) BY DEF IInv, Hands
  <2>2. u \notin created => Nowhere(u) BY <1>5, UnaddedNowhere
  <2>3. Held(u)' BY <1>0, <1>1, <1>2, <1>3, <1>4, <1>5, <2>1, <2>2 DEF Held, Nowhere
  <2>4. Exclusive(u)' BY <1>0, <1>1, <1>2, <1>3, <1>4, <1>5, <2>1, <2>2 DEF Exclusive, Nowhere
  <2> QED BY <2>3, <2>4
<1> QED BY <1>6, <1>7 DEF Hands

LEMMA RequeueHands ==
  ASSUME IInv, Requeue
  PROVE  Hands'
<1> USE DEF list, hand, disp, Procs
<1>0. frames # << >> /\ Me \in Timers /\ Me \in InFrames /\ Me \in created
  BY MeType DEF Requeue, At, InLabels, OutLabels, Nesting, IInv, Hands, Known
<1>1. \A d \in Clients, u \in Timers : Adding(d, u)' <=> Adding(d, u)
  BY <1>0 DEF Requeue, Link, Adding, At, Goto, IInv, TypeOK
<1>2. \A u \in Timers : InAdd(u)' <=> InAdd(u)
  BY <1>0 DEF Requeue, Link, InAdd, At, Goto, IInv, TypeOK
<1>3. linked' = linked \cup {Me} /\ freed' = freed /\ stale' = stale /\ revived' = revived
  BY <1>0 DEF Requeue, Link
<1>4. InFrames' = InFrames \ {Me}
  BY <1>0, Popped DEF Requeue, IInv
<1>5. created' = created /\ created' \subseteq Timers
  BY <1>0 DEF Requeue, Link, IInv, TypeOK
<1>6. Known'
  BY <1>0, <1>3, <1>4, <1>5 DEF Requeue, Link, IInv, TypeOK, Hands, Known, At, Goto
<1>7. ASSUME NEW u \in created' PROVE Held(u)' /\ Exclusive(u)'
  <2>1. u \in created => Held(u) /\ Exclusive(u) BY DEF IInv, Hands
  <2>2. u \notin created => Nowhere(u) BY <1>5, UnaddedNowhere
  <2>3. Held(u)' BY <1>0, <1>1, <1>2, <1>3, <1>4, <1>5, <2>1, <2>2 DEF Held, Nowhere
  <2>4. Exclusive(u)' BY <1>0, <1>1, <1>2, <1>3, <1>4, <1>5, <2>1, <2>2 DEF Exclusive, Nowhere
  <2> QED BY <2>3, <2>4
<1> QED BY <1>6, <1>7 DEF Hands

LEMMA FreeOneShotHands ==
  ASSUME IInv, FreeOneShot
  PROVE  Hands'
<1> USE DEF list, hand, disp, Procs
<1>0. frames # << >> /\ Me \in Timers /\ Me \in InFrames /\ Me \in created
  BY MeType DEF FreeOneShot, At, InLabels, OutLabels, Nesting, IInv, Hands, Known
<1>1. \A d \in Clients, u \in Timers : Adding(d, u)' <=> Adding(d, u)
  BY <1>0 DEF FreeOneShot, Adding, At, Goto, IInv, TypeOK
<1>2. \A u \in Timers : InAdd(u)' <=> InAdd(u)
  BY <1>0 DEF FreeOneShot, InAdd, At, Goto, IInv, TypeOK
<1>3. linked' = linked /\ freed' = freed \cup {Me} /\ stale' = stale /\ revived' = revived
  BY <1>0 DEF FreeOneShot
<1>4. InFrames' = InFrames \ {Me}
  BY <1>0, Popped DEF FreeOneShot, IInv
<1>5. created' = created /\ created' \subseteq Timers
  BY <1>0 DEF FreeOneShot, IInv, TypeOK
<1>6. Known'
  BY <1>0, <1>3, <1>4, <1>5 DEF FreeOneShot, IInv, TypeOK, Hands, Known, At, Goto
<1>7. ASSUME NEW u \in created' PROVE Held(u)' /\ Exclusive(u)'
  <2>1. u \in created => Held(u) /\ Exclusive(u) BY DEF IInv, Hands
  <2>2. u \notin created => Nowhere(u) BY <1>5, UnaddedNowhere
  <2>3. Held(u)' BY <1>0, <1>1, <1>2, <1>3, <1>4, <1>5, <2>1, <2>2 DEF Held, Nowhere
  <2>4. Exclusive(u)' BY <1>0, <1>1, <1>2, <1>3, <1>4, <1>5, <2>1, <2>2 DEF Exclusive, Nowhere
  <2> QED BY <2>3, <2>4
<1> QED BY <1>6, <1>7 DEF Hands

LEMMA LookupHands ==
  ASSUME IInv, NEW c \in Clients, Lookup(c), ~UNCHANGED <<linked, stale, revived>>
  PROVE  Hands'
<1> USE DEF list, hand, disp, Procs
<1>0. arg[c] \in linked \cup stale /\ arg[c] \in created /\ pc[c] = "lookup"
  BY DEF Lookup, At, IInv, Hands, Known
<1>1. \A d \in Clients, u \in Timers : Adding(d, u)' <=> Adding(d, u)
  BY DEF Lookup, Adding, At, Goto, IInv, TypeOK
<1>2. \A u \in Timers : InAdd(u)' <=> InAdd(u)
  BY DEF Lookup, InAdd, At, Goto, IInv, TypeOK
<1>3. /\ linked' = linked \cup {arg[c]} /\ freed' = freed
      /\ stale' = stale \ {arg[c]} /\ revived' = revived \cup ({arg[c]} \cap freed)
  BY DEF Lookup
<1>4. InFrames' = InFrames
  BY DEF Lookup, InFrames
<1>5. created' = created /\ created' \subseteq Timers
  BY DEF Lookup, IInv, TypeOK
<1>6. Known'
  BY <1>0, <1>3, <1>4, <1>5 DEF Lookup, IInv, TypeOK, Hands, Known, At, Goto
<1>7. ASSUME NEW u \in created' PROVE Held(u)' /\ Exclusive(u)'
  <2>1. u \in created /\ Held(u) /\ Exclusive(u) BY <1>5 DEF IInv, Hands
  <2>3. Held(u)' BY <1>0, <1>1, <1>2, <1>3, <1>4, <1>5, <2>1 DEF Held
  <2>4. Exclusive(u)' BY <1>0, <1>1, <1>2, <1>3, <1>4, <1>5, <2>1 DEF Exclusive
  <2> QED BY <2>3, <2>4
<1> QED BY <1>6, <1>7 DEF Hands

(* What ChangeTimerEx and RescheduleTimer find after they waited for       *)
(* csGrab is put in the list, freed or not, or left alone.                 *)
LEMMA Regrabbed ==
  ASSUME IInv, NEW c \in Clients, Regrab(c)
  PROVE  Hands'
<1>2. CASE arg[c] \in linked \cup stale BY <1>2, RegrabHands
<1>3. CASE arg[c] \notin linked \cup stale
  BY <1>3, QuietHands DEF Regrab, Quiet, IInv, Hands, Known, TypeOK, Procs, hand, disp,
                               At, Goto, Adding
<1> QED BY <1>2, <1>3

LEMMA LookedUp ==
  ASSUME IInv, NEW c \in Clients, Lookup(c)
  PROVE  Hands'
<1>1. CASE UNCHANGED <<linked, stale, revived>>
  BY <1>1, QuietHands DEF Lookup, Quiet, IInv, Hands, Known, TypeOK, Procs, hand, disp,
                          At, Goto, Adding
<1> QED BY <1>1, LookupHands

LEMMA StepHands ==
  ASSUME IInv, Next
  PROVE  Hands'
<1>1. ASSUME NEW c \in Clients, ClientCall(c) \/ ClientStep(c) PROVE Hands'
  <2>1. CASE \E u \in Timers : AddTimer(c, u) BY <2>1, AddTimerHands
  <2>2. CASE InsertWhileAway(c) BY <2>2, InsertHands
  <2>3. CASE Relink(c) BY <2>3, RelinkHands
  <2>4. CASE HandOverAdd(c) BY <2>4, HandOverHands
  <2>5. CASE Regrab(c) BY <2>5, Regrabbed
  <2>6. CASE Lookup(c) BY <2>6, LookedUp
  <2> QED BY <1>1, <2>1, <2>2, <2>3, <2>4, <2>5, <2>6, QuietClient, QuietHands DEF ClientCall, ClientStep
<1>2. CASE TimerStep
  <2>1. CASE TakeAdd /\ add # None BY <2>1, TakeAddHands
  <2>2. CASE TakeAdd /\ add = None
    BY <2>2, QuietHands DEF TakeAdd, Quiet, IInv, Hands, Known, TypeOK, Procs, list, hand, disp,
                            At, Goto, Adding
  <2>3. CASE ClearAdd BY <2>3, ClearAddHands
  <2>4. CASE TakeDel
    <3>1. Removed(del)
      BY <2>4 DEF TakeDel, Unlink, Removed, IInv, Hands, Known, TypeOK, Procs, list, hand, disp,
                  At, Goto
    <3> QED BY <3>1, RemovedHands
  <2>5. CASE \E u \in Timers : Dispatch(u) BY <2>5, DispatchHands
  <2>6. CASE RemoveSelf
    <3>1. Removed(del)
      BY <2>6 DEF RemoveSelf, Unlink, Removed, IInv, Hands, Known, TypeOK, Procs, list, hand, disp,
                  At, Goto
    <3> QED BY <3>1, RemovedHands
  <2>7. CASE Requeue BY <2>7, RequeueHands
  <2>8. CASE FreeOneShot BY <2>8, FreeOneShotHands
  <2> QED BY <1>2, <2>1, <2>2, <2>3, <2>4, <2>5, <2>6, <2>7, <2>8, QuietTimerThread, QuietHands
      DEF TimerStep
<1>3. CASE CallbackCall
  <2>1. CASE \E u \in Timers : CallbackAdd(u) BY <2>1, CallbackAddHands
  <2>2. ASSUME NEW u \in Timers, CallbackRemove(u) PROVE Hands'
    <3>1. Removed(u)
      BY <2>2 DEF CallbackRemove, Unlink, Removed, IInv, Hands, Known, list, hand, disp, At
    <3> QED BY <3>1, RemovedHands
  <2> QED BY <1>3, <2>1, <2>2, QuietTimerThread, QuietHands DEF CallbackCall
<1> QED BY <1>1, <1>2, <1>3 DEF Next

LEMMA StepIInv ==
  ASSUME IInv, [Next]_<<use, vars>>
  PROVE  IInv'
<1>1. CASE Next
  <2>1. UNCHANGED use BY <1>1 DEF Next
  <2>2. TypesKept BY <1>1, <2>1, CallTypes, ClientTypes, TimerTypes, CallbackTypes
                  DEF Next, ClientCall
  <2>3. Calls' BY <1>1, <2>1, CallsOfClients, CallsOfTimerThread DEF Next
  <2> QED BY <1>1, <2>2, <2>3, StepHands DEF IInv, TypesKept
<1>2. CASE UNCHANGED <<use, vars>>
  <2>1. UNCHANGED <<use, linked, freed, stale, rescheduled, add, del, change, grab, current,
                    currentId, frames, flags, sem, pc, arg, word, created, asked,
                    missed, revived>>
    BY <1>2 DEF vars, list, hand, disp
  <2>2. TypeOK' BY <2>1 DEF IInv, TypeOK
  <2>3. Nesting' BY <2>1 DEF IInv, Nesting
  <2>4. Calls' BY <2>1 DEF IInv, Calls, At
  <2>5. Hands' BY <2>1, QuietHands DEF Quiet, IInv, Hands, Known, Adding, At
  <2> QED BY <2>2, <2>3, <2>4, <2>5 DEF IInv
<1> QED BY <1>1, <1>2

----------------------------------------------------------------------------
(* Theorems. *)

(* The types of the variables, and what the rest of the invariant says of  *)
(* the timer thread's frames and hands, in every program.                  *)
THEOREM Invariant == Spec => []IInv
<1>1. IInv /\ [Next]_<<use, vars>> => IInv' BY StepIInv
<1> QED BY <1>1, InitIInv, PTL DEF Spec

(* Of the five kinds of place, an added timer is in one, and in that once. *)
LEMMA OnePlaceEach ==
  ASSUME IInv
  PROVE  OnePlace
<1> SUFFICES ASSUME NEW u \in created, u \notin revived PROVE Cardinality(Places(u)) = 1
  BY DEF OnePlace
<1>1. Held(u) /\ Exclusive(u) BY DEF IInv, Hands
<1>2. \A i, j \in DOMAIN frames : frames[i] = u /\ frames[j] = u => i = j
  BY DEF IInv, Nesting
<1> DEFINE clients == {<<"client", c>> : c \in {d \in Clients : Adding(d, u)}}
           framesOf == {<<"frame", i>> : i \in {j \in DOMAIN frames : frames[j] = u}}
           one(b, label) == {p \in {<<label>>} : b}
           places == clients \cup one(InAdd(u), "add") \cup one(u \in linked, "list")
                       \cup one(u \in freed, "pool") \cup framesOf
<1>3. Places(u) = places BY DEF Places, InAdd
<1>4. ~(\E c \in Clients : Adding(c, u)) => clients = {} OBVIOUS
<1>5. u \notin InFrames => framesOf = {} BY DEF InFrames
<1>6. \E p : places = {p}
  <2>1. ASSUME NEW c \in Clients, Adding(c, u) PROVE \E p : places = {p}
    <3>1. clients = {<<"client", c>>} BY <1>1, <2>1 DEF Exclusive
    <3>2. framesOf = {} BY <1>1, <1>5, <2>1 DEF Exclusive
    <3>3. ~InAdd(u) /\ u \notin linked /\ u \notin freed BY <1>1, <2>1 DEF Exclusive
    <3> HIDE DEF clients, framesOf
    <3> QED BY <3>1, <3>2, <3>3
  <2>2. CASE ~(\E c \in Clients : Adding(c, u)) /\ u \notin InFrames
    <3>1. framesOf = {} BY <1>5, <2>2
    <3>2. InAdd(u) \/ u \in linked \/ u \in freed BY <1>1, <2>2 DEF Held
    <3>3. clients = {} BY <1>4, <2>2
    <3> HIDE DEF clients, framesOf
    <3> QED BY <1>1, <2>2, <3>1, <3>2, <3>3 DEF Exclusive
  <2>3. CASE clients = {} /\ u \in InFrames
    <3> PICK i \in DOMAIN frames : frames[i] = u BY <2>3 DEF InFrames
    <3>1. framesOf = {<<"frame", i>>} BY <1>2
    <3>2. ~InAdd(u) /\ u \notin linked /\ u \notin freed BY <1>1, <2>3 DEF Exclusive
    <3> HIDE DEF clients, framesOf
    <3> QED BY <2>3, <3>1, <3>2
  <2> QED BY <1>4, <2>1, <2>2, <2>3
<1>7. PICK p : Places(u) = {p} BY <1>3, <1>6
<1> QED BY <1>7, FS_Singleton

(* No timer is lost between the hands it goes through (a client's, the     *)
(* g.add_timer slot, the list, the dispatch, the pool), and none is in two *)
(* at once, for any number of clients and timers, any nesting of callbacks *)
(* and whatever is called, but for a timer that was freed and put back.    *)
THEOREM OneHand == Spec => []OnePlace
BY Invariant, OnePlaceEach, PTL

----------------------------------------------------------------------------
(* The two flags. *)

(* A write of a bit field that is not stale changes this bit alone. *)
LEMMA StoreKept ==
  ASSUME TypeOK, ~StaleStore, NEW p \in Procs, NEW from, NEW bit \in {"away", "insert"},
         NEW value \in BOOLEAN, NEW to, StoreFlag(p, from, bit, value, to)
  PROVE  /\ pc[p] = from /\ pc' = [pc EXCEPT ![p] = to] /\ UNCHANGED frames
         /\ flags'.insert = IF bit = "insert" THEN value ELSE flags.insert
         /\ flags'.away = IF bit = "away" THEN value ELSE flags.away
<1>1. word[p] # None /\ word'[p] = None BY DEF StoreFlag, TypeOK
<1>2. word[p] = flags BY <1>1 DEF StaleStore
<1> QED BY <1>2 DEF StoreFlag, TypeOK, Flags, At, Goto, disp

LEMMA LoadKept ==
  ASSUME NEW p, NEW from, LoadFlags(p, from)
  PROVE  UNCHANGED <<flags, pc, frames>>
BY DEF LoadFlags, disp

LEMMA NotGarbled ==
  ASSUME ~Garbled, UNCHANGED flags,
         flags.away => frames' # << >> /\ pc'[TT] \notin {"waitinsert", "requeue"},
         \A c \in Clients : Inserting(c) => Inserting(c)',
         \A c \in Clients : pc'[c] \in {"stillaway", "insert"} => pc[c] \in {"stillaway", "insert"}
  PROVE  ~Garbled'
BY DEF Garbled, Nested

LEMMA ClientFlags ==
  ASSUME IInv, ~Garbled, ~StaleStore, ~SharedClear, NEW c \in Clients, ClientCall(c) \/ ClientStep(c)
  PROVE  ~Garbled'
<1> USE DEF Procs, At, Goto, Inserting
<1>1. TypeOK BY DEF IInv
<1>2. CASE SetInsert(c)
  <2>1. CASE LoadFlags(c, "setinsert") BY <2>1, LoadKept DEF Garbled, Nested
  <2>2. CASE StoreFlag(c, "setinsert", "insert", TRUE, "stillaway")
    <3>1. /\ pc' = [pc EXCEPT ![c] = "stillaway"] /\ UNCHANGED frames
          /\ flags'.insert /\ flags'.away = flags.away
      BY <1>1, <2>2, StoreKept
    <3>2. pc'[c] = "stillaway" /\ pc'[TT] = pc[TT] BY <1>1, <3>1 DEF TypeOK
    <3> QED BY <3>1, <3>2 DEF Garbled, Nested
  <2> QED BY <1>2, <2>1, <2>2 DEF SetInsert, WriteFlag
<1>3. CASE ClearInsert(c)
  <2>1. CASE \E from : LoadFlags(c, from) BY <2>1, LoadKept DEF Garbled, Nested
  <2>2. ASSUME NEW from \in {"inserted", "toolate"}, NEW to \in {"return", "lockadd"},
               StoreFlag(c, from, "insert", FALSE, to)
        PROVE  ~Garbled'
    <3>1. /\ pc[c] = from /\ pc' = [pc EXCEPT ![c] = to] /\ UNCHANGED frames
          /\ ~flags'.insert /\ flags'.away = flags.away
      BY <1>1, <2>2, StoreKept
    <3>2. Inserting(c) /\ ~Inserting(c)' BY <1>1, <3>1 DEF TypeOK
    <3>3. \A d \in Clients : d # c => ~Inserting(d) BY <3>2 DEF SharedClear
    <3>4. \A d \in Clients : pc'[d] \notin {"stillaway", "insert"} BY <1>1, <3>1, <3>3 DEF TypeOK
    <3>5. pc'[TT] = pc[TT] BY <1>1, <3>1 DEF TypeOK
    <3> QED BY <3>1, <3>4, <3>5 DEF Garbled, Nested
  <2> QED BY <1>3, <2>1, <2>2 DEF ClearInsert, WriteFlag
<1>4. CASE ~SetInsert(c) /\ ~ClearInsert(c)
  <2>1. UNCHANGED <<flags, frames>>
    BY <1>4 DEF ClientCall, ClientStep, AddTimer, RemoveTimer, RescheduleListed, RescheduleCurrent,
       RescheduleTimer, ChangeTimer, IsAway, StillAway, InsertWhileAway, LockChange, WakeWhileWaiting,
       HandOverAdd, HandOverDel, Wake, Return, MarkCurrent, Regrab, Relink, Lookup, LookupCurrent, disp
  <2> DEFINE Ins == {"setinsert", "stillaway", "insert", "inserted", "toolate"}
             OK == /\ \A d \in Clients : pc[d] \in Ins => pc'[d] \in Ins
                   /\ \A d \in Clients : pc'[d] \in {"stillaway", "insert"} => pc[d] \in {"stillaway", "insert"}
                   /\ pc'[TT] \in {"waitinsert", "requeue"} => pc'[TT] = pc[TT]
  <2>2. OK
    <3>1. ASSUME ClientCall(c) PROVE OK
      BY <1>1, <3>1 DEF ClientCall, AddTimer, RemoveTimer, RescheduleListed, RescheduleCurrent,
         RescheduleTimer, ChangeTimer, TypeOK
    <3>2. CASE IsAway(c) \/ StillAway(c) \/ InsertWhileAway(c) \/ LockChange(c)
      BY <1>1, <3>2 DEF IsAway, StillAway, InsertWhileAway, LockChange, TypeOK
    <3>3. CASE WakeWhileWaiting(c) \/ HandOverAdd(c) \/ HandOverDel(c) \/ Wake(c) \/ Return(c)
      BY <1>1, <3>3 DEF WakeWhileWaiting, HandOverAdd, HandOverDel, Wake, Return, TypeOK
    <3>4. CASE MarkCurrent(c) \/ Regrab(c) \/ Relink(c) \/ Lookup(c) \/ LookupCurrent(c)
      BY <1>1, <3>4 DEF MarkCurrent, Regrab, Relink, Lookup, LookupCurrent, TypeOK
    <3> HIDE DEF OK
    <3> QED BY <1>4, <3>1, <3>2, <3>3, <3>4 DEF ClientStep
  <2>3. flags.away => frames' # << >> /\ pc'[TT] \notin {"waitinsert", "requeue"}
    BY <2>1, <2>2 DEF Garbled, Nested
  <2> QED BY <2>1, <2>2, <2>3, NotGarbled
<1> QED BY <1>2, <1>3, <1>4

LEMMA TimerThreadFlags ==
  ASSUME IInv, ~Garbled, ~StaleStore, TimerStep \/ CallbackCall
  PROVE  ~Garbled'
<1> USE DEF Procs, At, Goto, Inserting
<1>1. TypeOK BY DEF IInv
<1>2. CASE SetAway
  <2>1. CASE LoadFlags(TT, "setaway") BY <2>1, LoadKept DEF Garbled, Nested
  <2>2. CASE StoreFlag(TT, "setaway", "away", TRUE, "callback")
    <3>1. /\ pc[TT] = "setaway" /\ pc' = [pc EXCEPT ![TT] = "callback"] /\ UNCHANGED frames
          /\ flags'.insert = flags.insert
      BY <1>1, <2>2, StoreKept
    <3>2. frames # << >> BY <3>1 DEF IInv, Nesting, OutLabels
    <3>3. pc'[TT] = "callback" /\ \A c \in Clients : pc'[c] = pc[c] BY <1>1, <3>1 DEF TypeOK
    <3> QED BY <3>1, <3>2, <3>3 DEF Garbled, Nested
  <2> QED BY <1>2, <2>1, <2>2 DEF SetAway, WriteFlag
<1>3. CASE ClearAway
  <2>1. CASE LoadFlags(TT, "clearaway") BY <2>1, LoadKept DEF Garbled, Nested
  <2>2. CASE StoreFlag(TT, "clearaway", "away", FALSE, "waitinsert")
    <3>1. /\ pc' = [pc EXCEPT ![TT] = "waitinsert"]
          /\ flags'.insert = flags.insert /\ ~flags'.away
      BY <1>1, <2>2, StoreKept
    <3>2. \A c \in Clients : pc'[c] = pc[c] BY <1>1, <3>1 DEF TypeOK
    <3> QED BY <3>1, <3>2 DEF Garbled
  <2> QED BY <1>3, <2>1, <2>2 DEF ClearAway, WriteFlag
<1>4. CASE ~SetAway /\ ~ClearAway
  <2>1. UNCHANGED flags /\ \A c \in Clients : pc'[c] = pc[c]
    BY <1>1, <1>4 DEF TimerStep, CallbackCall, NoTimers, SomeTimers, Sleep, TakeAdd, ClearAdd,
       TakeDel, ClearDel, Dispatch, NoneDue, Fire, LockSelf, RemoveSelf, CallbackReturn, WaitInsert,
       Requeue, FreeOneShot, CallbackAdd, CallbackRemove, CallbackReschedule, CallbackRemoveCurrent,
       CallbackIdle, TypeOK
  <2>2. CASE WaitInsert
    BY <1>1, <2>1, <2>2, NotGarbled DEF WaitInsert, Garbled, Nested, TypeOK, disp
  <2>3. CASE Requeue \/ FreeOneShot
    <3>1. ~flags.away BY <2>3 DEF Requeue, FreeOneShot, Garbled
    <3> QED BY <2>1, <3>1, NotGarbled
  <2>4. CASE \E u \in Timers : Dispatch(u)
    <3>1. frames' # << >> /\ pc'[TT] = "fire" BY <1>1, <2>4 DEF Dispatch, TypeOK
    <3> QED BY <2>1, <3>1, NotGarbled
  <2>5. CASE ~WaitInsert /\ ~Requeue /\ ~FreeOneShot /\ ~ \E u \in Timers : Dispatch(u)
    <3>1. UNCHANGED frames
      BY <1>4, <2>5 DEF TimerStep, CallbackCall, NoTimers, SomeTimers, Sleep, TakeAdd, ClearAdd,
         TakeDel, ClearDel, NoneDue, Fire, LockSelf, RemoveSelf, CallbackReturn,
         CallbackAdd, CallbackRemove, CallbackReschedule, CallbackRemoveCurrent, CallbackIdle, disp
    <3>2. pc'[TT] \in {"waitinsert", "requeue"} => pc'[TT] = pc[TT]
      BY <1>1, <1>4, <2>5 DEF TimerStep, CallbackCall, NoTimers, SomeTimers, Sleep, TakeAdd, ClearAdd,
         TakeDel, ClearDel, NoneDue, Fire, LockSelf, RemoveSelf, CallbackReturn,
         CallbackAdd, CallbackRemove, CallbackReschedule, CallbackRemoveCurrent, CallbackIdle, TypeOK
    <3>3. flags.away => frames' # << >> /\ pc'[TT] \notin {"waitinsert", "requeue"}
      BY <3>1, <3>2 DEF Garbled, Nested
    <3> QED BY <2>1, <3>3, NotGarbled
  <2> QED BY <2>2, <2>3, <2>4, <2>5
<1> QED BY <1>2, <1>3, <1>4

(* However clients and callbacks interleave, insert_while_away comes to be *)
(* set without an owner, or clear under one, and away_in_timer stays set   *)
(* after a callback, by a write of one of these bit fields that runs into  *)
(* another one, or by two clients that insert at once, and not otherwise.  *)
THEOREM FlagsHaveOwners == Spec => FlagsOwned
<1>1. ASSUME IInv, Next PROVE Garbled' => Garbled \/ StaleStore \/ SharedClear
  BY <1>1, ClientFlags, TimerThreadFlags DEF Next
<1>2. ASSUME UNCHANGED <<use, vars>> PROVE UNCHANGED vars
  BY <1>2
<1>3. IInv /\ [Next]_<<use, vars>> => [Garbled' => Garbled \/ StaleStore \/ SharedClear]_vars
  BY <1>1, <1>2
<1> QED BY <1>3, Invariant, PTL DEF Spec, FlagsOwned

----------------------------------------------------------------------------
(* Removals. *)

(* What the timer thread is about to clear from g.del_timer was removed,   *)
(* or looked for in vain.                                                  *)
RInv == RemovalKept /\ (At(TT, "deleted") => del \in freed \cup missed)

(* A step that asks for no removal, finishes none and takes none back. *)
LEMMA StillKept ==
  ASSUME RInv, asked' = asked, freed \subseteq freed', missed \subseteq missed',
         del' = del \/ del = None \/ del \in freed' \cup missed',
         \A p \in Procs, u \in Timers : Asking(p, u) => Asking(p, u)' \/ del' = u,
         At(TT, "deleted")' => (At(TT, "deleted") /\ del' = del) \/ del' \in freed' \cup missed'
  PROVE  RInv'
BY DEF RInv, RemovalKept

(* DoRemoveTimer takes the timer out, or finds it freed or nowhere. *)
LEMMA Unlinked ==
  ASSUME NEW u, Unlink(u)
  PROVE  /\ freed \subseteq freed' /\ missed \subseteq missed'
         /\ u \in freed' \cup missed'
BY DEF Unlink

LEMMA ClientRemovals ==
  ASSUME IInv, RInv, NEW c \in Clients, ClientStep(c) \/ ClientCall(c)
  PROVE  RInv'
<1> USE DEF IInv, TypeOK, list, hand, disp, Procs, At, Goto, Asking
<1>1. CASE IsAway(c) BY <1>1, StillKept DEF IsAway
<1>2. CASE SetInsert(c) BY <1>2, StillKept DEF SetInsert, WriteFlag, LoadFlags, StoreFlag
<1>3. CASE StillAway(c) BY <1>3, StillKept DEF StillAway
<1>4. CASE InsertWhileAway(c) BY <1>4, StillKept DEF InsertWhileAway, Link
<1>5. CASE ClearInsert(c) BY <1>5, StillKept DEF ClearInsert, WriteFlag, LoadFlags, StoreFlag
<1>6. CASE LockChange(c) BY <1>6, StillKept DEF LockChange
<1>7. CASE WakeWhileWaiting(c) BY <1>7, StillKept DEF WakeWhileWaiting
<1>8. CASE HandOverAdd(c) BY <1>8, StillKept DEF HandOverAdd
<1>9. CASE HandOverDel(c)
  <2>1. /\ UNCHANGED <<asked, freed, missed, currentId, arg>> /\ del = None /\ del' = arg[c]
        /\ \A p \in Procs : p # c => pc'[p] = pc[p]
    BY <1>9 DEF HandOverDel
  <2>2. \A p \in Procs, u \in Timers : Asking(p, u) => Asking(p, u)' \/ del' = u
    BY <2>1
  <2>3. pc'[TT] = "deleted" => pc[TT] = "deleted" /\ del = None BY <2>1
  <2>4. pc[TT] # "deleted" \/ None \in freed \cup missed BY <2>1 DEF RInv
  <2>5. pc[TT] # "deleted" BY <2>4
  <2> QED BY <2>1, <2>2, <2>5, StillKept
<1>10. CASE Wake(c) BY <1>10, StillKept DEF Wake
<1>11. CASE Return(c) BY <1>11, StillKept DEF Return
<1>12. CASE MarkCurrent(c) BY <1>12, StillKept DEF MarkCurrent
<1>13. CASE Regrab(c) BY <1>13, StillKept DEF Regrab
<1>14. CASE Relink(c) BY <1>14, StillKept DEF Relink, Link
<1>15. CASE Lookup(c) BY <1>15, StillKept DEF Lookup
<1>16. CASE LookupCurrent(c) BY <1>16, StillKept DEF LookupCurrent
<1>17. ASSUME NEW v \in Timers, AddTimer(c, v) PROVE RInv'
  BY <1>17, StillKept DEF AddTimer
<1>18. ASSUME NEW v \in Timers, ChangeTimer(c, v) PROVE RInv'
  BY <1>18, StillKept DEF ChangeTimer
<1>19. ASSUME NEW v \in Timers, RescheduleListed(c, v) PROVE RInv'
  BY <1>19, StillKept DEF RescheduleListed
<1>20. ASSUME NEW v \in Timers, RescheduleCurrent(c, v) PROVE RInv'
  BY <1>20, StillKept DEF RescheduleCurrent
<1>21. ASSUME NEW v \in Timers, RescheduleTimer(c, v) PROVE RInv'
  BY <1>21, StillKept DEF RescheduleTimer
<1>22. ASSUME NEW v \in Timers, RemoveTimer(c, v) PROVE RInv'
  BY <1>22 DEF RemoveTimer, RInv, RemovalKept
<1> QED BY <1>1, <1>2, <1>3, <1>4, <1>5, <1>6, <1>7, <1>8, <1>9, <1>10, <1>11, <1>12, <1>13, <1>14,
           <1>15, <1>16, <1>17, <1>18, <1>19, <1>20, <1>21, <1>22 DEF ClientStep, ClientCall

LEMMA TimerThreadRemovals ==
  ASSUME IInv, RInv, TimerStep \/ CallbackCall
  PROVE  RInv'
<1> USE DEF IInv, TypeOK, list, hand, disp, Procs, At, Goto, Asking
<1>1. CASE NoTimers BY <1>1, StillKept DEF NoTimers
<1>2. CASE SomeTimers BY <1>2, StillKept DEF SomeTimers
<1>3. CASE Sleep BY <1>3, StillKept DEF Sleep
<1>4. CASE TakeAdd BY <1>4, StillKept DEF TakeAdd, Link
<1>5. CASE ClearAdd BY <1>5, StillKept DEF ClearAdd
<1>6. CASE TakeDel
  <2>1. CASE del = None BY <1>6, <2>1, StillKept DEF TakeDel
  <2>2. CASE del # None
    <3>1. /\ freed \subseteq freed' /\ missed \subseteq missed' /\ del \in freed' \cup missed'
      BY <1>6, <2>2, Unlinked DEF TakeDel
    <3> QED BY <1>6, <3>1, StillKept DEF TakeDel
  <2> QED BY <2>1, <2>2
<1>7. CASE ClearDel BY <1>7, StillKept DEF ClearDel, RInv
<1>8. CASE NoneDue BY <1>8, StillKept DEF NoneDue
<1>9. CASE Fire BY <1>9, StillKept DEF Fire
<1>10. CASE SetAway BY <1>10, StillKept DEF SetAway, WriteFlag, LoadFlags, StoreFlag
<1>11. CASE LockSelf BY <1>11, StillKept DEF LockSelf
<1>12. CASE RemoveSelf
  <2>1. /\ freed \subseteq freed' /\ missed \subseteq missed'
        /\ del = None \/ del \in freed' \cup missed'
    BY <1>12, Unlinked DEF RemoveSelf
  <2> QED BY <1>12, <2>1, StillKept DEF RemoveSelf
<1>13. CASE CallbackReturn BY <1>13, StillKept DEF CallbackReturn
<1>14. CASE ClearAway BY <1>14, StillKept DEF ClearAway, WriteFlag, LoadFlags, StoreFlag
<1>15. CASE WaitInsert BY <1>15, StillKept DEF WaitInsert
<1>16. CASE Requeue BY <1>16, StillKept DEF Requeue, Link
<1>17. CASE FreeOneShot BY <1>17, StillKept DEF FreeOneShot
<1>18. CASE CallbackRemoveCurrent
  BY <1>18 DEF CallbackRemoveCurrent, RInv, RemovalKept
<1>19. ASSUME NEW v \in Timers, Dispatch(v) PROVE RInv'
  BY <1>19, StillKept DEF Dispatch
<1>20. ASSUME NEW v \in Timers, CallbackAdd(v) PROVE RInv'
  BY <1>20, StillKept DEF CallbackAdd, Link
<1>21. ASSUME NEW v \in Timers, CallbackRemove(v) PROVE RInv'
  <2>1. /\ freed \subseteq freed' /\ missed \subseteq missed' /\ v \in freed' \cup missed'
    BY <1>21, Unlinked DEF CallbackRemove
  <2> QED BY <1>21, <2>1 DEF CallbackRemove, RInv, RemovalKept
<1>22. ASSUME NEW v \in Timers, CallbackReschedule(v) PROVE RInv'
  BY <1>22, StillKept DEF CallbackReschedule
<1>23. CASE CallbackIdle BY <1>23, StillKept DEF CallbackIdle
<1> QED BY <1>1, <1>2, <1>3, <1>4, <1>5, <1>6, <1>7, <1>8, <1>9, <1>10, <1>11, <1>12, <1>13, <1>14,
           <1>15, <1>16, <1>17, <1>18, <1>19, <1>20, <1>21, <1>22, <1>23 DEF TimerStep, CallbackCall

(* No removal is forgotten, whoever removes what, how often and in         *)
(* whatever order the two slots are served: one that was asked for is      *)
(* done, in g.del_timer, with the thread that asks for it, or was carried  *)
(* out while the timer was in no list and so found nothing.                *)
THEOREM RemovalNotForgotten == Spec => []RemovalKept
<1>1. Init => RInv
  BY DEF Init, RInv, RemovalKept, At, Procs
<1>2. IInv /\ RInv /\ [Next]_<<use, vars>> => RInv'
  <2>1. ASSUME IInv, RInv, Next PROVE RInv'
    BY <2>1, ClientRemovals, TimerThreadRemovals DEF Next
  <2>2. ASSUME RInv, UNCHANGED <<use, vars>> PROVE RInv'
    BY <2>2 DEF RInv, RemovalKept, Asking, At, vars, list, hand, disp
  <2> QED BY <2>1, <2>2
<1>3. RInv => RemovalKept BY DEF RInv
<1> QED BY <1>1, <1>2, <1>3, Invariant, PTL DEF Spec
=============================================================================
