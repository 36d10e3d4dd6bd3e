------------------------- MODULE CriticalSection -------------------------
(***************************************************************************)
(* The recursive lock of SACK (CRITICALSECTION): one section shared by a   *)
(* set of threads.                                                         *)
(*                                                                         *)
(*   memlib/sharemem.c    EnterCriticalSecNoWaitEx, LeaveCriticalSecNoWake *)
(*   timerlib/timers.c    EnterCriticalSecEx, LeaveCriticalSecEx,          *)
(*                        WakeableSleepEx, WakeThreadEx                    *)
(*                                                                         *)
(* The section is a word dwUpdating (a spin lock around the other fields), *)
(* a lock count with a flag in its top bit, the owner's thread ID and ONE  *)
(* waiting thread ID.  Further waiters are chained through the callers'    *)
(* stacks: a thread that puts its ID into dwThreadWaiting keeps the ID it  *)
(* replaced in its local variable "prior".                                 *)
(*                                                                         *)
(* A thread runs one call at a time; a step is what it does between two    *)
(* accesses that other threads can see.  What it reads and what it writes  *)
(* while it holds dwUpdating are different steps.                          *)
(***************************************************************************)
EXTENDS Naturals

CONSTANTS
  Threads,        \* the threads that use the section
  None,           \* thread ID 0
  MaxDepth,       \* bound: how deep a thread nests its entries
  EnterKinds,     \* how callers enter: a subset of {"block", "retry", "poll"}
  LeaveKinds,     \* how callers leave: a subset of {"wake", "nowake"}
  StrayLeaves,    \* TRUE: threads also leave a section they have not entered
  Interruptible   \* TRUE: WakeThread's SIGUSR1 breaks a semop with EINTR

ASSUME ThreadsAssumption == None \notin Threads
ASSUME DepthAssumption   == MaxDepth \in Nat \ {0}
ASSUME KindsAssumption   == /\ EnterKinds \subseteq {"block", "retry", "poll"}
                            /\ LeaveKinds \subseteq {"wake", "nowake"}
ASSUME FlagsAssumption   == StrayLeaves \in BOOLEAN /\ Interruptible \in BOOLEAN

VARIABLES
  updating,   \* dwUpdating # 0
  owner,      \* dwThreadID
  locks,      \* dwLocks without SECTION_LOGGED_WAIT
  logged,     \* SECTION_LOGGED_WAIT in dwLocks
  waiting,    \* dwThreadWaiting
  pc,         \* where each thread is
  kind,       \* which variant of enter or leave it is executing
  prior,      \* its local "prior"; None when it is 0 or not given
  wakee,      \* the thread it is waking in WakeThreadEx
  sem,        \* its wake-up semaphore is non-zero
  held        \* history: its successful entries minus its successful leaves

section == <<updating, owner, locks, logged, waiting>>
vars == <<updating, owner, locks, logged, waiting,
          pc, kind, prior, wakee, sem, held>>

Locations == {"out", "xchg", "body", "claim", "rewake", "check", "sleep",
              "reset", "leave", "leaving", "release", "post", "kill"}
Kinds == {"block", "retry", "poll", "wake", "nowake"}

TypeOK ==
  /\ updating \in BOOLEAN
  /\ owner \in Threads \cup {None}
  /\ locks \in Nat
  /\ logged \in BOOLEAN
  /\ waiting \in Threads \cup {None}
  /\ pc \in [Threads -> Locations]
  /\ kind \in [Threads -> Kinds]
  /\ prior \in [Threads -> Threads \cup {None}]
  /\ wakee \in [Threads -> Threads \cup {None}]
  /\ sem \in [Threads -> BOOLEAN]
  /\ held \in [Threads -> Nat]

(* InitializeCriticalSec: MemSet( pcs, 0, ... ). *)
Init ==
  /\ updating = FALSE
  /\ owner = None
  /\ locks = 0
  /\ logged = FALSE
  /\ waiting = None
  /\ pc = [t \in Threads |-> "out"]
  /\ kind = [t \in Threads |-> "wake"]
  /\ prior = [t \in Threads |-> None]
  /\ wakee = [t \in Threads |-> None]
  /\ sem = [t \in Threads |-> FALSE]
  /\ held = [t \in Threads |-> 0]

Goto(t, label) == pc' = [pc EXCEPT ![t] = label]

(***************************************************************************)
(* Entering.                                                               *)
(***************************************************************************)

(* A caller enters with EnterCriticalSecEx ("block"), by calling           *)
(* EnterCriticalSecNoWait( &cs, &prior ) until it returns 1 ("retry", the  *)
(* network locks) or with a NULL prior ("poll", GrabMem).                  *)
StartEnter(t, k) ==
  /\ pc[t] = "out" /\ held[t] < MaxDepth
  /\ Goto(t, "xchg")
  /\ kind' = [kind EXCEPT ![t] = k]
  /\ UNCHANGED <<section, prior, wakee, sem, held>>

(* Mutant: the result of the exchange is ignored. *)
LockFields_NoTest(t) ==
  /\ pc[t] = "xchg"
  /\ updating' = TRUE
  /\ Goto(t, "body")
  /\ UNCHANGED <<owner, locks, logged, waiting, kind, prior, wakee, sem, held>>

(* XCHG( &dwUpdating, 1 ) found 0.  When it finds 1 the call returns -1    *)
(* and every one of these callers calls again.                             *)
LockFields(t) ==
  /\ pc[t] = "xchg" /\ ~updating
  /\ updating' = TRUE
  /\ Goto(t, "body")
  /\ UNCHANGED <<owner, locks, logged, waiting, kind, prior, wakee, sem, held>>

(* The caller may have the section: it owns it, or nobody does and nobody  *)
(* waits ... *)
EnterAgain(t) ==
  /\ pc[t] = "body" /\ owner = t
  /\ Goto(t, "claim")
  /\ UNCHANGED <<section, kind, prior, wakee, sem, held>>

EnterFree(t) ==
  /\ pc[t] = "body" /\ owner = None /\ waiting = None
  /\ Goto(t, "claim")
  /\ prior' = [prior EXCEPT ![t] = None]
  /\ UNCHANGED <<section, kind, wakee, sem, held>>

(* ... or the last waiter is the caller: the waiter it replaced becomes    *)
(* the one that the next leave will wake.                                  *)
EnterAsWaiter(t) ==
  /\ pc[t] = "body" /\ owner = None /\ waiting = t
  /\ Goto(t, "claim")
  /\ waiting' = prior[t]
  /\ prior' = [prior EXCEPT ![t] = None]
  /\ UNCHANGED <<updating, owner, locks, logged, kind, wakee, sem, held>>

KeepsPrior(t) == kind[t] # "poll"

(* Someone else is waiting and the caller has room for its ID: the caller  *)
(* inserts itself as waiter and, finding itself to be the waiter, restores *)
(* the ID and takes the section.                                           *)
EnterPastWaiter(t) ==
  /\ pc[t] = "body" /\ owner = None /\ waiting \notin {None, t}
  /\ KeepsPrior(t) /\ prior[t] = None
  /\ Goto(t, "claim")
  /\ UNCHANGED <<section, kind, prior, wakee, sem, held>>

(* dwLocks++, dwThreadID = dwCurProc, dwUpdating = 0, return 1. *)
Claim(t) ==
  /\ pc[t] = "claim"
  /\ locks' = locks + 1
  /\ owner' = t
  /\ updating' = FALSE
  /\ held' = [held EXCEPT ![t] = @ + 1]
  /\ Goto(t, "out")
  /\ UNCHANGED <<logged, waiting, kind, prior, wakee, sem>>

(* Someone else is waiting and the caller has no room for its ID: the      *)
(* caller overwrites it, wakes the recorded waiter and returns 0.          *)
EnterAsWrongThread(t) ==
  /\ pc[t] = "body" /\ owner = None /\ waiting \notin {None, t}
  /\ ~KeepsPrior(t) \/ prior[t] # None
  /\ waiting' = t
  /\ updating' = FALSE
  /\ Goto(t, "rewake")
  /\ UNCHANGED <<owner, locks, logged, kind, prior, wakee, sem, held>>

Retry(t) == IF kind[t] = "block" THEN "check" ELSE "xchg"

(* WakeThreadID( pcs->dwThreadWaiting ) reads the field after dwUpdating   *)
(* was given back: another thread may be the waiter by then, or none.      *)
WakeWaiter(t) ==
  /\ pc[t] = "rewake"
  /\ wakee' = [wakee EXCEPT ![t] = waiting]
  /\ Goto(t, IF waiting # None THEN "post" ELSE Retry(t))
  /\ UNCHANGED <<section, kind, prior, sem, held>>

(* Owned by another thread: return 0, after becoming the waiting thread    *)
(* unless the caller already is, cannot be, or kept somebody's ID before.  *)
EnterOwned(t) ==
  /\ pc[t] = "body" /\ owner \notin {None, t}
  /\ logged' = TRUE
  /\ updating' = FALSE
  /\ IF KeepsPrior(t) /\ prior[t] = None /\ waiting # t
     THEN /\ prior' = [prior EXCEPT ![t] = waiting]
          /\ waiting' = t
     ELSE UNCHANGED <<prior, waiting>>
  /\ Goto(t, Retry(t))
  /\ UNCHANGED <<owner, locks, kind, wakee, sem, held>>

(* EnterCriticalSecEx after a 0: it reads dwThreadID without dwUpdating.   *)
CheckOwner(t) ==
  /\ pc[t] = "check"
  /\ Goto(t, IF owner # None THEN "sleep" ELSE "xchg")
  /\ UNCHANGED <<section, kind, prior, wakee, sem, held>>

(* WakeableSleepEx( SLEEP_FOREVER ): semop -1, then semctl SETVAL 0. *)
Sleep(t) ==
  /\ pc[t] = "sleep" /\ sem[t]
  /\ sem' = [sem EXCEPT ![t] = FALSE]
  /\ Goto(t, "reset")
  /\ UNCHANGED <<section, kind, prior, wakee, held>>

ResetSemaphore(t) ==
  /\ pc[t] = "reset"
  /\ sem' = [sem EXCEPT ![t] = FALSE]
  /\ Goto(t, "xchg")
  /\ UNCHANGED <<section, kind, prior, wakee, held>>

(***************************************************************************)
(* Leaving.  A call by a thread that does not own the section is refused.  *)
(***************************************************************************)

StartLeave(t, k) ==
  /\ pc[t] = "out" /\ (held[t] > 0 \/ StrayLeaves)
  /\ Goto(t, "leave")
  /\ kind' = [kind EXCEPT ![t] = k]
  /\ UNCHANGED <<section, prior, wakee, sem, held>>

LockFieldsToLeave(t) ==
  /\ pc[t] = "leave" /\ ~updating
  /\ updating' = TRUE
  /\ Goto(t, "leaving")
  /\ UNCHANGED <<owner, locks, logged, waiting, kind, prior, wakee, sem, held>>

LeaveRefused(t) ==
  /\ pc[t] = "leaving" /\ (locks = 0 \/ owner # t)
  /\ updating' = FALSE
  /\ Goto(t, "out")
  /\ UNCHANGED <<owner, locks, logged, waiting, kind, prior, wakee, sem, held>>

(* Mutants: the owner is not checked; an inner leave frees the section;    *)
(* dwUpdating is reset before dwThreadID.                                  *)
Leave_Unchecked(t) ==
  /\ pc[t] = "leaving"
  /\ locks' = locks - 1
  /\ Goto(t, "release")
  /\ UNCHANGED <<updating, owner, logged, waiting, kind, prior, wakee, sem, held>>

Leave_FreesAll(t) ==
  /\ pc[t] = "leaving" /\ owner = t /\ locks > 0
  /\ locks' = 0
  /\ held' = [held EXCEPT ![t] = @ - 1]
  /\ Goto(t, "release")
  /\ UNCHANGED <<updating, owner, logged, waiting, kind, prior, wakee, sem>>

Leave_EarlyUnlock(t) ==
  /\ pc[t] = "leaving" /\ owner = t /\ locks > 0
  /\ locks' = locks - 1
  /\ held' = [held EXCEPT ![t] = @ - 1]
  /\ Goto(t, IF locks = 1 THEN "release" ELSE "out")
  /\ updating' = FALSE
  /\ UNCHANGED <<owner, logged, waiting, kind, prior, wakee, sem>>

(* One level less. *)
Leave(t) ==
  /\ pc[t] = "leaving" /\ owner = t /\ locks > 0
  /\ locks' = locks - 1
  /\ held' = [held EXCEPT ![t] = @ - 1]
  /\ IF locks = 1
     THEN Goto(t, "release") /\ UNCHANGED updating
     ELSE Goto(t, "out") /\ updating' = FALSE
  /\ UNCHANGED <<owner, logged, waiting, kind, prior, wakee, sem>>

(* Mutant: the waiter is not woken. *)
Release_NoWake(t) ==
  /\ pc[t] = "release"
  /\ owner' = None /\ logged' = FALSE /\ updating' = FALSE
  /\ Goto(t, "out")
  /\ UNCHANGED <<locks, waiting, kind, prior, wakee, sem, held>>

(* The last level frees the section, and LeaveCriticalSec (not the NoWake  *)
(* variant) goes on to wake the waiter, whose ID stays in the section.     *)
Release(t) ==
  /\ pc[t] = "release"
  /\ owner' = None
  /\ logged' = FALSE
  /\ updating' = FALSE
  /\ IF waiting # None /\ kind[t] = "wake"
     THEN wakee' = [wakee EXCEPT ![t] = waiting] /\ Goto(t, "post")
     ELSE Goto(t, "out") /\ UNCHANGED wakee
  /\ UNCHANGED <<locks, waiting, kind, prior, sem, held>>

(* WakeThreadEx: semop +1 ... *)
PostSemaphore(t) ==
  /\ pc[t] = "post"
  /\ sem' = [sem EXCEPT ![wakee[t]] = TRUE]
  /\ Goto(t, "kill")
  /\ UNCHANGED <<section, kind, prior, wakee, held>>

Leaves(t) == kind[t] \in {"wake", "nowake"}

(* ... then pthread_kill( SIGUSR1 ), which breaks off the semop of a       *)
(* thread it finds blocked and is otherwise without effect.                *)
Signal(t) ==
  LET after == IF Leaves(t) THEN "out" ELSE Retry(t) IN
  /\ pc[t] = "kill"
  /\ \/ Goto(t, after)
     \/ /\ Interruptible /\ pc[wakee[t]] = "sleep"
        /\ pc' = [pc EXCEPT ![t] = after, ![wakee[t]] = "xchg"]
  /\ wakee' = [wakee EXCEPT ![t] = None]
  /\ UNCHANGED <<section, kind, prior, sem, held>>

(***************************************************************************)

(* The steps of a call that has begun. *)
Continue(t) ==
  \/ LockFields(t) \/ EnterAgain(t) \/ EnterFree(t) \/ EnterAsWaiter(t)
  \/ EnterPastWaiter(t) \/ Claim(t) \/ EnterAsWrongThread(t) \/ WakeWaiter(t)
  \/ EnterOwned(t) \/ CheckOwner(t) \/ Sleep(t) \/ ResetSemaphore(t)
  \/ LockFieldsToLeave(t) \/ LeaveRefused(t) \/ Leave(t) \/ Release(t)
  \/ PostSemaphore(t) \/ Signal(t)

Next ==
  \E t \in Threads :
    \/ \E k \in EnterKinds : StartEnter(t, k)
    \/ \E k \in LeaveKinds : StartLeave(t, k)
    \/ Continue(t)

Spec == Init /\ [][Next]_vars

(* A thread inside a call is scheduled again unless it is blocked; nothing *)
(* makes a thread start a call, or leave a section it holds.               *)
FairSpec == Spec /\ \A t \in Threads : WF_vars(Continue(t))

(***************************************************************************)
(* Properties.                                                             *)
(***************************************************************************)

(* A thread that has entered more often than it has left is the owner, and *)
(* the lock count is that difference: no two threads are in the section,   *)
(* and it is freed by exactly as many leaves as there were entries         *)
(* (include/timers.h:406-412).                                             *)
Exclusion ==
  \A t \in Threads : held[t] = IF owner = t THEN locks ELSE 0

InRegion(t) == pc[t] \in {"body", "claim", "leaving", "release"}

(* dwUpdating is a lock: at most one thread is between a successful XCHG   *)
(* and its dwUpdating = 0.                                                 *)
FieldsLocked ==
  \A t \in Threads : InRegion(t) =>
      updating /\ \A u \in Threads \ {t} : ~InRegion(u)

(* Calls by one thread at a time, nested or not: what EnterCriticalSec and *)
(* LeaveCriticalSec promise, however threads queue, spin and wake up.      *)
Lock == INSTANCE RecursiveLock
          WITH holder <- IF locks = 0 THEN None ELSE owner, depth <- locks
ImplementsLock == Lock!Spec

Blocked(t) == pc[t] = "sleep" /\ ~sem[t]

(* When every thread has left and is in no call, or sleeps without a wake- *)
(* up on its way, then none sleeps: a thread blocks only "until the        *)
(* original thread leaves the section" (include/timers.h:406-409).         *)
NoLostWakeup ==
  (\A t \in Threads : (pc[t] = "out" /\ held[t] = 0) \/ Blocked(t))
    => \A t \in Threads : ~Blocked(t)

Entering(t) == ~Leaves(t) /\ pc[t] # "out"

(* As long as somebody is trying to enter, somebody gets in, unless others *)
(* keep leaving a section that is not theirs, and once nobody polls any    *)
(* more (a poller writes itself over the waiter, and two threads can keep  *)
(* each other out that way): no wake-up is missed, whatever pollers left   *)
(* behind, and every path through the calls gives dwUpdating back.         *)
SomebodyEnters ==
  <>[](\A t \in Threads : kind[t] # "poll") =>
    ((\E t \in Threads : Entering(t))
       ~> (owner # None \/ \E t \in Threads : pc[t] = "leaving" /\ owner # t))

=============================================================================
