---------------------- MODULE CriticalSection_proofs ----------------------
(***************************************************************************)
(* Proofs about CriticalSection for any number of threads, any nesting,    *)
(* any mix of ways to enter and to leave, with and without interrupted     *)
(* sleeps.                                                                 *)
(***************************************************************************)
EXTENDS CriticalSection, TLAPS

(* What the holder of dwUpdating has established about the other fields,   *)
(* and what it leaves behind: a section has an owner exactly when it has   *)
(* locks, except while the last leave is about to clear the owner.         *)
RegionInv ==
  /\ \A t \in Threads :
       /\ pc[t] = "claim" => owner \in {None, t}
       /\ pc[t] = "release" => owner = t /\ locks = 0
       /\ owner = t /\ locks = 0 => pc[t] = "release"
  /\ owner = None => locks = 0

IInv == TypeOK /\ FieldsLocked /\ RegionInv /\ Exclusion

USE ThreadsAssumption, DepthAssumption, KindsAssumption, FlagsAssumption

LEMMA InitIInv == Init => IInv
<1> SUFFICES ASSUME Init PROVE IInv
  OBVIOUS
<1>1. TypeOK BY DEF Init, TypeOK, Locations, Kinds
<1>2. FieldsLocked BY DEF Init, FieldsLocked, InRegion
<1>3. RegionInv BY DEF Init, RegionInv
<1>4. Exclusion BY DEF Init, Exclusion
<1> QED BY <1>1, <1>2, <1>3, <1>4 DEF IInv

(* The program counters after a step of thread t alone. *)
LEMMA GotoType ==
  ASSUME TypeOK, NEW t \in Threads, NEW label \in Locations, Goto(t, label)
  PROVE  pc' \in [Threads -> Locations]
BY DEF TypeOK, Goto

LEMMA StepIInv == IInv /\ [Next]_vars => IInv'
<1> SUFFICES ASSUME IInv, [Next]_vars PROVE IInv'
  OBVIOUS
<1> USE DEF IInv
<1>1. CASE UNCHANGED vars
  BY <1>1 DEF vars, section, TypeOK, FieldsLocked, RegionInv, Exclusion, InRegion
<1>2. ASSUME NEW t \in Threads, NEW k \in EnterKinds, StartEnter(t, k) PROVE IInv'
  <2>1. TypeOK' BY <1>2 DEF StartEnter, section, TypeOK, Goto, Locations, Kinds
  <2>2. FieldsLocked' BY <1>2 DEF StartEnter, section, TypeOK, Goto, FieldsLocked, InRegion
  <2>3. RegionInv' BY <1>2 DEF StartEnter, section, TypeOK, Goto, RegionInv
  <2>4. Exclusion' BY <1>2 DEF StartEnter, section, TypeOK, Exclusion
  <2> QED BY <2>1, <2>2, <2>3, <2>4
<1>3. ASSUME NEW t \in Threads, NEW k \in LeaveKinds, StartLeave(t, k) PROVE IInv'
  <2>1. TypeOK' BY <1>3 DEF StartLeave, section, TypeOK, Goto, Locations, Kinds
  <2>2. FieldsLocked' BY <1>3 DEF StartLeave, section, TypeOK, Goto, FieldsLocked, InRegion
  <2>3. RegionInv' BY <1>3 DEF StartLeave, section, TypeOK, Goto, RegionInv
  <2>4. Exclusion' BY <1>3 DEF StartLeave, section, TypeOK, Exclusion
  <2> QED BY <2>1, <2>2, <2>3, <2>4
<1>4. ASSUME NEW t \in Threads, LockFields(t) PROVE IInv'
  <2>1. TypeOK' BY <1>4 DEF LockFields, TypeOK, Goto, Locations
  <2>2. FieldsLocked' BY <1>4 DEF LockFields, TypeOK, Goto, FieldsLocked, InRegion
  <2>3. RegionInv' BY <1>4 DEF LockFields, TypeOK, Goto, RegionInv
  <2>4. Exclusion' BY <1>4 DEF LockFields, Exclusion
  <2> QED BY <2>1, <2>2, <2>3, <2>4
<1>5. ASSUME NEW t \in Threads, EnterAgain(t) PROVE IInv'
  <2>1. TypeOK' BY <1>5 DEF EnterAgain, section, TypeOK, Goto, Locations
  <2>2. FieldsLocked' BY <1>5 DEF EnterAgain, section, TypeOK, Goto, FieldsLocked, InRegion
  <2>3. RegionInv' BY <1>5 DEF EnterAgain, section, TypeOK, Goto, RegionInv
  <2>4. Exclusion' BY <1>5 DEF EnterAgain, section, Exclusion
  <2> QED BY <2>1, <2>2, <2>3, <2>4
<1>6. ASSUME NEW t \in Threads, EnterFree(t) PROVE IInv'
  <2>1. TypeOK' BY <1>6 DEF EnterFree, section, TypeOK, Goto, Locations
  <2>2. FieldsLocked' BY <1>6 DEF EnterFree, section, TypeOK, Goto, FieldsLocked, InRegion
  <2>3. RegionInv' BY <1>6 DEF EnterFree, section, TypeOK, Goto, RegionInv
  <2>4. Exclusion' BY <1>6 DEF EnterFree, section, Exclusion
  <2> QED BY <2>1, <2>2, <2>3, <2>4
<1>7. ASSUME NEW t \in Threads, EnterAsWaiter(t) PROVE IInv'
  <2>1. TypeOK' BY <1>7 DEF EnterAsWaiter, TypeOK, Goto, Locations
  <2>2. FieldsLocked' BY <1>7 DEF EnterAsWaiter, TypeOK, Goto, FieldsLocked, InRegion
  <2>3. RegionInv' BY <1>7 DEF EnterAsWaiter, TypeOK, Goto, RegionInv
  <2>4. Exclusion' BY <1>7 DEF EnterAsWaiter, Exclusion
  <2> QED BY <2>1, <2>2, <2>3, <2>4
<1>8. ASSUME NEW t \in Threads, EnterPastWaiter(t) PROVE IInv'
  <2>1. TypeOK' BY <1>8 DEF EnterPastWaiter, section, TypeOK, Goto, Locations
  <2>2. FieldsLocked' BY <1>8 DEF EnterPastWaiter, section, TypeOK, Goto, FieldsLocked, InRegion
  <2>3. RegionInv' BY <1>8 DEF EnterPastWaiter, section, TypeOK, Goto, RegionInv
  <2>4. Exclusion' BY <1>8 DEF EnterPastWaiter, section, Exclusion
  <2> QED BY <2>1, <2>2, <2>3, <2>4
<1>9. ASSUME NEW t \in Threads, Claim(t) PROVE IInv'
  <2>1. TypeOK'
    <3>1. pc' \in [Threads -> Locations] BY <1>9, GotoType DEF Claim, Locations
    <3>2. held' \in [Threads -> Nat] BY <1>9 DEF Claim, TypeOK
    <3>3. locks' \in Nat /\ owner' \in Threads BY <1>9 DEF Claim, TypeOK
    <3>4. updating' \in BOOLEAN BY <1>9 DEF Claim
    <3>5. UNCHANGED <<logged, waiting, kind, prior, wakee, sem>> BY <1>9 DEF Claim
    <3> QED BY <3>1, <3>2, <3>3, <3>4, <3>5 DEF TypeOK
  <2>2. FieldsLocked' BY <1>9 DEF Claim, TypeOK, Goto, FieldsLocked, InRegion
  <2>3. owner \in {None, t} BY <1>9 DEF Claim, RegionInv
  <2>4. RegionInv'
    BY <1>9 DEF Claim, TypeOK, Goto, RegionInv, FieldsLocked, InRegion
  <2>5. Exclusion' BY <1>9, <2>3 DEF Claim, TypeOK, RegionInv, Exclusion
  <2> QED BY <2>1, <2>2, <2>4, <2>5
<1>10. ASSUME NEW t \in Threads, EnterAsWrongThread(t) PROVE IInv'
  <2>1. TypeOK' BY <1>10 DEF EnterAsWrongThread, TypeOK, Goto, Locations
  <2>2. FieldsLocked' BY <1>10 DEF EnterAsWrongThread, TypeOK, Goto, FieldsLocked, InRegion
  <2>3. RegionInv' BY <1>10 DEF EnterAsWrongThread, TypeOK, Goto, RegionInv
  <2>4. Exclusion' BY <1>10 DEF EnterAsWrongThread, Exclusion
  <2> QED BY <2>1, <2>2, <2>3, <2>4
<1>11. ASSUME NEW t \in Threads, WakeWaiter(t) PROVE IInv'
  <2>1. TypeOK' BY <1>11 DEF WakeWaiter, section, TypeOK, Goto, Locations, Retry
  <2>2. FieldsLocked' BY <1>11 DEF WakeWaiter, section, TypeOK, Goto, FieldsLocked, InRegion, Retry
  <2>3. RegionInv' BY <1>11 DEF WakeWaiter, section, TypeOK, Goto, RegionInv, Retry
  <2>4. Exclusion' BY <1>11 DEF WakeWaiter, section, Exclusion
  <2> QED BY <2>1, <2>2, <2>3, <2>4
<1>12. ASSUME NEW t \in Threads, EnterOwned(t) PROVE IInv'
  <2>1. TypeOK'
    <3>1. pc' \in [Threads -> Locations]
      BY <1>12, GotoType DEF EnterOwned, Locations, Retry
    <3>2. prior' \in [Threads -> Threads \cup {None}]
      BY <1>12 DEF EnterOwned, TypeOK
    <3>3. waiting' \in Threads \cup {None} BY <1>12 DEF EnterOwned, TypeOK
    <3> QED BY <1>12, <3>1, <3>2, <3>3 DEF EnterOwned, TypeOK
  <2>2. FieldsLocked' BY <1>12 DEF EnterOwned, TypeOK, Goto, FieldsLocked, InRegion, Retry
  <2>3. RegionInv' BY <1>12 DEF EnterOwned, TypeOK, Goto, RegionInv, Retry
  <2>4. Exclusion' BY <1>12 DEF EnterOwned, Exclusion
  <2> QED BY <2>1, <2>2, <2>3, <2>4
<1>13. ASSUME NEW t \in Threads, CheckOwner(t) PROVE IInv'
  <2>1. TypeOK' BY <1>13 DEF CheckOwner, section, TypeOK, Goto, Locations
  <2>2. FieldsLocked' BY <1>13 DEF CheckOwner, section, TypeOK, Goto, FieldsLocked, InRegion
  <2>3. RegionInv' BY <1>13 DEF CheckOwner, section, TypeOK, Goto, RegionInv
  <2>4. Exclusion' BY <1>13 DEF CheckOwner, section, Exclusion
  <2> QED BY <2>1, <2>2, <2>3, <2>4
<1>14. ASSUME NEW t \in Threads, Sleep(t) \/ ResetSemaphore(t) PROVE IInv'
  <2>1. TypeOK' BY <1>14 DEF Sleep, ResetSemaphore, section, TypeOK, Goto, Locations
  <2>2. FieldsLocked'
    BY <1>14 DEF Sleep, ResetSemaphore, section, TypeOK, Goto, FieldsLocked, InRegion
  <2>3. RegionInv' BY <1>14 DEF Sleep, ResetSemaphore, section, TypeOK, Goto, RegionInv
  <2>4. Exclusion' BY <1>14 DEF Sleep, ResetSemaphore, section, Exclusion
  <2> QED BY <2>1, <2>2, <2>3, <2>4
<1>15. ASSUME NEW t \in Threads, LockFieldsToLeave(t) PROVE IInv'
  <2>1. TypeOK' BY <1>15 DEF LockFieldsToLeave, TypeOK, Goto, Locations
  <2>2. FieldsLocked' BY <1>15 DEF LockFieldsToLeave, TypeOK, Goto, FieldsLocked, InRegion
  <2>3. RegionInv' BY <1>15 DEF LockFieldsToLeave, TypeOK, Goto, RegionInv
  <2>4. Exclusion' BY <1>15 DEF LockFieldsToLeave, Exclusion
  <2> QED BY <2>1, <2>2, <2>3, <2>4
<1>16. ASSUME NEW t \in Threads, LeaveRefused(t) PROVE IInv'
  <2>1. TypeOK' BY <1>16 DEF LeaveRefused, TypeOK, Goto, Locations
  <2>2. FieldsLocked' BY <1>16 DEF LeaveRefused, TypeOK, Goto, FieldsLocked, InRegion
  <2>3. RegionInv' BY <1>16 DEF LeaveRefused, TypeOK, Goto, RegionInv
  <2>4. Exclusion' BY <1>16 DEF LeaveRefused, Exclusion
  <2> QED BY <2>1, <2>2, <2>3, <2>4
<1>17. ASSUME NEW t \in Threads, Leave(t) PROVE IInv'
  <2>1. held[t] = locks /\ locks \in Nat /\ locks > 0
    BY <1>17 DEF Leave, Exclusion, TypeOK
  <2>2. TypeOK'
    <3>1. pc' \in [Threads -> Locations] BY <1>17, GotoType DEF Leave, Locations
    <3>2. held' \in [Threads -> Nat] BY <1>17, <2>1 DEF Leave, TypeOK
    <3>3. locks' \in Nat BY <1>17, <2>1 DEF Leave
    <3>4. updating' \in BOOLEAN
      <4>1. updating' = updating \/ updating' = FALSE BY <1>17 DEF Leave
      <4> QED BY <4>1 DEF TypeOK
    <3> QED BY <1>17, <3>1, <3>2, <3>3, <3>4 DEF Leave, TypeOK
  <2>3. FieldsLocked' BY <1>17 DEF Leave, TypeOK, Goto, FieldsLocked, InRegion
  <2>4. RegionInv'
    BY <1>17, <2>1 DEF Leave, TypeOK, Goto, RegionInv, FieldsLocked, InRegion
  <2>5. Exclusion' BY <1>17, <2>1 DEF Leave, TypeOK, Exclusion
  <2> QED BY <2>2, <2>3, <2>4, <2>5
<1>18. ASSUME NEW t \in Threads, Release(t) PROVE IInv'
  <2>1. owner = t /\ locks = 0 BY <1>18 DEF Release, RegionInv
  <2>2. TypeOK'
    <3>1. pc' \in [Threads -> Locations] BY <1>18, GotoType DEF Release, Locations
    <3>2. wakee' \in [Threads -> Threads \cup {None}]
      <4>1. CASE wakee' = [wakee EXCEPT ![t] = waiting] BY <4>1 DEF TypeOK
      <4>2. CASE UNCHANGED wakee BY <4>2 DEF TypeOK
      <4> QED BY <1>18, <4>1, <4>2 DEF Release
    <3> QED BY <1>18, <3>1, <3>2 DEF Release, TypeOK
  <2>3. FieldsLocked' BY <1>18 DEF Release, TypeOK, Goto, FieldsLocked, InRegion
  <2>4. RegionInv'
    BY <1>18, <2>1 DEF Release, TypeOK, Goto, RegionInv, FieldsLocked, InRegion
  <2>5. Exclusion' BY <1>18, <2>1 DEF Release, TypeOK, Exclusion
  <2> QED BY <2>2, <2>3, <2>4, <2>5
<1>19. ASSUME NEW t \in Threads, PostSemaphore(t) PROVE IInv'
  <2>1. TypeOK' BY <1>19 DEF PostSemaphore, section, TypeOK, Goto, Locations
  <2>2. FieldsLocked' BY <1>19 DEF PostSemaphore, section, TypeOK, Goto, FieldsLocked, InRegion
  <2>3. RegionInv' BY <1>19 DEF PostSemaphore, section, TypeOK, Goto, RegionInv
  <2>4. Exclusion' BY <1>19 DEF PostSemaphore, section, Exclusion
  <2> QED BY <2>1, <2>2, <2>3, <2>4
<1>20. ASSUME NEW t \in Threads, Signal(t) PROVE IInv'
  <2>1. TypeOK' BY <1>20 DEF Signal, section, TypeOK, Goto, Locations, Leaves, Retry
  <2>2. FieldsLocked' BY <1>20 DEF Signal, section, TypeOK, Goto, FieldsLocked, InRegion, Leaves, Retry
  <2>3. RegionInv' BY <1>20 DEF Signal, section, TypeOK, Goto, RegionInv, Leaves, Retry
  <2>4. Exclusion' BY <1>20 DEF Signal, section, Exclusion
  <2> QED BY <2>1, <2>2, <2>3, <2>4
<1> QED
  BY <1>1, <1>2, <1>3, <1>4, <1>5, <1>6, <1>7, <1>8, <1>9, <1>10, <1>11,
     <1>12, <1>13, <1>14, <1>15, <1>16, <1>17, <1>18, <1>19, <1>20
  DEF Next, Continue

THEOREM InvariantHolds == Spec => []IInv
BY InitIInv, StepIInv, PTL DEF Spec

(* Type correctness: in particular no leave, wanted or stray, makes the    *)
(* lock count negative.                                                    *)
THEOREM TypeCorrect == Spec => []TypeOK
<1>1. IInv => TypeOK BY DEF IInv
<1> QED BY <1>1, InvariantHolds, PTL

(* Mutual exclusion and balanced nesting (EnterCriticalSecEx,              *)
(* LeaveCriticalSecEx and the NoWait and NoWake variants).                 *)
THEOREM MutualExclusion == Spec => []Exclusion
<1>1. IInv => Exclusion BY DEF IInv
<1> QED BY <1>1, InvariantHolds, PTL

(* dwUpdating is held by at most one thread. *)
THEOREM FieldLock == Spec => []FieldsLocked
<1>1. IInv => FieldsLocked BY DEF IInv
<1> QED BY <1>1, InvariantHolds, PTL

(* Every step of the section is an entry, a leave or a stutter of the      *)
(* recursive lock.                                                         *)
LEMMA StepOfLock == IInv /\ [Next]_vars => [Lock!Next]_<<IF locks = 0 THEN None ELSE owner, locks>>
<1> SUFFICES ASSUME IInv, [Next]_vars,
                    ~ UNCHANGED <<IF locks = 0 THEN None ELSE owner, locks>>
             PROVE  Lock!Next
  OBVIOUS
<1> USE DEF IInv
<1>1. ASSUME NEW t \in Threads, Claim(t) PROVE Lock!Enter(t)
  <2>1. owner \in {None, t} /\ owner' = t /\ locks' = locks + 1
    BY <1>1 DEF Claim, RegionInv
  <2>2. locks' # 0 /\ (owner = None => locks = 0) BY <2>1 DEF TypeOK, RegionInv
  <2> QED BY <2>1, <2>2 DEF Lock!Enter
<1>2. ASSUME NEW t \in Threads, Leave(t) PROVE Lock!Leave(t)
  BY <1>2 DEF Leave, TypeOK, Lock!Leave
<1>3. ASSUME NEW t \in Threads, Release(t) PROVE FALSE
  BY <1>3 DEF Release, RegionInv
<1>4. \E t \in Threads : Claim(t) \/ Leave(t)
  BY <1>3 DEF Next, Continue, vars, section, StartEnter, StartLeave, LockFields,
     EnterAgain, EnterFree, EnterAsWaiter, EnterPastWaiter, EnterAsWrongThread,
     WakeWaiter, EnterOwned, CheckOwner, Sleep, ResetSemaphore, LockFieldsToLeave,
     LeaveRefused, PostSemaphore, Signal
<1> QED BY <1>1, <1>2, <1>4 DEF Lock!Next

(* The section implements the recursive lock. *)
THEOREM Implementation == Spec => ImplementsLock
<1>1. Init => Lock!Init BY DEF Init, Lock!Init
<1> QED BY <1>1, StepOfLock, InvariantHolds, PTL DEF Spec, ImplementsLock, Lock!Spec

(***************************************************************************)
(* Lost wake-ups.  Of two threads one has the section when the other       *)
(* begins to wait, so that a newcomer finds no waiter to replace: no ID is *)
(* ever kept in a "prior", which is where three threads lose one of them   *)
(* (CriticalSection_lost.cfg).                                             *)
(***************************************************************************)
TwoThreads == \E a, b \in Threads : Threads = {a, b}
LeavesWake == LeaveKinds \subseteq {"wake"}

(* A wake-up has come for t, is on its way, or will be sent by the leave   *)
(* of the thread that has the section. *)
WakeUpDue(t) ==
  \/ sem[t]
  \/ \E u \in Threads : pc[u] = "post" /\ wakee[u] = t
  \/ owner \notin {None, t} /\ waiting = t

(* A thread that has decided to sleep has a wake-up due: it made itself    *)
(* the waiter of a section another one owned, nobody replaces a waiter in  *)
(* an owned section when there is no third thread, and the owner is not    *)
(* its own waiter.                                                         *)
WakeInv ==
  /\ owner # None => waiting # owner
  /\ \A t \in Threads :
       /\ prior[t] = None
       /\ pc[t] = "claim" => waiting # t
       /\ pc[t] = "rewake" => kind[t] = "poll"
       /\ pc[t] \in {"post", "kill"} => kind[t] \in {"wake", "poll"}
       /\ pc[t] \in {"leave", "leaving", "release"} => kind[t] = "wake"
       /\ pc[t] \in {"check", "sleep"} => WakeUpDue(t)

LEMMA InitWakeInv == Init => WakeInv
BY DEF Init, WakeInv

LEMMA StepWakeInv ==
  ASSUME TwoThreads, LeavesWake, IInv, WakeInv, [Next]_vars
  PROVE  WakeInv'
<1> USE DEF WakeInv, WakeUpDue
<1>0. TypeOK /\ FieldsLocked /\ RegionInv BY DEF IInv
<1>1. CASE UNCHANGED vars
  BY <1>1 DEF vars, section
<1>2. ASSUME NEW t \in Threads, NEW k \in EnterKinds, StartEnter(t, k) PROVE WakeInv'
  BY <1>0, <1>2 DEF StartEnter, section, Goto, TypeOK, FieldsLocked, RegionInv, InRegion, TwoThreads
<1>3. ASSUME NEW t \in Threads, NEW k \in LeaveKinds, StartLeave(t, k) PROVE WakeInv'
  BY <1>0, <1>3 DEF StartLeave, section, Goto, TypeOK, FieldsLocked, RegionInv, InRegion, LeavesWake, TwoThreads
<1>4. ASSUME NEW t \in Threads, LockFields(t) PROVE WakeInv'
  BY <1>0, <1>4 DEF LockFields, Goto, TypeOK, FieldsLocked, RegionInv, InRegion, TwoThreads
<1>5. ASSUME NEW t \in Threads, EnterAgain(t) PROVE WakeInv'
  BY <1>0, <1>5 DEF EnterAgain, section, Goto, TypeOK, FieldsLocked, RegionInv, InRegion, TwoThreads
<1>6. ASSUME NEW t \in Threads, EnterFree(t) PROVE WakeInv'
  BY <1>0, <1>6 DEF EnterFree, section, Goto, TypeOK, FieldsLocked, RegionInv, InRegion, TwoThreads
<1>7. ASSUME NEW t \in Threads, EnterAsWaiter(t) PROVE WakeInv'
  BY <1>0, <1>7 DEF EnterAsWaiter, Goto, TypeOK, FieldsLocked, RegionInv, InRegion, TwoThreads
<1>8. ASSUME NEW t \in Threads, EnterPastWaiter(t) PROVE WakeInv'
  BY <1>0, <1>8 DEF EnterPastWaiter, section, Goto, TypeOK, FieldsLocked, RegionInv, InRegion, TwoThreads
<1>9. ASSUME NEW t \in Threads, Claim(t) PROVE WakeInv'
  BY <1>0, <1>9 DEF Claim, Goto, TypeOK, FieldsLocked, RegionInv, InRegion, TwoThreads
<1>10. ASSUME NEW t \in Threads, EnterAsWrongThread(t) PROVE WakeInv'
  BY <1>0, <1>10 DEF EnterAsWrongThread, Goto, KeepsPrior, TypeOK, FieldsLocked, RegionInv, InRegion, TwoThreads
<1>11. ASSUME NEW t \in Threads, WakeWaiter(t) PROVE WakeInv'
  BY <1>0, <1>11 DEF WakeWaiter, section, Goto, Retry, TypeOK, FieldsLocked, RegionInv, InRegion, TwoThreads
<1>12. ASSUME NEW t \in Threads, EnterOwned(t) PROVE WakeInv'
  BY <1>0, <1>12 DEF EnterOwned, Goto, KeepsPrior, Retry, TypeOK, FieldsLocked, RegionInv, InRegion, TwoThreads
<1>13. ASSUME NEW t \in Threads, CheckOwner(t) PROVE WakeInv'
  BY <1>0, <1>13 DEF CheckOwner, section, Goto, TypeOK, FieldsLocked, RegionInv, InRegion, TwoThreads
<1>14. ASSUME NEW t \in Threads, Sleep(t) PROVE WakeInv'
  BY <1>0, <1>14 DEF Sleep, section, Goto, TypeOK, FieldsLocked, RegionInv, InRegion, TwoThreads
<1>15. ASSUME NEW t \in Threads, ResetSemaphore(t) PROVE WakeInv'
  BY <1>0, <1>15 DEF ResetSemaphore, section, Goto, TypeOK, FieldsLocked, RegionInv, InRegion, TwoThreads
<1>16. ASSUME NEW t \in Threads, LockFieldsToLeave(t) PROVE WakeInv'
  BY <1>0, <1>16 DEF LockFieldsToLeave, Goto, TypeOK, FieldsLocked, RegionInv, InRegion, TwoThreads
<1>17. ASSUME NEW t \in Threads, LeaveRefused(t) PROVE WakeInv'
  BY <1>0, <1>17 DEF LeaveRefused, Goto, TypeOK, FieldsLocked, RegionInv, InRegion, TwoThreads
<1>18. ASSUME NEW t \in Threads, Leave(t) PROVE WakeInv'
  BY <1>0, <1>18 DEF Leave, Goto, TypeOK, FieldsLocked, RegionInv, InRegion, TwoThreads
<1>19. ASSUME NEW t \in Threads, Release(t) PROVE WakeInv'
  BY <1>0, <1>19 DEF Release, Goto, TypeOK, FieldsLocked, RegionInv, InRegion, TwoThreads
<1>20. ASSUME NEW t \in Threads, PostSemaphore(t) PROVE WakeInv'
  BY <1>0, <1>20 DEF PostSemaphore, section, Goto, TypeOK, FieldsLocked, RegionInv, InRegion, TwoThreads
<1>21. ASSUME NEW t \in Threads, Signal(t) PROVE WakeInv'
  BY <1>0, <1>21 DEF Signal, section, Goto, Leaves, Retry, TypeOK, FieldsLocked, RegionInv, InRegion, TwoThreads
<1> QED
  BY <1>1, <1>2, <1>3, <1>4, <1>5, <1>6, <1>7, <1>8, <1>9, <1>10, <1>11, <1>12, <1>13, <1>14, <1>15, <1>16, <1>17, <1>18, <1>19, <1>20, <1>21
  DEF Next, Continue

(* With two threads, however deep they nest and whether they block, retry  *)
(* or poll, nobody sleeps on when everybody has left, as long as they      *)
(* leave with LeaveCriticalSec and not with the NoWake variant             *)
(* (WakeableSleepEx and WakeThreadEx in timers.c).                         *)
THEOREM NobodySleepsOn == TwoThreads /\ LeavesWake => (Spec => []NoLostWakeup)
<1> SUFFICES ASSUME TwoThreads, LeavesWake PROVE Spec => []NoLostWakeup
  OBVIOUS
<1>1. IInv /\ WakeInv => NoLostWakeup
  <2> SUFFICES ASSUME IInv, WakeInv,
                      \A t \in Threads : (pc[t] = "out" /\ held[t] = 0) \/ Blocked(t),
                      NEW t \in Threads, Blocked(t)
               PROVE  FALSE
    BY DEF NoLostWakeup
  <2>1. owner \notin {None, t} /\ waiting = t
    BY DEF Blocked, WakeInv, WakeUpDue
  <2>2. ~ Blocked(owner)
    BY <2>1 DEF Blocked, WakeInv, WakeUpDue, IInv, TypeOK
  <2>3. pc[owner] = "out" /\ held[owner] = 0
    BY <2>1, <2>2 DEF IInv, TypeOK
  <2> QED BY <2>1, <2>3 DEF IInv, TypeOK, Exclusion, RegionInv
<1>2. IInv /\ WakeInv /\ [Next]_vars => (IInv /\ WakeInv)'
  BY StepIInv, StepWakeInv
<1> QED BY <1>1, <1>2, InitIInv, InitWakeInv, PTL DEF Spec
=============================================================================
