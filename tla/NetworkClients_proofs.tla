----------------------- MODULE NetworkClients_proofs -----------------------
(***************************************************************************)
(* Proofs about NetworkClients, in every program whose opens do not block, *)
(* with any number of threads, clients and descriptors.  In such a program *)
(* every removal is by a thread that has csLock; in one whose opens block  *)
(* the flags are written without it, and TLC has only small instances.     *)
(* IInv: a client is on the one list that its state flag names, whoever    *)
(* handles a client handles one there is, and nobody is about to write     *)
(* flags it has read before.  SInv, which builds on it: the section of a   *)
(* client is left as often as calls are inside (Locked), calls find their  *)
(* clients as they left them although other threads run between their      *)
(* steps (Proper, Fits, Clear), an open descriptor has one client          *)
(* (Sockets), and the close callback has run at most once (Told).          *)
(***************************************************************************)
EXTENDS NetworkClients, FiniteSetTheorems, SequenceTheorems, TLAPS

USE UsesAssumption, ClientsAssumption, ThreadsAssumption

----------------------------------------------------------------------------
(* The inductive invariant. *)

(* The calls there are; one that is at a place of Held is about a client.  *)
(* RemoveLoads and RemoveStores are at none of these places.               *)
Free == {"getfree", "again", "build", "asleep", "select", "scan",
         "idle", "walk", "left", "closing"}
Held == {"lock", "socket", "failed", "wait", "callback", "closed", "leave",
         "check", "enter", "close", "terminate", "connected", "restart"}
Places == Free \cup Held
Ops == {"open", "remove", "net", "timer"}
Kinds == {"async", "block", "accept", "close", "reset", "silent", ""}
Mine == use.clients \cup {None}
Frame ==
  {f \in [op : Ops, at : Places, c : Mine, kind : Kinds, seen : {{}}] :
     f.at \in Held => f.c # None}

Frames == stack \in [Threads -> Seq(Frame)] /\ next \in Mine

(* Every client there is is on a list. *)
Listed == \A c \in use.clients : \E s \in States : c \in Range(list[s])

(* It is on the list that its flag names, and only there. *)
Named ==
  /\ \A c \in Clients, s \in States : c \in Range(list[s]) <=> flags[c] \cap States = {s}
  /\ \A s \in States : IsInjective(list[s])

Records ==
  /\ list \in [States -> Seq(use.clients)]
  /\ flags \in [Clients -> SUBSET AllFlags]
  /\ Listed /\ Named

IInv == use \in Uses /\ use.open = "async" /\ Frames /\ Records

(* The thread has the section of a client that it is about to remove. *)
Possessed(t) ==
  At(t, "remove", "check") \/ At(t, "remove", "enter") => owner[Top(t).c] = t

----------------------------------------------------------------------------
(* Lists. *)

LEMMA UnlinkedSeq ==
  ASSUME NEW S, NEW s \in Seq(S), IsInjective(s), NEW c
  PROVE  /\ Unlinked(s, c) \in Seq(S)
         /\ IsInjective(Unlinked(s, c))
         /\ Range(Unlinked(s, c)) = Range(s) \ {c}
<1>1. CASE c \notin Range(s)
  BY <1>1 DEF Unlinked
<1>2. CASE c \in Range(s)
  <2> DEFINE k == CHOOSE i \in DOMAIN s : s[i] = c
             n == Len(s)
             u == SubSeq(s, 1, k - 1) \o SubSeq(s, k + 1, n)
  <2>1. k \in DOMAIN s /\ s[k] = c
    BY <1>2 DEF Range
  <2>2. n \in Nat /\ DOMAIN s = 1 .. n /\ k \in 1 .. n
    BY <2>1
  <2>3. Unlinked(s, c) = u
    BY <1>2 DEF Unlinked, RemoveAt
  <2> HIDE DEF k
  <2> DEFINE v == SubSeq(s, 1, k - 1)
             w == SubSeq(s, k + 1, n)
  <2>4. /\ v \in Seq(S) /\ Len(v) = k - 1 /\ \A i \in 1 .. k - 1 : v[i] = s[i]
        /\ w \in Seq(S) /\ Len(w) = n - k /\ \A i \in 1 .. n - k : w[i] = s[k + i]
    <3>1. \A i \in 1 .. n : s[i] \in S BY <2>2
    <3>2. /\ v \in Seq(S) /\ Len(v) = k - 1 /\ \A i \in 1 .. k - 1 : v[i] = s[i]
      BY <2>2, <3>1, SubSeqProperties
    <3>3. w \in Seq(S) /\ Len(w) = IF k + 1 <= n THEN n - (k + 1) + 1 ELSE 0
      BY <2>2, <3>1, SubSeqProperties
    <3>4. \A i \in 1 .. n - (k + 1) + 1 : w[i] = s[(k + 1) + i - 1]
      BY <2>2, <3>1, SubSeqProperties
    <3> HIDE DEF v, w
    <3>7. ASSUME NEW m \in Nat, NEW j \in 1 .. m
          PROVE  (IF j + 1 <= m THEN m - (j + 1) + 1 ELSE 0) = m - j
      OBVIOUS
    <3>8. n \in Nat /\ k \in 1 .. n BY <2>2
    <3> HIDE DEF n
    <3>9. (IF k + 1 <= n THEN n - (k + 1) + 1 ELSE 0) = n - k
      BY ONLY <3>7, <3>8
    <3>5. Len(w) = n - k
      BY ONLY <3>3, <3>9
    <3>6. ASSUME NEW i \in 1 .. n - k PROVE w[i] = s[k + i]
      <4>1. i \in 1 .. n - (k + 1) + 1 /\ (k + 1) + i - 1 = k + i
        BY <2>2
      <4> QED BY <4>1, <3>4
    <3> QED BY <3>2, <3>3, <3>5, <3>6
  <2>5. /\ u \in Seq(S) /\ Len(u) = n - 1 /\ DOMAIN u = 1 .. n - 1
        /\ \A i \in 1 .. n - 1 : u[i] = IF i < k THEN s[i] ELSE s[i + 1]
    <3> HIDE DEF v, w
    <3>1. u = v \o w BY DEF v, w
    <3> HIDE DEF u
    <3>4. v \in Seq(S) /\ w \in Seq(S) /\ Len(v) = k - 1 /\ Len(w) = n - k
      BY <2>4
    <3>5. /\ u \in Seq(S) /\ Len(u) = Len(v) + Len(w)
          /\ \A i \in 1 .. Len(v) + Len(w) : u[i] = IF i <= Len(v) THEN v[i] ELSE w[i - Len(v)]
      BY ONLY <3>1, <3>4, ConcatProperties
    <3>2. /\ u \in Seq(S) /\ Len(u) = n - 1
          /\ \A i \in 1 .. n - 1 : u[i] = IF i <= k - 1 THEN v[i] ELSE w[i - (k - 1)]
      BY <2>2, <3>4, <3>5
    <3>3. ASSUME NEW i \in 1 .. n - 1 PROVE u[i] = IF i < k THEN s[i] ELSE s[i + 1]
      BY <2>2, <2>4, <3>2
    <3> QED BY <2>2, <3>2, <3>3
  <2> HIDE DEF u
  <2>6. IsInjective(u)
    <3> SUFFICES ASSUME NEW a \in 1 .. n - 1, NEW b \in 1 .. n - 1, u[a] = u[b]
                 PROVE  a = b
      BY <2>5 DEF IsInjective
    <3>1. a \in 1 .. n /\ a + 1 \in 1 .. n /\ b \in 1 .. n /\ b + 1 \in 1 .. n
      BY <2>2
    <3>2. \A i, j \in 1 .. n : s[i] = s[j] => i = j BY <2>2 DEF IsInjective
    <3>3. /\ u[a] = IF a < k THEN s[a] ELSE s[a + 1]
          /\ u[b] = IF b < k THEN s[b] ELSE s[b + 1]
      BY <2>5
    <3>4. n \in Nat /\ k \in 1 .. n BY <2>2
    <3>5. CASE a < k BY ONLY <3>1, <3>2, <3>3, <3>4, <3>5, u[a] = u[b], a \in 1 .. n - 1, b \in 1 .. n - 1
    <3>6. CASE ~(a < k) BY ONLY <3>1, <3>2, <3>3, <3>4, <3>6, u[a] = u[b], a \in 1 .. n - 1, b \in 1 .. n - 1
    <3> QED BY <3>5, <3>6
  <2>7. Range(u) \subseteq Range(s) \ {c}
    BY <2>1, <2>2, <2>5 DEF IsInjective, Range
  <2>8. ASSUME NEW d \in Range(s), d # c PROVE d \in Range(u)
    <3>1. PICK j \in 1 .. n : s[j] = d BY <2>2 DEF Range
    <3>2. j # k BY <2>1, <2>8, <3>1
    <3>3. CASE j < k BY <2>2, <2>5, <3>1, <3>3 DEF Range
    <3>4. CASE j > k
      <4>1. j - 1 \in 1 .. n - 1 /\ u[j - 1] = d BY <2>2, <2>5, <3>1, <3>4
      <4> QED BY <4>1, <2>5 DEF Range
    <3> QED BY <2>2, <3>1, <3>2, <3>3, <3>4
  <2> QED BY <2>3, <2>5, <2>6, <2>7, <2>8
<1> QED BY <1>1, <1>2

PutBefore(p, c, s) == p = <<c>> \o s

LEMMA PutFirst ==
  ASSUME NEW S, NEW s \in Seq(S), IsInjective(s), NEW c \in S \ Range(s),
         NEW p, PutBefore(p, c, s)
  PROVE  /\ p \in Seq(S)
         /\ IsInjective(p)
         /\ Range(p) = Range(s) \cup {c}
<1> DEFINE n == Len(s)
<1>1. n \in Nat /\ DOMAIN s = 1 .. n
  OBVIOUS
<1>2. /\ p \in Seq(S) /\ Len(p) = n + 1 /\ DOMAIN p = 1 .. n + 1
      /\ p[1] = c /\ \A i \in 1 .. n : p[i + 1] = s[i]
  BY <1>1 DEF PutBefore
<1>3. \A i \in DOMAIN p : i = 1 \/ (i - 1 \in DOMAIN s /\ p[i] = s[i - 1])
  BY <1>1, <1>2
<1>4. \A i \in DOMAIN s : s[i] # c
  BY DEF Range
<1>5. IsInjective(p)
  BY <1>1, <1>2, <1>3, <1>4 DEF IsInjective
<1>6. Range(p) = Range(s) \cup {c}
  <2>1. Range(p) \subseteq Range(s) \cup {c} BY <1>2, <1>3 DEF Range
  <2>2. c \in Range(p) BY <1>1, <1>2 DEF Range
  <2>3. ASSUME NEW i \in DOMAIN s PROVE s[i] \in Range(p)
    <3>1. i + 1 \in DOMAIN p /\ p[i + 1] = s[i] BY <1>1, <1>2
    <3> QED BY <3>1 DEF Range
  <2> QED BY <2>1, <2>2, <2>3 DEF Range
<1> QED BY <1>2, <1>5, <1>6

(* A client moves to the head of a list. *)
LEMMA MovedLists ==
  ASSUME Records, use \in Uses, use' = use,
         NEW c \in use.clients, NEW state \in States, NEW kept \in SUBSET AllFlags,
         MoveTo(c, state, kept)
  PROVE  Records'
<1> DEFINE left(s) == Unlinked(list[s], c)
<1>1. c \in Clients /\ use.clients \subseteq Clients /\ use'.clients = use.clients
  OBVIOUS
<1>2. ASSUME NEW s \in States
      PROVE  /\ left(s) \in Seq(use.clients) /\ IsInjective(left(s))
             /\ Range(left(s)) = Range(list[s]) \ {c}
  <2>1. list[s] \in Seq(use.clients) /\ IsInjective(list[s])
    BY DEF Records, Named
  <2> QED BY <2>1, UnlinkedSeq
<1> HIDE DEF left
<1>3. ASSUME NEW s \in States
      PROVE  /\ list'[s] \in Seq(use.clients) /\ IsInjective(list'[s])
             /\ Range(list'[s]) = (Range(list[s]) \ {c}) \cup IF s = state THEN {c} ELSE {}
  <2>1. list'[s] = (IF s = state THEN <<c>> ELSE << >>) \o left(s)
    BY DEF MoveTo, Moved, left
  <2>2. CASE s = state
    <3>1. c \in use.clients \ Range(left(s)) BY <1>2
    <3>2. left(s) \in Seq(use.clients) /\ IsInjective(left(s)) BY <1>2
    <3>3. PutBefore(list'[s], c, left(s)) BY <2>1, <2>2 DEF PutBefore
    <3>4. /\ list'[s] \in Seq(use.clients) /\ IsInjective(list'[s])
          /\ Range(list'[s]) = Range(left(s)) \cup {c}
      BY <3>1, <3>2, <3>3, PutFirst
    <3>5. Range(list'[s]) = (Range(list[s]) \ {c}) \cup {c}
      BY <1>2, <3>4
    <3> QED BY <2>2, <3>4, <3>5
  <2>3. CASE s # state
    <3>1. list'[s] = left(s)
      BY <1>2, <2>1, <2>3, ConcatEmptySeq
    <3> QED BY <1>2, <2>3, <3>1
  <2> QED BY <2>2, <2>3
<1>4. list' \in [States -> Seq(use'.clients)]
  <2>1. list' = [s \in States |-> list'[s]]
    BY DEF MoveTo, Moved
  <2> QED BY <1>1, <1>3, <2>1
<1>5. /\ flags' \in [Clients -> SUBSET AllFlags]
      /\ flags'[c] \cap States = {state}
      /\ \A d \in Clients \ {c} : flags'[d] = flags[d]
  BY <1>1 DEF MoveTo, Records, AllFlags
<1>6. Listed'
  <2> SUFFICES ASSUME NEW d \in use.clients PROVE \E s \in States : d \in Range(list'[s])
    BY <1>1 DEF Listed
  <2>1. CASE d = c BY <2>1, <1>3
  <2>2. CASE d # c BY <2>2, <1>3 DEF Records, Listed
  <2> QED BY <2>1, <2>2
<1>7. ASSUME NEW d \in Clients, NEW s \in States
      PROVE  d \in Range(list'[s]) <=> flags'[d] \cap States = {s}
  <2>1. CASE d = c BY <2>1, <1>3, <1>5
  <2>2. CASE d # c
    <3>1. flags'[d] \cap States = flags[d] \cap States BY <2>2, <1>5
    <3>2. d \in Range(list[s]) <=> flags[d] \cap States = {s} BY DEF Records, Named
    <3> QED BY <2>2, <3>1, <3>2, <1>3
  <2> QED BY <2>1, <2>2
<1> QED BY <1>3, <1>4, <1>5, <1>6, <1>7 DEF Records, Named

(* The lists stay, and so do the flags that tell where a client is. *)
LEMMA CalmFlags ==
  ASSUME Records, use' = use, list' = list,
         flags' \in [Clients -> SUBSET AllFlags],
         \A c \in Clients : flags'[c] \cap States = flags[c] \cap States
  PROVE  Records'
BY DEF Records, Listed, Named

LEMMA FlagCalm ==
  ASSUME Records, use \in Uses, use' = use, list' = list,
         NEW c \in use.clients, NEW minus, NEW plus \in SUBSET AllFlags,
         minus \cap States = {}, plus \cap States = {},
         Flag(c, minus, plus)
  PROVE  Records'
<1>1. c \in Clients
  OBVIOUS
<1>2. /\ flags' \in [Clients -> SUBSET AllFlags]
      /\ \A d \in Clients : flags'[d] \cap States = flags[d] \cap States
  BY <1>1 DEF Flag, Records
<1> QED BY <1>2, CalmFlags

LEMMA Unmoved ==
  ASSUME Records, use' = use, list' = list, flags' = flags
  PROVE  Records'
BY DEF Records, Listed, Named

(* PendingTimer goes from a client there is to one there is, or to none. *)
LEMMA WalkStays ==
  ASSUME Records
  PROVE  /\ \A s \in States : HeadOf(s) \in Mine
         /\ \A c \in use.clients : After(c) \in Mine
<1>1. ASSUME NEW s \in States PROVE HeadOf(s) \in Mine
  BY DEF HeadOf, Mine, Records
<1>2. ASSUME NEW c \in use.clients PROVE After(c) \in Mine
  <2> DEFINE s == CHOOSE s \in States : c \in Range(list[s])
             i == CHOOSE i \in DOMAIN list[s] : list[s][i] = c
  <2>1. s \in States /\ c \in Range(list[s]) BY DEF Records, Listed
  <2>2. i \in DOMAIN list[s]
    <3> HIDE DEF s
    <3> QED BY <2>1 DEF Range
  <2>3. After(c) = IF i = Len(list[s]) THEN None ELSE list[s][i + 1] BY DEF After
  <2> HIDE DEF s, i
  <2>4. list[s] \in Seq(use.clients) BY <2>1 DEF Records
  <2> QED BY <2>2, <2>3, <2>4 DEF Mine
<1> QED BY <1>1, <1>2

----------------------------------------------------------------------------
(* Calls. *)

LEMMA TopFrame ==
  ASSUME Frames, NEW t \in Threads, stack[t] # << >>
  PROVE  /\ Top(t) \in Frame
         /\ Front(stack[t]) \in Seq(Frame)
         /\ \A f \in Frame : /\ Replaced(t, f) \in Seq(Frame)
                             /\ \A g \in Frame : Append(Replaced(t, f), g) \in Seq(Frame)
<1>1. stack[t] \in Seq(Frame) /\ Len(stack[t]) \in 1 .. Len(stack[t])
  BY DEF Frames
<1>2. Top(t) \in Frame
  BY <1>1 DEF Top, Last
<1>3. Front(stack[t]) \in Seq(Frame)
  BY <1>1 DEF Front
<1>4. ASSUME NEW f \in Frame PROVE Replaced(t, f) \in Seq(Frame)
  BY <1>1 DEF Replaced
<1> QED BY <1>2, <1>3, <1>4

(* The thread goes on in its call, calls, or returns. *)
LEMMA GoesFrame ==
  ASSUME Frames, use' = use, NEW t \in Threads, stack[t] # << >>,
         NEW at \in Places, NEW c \in Mine, at \in Held => c # None, GoesWith(t, at, c)
  PROVE  stack' \in [Threads -> Seq(Frame')]
<1>1. Frame' = Frame BY DEF Frame, Mine
<1>2. [Top(t) EXCEPT !.at = at, !.c = c] \in Frame
  <2>1. Top(t) \in Frame BY TopFrame
  <2> HIDE DEF Frame
  <2> QED BY <2>1 DEF Frame
<1>3. Replaced(t, [Top(t) EXCEPT !.at = at, !.c = c]) \in Seq(Frame) BY <1>2, TopFrame
<1> QED BY <1>1, <1>3 DEF GoesWith, Frames

LEMMA CallsFrame ==
  ASSUME Frames, use' = use, NEW t \in Threads, stack[t] # << >>,
         NEW at \in Places, at \in Held => Top(t).c # None, NEW f \in Frame, Calls(t, at, f)
  PROVE  stack' \in [Threads -> Seq(Frame')]
<1>1. Frame' = Frame BY DEF Frame, Mine
<1>2. [Top(t) EXCEPT !.at = at] \in Frame
  <2>1. Top(t) \in Frame BY TopFrame
  <2> QED BY <2>1 DEF Frame
<1>3. Append(Replaced(t, [Top(t) EXCEPT !.at = at]), f) \in Seq(Frame) BY <1>2, TopFrame
<1> QED BY <1>1, <1>3 DEF Calls, Frames

LEMMA ReturnsFrame ==
  ASSUME Frames, use' = use, NEW t \in Threads, stack[t] # << >>, Returns(t)
  PROVE  stack' \in [Threads -> Seq(Frame')]
<1>1. Frame' = Frame BY DEF Frame, Mine
<1>2. Front(stack[t]) \in Seq(Frame) BY TopFrame
<1> QED BY <1>1, <1>2 DEF Returns, Frames

(* A thread that is at a place of a call for a client has a client there is. *)
LEMMA OwnClient ==
  ASSUME Frames, NEW t \in Threads, stack[t] # << >>, Top(t).at \in Held
  PROVE  Top(t).c \in use.clients /\ Top(t).c \in Mine /\ Top(t).c # None
<1>1. Top(t) \in Frame BY TopFrame
<1> QED BY <1>1 DEF Frame, Mine

LEMMA CallFrame ==
  ASSUME NEW op \in Ops, NEW at \in Places, NEW c \in Mine, NEW kind \in Kinds,
         at \in Held => c # None
  PROVE  Call(op, at, c, kind) \in Frame
BY DEF Call, Frame

LEMMA AtFrame ==
  ASSUME NEW t, NEW op, NEW at, At(t, op, at)
  PROVE  stack[t] # << >> /\ Top(t).at = at
BY DEF At

(* What a step that leaves "next" has to show. *)
LEMMA Keeps ==
  ASSUME IInv, use' = use, next' = next, stack' \in [Threads -> Seq(Frame')], Records'
  PROVE  IInv'
BY DEF IInv, Frames, Mine

----------------------------------------------------------------------------
(* Opening a client. *)

LEMMA OpenStepIInv ==
  ASSUME IInv, use' = use, NEW t \in Threads, OpenStep(t)
  PROVE  IInv'
<1> USE DEF IInv
<1>1. CASE GetFree(t)
  <2> DEFINE free == {i \in DOMAIN list["AVAILABLE"] :
                        "CLOSING" \notin flags[list["AVAILABLE"][i]]}
  <2>1. stack[t] # << >> /\ next' = next
    BY <1>1, AtFrame DEF GetFree, selects
  <2>2. CASE \E i \in free : /\ MoveTo(list["AVAILABLE"][i], "ACTIVE", flags[list["AVAILABLE"][i]])
                             /\ GoesWith(t, "lock", list["AVAILABLE"][i])
    <3>1. PICK i \in free : /\ MoveTo(list["AVAILABLE"][i], "ACTIVE", flags[list["AVAILABLE"][i]])
                            /\ GoesWith(t, "lock", list["AVAILABLE"][i])
      BY <2>2
    <3>2. "AVAILABLE" \in States /\ "ACTIVE" \in States BY DEF States
    <3> DEFINE c == list["AVAILABLE"][i]
    <3>3. c \in use.clients
      <4>1. list["AVAILABLE"] \in Seq(use.clients) /\ i \in DOMAIN list["AVAILABLE"]
        BY <3>2 DEF Records
      <4> QED BY <4>1
    <3>4. c \in Clients /\ c # None /\ c \in Mine BY <3>3 DEF Mine
    <3>5. flags[c] \in SUBSET AllFlags BY <3>4 DEF Records
    <3> HIDE DEF c
    <3>6. Records' BY <3>1, <3>2, <3>3, <3>5, MovedLists DEF c
    <3>7. stack' \in [Threads -> Seq(Frame')] BY <2>1, <3>1, <3>4, GoesFrame DEF c, Places, Held
    <3> QED BY <2>1, <3>6, <3>7, Keeps
  <2>3. CASE Goes(t, "again") /\ UNCHANGED <<list, flags>>
    <3>1. Top(t).c \in Mine
      <4>1. Top(t) \in Frame BY <2>1, TopFrame
      <4> QED BY <4>1 DEF Frame
    <3>2. stack' \in [Threads -> Seq(Frame')] BY <2>1, <2>3, <3>1, GoesFrame DEF Goes, Places, Free, Held
    <3> QED BY <2>1, <2>3, <3>2, Keeps, Unmoved
  <2> QED BY <1>1, <2>2, <2>3 DEF GetFree
<1>2. CASE GetLock(t)
  <2> DEFINE c == Top(t).c
  <2>1. stack[t] # << >> /\ Top(t).at = "lock" /\ next' = next /\ list' = list
    BY <1>2, AtFrame DEF GetLock
  <2>2. c \in use.clients /\ c \in Mine /\ c # None /\ c \in Clients
    BY <2>1, OwnClient DEF Held, Mine
  <2>3. stack' \in [Threads -> Seq(Frame')]
    BY <1>2, <2>1, <2>2, GoesFrame DEF GetLock, Goes, Places, Held
  <2>4. flags' = [flags EXCEPT ![c] = flags[c] \cap (States \cup {"CLOSING"})]
    BY <1>2 DEF GetLock, Cleared
  <2> HIDE DEF c
  <2>5. /\ flags' \in [Clients -> SUBSET AllFlags]
        /\ \A d \in Clients : flags'[d] \cap States = flags[d] \cap States
    BY <2>2, <2>4 DEF Records
  <2> QED BY <2>1, <2>3, <2>5, CalmFlags, Keeps
<1>3. CASE GetAgain(t)
  <2>1. stack[t] # << >> /\ next' = next /\ list' = list /\ flags' = flags
    BY <1>3, AtFrame DEF GetAgain, record
  <2>2. Top(t).c \in Mine
    <3>1. Top(t) \in Frame BY <2>1, TopFrame
    <3> QED BY <3>1 DEF Frame
  <2>3. CASE Goes(t, "getfree")
    <3>1. stack' \in [Threads -> Seq(Frame')] BY <2>1, <2>2, <2>3, GoesFrame DEF Goes, Places, Free, Held
    <3> QED BY <2>1, <3>1, Keeps, Unmoved
  <2>4. CASE Returns(t)
    <3>1. stack' \in [Threads -> Seq(Frame')] BY <2>1, <2>4, ReturnsFrame
    <3> QED BY <2>1, <3>1, Keeps, Unmoved
  <2> QED BY <1>3, <2>3, <2>4 DEF GetAgain
<1>4. CASE Connect(t)
  <2> DEFINE c == Top(t).c
  <2>1. stack[t] # << >> /\ Top(t).at = "socket" /\ next' = next /\ list' = list
    BY <1>4, AtFrame DEF Connect
  <2>2. c \in use.clients /\ c \in Mine /\ c # None
    BY <2>1, OwnClient DEF Held, Mine
  <2>3. Records'
    <3>1. Flag(c, {}, {"CONNECTING"}) BY <1>4 DEF Connect
    <3>2. {"CONNECTING"} \in SUBSET AllFlags /\ {"CONNECTING"} \cap States = {}
      BY DEF AllFlags, States
    <3> HIDE DEF c
    <3> QED BY <2>1, <2>2, <3>1, <3>2, FlagCalm
  <2>4. stack' \in [Threads -> Seq(Frame')]
    <3>1. CASE Goes(t, "wait") BY <2>1, <2>2, <3>1, GoesFrame DEF Goes, Places, Held
    <3>2. CASE Returns(t) BY <2>1, <3>2, ReturnsFrame
    <3>3. CASE Calls(t, "failed", Call("remove", "check", c, "silent"))
      <4>1. Call("remove", "check", c, "silent") \in Frame BY <2>2, CallFrame DEF Ops, Places, Kinds, Held
      <4> QED BY <2>1, <2>2, <3>3, <4>1, CallsFrame DEF Places, Held
    <3> QED BY <1>4, <3>1, <3>2, <3>3 DEF Connect
  <2> QED BY <2>1, <2>3, <2>4, Keeps
<1>5. CASE NoSocket(t) \/ ConnectFailed(t) \/ WaitDone(t) \/ AcceptDone(t)
  <2>1. stack[t] # << >> /\ next' = next /\ list' = list /\ flags' = flags /\ Returns(t)
    BY <1>5, AtFrame DEF NoSocket, ConnectFailed, WaitDone, AcceptDone, record
  <2>2. stack' \in [Threads -> Seq(Frame')] BY <2>1, ReturnsFrame
  <2> QED BY <2>1, <2>2, Keeps, Unmoved
<1>6. CASE WaitFailed(t)
  <2>1. /\ stack[t] # << >> /\ Top(t).at = "wait" /\ next' = next /\ list' = list /\ flags' = flags
        /\ stack' = [stack EXCEPT ![t] = <<Call("remove", "check", Top(t).c, "silent")>>]
    BY <1>6, AtFrame DEF WaitFailed, record
  <2>2. Top(t).c \in use.clients /\ Top(t).c \in Mine /\ Top(t).c # None
    BY <2>1, OwnClient DEF Held, Mine
  <2>3. Call("remove", "check", Top(t).c, "silent") \in Frame BY <2>2, CallFrame DEF Ops, Places, Kinds, Held
  <2>4. stack' \in [Threads -> Seq(Frame')]
    <3>1. Frame' = Frame BY DEF Frame, Mine
    <3> QED BY <2>1, <2>3, <3>1 DEF Frames
  <2> QED BY <2>1, <2>4, Keeps, Unmoved
<1>7. CASE Accept(t)
  <2> DEFINE c == Top(t).c
  <2>1. stack[t] # << >> /\ Top(t).at = "socket" /\ next' = next /\ list' = list
    BY <1>7, AtFrame DEF Accept
  <2>2. c \in use.clients /\ c \in Mine /\ c # None
    BY <2>1, OwnClient DEF Held, Mine
  <2>3. Records'
    <3>1. Flag(c, {}, {"CONNECTED"}) BY <1>7 DEF Accept
    <3>2. {"CONNECTED"} \in SUBSET AllFlags /\ {"CONNECTED"} \cap States = {}
      BY DEF AllFlags, States
    <3> HIDE DEF c
    <3> QED BY <2>1, <2>2, <3>1, <3>2, FlagCalm
  <2>4. stack' \in [Threads -> Seq(Frame')]
    BY <1>7, <2>1, <2>2, GoesFrame DEF Accept, Goes, Places, Held
  <2> QED BY <2>1, <2>3, <2>4, Keeps
<1> QED BY <1>1, <1>2, <1>3, <1>4, <1>5, <1>6, <1>7 DEF OpenStep

----------------------------------------------------------------------------
(* Removing a client. *)

(* Nobody is between the load and the store of a flag. *)
LEMMA MarksNothing ==
  ASSUME IInv, NEW t \in Threads
  PROVE  ~RemoveLoads(t) /\ ~RemoveStores(t)
<1> SUFFICES ASSUME At(t, "remove", "mark") \/ At(t, "remove", "store") PROVE FALSE
  BY DEF RemoveLoads, RemoveStores
<1>1. stack[t] # << >> /\ Top(t).at \in {"mark", "store"} BY DEF At
<1>2. Top(t) \in Frame BY <1>1, TopFrame DEF IInv
<1> QED BY <1>1, <1>2 DEF Frame, Places, Free, Held

LEMMA RemoveStepIInv ==
  ASSUME IInv, use' = use, NEW t \in Threads, RemoveStep(t), Possessed(t)
  PROVE  IInv'
<1> USE DEF IInv
<1> DEFINE c == Top(t).c
<1> HIDE DEF c
<1>10. ~RemoveLoads(t) /\ ~RemoveStores(t)
  BY MarksNothing
<1>11. RemoveCheck(t) \/ RemoveEnters(t) \/ RemoveCloses(t) \/ Terminate(t)
  BY <1>10 DEF RemoveStep
<1>1. /\ stack[t] # << >> /\ Top(t).at \in {"check", "enter", "close", "callback", "terminate"}
      /\ next' = next
  BY <1>11, AtFrame DEF RemoveCheck, RemoveEnters, RemoveCloses, Terminate
<1>2. c \in use.clients /\ c \in Clients /\ c \in Mine /\ c # None
  BY <1>1, OwnClient DEF Held, Mine, c
<1>3. /\ \A at \in Held : Goes(t, at) => stack' \in [Threads -> Seq(Frame')]
      /\ Returns(t) => stack' \in [Threads -> Seq(Frame')]
  <2>1. ASSUME NEW at \in Held, Goes(t, at) PROVE stack' \in [Threads -> Seq(Frame')]
    BY <1>1, <1>2, <2>1, GoesFrame DEF Goes, Places, c
  <2>2. Returns(t) => stack' \in [Threads -> Seq(Frame')]
    BY <1>1, ReturnsFrame
  <2> QED BY <2>1, <2>2
<1>4. flags[c] \in SUBSET AllFlags /\ {} \in SUBSET AllFlags
  BY <1>2 DEF Records
<1>5. "CLOSED" \in States /\ "AVAILABLE" \in States
  BY DEF States
<1>6. CASE RemoveCheck(t)
  <2>0. owner[c] = t BY <1>6 DEF RemoveCheck, Possessed, c
  <2>1. stack' \in [Threads -> Seq(Frame')]
    BY <1>3, <1>6, <2>0 DEF RemoveCheck, Closes, Held, c
  <2>2. Records'
    <3>1. CASE list' = list /\ flags' = flags BY <3>1, Unmoved
    <3>2. CASE list' = list /\ Flag(c, {}, {"WANTS"})
      <4>1. {"WANTS"} \in SUBSET AllFlags /\ {"WANTS"} \cap States = {}
        BY DEF AllFlags, States
      <4> QED BY <1>2, <3>2, <4>1, FlagCalm
    <3>3. CASE MoveTo(c, "AVAILABLE", flags[c]) BY <1>2, <1>4, <1>5, <3>3, MovedLists
    <3> QED BY <1>6, <2>0, <3>1, <3>2, <3>3 DEF RemoveCheck, c
  <2> QED BY <1>1, <2>1, <2>2, Keeps
<1>7. CASE RemoveEnters(t)
  <2>1. RemoveEntered(t) /\ list' = list
    BY <1>7 DEF RemoveEnters
  <2>2. stack' \in [Threads -> Seq(Frame')]
    BY <1>3, <2>1 DEF RemoveEntered, Held
  <2>3. Records'
    <3>1. PICK plus \in SUBSET AllFlags : plus \cap States = {} /\ Flag(c, {"WANTS"}, plus)
      BY <2>1 DEF RemoveEntered, AllFlags, States, c
    <3>2. {"WANTS"} \cap States = {} BY DEF States
    <3> QED BY <1>2, <2>1, <3>1, <3>2, FlagCalm
  <2> QED BY <1>1, <2>2, <2>3, Keeps
<1>8. CASE RemoveCloses(t)
  <2>1. stack' \in [Threads -> Seq(Frame')]
    BY <1>3, <1>8 DEF RemoveCloses, Held
  <2>2. Records'
    BY <1>2, <1>4, <1>5, <1>8, MovedLists DEF RemoveCloses, c
  <2> QED BY <1>1, <2>1, <2>2, Keeps
<1>9. CASE Terminate(t)
  <2>1. stack' \in [Threads -> Seq(Frame')]
    BY <1>3, <1>9 DEF Terminate
  <2>2. Records'
    BY <1>2, <1>4, <1>5, <1>9, MovedLists DEF Terminate, Terminated, c
  <2> QED BY <1>1, <2>1, <2>2, Keeps
<1> QED BY <1>6, <1>7, <1>8, <1>9, <1>11

(* Who has the section gets it again. *)
LEMMA NoRetries ==
  ASSUME NEW t \in Threads, Possessed(t)
  PROVE  ~RemoveRetries(t)
BY DEF RemoveRetries, Possessed, MayTake

----------------------------------------------------------------------------
(* The callbacks of the application. *)

LEMMA CallbackStepIInv ==
  ASSUME IInv, use' = use, NEW t \in Threads, CallbackStep(t)
  PROVE  IInv'
<1> USE DEF IInv
<1>1. stack[t] # << >> /\ Top(t).at \in {"callback", "closed"} /\ next' = next
  BY AtFrame DEF CallbackStep, ReadCloses, CallbackOpens, ReadReturns, InRead
<1>2. Top(t).c \in use.clients /\ Top(t).c \in Mine /\ Top(t).c # None
  BY <1>1, OwnClient DEF Held
<1>3. CASE ReadCloses(t)
  <2>1. Call("remove", "check", Top(t).c, "close") \in Frame
    BY <1>2, CallFrame DEF Ops, Places, Kinds, Held
  <2>2. Calls(t, "closed", Call("remove", "check", Top(t).c, "close")) /\ list' = list /\ flags' = flags
    BY <1>3 DEF ReadCloses, record
  <2>3. stack' \in [Threads -> Seq(Frame')]
    BY <1>1, <1>2, <2>1, <2>2, CallsFrame DEF Places, Held
  <2> QED BY <1>1, <2>2, <2>3, Keeps, Unmoved
<1>4. CASE CallbackOpens(t)
  <2>1. OpenCall \in Frame
    BY CallFrame DEF OpenCall, Ops, Places, Free, Held, Kinds, Mine
  <2>2. Calls(t, Top(t).at, OpenCall) /\ list' = list /\ flags' = flags
    BY <1>4 DEF CallbackOpens, record
  <2>3. Top(t).at \in Places BY <1>1 DEF Places, Held
  <2>4. stack' \in [Threads -> Seq(Frame')]
    BY <1>1, <1>2, <2>1, <2>2, <2>3, CallsFrame
  <2> QED BY <1>1, <2>2, <2>4, Keeps, Unmoved
<1>5. CASE ReadReturns(t)
  <2>1. Goes(t, "leave") /\ list' = list
    BY <1>5 DEF ReadReturns
  <2>2. stack' \in [Threads -> Seq(Frame')]
    BY <1>1, <1>2, <2>1, GoesFrame DEF Goes, Places, Held
  <2>3. CASE flags' = flags
    BY <1>1, <2>1, <2>2, <2>3, Keeps, Unmoved
  <2>4. CASE Flag(Top(t).c, {}, {"READPENDING"})
    <3>1. {"READPENDING"} \in SUBSET AllFlags /\ {"READPENDING"} \cap States = {}
      BY DEF AllFlags, States
    <3>2. Records' BY <1>2, <2>1, <2>4, <3>1, FlagCalm
    <3> QED BY <1>1, <2>2, <3>2, Keeps
  <2> QED BY <1>5, <2>3, <2>4 DEF ReadReturns
<1> QED BY <1>3, <1>4, <1>5 DEF CallbackStep

(* FinishPendingRead, whoever it is called by. *)
LEMMA FinishReads ==
  ASSUME IInv, use' = use, list' = list, NEW t \in Threads, stack[t] # << >>,
         NEW c \in use.clients, NEW kind \in Kinds, FinishPendingRead(t, c, kind)
  PROVE  stack' \in [Threads -> Seq(Frame')] /\ Records'
<1> USE DEF IInv
<1>1. c \in Mine /\ c # None BY DEF Mine
<1>2. CASE GoesWith(t, "leave", c) /\ flags' = flags
  <2>1. stack' \in [Threads -> Seq(Frame')] BY <1>1, <1>2, GoesFrame DEF Places, Held
  <2> QED BY <1>2, <2>1, Unmoved
<1>3. CASE GoesWith(t, "callback", c) /\ Flag(c, {"READPENDING"}, {})
  <2>1. stack' \in [Threads -> Seq(Frame')] BY <1>1, <1>3, GoesFrame DEF Places, Held
  <2>2. {} \in SUBSET AllFlags /\ {"READPENDING"} \cap States = {} /\ {} \cap States = {}
    BY DEF States
  <2>3. Records' BY <1>3, <2>2, FlagCalm
  <2> QED BY <2>1, <2>3
<1>4. CASE /\ stack' = [stack EXCEPT ![t] = Append(Replaced(t, [Top(t) EXCEPT !.at = "leave", !.c = c]),
                                                  Call("remove", "check", c, kind))]
           /\ flags' = flags
  <2>1. Call("remove", "check", c, kind) \in Frame
    BY <1>1, CallFrame DEF Ops, Places, Held
  <2>2. [Top(t) EXCEPT !.at = "leave", !.c = c] \in Frame
    <3>1. Top(t) \in Frame BY TopFrame
    <3> QED BY <1>1, <3>1 DEF Frame, Places, Held
  <2>3. Append(Replaced(t, [Top(t) EXCEPT !.at = "leave", !.c = c]),
               Call("remove", "check", c, kind)) \in Seq(Frame)
    BY <2>1, <2>2, TopFrame
  <2>4. Frame' = Frame BY DEF Frame, Mine
  <2>5. stack' \in [Threads -> Seq(Frame')] BY <1>4, <2>3, <2>4 DEF Frames
  <2> QED BY <1>4, <2>5, Unmoved
<1> QED BY <1>2, <1>3, <1>4 DEF FinishPendingRead

----------------------------------------------------------------------------
(* The network thread. *)

LEMMA NetStepIInv ==
  ASSUME IInv, use' = use, NetStep
  PROVE  IInv'
<1> USE DEF IInv
<1>1. Net \in Threads /\ stack[Net] # << >> /\ next' = next
  BY AtFrame DEF NetStep, Build, WakeUp, Select, Scan, AcceptClient, Connected, EventDone,
                 Threads, selects
<1>2. Top(Net) \in Frame /\ Top(Net).c \in Mine /\ None \in Mine
  <2>1. Top(Net) \in Frame BY <1>1, TopFrame
  <2> QED BY <2>1 DEF Frame, Mine
<1>3. \A at \in Free, c \in Mine : GoesWith(Net, at, c) => stack' \in [Threads -> Seq(Frame')]
  <2>1. \A at \in Free : at \in Places /\ at \notin Held BY DEF Free, Places, Held
  <2> QED BY <1>1, <2>1, GoesFrame
<1>4. CASE Build \/ WakeUp \/ Select \/ EventDone
  <2>1. list' = list /\ flags' = flags
    BY <1>4 DEF Build, WakeUp, Select, EventDone, record
  <2>2. \E at \in Free, c \in Mine : GoesWith(Net, at, c)
    BY <1>2, <1>4 DEF Build, WakeUp, Select, EventDone, Rebuilds, Goes, Free
  <2>3. stack' \in [Threads -> Seq(Frame')] BY <1>3, <2>2
  <2> QED BY <1>1, <2>1, <2>3, Keeps, Unmoved
<1>5. CASE Scan
  <2>1. list' = list BY <1>5 DEF Scan
  <2>2. CASE Rebuilds /\ flags' = flags
    <3>1. stack' \in [Threads -> Seq(Frame')] BY <1>2, <1>3, <2>2 DEF Rebuilds, Free
    <3> QED BY <1>1, <2>1, <2>2, <3>1, Keeps, Unmoved
  <2>3. ASSUME NEW c \in Range(list["ACTIVE"]),
               FinishPendingRead(Net, c, "close") \/ WriteEvent(c)
        PROVE  IInv'
    <3>1. c \in use.clients /\ c \in Mine /\ c # None
      <4>1. list["ACTIVE"] \in Seq(use.clients) BY DEF Records, States
      <4>2. c \in use.clients BY <4>1 DEF Range
      <4> QED BY <4>2 DEF Mine
    <3>2. CASE FinishPendingRead(Net, c, "close")
      <4>1. "close" \in Kinds BY DEF Kinds
      <4>2. stack' \in [Threads -> Seq(Frame')] /\ Records'
        BY <1>1, <2>1, <3>1, <3>2, <4>1, FinishReads
      <4> QED BY <1>1, <4>2, Keeps
    <3>3. CASE WriteEvent(c)
      <4>1. stack' \in [Threads -> Seq(Frame')]
        <5>1. "connected" \in Places /\ "leave" \in Places BY DEF Places, Held
        <5> QED BY <1>1, <3>1, <3>3, <5>1, GoesFrame DEF WriteEvent
      <4>2. CASE flags' = flags BY <1>1, <2>1, <4>1, <4>2, Keeps, Unmoved
      <4>3. CASE Flag(c, {"CONNECTING"}, {"CONNECTED"})
        <5>1. /\ {"CONNECTED"} \in SUBSET AllFlags /\ {"CONNECTED"} \cap States = {}
              /\ {"CONNECTING"} \cap States = {}
          BY DEF AllFlags, States
        <5>2. Records' BY <2>1, <3>1, <4>3, <5>1, FlagCalm
        <5> QED BY <1>1, <4>1, <5>2, Keeps
      <4> QED BY <3>3, <4>2, <4>3 DEF WriteEvent
    <3> QED BY <2>3, <3>2, <3>3
  <2> QED BY <1>5, <2>2, <2>3 DEF Scan
<1>6. CASE AcceptClient
  <2>1. list' = list /\ flags' = flags
    BY <1>6 DEF AcceptClient, record
  <2>2. [OpenCall EXCEPT !.kind = "accept"] \in Frame
    BY DEF OpenCall, Call, Frame, Ops, Places, Free, Held, Kinds, Mine
  <2>3. stack' \in [Threads -> Seq(Frame')]
    <3>1. PICK at \in {"build", "scan"} : Calls(Net, at, [OpenCall EXCEPT !.kind = "accept"])
      BY <1>6 DEF AcceptClient
    <3>2. at \in Places /\ at \notin Held BY DEF Places, Free, Held
    <3> QED BY <1>1, <2>2, <3>1, <3>2, CallsFrame
  <2> QED BY <1>1, <2>1, <2>3, Keeps, Unmoved
<1>7. CASE Connected
  <2> DEFINE c == Top(Net).c
  <2>1. Top(Net).at = "connected" /\ list' = list
    BY <1>7, AtFrame DEF Connected
  <2>2. c \in use.clients /\ c \in Mine /\ c # None
    BY <1>1, <2>1, OwnClient DEF Held
  <2>3. CASE Goes(Net, "callback") /\ flags' = flags
    <3>1. stack' \in [Threads -> Seq(Frame')]
      BY <1>1, <2>2, <2>3, GoesFrame DEF Goes, Places, Held
    <3> QED BY <1>1, <2>1, <2>3, <3>1, Keeps, Unmoved
  <2>4. CASE GoesWith(Net, "scan", None) /\ Flag(c, {}, {"CONNECTERROR"})
    <3>1. stack' \in [Threads -> Seq(Frame')] BY <1>2, <1>3, <2>4 DEF Free
    <3>2. {"CONNECTERROR"} \in SUBSET AllFlags /\ {"CONNECTERROR"} \cap States = {}
      BY DEF AllFlags, States
    <3> HIDE DEF c
    <3>3. Records' BY <2>1, <2>2, <2>4, <3>2, FlagCalm
    <3> QED BY <1>1, <3>1, <3>3, Keeps
  <2> QED BY <1>7, <2>3, <2>4 DEF Connected
<1> QED BY <1>4, <1>5, <1>6, <1>7 DEF NetStep

----------------------------------------------------------------------------
(* PendingTimer. *)

LEMMA TimerStepIInv ==
  ASSUME IInv, use' = use, TimerStep
  PROVE  IInv'
<1> USE DEF IInv
<1> DEFINE c == Top(Timer).c
<1>1. Timer \in Threads /\ stack[Timer] # << >>
  BY AtFrame DEF TimerStep, TimerStart, TimerWalk, TimerRestart, TimerLeaves, TimerNext,
                 TimerWalksClosed, TimerCloses, TimerEnds, Threads
<1>2. Top(Timer) \in Frame /\ c \in Mine /\ None \in Mine /\ next \in Mine
  <2>1. Top(Timer) \in Frame BY <1>1, TopFrame
  <2> QED BY <2>1 DEF Frame, Mine, Frames
<1>3. \A at \in Free, d \in Mine : GoesWith(Timer, at, d) => stack' \in [Threads -> Seq(Frame')]
  <2>1. \A at \in Free : at \in Places /\ at \notin Held BY DEF Free, Places, Held
  <2> QED BY <1>1, <2>1, GoesFrame
<1>4. ASSUME next' \in Mine, stack' \in [Threads -> Seq(Frame')], Records' PROVE IInv'
  BY <1>4 DEF IInv, Frames, Mine
<1>5. /\ HeadOf("ACTIVE") \in Mine /\ HeadOf("CLOSED") \in Mine
      /\ \A d \in use.clients : After(d) \in Mine
  BY WalkStays DEF States
<1>6. CASE TimerStart \/ TimerRestart \/ TimerLeaves \/ TimerNext \/ TimerWalksClosed \/ TimerEnds
  <2>1. list' = list /\ flags' = flags /\ next' \in Mine
    BY <1>2, <1>6 DEF TimerStart, TimerRestart, TimerLeaves, TimerNext, TimerWalksClosed,
                      TimerEnds, record
  <2>2. \E at \in Free, d \in Mine : GoesWith(Timer, at, d)
    BY <1>2, <1>5, <1>6 DEF TimerStart, TimerRestart, TimerLeaves, TimerNext, TimerWalksClosed,
                            TimerEnds, Goes, Free
  <2>3. stack' \in [Threads -> Seq(Frame')] BY <1>3, <2>2
  <2> QED BY <1>4, <2>1, <2>3, Unmoved
<1>7. CASE TimerWalk
  <2>1. list' = list /\ c \in use.clients /\ c # None
    BY <1>2, <1>7 DEF TimerWalk, Mine
  <2>2. After(c) \in Mine BY <1>5, <2>1
  <2>3. CASE next' = After(c) /\ FinishPendingRead(Timer, c, "reset")
    <3>1. "reset" \in Kinds BY DEF Kinds
    <3> HIDE DEF c
    <3>2. stack' \in [Threads -> Seq(Frame')] /\ Records'
      BY <1>1, <2>1, <2>3, <3>1, FinishReads
    <3> QED BY <1>4, <2>2, <2>3, <3>2
  <2>4. CASE next' = After(c) /\ Goes(Timer, "restart") /\ flags' = flags
    <3>1. stack' \in [Threads -> Seq(Frame')]
      BY <1>1, <1>2, <2>1, <2>4, GoesFrame DEF Goes, Places, Held
    <3> QED BY <1>4, <2>1, <2>2, <2>4, <3>1, Unmoved
  <2>5. CASE GoesWith(Timer, "walk", After(c)) /\ next' = next /\ flags' = flags
    <3>1. stack' \in [Threads -> Seq(Frame')] BY <1>3, <2>2, <2>5 DEF Free
    <3> QED BY <1>2, <1>4, <2>1, <2>5, <3>1, Unmoved
  <2> QED BY <1>7, <2>3, <2>4, <2>5 DEF TimerWalk
<1>8. CASE TimerCloses
  <2>1. c \in use.clients /\ c # None /\ next' = next /\ GoesWith(Timer, "closing", After(c))
    BY <1>2, <1>8 DEF TimerCloses, Mine, selects
  <2>2. stack' \in [Threads -> Seq(Frame')] BY <1>3, <1>5, <2>1 DEF Free
  <2>3. CASE list' = list /\ flags' = flags
    BY <1>2, <1>4, <2>1, <2>2, <2>3, Unmoved
  <2>4. CASE MoveTo(c, "AVAILABLE", {})
    <3>1. "AVAILABLE" \in States /\ {} \in SUBSET AllFlags BY DEF States
    <3> HIDE DEF c
    <3>2. Records' BY <2>1, <2>4, <3>1, MovedLists
    <3> QED BY <1>2, <1>4, <2>1, <2>2, <3>2
  <2> QED BY <1>8, <2>3, <2>4 DEF TimerCloses, Terminated, record
<1> QED BY <1>6, <1>7, <1>8 DEF TimerStep

----------------------------------------------------------------------------
(* The whole. *)

LEMMA InitIInv == Init /\ use.open = "async" => IInv
<1> SUFFICES ASSUME Init, use.open = "async" PROVE IInv
  OBVIOUS
<1>1. use \in Uses /\ use.clients \in SUBSET Clients
  BY DEF Init
<1>2. Frames
  <2>1. None \in Mine BY DEF Mine
  <2>2. Call("net", "build", None, "") \in Frame /\ Call("timer", "idle", None, "") \in Frame
    BY <2>1, CallFrame DEF Ops, Places, Free, Held, Kinds
  <2>3. \A f \in Frame : <<f>> \in Seq(Frame)
    OBVIOUS
  <2> DEFINE f == Call("net", "build", None, "")
             g == Call("timer", "idle", None, "")
  <2>4. stack = [t \in Threads |-> IF t = Net THEN <<f>> ELSE IF t = Timer THEN <<g>> ELSE << >>]
        /\ next = None
    BY DEF Init
  <2>5. f \in Frame /\ g \in Frame BY <2>2
  <2> HIDE DEF f, g
  <2> QED BY <2>1, <2>3, <2>4, <2>5 DEF Frames
<1> DEFINE s == SetToSeq(use.clients)
<1>3. s \in Seq(use.clients) /\ IsInjective(s) /\ Range(s) = use.clients
  <2> DEFINE n == Cardinality(use.clients)
  <2>1. IsFiniteSet(use.clients) BY <1>1, FS_Subset
  <2>2. n \in Nat /\ ExistsBijection(1 .. n, use.clients) BY <2>1, FS_CardinalityType
  <2>3. PICK f \in Bijection(1 .. n, use.clients) : TRUE BY <2>2 DEF ExistsBijection
  <2>4. f \in [1 .. n -> use.clients] /\ IsInjective(f)
    BY <2>3 DEF Bijection, Injection, IsInjective
  <2>5. s \in [1 .. n -> use.clients] /\ IsInjective(s)
    BY <2>4 DEF SetToSeq
  <2> HIDE DEF s, n
  <2>6. s \in Injection(1 .. n, use.clients) BY <2>5 DEF Injection
  <2>7. Cardinality(1 .. n) = n
    <3> HIDE DEF n
    <3>1. Cardinality(1 .. n) = IF 1 > n THEN 0 ELSE n - 1 + 1 BY <2>2, FS_Interval
    <3> QED BY <2>2, <3>1
  <2>8. s \in Surjection(1 .. n, use.clients) BY <2>1, <2>6, <2>7, FS_Injection DEF n
  <2>9. Range(s) = use.clients BY <2>5, <2>8 DEF Surjection, Range
  <2>10. s \in Seq(use.clients)
    <3>1. \A S, m : m \in Nat => \A g \in [1 .. m -> S] : g \in Seq(S)
      OBVIOUS
    <3> QED BY <2>2, <2>5, <3>1
  <2> QED BY <2>5, <2>9, <2>10
<1> HIDE DEF s
<1>4. /\ list = [st \in States |-> IF st = "AVAILABLE" THEN s ELSE << >>]
      /\ flags = [c \in Clients |-> IF c \in use.clients THEN {"AVAILABLE"} ELSE {}]
  BY DEF Init, s
<1>5. ASSUME NEW st \in States
      PROVE  /\ list[st] \in Seq(use.clients) /\ IsInjective(list[st])
             /\ Range(list[st]) = IF st = "AVAILABLE" THEN use.clients ELSE {}
  <2>1. CASE st = "AVAILABLE" BY <1>3, <1>4, <2>1
  <2>2. CASE st # "AVAILABLE"
    <3>1. list[st] = << >> BY <1>4, <2>2
    <3>2. IsInjective(<< >>) /\ Range(<< >>) = {} /\ << >> \in Seq(use.clients)
      BY DEF IsInjective, Range
    <3> QED BY <2>2, <3>1, <3>2
  <2> QED BY <2>1, <2>2
<1>6. list \in [States -> Seq(use.clients)]
  <2>1. list = [st \in States |-> list[st]] BY <1>4
  <2> QED BY <1>5, <2>1
<1>7. flags \in [Clients -> SUBSET AllFlags]
  BY <1>4 DEF AllFlags, States
<1>8. Listed
  <2>1. "AVAILABLE" \in States BY DEF States
  <2> QED BY <1>5, <2>1 DEF Listed
<1>9. ASSUME NEW c \in Clients, NEW st \in States
      PROVE  c \in Range(list[st]) <=> flags[c] \cap States = {st}
  <2>1. flags[c] \cap States = IF c \in use.clients THEN {"AVAILABLE"} ELSE {}
    BY <1>4 DEF States
  <2> QED BY <1>5, <2>1
<1> QED BY <1>1, <1>2, <1>5, <1>6, <1>7, <1>8, <1>9 DEF IInv, Records, Named

LEMMA NextIInv ==
  ASSUME IInv, [Next]_<<use, vars>>, \A t \in Threads : Possessed(t)
  PROVE  IInv'
<1> USE DEF IInv
<1>1. use' = use BY DEF Next
<1>2. Net \in Threads /\ Timer \in Threads BY DEF Threads
<1>3. ASSUME NEW t \in Threads, Step(t) PROVE IInv'
  BY <1>1, <1>2, <1>3, OpenStepIInv, RemoveStepIInv, CallbackStepIInv, NetStepIInv, TimerStepIInv
     DEF Step
<1>4. \A t \in Threads : ~RemoveRetries(t)
  BY NoRetries
<1>5. ASSUME NEW t \in Openers, OpenTCPClient(t) PROVE IInv'
  <2>1. list' = list /\ flags' = flags /\ next' = next /\ t \in Threads
        /\ stack' = [stack EXCEPT ![t] = <<[OpenCall EXCEPT !.kind = use.open]>>]
    BY <1>5 DEF OpenTCPClient, record, Threads
  <2>2. [OpenCall EXCEPT !.kind = use.open] \in Frame
    <3>1. use.open \in {"async", "block"} OBVIOUS
    <3> QED BY <3>1 DEF OpenCall, Call, Frame, Ops, Places, Free, Held, Kinds, Mine
  <2>3. stack' \in [Threads -> Seq(Frame')]
    <3>1. Frame' = Frame BY <1>1 DEF Frame, Mine
    <3> QED BY <2>1, <2>2, <3>1 DEF Frames
  <2> QED BY <1>1, <2>1, <2>3, Keeps, Unmoved
<1>6. CASE Peer \/ PeerConnects \/ (\E c \in Clients : TwoSeconds(c)) \/ UNCHANGED <<use, vars>>
  <2>1. list' = list /\ flags' = flags /\ next' = next /\ stack' = stack
    BY <1>6 DEF Peer, PeerConnects, TwoSeconds, vars, record
  <2>2. Frame' = Frame BY <1>1 DEF Frame, Mine
  <2> QED BY <1>1, <2>1, <2>2, Keeps, Unmoved DEF Frames
<1> QED BY <1>3, <1>4, <1>5, <1>6 DEF Next

----------------------------------------------------------------------------
(* Sections, calls and sockets.  A call is at a place of Inside with the   *)
(* section of its client entered.                                          *)
Inside == {"socket", "failed", "callback", "closed", "leave", "close", "connected", "restart"}
IsIn(f, c) == f.at \in Inside /\ f.c = c

(* How many of the first k calls of s are inside the section of c. *)
Times(s, k, c) == Cardinality({i \in 1 .. k : IsIn(s[i], c)})

(* The call f, the i-th of its thread, relies on its client to be active.  *)
(* A call that removes a client and is not the first of its thread was     *)
(* made by one that is in the section.                                     *)
Relies(f, i) ==
  \/ f.at \in {"lock", "socket", "connected", "callback"}
  \/ i > 1 /\ f.at \in {"check", "enter", "close"}

(* Which calls follow on which.  The last conjunct of Proper: a call is    *)
(* never about a client on which one before it relies.                     *)
Kind(s, i) ==
  /\ s[i].kind = "block" => i = 1 /\ use.open = "block"
  /\ s[i].at = "wait" => s[i].kind = "block"
  /\ s[i].op \in {"net", "timer"} => i = 1
  /\ s[i].at \in {"lock", "terminate"} => i = Len(s)
  /\ s[i].at \in {"check", "enter", "terminate"} => s[i].op = "remove"
  /\ s[i].op = "remove" =>
       IF i = 1 THEN s[i].kind = "silent" /\ use.open = "block" /\ s[i].at # "callback"
       ELSE IsIn(s[i - 1], s[i].c)
Apart(s, i) == \A j \in 1 .. i - 1 : Relies(s[j], j) => s[j].c # s[i].c
Proper(s) == \A i \in 1 .. Len(s) : Kind(s, i) /\ Apart(s, i)

(* The section of c is left as often as calls are inside. *)
Locked ==
  \A c \in Clients :
    /\ owner[c] = None => depth[c] = 0
    /\ \A t \in Threads :
         IF owner[c] = t THEN depth[c] = Times(stack[t], Len(stack[t]), c) /\ depth[c] > 0
         ELSE Times(stack[t], Len(stack[t]), c) = 0

(* What the call f, the i-th of the thread t, finds. *)
Fits(fl, so, ol, ne, t, i, f) ==
  /\ Relies(f, i) => "ACTIVE" \in fl[f.c]
  /\ f.at = "terminate" => i > 1 /\ "CLOSED" \in fl[f.c] /\ ~ol[f.c]
  /\ f.at \in {"lock", "socket"} => so[f.c] \notin Fds
  /\ f.at = "lock" => ne = t /\ "CONNECTED" \notin fl[f.c]
FitsNow(t, i, f) == Fits(flags, sock, old, network, t, i, f)
FitsNext(t, i, f) == Fits(flags', sock', old', network', t, i, f)

(* A client that is being opened is nobody else's to rely on. *)
Clear(t, i, f) ==
  \A u \in Threads \ {t} : \A j \in 1 .. Len(stack[u]) :
    LET g == stack[u][j]
    IN  g.c = f.c => /\ ~(f.at = "lock" /\ Relies(g, j))
                     /\ ~(g.at = "lock" /\ Relies(f, i))

CallsInv ==
  /\ \A t \in Threads : Proper(stack[t])
  /\ Locked
  /\ \A t \in Threads : \A i \in 1 .. Len(stack[t]) :
       FitsNow(t, i, stack[t][i]) /\ Clear(t, i, stack[t][i])

Typed ==
  /\ owner \in [Clients -> Threads \cup {None}] /\ depth \in [Clients -> Nat]
  /\ sock \in [Clients -> Fds \cup {Invalid, Zero}] /\ told \in [Clients -> Nat]
  /\ DOMAIN old = Clients /\ DOMAIN fds = Fds

Told == \A c \in Clients : told[c] <= 1 /\ (told[c] = 1 => "CLOSING" \in flags[c])
Sockets ==
  /\ \A c \in Clients :
       sock[c] \in Fds => c \in use.clients /\ ("ACTIVE" \in flags[c] \/ "CLOSED" \in flags[c])
  /\ \A c, d \in Clients : sock[c] \in Fds /\ sock[c] = sock[d] => c = d
  /\ \A f \in Fds : fds[f] # "free" <=> \E c \in Clients : sock[c] = f
Disconnected == \A c \in Clients : "AVAILABLE" \in flags[c] => "CONNECTED" \notin flags[c]
DataInv == Typed /\ Told /\ Sockets /\ Disconnected

SInv == IInv /\ CallsInv /\ DataInv

----------------------------------------------------------------------------
(* Counting the calls that are inside a section. *)

Weight(f, c) == IF IsIn(f, c) THEN 1 ELSE 0

LEMMA TimesStep ==
  ASSUME NEW s, NEW c, NEW k \in Nat
  PROVE  /\ Times(s, k, c) \in Nat
         /\ Times(s, 0, c) = 0
         /\ Times(s, k + 1, c) = Times(s, k, c) + Weight(s[k + 1], c)
<1> DEFINE In(n) == {i \in 1 .. n : IsIn(s[i], c)}
<1>1. ASSUME NEW n \in Nat PROVE IsFiniteSet(In(n))
  <2>1. IsFiniteSet(1 .. n) BY FS_Interval
  <2>2. In(n) \subseteq 1 .. n OBVIOUS
  <2> QED BY <2>1, <2>2, FS_Subset
<1>2. Cardinality(In(k)) \in Nat BY <1>1, FS_CardinalityType
<1>3. In(0) = {} OBVIOUS
<1>4. Cardinality(In(0)) = 0 BY <1>3, FS_EmptySet
<1>7. \A n \in Nat : Times(s, n, c) = Cardinality(In(n)) BY DEF Times
<1> HIDE DEF In
<1>5. CASE IsIn(s[k + 1], c)
  <2>1. In(k + 1) = In(k) \cup {k + 1} /\ k + 1 \notin In(k) BY <1>5 DEF In
  <2>2. Cardinality(In(k + 1)) = Cardinality(In(k)) + 1 BY <1>1, <2>1, FS_AddElement
  <2>3. Weight(s[k + 1], c) = 1 BY <1>5 DEF Weight
  <2> QED BY <1>2, <1>4, <1>7, <2>2, <2>3
<1>6. CASE ~IsIn(s[k + 1], c)
  <2>1. In(k + 1) = In(k) BY <1>6 DEF In
  <2>2. Weight(s[k + 1], c) = 0 BY <1>6 DEF Weight
  <2> QED BY <1>2, <1>4, <1>7, <2>1, <2>2
<1> QED BY <1>5, <1>6

LEMMA TimesSame ==
  ASSUME NEW s, NEW r, NEW c, NEW k \in Nat, \A i \in 1 .. k : s[i] = r[i]
  PROVE  Times(s, k, c) = Times(r, k, c)
<1>1. {i \in 1 .. k : IsIn(s[i], c)} = {i \in 1 .. k : IsIn(r[i], c)} OBVIOUS
<1> QED BY <1>1 DEF Times

LEMMA TimesPositive ==
  ASSUME NEW s, NEW c, NEW k \in Nat, NEW i \in 1 .. k, IsIn(s[i], c)
  PROVE  Times(s, k, c) > 0
<1> DEFINE in == {j \in 1 .. k : IsIn(s[j], c)}
<1>1. IsFiniteSet(1 .. k) /\ in \subseteq 1 .. k /\ i \in in BY FS_Interval
<1>2. IsFiniteSet(in) BY <1>1, FS_Subset
<1>3. Cardinality(in) # 0 BY <1>1, <1>2, FS_EmptySet
<1> QED BY <1>2, <1>3, FS_CardinalityType DEF Times

(* Who is inside a section owns it, and so does who relies on the client,  *)
(* once it is open.                                                        *)
LEMMA InsideOwns ==
  ASSUME IInv, CallsInv, NEW t \in Threads, NEW i \in 1 .. Len(stack[t]), NEW c \in Clients,
         IsIn(stack[t][i], c)
  PROVE  owner[c] = t /\ depth[c] > 0
<1>1. stack[t] \in Seq(Frame) BY DEF IInv, Frames
<1>2. Len(stack[t]) \in Nat BY <1>1
<1>3. Times(stack[t], Len(stack[t]), c) > 0 BY <1>2, TimesPositive
<1> QED BY <1>3 DEF CallsInv, Locked

LEMMA FrameIs ==
  ASSUME IInv, NEW t \in Threads, NEW i \in 1 .. Len(stack[t])
  PROVE  /\ stack[t] \in Seq(Frame) /\ Len(stack[t]) \in Nat
         /\ stack[t][i] \in Frame
         /\ stack[t][i].at \in Held => stack[t][i].c \in use.clients /\ stack[t][i].c \in Clients
<1>1. stack[t] \in Seq(Frame) BY DEF IInv, Frames
<1>2. stack[t][i] \in Frame BY <1>1
<1>3. use.clients \subseteq Clients BY DEF IInv
<1> QED BY <1>1, <1>2, <1>3 DEF Frame, Mine

LEMMA RelyingOwns ==
  ASSUME IInv, CallsInv, NEW t \in Threads, NEW i \in 1 .. Len(stack[t]),
         Relies(stack[t][i], i), stack[t][i].at # "lock"
  PROVE  stack[t][i].c \in Clients /\ owner[stack[t][i].c] = t
<1> DEFINE f == stack[t][i]
<1>1. f.at \in Held BY DEF Relies, Held
<1>2. f.c \in Clients /\ Len(stack[t]) \in Nat BY <1>1, FrameIs
<1>3. CASE f.at \in Inside BY <1>2, <1>3, InsideOwns DEF IsIn
<1>4. CASE f.at \notin Inside
  <2>1. i > 1 /\ f.at \in {"check", "enter"} BY <1>4 DEF Relies, Inside
  <2>2. i - 1 \in 1 .. Len(stack[t]) /\ i # 1 BY <1>2, <2>1
  <2>3. Kind(stack[t], i) BY DEF CallsInv, Proper
  <2>4. IsIn(stack[t][i - 1], f.c) BY <2>1, <2>2, <2>3 DEF Kind
  <2> QED BY <1>2, <2>2, <2>4, InsideOwns
<1> QED BY <1>3, <1>4

----------------------------------------------------------------------------
(* What a step does to the calls of its thread.  The call e becomes f, and *)
(* enters or leaves a section with it.                                     *)
Enters(t, e, f) ==
  \/ UNCHANGED <<owner, depth>> /\ \A c \in Clients : IsIn(e, c) <=> IsIn(f, c)
  \/ e.at \notin Inside /\ f.at \in Inside /\ MayTake(t, f.c) /\ Take(t, f.c)
  \/ e.at \in Inside /\ f.at \notin Inside /\ Leave(e.c)

OthersFit(t) ==
  \A u \in Threads \ {t} : \A i \in 1 .. Len(stack[u]) : FitsNext(u, i, stack[u][i])
BelowFits(t) == \A i \in 1 .. Len(stack[t]) - 1 : FitsNext(t, i, stack[t][i])
NewFits(t, i, f) == FitsNext(t, i, f) /\ Clear(t, i, f)
NotBelow(t, c) ==
  \A i \in 1 .. Len(stack[t]) - 1 : Relies(stack[t][i], i) => stack[t][i].c # c

(* With e for f, the calls of t become s. *)
Balanced(t, s, e, f) ==
  /\ Enters(t, e, f)
  /\ e.at \in Inside => e.c \in Clients /\ owner[e.c] = t /\ depth[e.c] > 0
  /\ f.at \in Inside => f.c \in Clients
  /\ \A c \in Clients : Times(s, Len(s), c)
                        = (Times(stack[t], Len(stack[t]), c) - Weight(e, c)) + Weight(f, c)

LEMMA LockedStep ==
  ASSUME IInv, CallsInv, Typed, NEW t \in Threads, NEW s \in Seq(Frame),
         stack' = [stack EXCEPT ![t] = s], NEW e, NEW f, Balanced(t, s, e, f)
  PROVE  Locked'
<1>1. /\ stack \in [Threads -> Seq(Frame)] /\ stack'[t] = s
      /\ \A u \in Threads \ {t} : stack'[u] = stack[u]
  BY DEF IInv, Frames
<1>2. /\ owner \in [Clients -> Threads \cup {None}] /\ depth \in [Clients -> Nat]
      /\ None \notin Threads
  BY DEF Typed, Threads
<1> SUFFICES ASSUME NEW c \in Clients
             PROVE  /\ owner'[c] = None => depth'[c] = 0
                    /\ \A u \in Threads :
                         IF owner'[c] = u
                         THEN depth'[c] = Times(stack'[u], Len(stack'[u]), c) /\ depth'[c] > 0
                         ELSE Times(stack'[u], Len(stack'[u]), c) = 0
  BY DEF Locked
<1> DEFINE times(u) == Times(stack[u], Len(stack[u]), c)
           mine == Times(s, Len(s), c)
<1>3. /\ owner[c] = None => depth[c] = 0
      /\ \A u \in Threads : IF owner[c] = u THEN depth[c] = times(u) /\ depth[c] > 0
                            ELSE times(u) = 0
  BY DEF CallsInv, Locked
<1>4. \A u \in Threads : times(u) \in Nat
  <2> TAKE u \in Threads
  <2>1. Len(stack[u]) \in Nat BY <1>1
  <2> QED BY <2>1, TimesStep
<1>5. mine = (times(t) - Weight(e, c)) + Weight(f, c) BY DEF Balanced
<1>6. \A u \in Threads : Times(stack'[u], Len(stack'[u]), c) = IF u = t THEN mine ELSE times(u)
  BY <1>1
<1>7. owner[c] \in Threads \cup {None} /\ depth[c] \in Nat BY <1>2
<1> HIDE DEF times, mine
<1>8. CASE Weight(e, c) = Weight(f, c) /\ owner'[c] = owner[c] /\ depth'[c] = depth[c]
  <2>1. Weight(e, c) \in Nat BY DEF Weight
  <2>2. mine = times(t) BY <1>4, <1>5, <1>8, <2>1
  <2> QED BY <1>3, <1>6, <1>8, <2>2
<1>9. CASE /\ Weight(e, c) = 0 /\ Weight(f, c) = 1 /\ owner[c] \in {None, t}
           /\ owner'[c] = t /\ depth'[c] = depth[c] + 1
  <2>1. mine = times(t) + 1 BY <1>4, <1>5, <1>9
  <2>2. depth[c] = times(t) BY <1>2, <1>3, <1>9
  <2>3. \A u \in Threads \ {t} : times(u) = 0 BY <1>2, <1>3, <1>9
  <2> QED BY <1>2, <1>4, <1>6, <1>9, <2>1, <2>2, <2>3
<1>10. CASE /\ Weight(e, c) = 1 /\ Weight(f, c) = 0 /\ owner[c] = t /\ depth'[c] = depth[c] - 1
            /\ owner'[c] = IF depth[c] = 1 THEN None ELSE t
  <2>1. mine = times(t) - 1 BY <1>4, <1>5, <1>10
  <2>2. depth[c] = times(t) /\ depth[c] > 0 BY <1>3, <1>10
  <2>3. \A u \in Threads \ {t} : times(u) = 0 BY <1>3, <1>10
  <2> QED BY <1>2, <1>4, <1>6, <1>7, <1>10, <2>1, <2>2, <2>3
<1>11. CASE UNCHANGED <<owner, depth>> /\ \A d \in Clients : IsIn(e, d) <=> IsIn(f, d)
  <2>1. Weight(e, c) = Weight(f, c) BY <1>11 DEF Weight
  <2> QED BY <1>8, <1>11, <2>1
<1>12. CASE e.at \notin Inside /\ f.at \in Inside /\ MayTake(t, f.c) /\ Take(t, f.c)
  <2>1. f.c \in Clients BY <1>12 DEF Balanced
  <2>2. /\ owner' = [owner EXCEPT ![f.c] = t] /\ depth' = [depth EXCEPT ![f.c] = @ + 1]
        /\ owner[f.c] \in {None, t}
    BY <1>12 DEF Take, MayTake
  <2>3. CASE f.c = c
    <3>1. Weight(e, c) = 0 /\ Weight(f, c) = 1 BY <1>12, <2>3 DEF Weight, IsIn
    <3>2. owner'[c] = t /\ depth'[c] = depth[c] + 1 /\ owner[c] \in {None, t} BY <1>2, <2>2, <2>3
    <3> QED BY <1>9, <3>1, <3>2
  <2>4. CASE f.c # c
    <3>1. Weight(e, c) = Weight(f, c) BY <1>12, <2>4 DEF Weight, IsIn
    <3>2. owner'[c] = owner[c] /\ depth'[c] = depth[c] BY <1>2, <2>2, <2>4
    <3> QED BY <1>8, <3>1, <3>2
  <2> QED BY <2>3, <2>4
<1>13. CASE e.at \in Inside /\ f.at \notin Inside /\ Leave(e.c)
  <2>1. e.c \in Clients /\ owner[e.c] = t BY <1>13 DEF Balanced
  <2>2. /\ depth' = [depth EXCEPT ![e.c] = @ - 1]
        /\ owner' = [owner EXCEPT ![e.c] = IF depth[e.c] = 1 THEN None ELSE @]
    BY <1>13 DEF Leave
  <2>3. CASE e.c = c
    <3>1. Weight(e, c) = 1 /\ Weight(f, c) = 0 BY <1>13, <2>3 DEF Weight, IsIn
    <3>2. /\ owner[c] = t /\ depth'[c] = depth[c] - 1
          /\ owner'[c] = IF depth[c] = 1 THEN None ELSE t
      BY <1>2, <2>1, <2>2, <2>3
    <3> QED BY <1>10, <3>1, <3>2
  <2>4. CASE e.c # c
    <3>1. Weight(e, c) = Weight(f, c) BY <1>13, <2>4 DEF Weight, IsIn
    <3>2. owner'[c] = owner[c] /\ depth'[c] = depth[c] BY <1>2, <2>2, <2>4
    <3> QED BY <1>8, <3>1, <3>2
  <2> QED BY <2>3, <2>4
<1> QED BY <1>11, <1>12, <1>13 DEF Enters, Balanced

LEMMA CallsStep ==
  ASSUME IInv, CallsInv, use' = use, NEW t \in Threads, NEW s \in Seq(Frame),
         stack' = [stack EXCEPT ![t] = s], Proper(s), Locked', OthersFit(t),
         \A i \in 1 .. Len(s) : NewFits(t, i, s[i])
  PROVE  CallsInv'
<1>1. /\ stack \in [Threads -> Seq(Frame)] /\ stack'[t] = s
      /\ \A u \in Threads \ {t} : stack'[u] = stack[u]
  BY DEF IInv, Frames
<1>2. ASSUME NEW u \in Threads PROVE Proper(stack'[u]) BY <1>1 DEF CallsInv
<1>3. ASSUME NEW u \in Threads PROVE Proper(stack[u])' BY <1>2 DEF Proper, Kind, Apart
<1>4. ASSUME NEW u \in Threads, NEW i \in 1 .. Len(stack'[u]) PROVE FitsNext(u, i, stack'[u][i])
  BY <1>1 DEF OthersFit, NewFits
<1>5. ASSUME NEW u \in Threads, NEW i \in 1 .. Len(stack'[u]) PROVE FitsNow(u, i, stack[u][i])'
  BY <1>4 DEF FitsNext, FitsNow
<1>6. ASSUME NEW u \in Threads, NEW i \in 1 .. Len(stack'[u]) PROVE Clear(u, i, stack[u][i])'
  <2> DEFINE f == stack'[u][i]
  <2> SUFFICES ASSUME NEW v \in Threads \ {u}, NEW j \in 1 .. Len(stack'[v]),
                      stack'[v][j].c = f.c
               PROVE  /\ ~(f.at = "lock" /\ Relies(stack'[v][j], j))
                      /\ ~(stack'[v][j].at = "lock" /\ Relies(f, i))
    BY DEF Clear
  <2>1. CASE u = t
    <3>1. stack'[v] = stack[v] /\ v \in Threads \ {t} BY <1>1, <2>1
    <3>2. i \in 1 .. Len(s) /\ f = s[i] BY <1>1, <2>1
    <3>3. Clear(t, i, s[i]) BY <3>2 DEF NewFits
    <3> QED BY <3>1, <3>2, <3>3 DEF Clear
  <2>2. CASE u # t /\ v = t
    <3>1. stack'[u] = stack[u] /\ u \in Threads \ {t} /\ i \in 1 .. Len(stack[u]) /\ f = stack[u][i]
      BY <1>1, <2>2
    <3>2. j \in 1 .. Len(s) /\ stack'[v][j] = s[j] BY <1>1, <2>2
    <3>3. Clear(t, j, s[j]) BY <3>2 DEF NewFits
    <3> QED BY <3>1, <3>2, <3>3 DEF Clear
  <2>3. CASE u # t /\ v # t
    <3>1. stack'[u] = stack[u] /\ stack'[v] = stack[v] BY <1>1, <2>3
    <3>2. Clear(u, i, stack[u][i]) BY <3>1 DEF CallsInv
    <3> QED BY <3>1, <3>2 DEF Clear
  <2> QED BY <2>1, <2>2, <2>3
<1> QED BY <1>3, <1>5, <1>6 DEF CallsInv

(* The call goes on as f: the rest stays below it. *)
FollowsOn(e, n, f) ==
  /\ f.kind = e.kind /\ f.op = e.op
  /\ f.at # "wait" \/ f.kind = "block"
  /\ f.at \in {"check", "enter", "terminate"} => f.op = "remove"
  /\ f.op = "remove" => f.c = e.c /\ (n = 1 => f.at # "callback")

LEMMA ReplacedIs ==
  ASSUME IInv, NEW t \in Threads, stack[t] # << >>, NEW f \in Frame
  PROVE  LET s == Replaced(t, f)
             n == Len(stack[t])
         IN  /\ n \in Nat /\ n > 0 /\ stack[t] \in Seq(Frame) /\ Top(t) = stack[t][n]
             /\ n - 1 \in Nat /\ (n - 1) + 1 = n /\ n \in 1 .. n
             /\ s \in Seq(Frame) /\ Len(s) = n /\ s[n] = f
             /\ \A i \in 1 .. n - 1 : s[i] = stack[t][i] /\ i \in 1 .. n
<1>1. stack[t] \in Seq(Frame) /\ stack[t] # << >> BY DEF IInv, Frames
<1>2. Len(stack[t]) \in Nat /\ Len(stack[t]) > 0 BY <1>1
<1>3. Top(t) = stack[t][Len(stack[t])] BY <1>1 DEF Top, Last
<1>4. /\ Replaced(t, f) \in Seq(Frame) /\ Len(Replaced(t, f)) = Len(stack[t])
      /\ Replaced(t, f)[Len(stack[t])] = f
      /\ \A i \in 1 .. Len(stack[t]) - 1 : Replaced(t, f)[i] = stack[t][i]
  BY <1>1, <1>2 DEF Replaced
<1> QED BY <1>1, <1>2, <1>3, <1>4

LEMMA ProperReplaced ==
  ASSUME IInv, CallsInv, NEW t \in Threads, stack[t] # << >>, NEW f \in Frame,
         FollowsOn(Top(t), Len(stack[t]), f), NotBelow(t, f.c)
  PROVE  Proper(Replaced(t, f))
<1> DEFINE s == Replaced(t, f)
           n == Len(stack[t])
<1>1. /\ n \in Nat /\ n > 0 /\ stack[t] \in Seq(Frame) /\ Top(t) = stack[t][n]
      /\ Len(s) = n /\ s[n] = f
      /\ \A i \in 1 .. n - 1 : s[i] = stack[t][i] /\ i \in 1 .. n
  BY ReplacedIs
<1>2. \A i \in 1 .. n : Kind(stack[t], i) /\ Apart(stack[t], i) BY DEF CallsInv, Proper
<1> HIDE DEF s, n
<1> SUFFICES ASSUME NEW i \in 1 .. n PROVE Kind(s, i) /\ Apart(s, i)
  BY <1>1 DEF Proper, s
<1>3. CASE i < n
  <2>1. i \in 1 .. n - 1 /\ \A j \in 1 .. i : j \in 1 .. n - 1 /\ s[j] = stack[t][j]
    BY <1>1, <1>3
  <2>2. s[i] = stack[t][i] /\ Kind(stack[t], i) /\ Apart(stack[t], i) BY <1>2, <2>1
  <2>3. i # 1 => s[i - 1] = stack[t][i - 1] BY <2>1
  <2>4. s[i].at \notin {"lock", "terminate"} BY <1>3, <2>2 DEF Kind, n
  <2>6. Kind(s, i) BY <2>2, <2>3, <2>4 DEF Kind
  <2>5. Apart(s, i)
    <3>1. \A j \in 1 .. i - 1 : s[j] = stack[t][j] BY <2>1
    <3> QED BY <2>2, <3>1 DEF Apart
  <2> QED BY <2>5, <2>6
<1>4. CASE i = n
  <2>1. Kind(stack[t], n) /\ s[n] = f /\ Top(t) = stack[t][n] BY <1>1, <1>2, <1>4
  <2>2. n # 1 => s[n - 1] = stack[t][n - 1] BY <1>1
  <2>3. FollowsOn(stack[t][n], n, f) BY <1>1 DEF n
  <2>4. Kind(s, n) BY <1>1, <2>1, <2>2, <2>3 DEF Kind, FollowsOn
  <2>5. Apart(s, n) BY <1>1 DEF Apart, NotBelow, n
  <2> QED BY <1>4, <2>4, <2>5
<1> QED BY <1>1, <1>3, <1>4

LEMMA OwnsTop ==
  ASSUME IInv, CallsInv, NEW t \in Threads, stack[t] # << >>, Top(t).at \in Inside
  PROVE  Top(t).c \in Clients /\ owner[Top(t).c] = t /\ depth[Top(t).c] > 0
<1>1. stack[t] \in Seq(Frame) BY DEF IInv, Frames
<1>2. Len(stack[t]) \in 1 .. Len(stack[t]) /\ Top(t) = stack[t][Len(stack[t])]
  BY <1>1 DEF Top, Last
<1>3. Top(t).c \in Clients BY <1>2, FrameIs DEF Inside, Held
<1> QED BY <1>2, <1>3, InsideOwns DEF IsIn

LEMMA FrameInside ==
  ASSUME IInv, NEW f \in Frame, f.at \in Inside
  PROVE  f.c \in Clients
BY DEF Frame, Mine, Inside, Held, IInv

(* How often the calls are inside, when the last one becomes f. *)
LEMMA TimesReplaced ==
  ASSUME IInv, NEW t \in Threads, stack[t] # << >>, NEW f \in Frame, NEW c
  PROVE  Times(Replaced(t, f), Len(Replaced(t, f)), c)
           = (Times(stack[t], Len(stack[t]), c) - Weight(Top(t), c)) + Weight(f, c)
<1> DEFINE s == Replaced(t, f)
           n == Len(stack[t])
           m == n - 1
<1>1. /\ m \in Nat /\ m + 1 = n /\ Top(t) = stack[t][n] /\ Len(s) = n /\ s[n] = f
      /\ \A i \in 1 .. m : s[i] = stack[t][i]
  BY ReplacedIs
<1> HIDE DEF s, n, m
<1>2. Times(s, m, c) = Times(stack[t], m, c) BY <1>1, TimesSame
<1>3. Times(s, n, c) = Times(s, m, c) + Weight(f, c)
  <2>1. m \in Nat BY <1>1
  <2>2. Times(s, m + 1, c) = Times(s, m, c) + Weight(s[m + 1], c) BY ONLY <2>1, TimesStep
  <2> QED BY <1>1, <2>2
<1>4. /\ Times(stack[t], n, c) = Times(stack[t], m, c) + Weight(Top(t), c)
      /\ Times(stack[t], m, c) \in Nat
  <2>1. /\ Times(stack[t], m + 1, c) = Times(stack[t], m, c) + Weight(stack[t][m + 1], c)
        /\ Times(stack[t], m, c) \in Nat
    BY <1>1, TimesStep
  <2> QED BY <1>1, <2>1
<1>5. Weight(Top(t), c) \in Nat /\ Weight(f, c) \in Nat BY DEF Weight
<1> QED BY <1>1, <1>2, <1>3, <1>4, <1>5 DEF s, n

LEMMA TimesAppended ==
  ASSUME NEW s \in Seq(Frame), NEW g \in Frame, g.at \notin Inside, NEW c
  PROVE  Times(Append(s, g), Len(Append(s, g)), c) = Times(s, Len(s), c)
<1> DEFINE r == Append(s, g)
           n == Len(s)
<1>1. n \in Nat /\ Len(r) = n + 1 /\ r[n + 1] = g /\ \A i \in 1 .. n : r[i] = s[i] OBVIOUS
<1> HIDE DEF r, n
<1>2. Times(r, n, c) = Times(s, n, c) BY <1>1, TimesSame
<1>3. Times(r, n + 1, c) = Times(r, n, c) + Weight(g, c) /\ Times(r, n, c) \in Nat
  BY <1>1, TimesStep
<1>4. Weight(g, c) = 0 BY DEF Weight, IsIn
<1> QED BY <1>1, <1>2, <1>3, <1>4 DEF r, n

LEMMA GoesOn ==
  ASSUME IInv, CallsInv, Typed, use' = use, NEW t \in Threads, stack[t] # << >>, NEW f \in Frame,
         stack' = [stack EXCEPT ![t] = Replaced(t, f)],
         FollowsOn(Top(t), Len(stack[t]), f), NotBelow(t, f.c), Enters(t, Top(t), f),
         OthersFit(t), BelowFits(t), NewFits(t, Len(stack[t]), f)
  PROVE  CallsInv'
<1> DEFINE s == Replaced(t, f)
           n == Len(stack[t])
<1>1. /\ n \in Nat /\ n > 0 /\ s \in Seq(Frame) /\ Len(s) = n /\ s[n] = f
      /\ \A i \in 1 .. n - 1 : s[i] = stack[t][i] /\ i \in 1 .. n
  BY ReplacedIs
<1>2. Proper(s) BY ProperReplaced
<1>3. \A c \in Clients : Times(s, Len(s), c)
                           = (Times(stack[t], Len(stack[t]), c) - Weight(Top(t), c)) + Weight(f, c)
  BY TimesReplaced
<1>4. /\ Top(t).at \in Inside => Top(t).c \in Clients /\ owner[Top(t).c] = t /\ depth[Top(t).c] > 0
      /\ f.at \in Inside => f.c \in Clients
  BY OwnsTop, FrameInside
<1>5. stack' = [stack EXCEPT ![t] = s] OBVIOUS
<1>8. Balanced(t, s, Top(t), f) BY <1>3, <1>4 DEF Balanced
<1> HIDE DEF s
<1>6. Locked' BY <1>1, <1>5, <1>8, LockedStep
<1>7. ASSUME NEW i \in 1 .. Len(s) PROVE NewFits(t, i, s[i])
  <2>1. CASE i = n BY <1>1, <2>1
  <2>2. CASE i # n
    <3>1. i \in 1 .. n - 1 /\ s[i] = stack[t][i] /\ i \in 1 .. Len(stack[t]) BY <1>1, <2>2
    <3> QED BY <3>1 DEF BelowFits, NewFits, CallsInv
  <2> QED BY <2>1, <2>2
<1> QED BY <1>1, <1>2, <1>5, <1>6, <1>7, CallsStep

(* It calls g, and goes on as f. *)
Pushed(t, f, g) ==
  /\ f.at \notin {"lock", "terminate"}
  /\ g.kind # "block" /\ g.at \in {"getfree", "check"} /\ g.op \in {"open", "remove"}
  /\ g.op = "open" => g.at = "getfree" /\ g.c = None
  /\ g.op = "remove" => /\ IsIn(f, g.c) /\ NotBelow(t, g.c)
                        /\ f.at \notin {"socket", "connected", "callback", "close"}

LEMMA CallsOn ==
  ASSUME IInv, CallsInv, Typed, use' = use, NEW t \in Threads, stack[t] # << >>,
         NEW f \in Frame, NEW g \in Frame,
         stack' = [stack EXCEPT ![t] = Append(Replaced(t, f), g)],
         FollowsOn(Top(t), Len(stack[t]), f), NotBelow(t, f.c), Enters(t, Top(t), f), Pushed(t, f, g),
         OthersFit(t), BelowFits(t), NewFits(t, Len(stack[t]), f), NewFits(t, Len(stack[t]) + 1, g)
  PROVE  CallsInv'
<1> DEFINE r == Replaced(t, f)
           s == Append(r, g)
           n == Len(stack[t])
<1>1. /\ n \in Nat /\ n > 0 /\ r \in Seq(Frame) /\ Len(r) = n /\ r[n] = f
      /\ \A i \in 1 .. n - 1 : r[i] = stack[t][i] /\ i \in 1 .. n
  BY ReplacedIs
<1>2. Proper(r) BY ProperReplaced
<1>3. \A c \in Clients : Times(r, Len(r), c)
                           = (Times(stack[t], Len(stack[t]), c) - Weight(Top(t), c)) + Weight(f, c)
  BY TimesReplaced
<1>4. /\ Top(t).at \in Inside => Top(t).c \in Clients /\ owner[Top(t).c] = t /\ depth[Top(t).c] > 0
      /\ f.at \in Inside => f.c \in Clients
  BY OwnsTop, FrameInside
<1>5. stack' = [stack EXCEPT ![t] = s] OBVIOUS
<1>6. /\ s \in Seq(Frame) /\ Len(s) = n + 1 /\ s[n + 1] = g
      /\ \A i \in 1 .. n : s[i] = r[i]
  <2> HIDE DEF r
  <2> QED BY <1>1
<1>7. g.at \notin Inside BY DEF Pushed, Inside
<1>8. \A c \in Clients : Times(s, Len(s), c) = Times(r, Len(r), c)
  <2> HIDE DEF r
  <2> QED BY <1>1, <1>7, TimesAppended
<1>9. Balanced(t, s, Top(t), f) BY <1>3, <1>4, <1>8 DEF Balanced
<1>10. stack[t] \in Seq(Frame) BY DEF IInv, Frames
<1> HIDE DEF r, s, n
<1>11. Locked' BY <1>5, <1>6, <1>9, LockedStep
<1>12. ASSUME NEW i \in 1 .. n, Relies(r[i], i) PROVE r[i].c # g.c
  <2>1. r[i].c # None
    <3>1. r[i] \in Frame BY <1>1
    <3>2. r[i].at \in Held BY <1>12 DEF Relies, Held
    <3> QED BY <3>1, <3>2 DEF Frame
  <2>2. CASE g.op = "open" BY <2>1, <2>2 DEF Pushed
  <2>3. CASE g.op = "remove" /\ i < n
    <3>1. i \in 1 .. n - 1 /\ r[i] = stack[t][i] BY <1>1, <2>3
    <3> QED BY <1>12, <2>3, <3>1 DEF Pushed, NotBelow, n
  <2>4. CASE g.op = "remove" /\ i = n
    <3>1. f.at \in Inside /\ f.at \notin {"socket", "connected", "callback", "close"}
      BY <2>4 DEF Pushed, IsIn
    <3>2. ~Relies(f, n) BY <3>1 DEF Relies, Inside
    <3> QED BY <1>1, <1>12, <2>4, <3>2
  <2>5. i < n \/ i = n BY <1>1
  <2> QED BY <2>2, <2>3, <2>4, <2>5 DEF Pushed
<1>13. Proper(s)
  <2> SUFFICES ASSUME NEW i \in 1 .. n + 1 PROVE Kind(s, i) /\ Apart(s, i)
    BY <1>6 DEF Proper
  <2>1. CASE i # n + 1
    <3>1. i \in 1 .. n /\ \A j \in 1 .. i : j \in 1 .. n /\ s[j] = r[j] BY <1>1, <1>6, <2>1
    <3>2. Kind(r, i) /\ Apart(r, i) BY <1>1, <1>2, <3>1 DEF Proper
    <3>3. s[i] = r[i] /\ (i # 1 => s[i - 1] = r[i - 1]) BY <3>1
    <3>4. \A j \in 1 .. i - 1 : s[j] = r[j] BY <3>1
    <3>5. s[i].at \notin {"lock", "terminate"}
      <4>1. CASE i = n BY <1>1, <3>3, <4>1 DEF Pushed
      <4>2. CASE i # n BY <1>1, <3>2, <3>3, <4>2 DEF Kind
      <4> QED BY <4>1, <4>2
    <3> QED BY <3>2, <3>3, <3>4, <3>5 DEF Kind, Apart
  <2>2. CASE i = n + 1
    <3>1. s[i] = g /\ i # 1 /\ s[i - 1] = f /\ i - 1 = n BY <1>1, <1>6, <2>2
    <3>2. Kind(s, i) BY <3>1 DEF Kind, Pushed
    <3>3. Apart(s, i) BY <1>6, <1>12, <3>1 DEF Apart
    <3> QED BY <3>2, <3>3
  <2> QED BY <2>1, <2>2
<1>14. ASSUME NEW i \in 1 .. Len(s) PROVE NewFits(t, i, s[i])
  <2>1. CASE i = n + 1 BY <1>6, <2>1 DEF n
  <2>2. CASE i = n
    <3>1. n \in 1 .. n BY <1>1
    <3>2. s[i] = f BY <1>1, <1>6, <2>2, <3>1
    <3> QED BY <2>2, <3>2 DEF n
  <2>3. CASE i # n /\ i # n + 1
    <3>1. i \in 1 .. n - 1 /\ s[i] = stack[t][i] /\ i \in 1 .. Len(stack[t])
      BY <1>1, <1>6, <2>3 DEF n
    <3> QED BY <3>1 DEF BelowFits, NewFits, CallsInv, n
  <2> QED BY <2>1, <2>2, <2>3
<1> QED BY <1>5, <1>6, <1>11, <1>13, <1>14, CallsStep

(* It returns. *)
LEMMA FrontIs ==
  ASSUME NEW S, NEW s \in Seq(S), s # << >>
  PROVE  /\ Front(s) \in Seq(S) /\ Len(Front(s)) = Len(s) - 1
         /\ \A i \in 1 .. Len(s) - 1 : Front(s)[i] = s[i]
<1> DEFINE n == Len(s) - 1
<1>1. n \in Nat /\ n <= Len(s) /\ n + 1 = Len(s) OBVIOUS
<1> HIDE DEF n
<1>2. /\ SubSeq(s, 1, n) \in Seq(S) /\ Len(SubSeq(s, 1, n)) = n
      /\ \A i \in 1 .. n : SubSeq(s, 1, n)[i] = s[i]
  BY <1>1
<1> QED BY <1>1, <1>2 DEF Front, n

Gone == [OpenCall EXCEPT !.at = "again"]

LEMMA ReturnsTo ==
  ASSUME IInv, CallsInv, Typed, use' = use, NEW t \in Threads, stack[t] # << >>,
         Returns(t), Enters(t, Top(t), Gone), OthersFit(t), BelowFits(t)
  PROVE  CallsInv'
<1> DEFINE s == Front(stack[t])
           n == Len(stack[t])
           m == n - 1
<1>1. /\ n \in Nat /\ n > 0 /\ m \in Nat /\ m + 1 = n
      /\ stack[t] \in Seq(Frame) /\ Top(t) = stack[t][n]
      /\ s \in Seq(Frame) /\ Len(s) = m
      /\ \A i \in 1 .. m : s[i] = stack[t][i] /\ i \in 1 .. n
  <2>1. stack[t] \in Seq(Frame) BY DEF IInv, Frames
  <2>2. n \in Nat /\ n > 0 /\ m \in Nat /\ m + 1 = n BY <2>1
  <2>3. Top(t) = stack[t][n] BY <2>1 DEF Top, Last
  <2>4. s \in Seq(Frame) /\ Len(s) = m /\ \A i \in 1 .. m : s[i] = stack[t][i]
    BY <2>1, FrontIs
  <2> QED BY <2>1, <2>2, <2>3, <2>4
<1>2. stack' = [stack EXCEPT ![t] = s] BY DEF Returns
<1>3. Proper(stack[t]) BY DEF CallsInv
<1>4. ASSUME NEW c \in Clients
      PROVE  Times(s, Len(s), c)
               = (Times(stack[t], Len(stack[t]), c) - Weight(Top(t), c)) + Weight(Gone, c)
  <2> HIDE DEF s, n, m
  <2>1. Times(s, m, c) = Times(stack[t], m, c) BY <1>1, TimesSame
  <2>2. /\ Times(stack[t], m + 1, c) = Times(stack[t], m, c) + Weight(stack[t][m + 1], c)
        /\ Times(stack[t], m, c) \in Nat
    BY <1>1, TimesStep
  <2>3. Weight(Gone, c) = 0 BY DEF Weight, IsIn, Gone, OpenCall, Call, Inside
  <2>4. Weight(Top(t), c) \in Nat BY DEF Weight
  <2> QED BY <1>1, <2>1, <2>2, <2>3, <2>4 DEF n
<1>5. /\ Top(t).at \in Inside => Top(t).c \in Clients /\ owner[Top(t).c] = t /\ depth[Top(t).c] > 0
      /\ Gone.at \notin Inside
  BY OwnsTop DEF Gone, OpenCall, Call, Inside
<1> HIDE DEF s, n, m
<1>6. Balanced(t, s, Top(t), Gone) BY <1>4, <1>5 DEF Balanced
<1>7. Locked' BY <1>1, <1>2, <1>6, LockedStep
<1>8. Proper(s)
  <2> SUFFICES ASSUME NEW i \in 1 .. m PROVE Kind(s, i) /\ Apart(s, i)
    BY <1>1 DEF Proper
  <2>1. \A j \in 1 .. i : s[j] = stack[t][j] BY <1>1
  <2>2. s[i] = stack[t][i] /\ (i # 1 => s[i - 1] = stack[t][i - 1]) BY <2>1
  <2>3. i \in 1 .. n BY <1>1
  <2>4. Kind(stack[t], i) /\ Apart(stack[t], i) BY <1>3, <2>3 DEF Proper, n
  <2>5. s[i].at \notin {"lock", "terminate"} BY <1>1, <2>2, <2>4 DEF Kind, n
  <2> QED BY <2>1, <2>2, <2>4, <2>5 DEF Kind, Apart
<1>9. ASSUME NEW i \in 1 .. Len(s) PROVE NewFits(t, i, s[i])
  <2>1. i \in 1 .. n - 1 /\ s[i] = stack[t][i] /\ i \in 1 .. Len(stack[t])
    BY <1>1, <1>9 DEF n
  <2> QED BY <2>1 DEF BelowFits, NewFits, CallsInv, n
<1> QED BY <1>1, <1>2, <1>7, <1>8, <1>9, CallsStep

----------------------------------------------------------------------------
(* Steps that change nothing on which a call relies. *)
Calm ==
  /\ \A c \in Clients : \A x \in {"ACTIVE", "CLOSED", "AVAILABLE", "CONNECTED"} :
       x \in flags'[c] <=> x \in flags[c]
  /\ \A c \in Clients : "CLOSING" \in flags[c] => "CLOSING" \in flags'[c]
  /\ sock' \in [Clients -> Fds \cup {Invalid, Zero}]
  /\ \A c \in Clients : sock'[c] = sock[c] \/ {sock[c], sock'[c]} \cap Fds = {}
  /\ old' = old /\ DOMAIN fds' = Fds
  /\ \A f \in Fds : fds'[f] = "free" <=> fds[f] = "free"

(* No other thread loses g.csNetwork. *)
NetworkKept(t) == \A u \in Threads \ {t} : network = u => network' = u

(* The call that takes the place of e relies on no more than e. *)
Modest(e, n, f) ==
  f.at \notin {"lock", "socket", "terminate"} /\ (Relies(f, n) => Relies(e, n) /\ f.c = e.c)

LEMMA CalmFits ==
  ASSUME IInv, CallsInv, Calm, NEW u \in Threads, NEW i \in 1 .. Len(stack[u]),
         stack[u][i].at = "lock" => network' = u
  PROVE  FitsNext(u, i, stack[u][i])
<1> DEFINE f == stack[u][i]
<1>1. FitsNow(u, i, f) BY DEF CallsInv
<1>2. f.at \in Held => f.c \in Clients BY FrameIs
<1>3. /\ Relies(f, i) => f.at \in Held
      /\ f.at \in {"terminate", "lock", "socket"} => f.at \in Held
  BY DEF Relies, Held
<1>4. f.at = "lock" => network' = u OBVIOUS
<1> HIDE DEF f
<1>5. Relies(f, i) => "ACTIVE" \in flags'[f.c] BY <1>1, <1>2, <1>3 DEF FitsNow, Fits, Calm
<1>6. f.at = "terminate" => i > 1 /\ "CLOSED" \in flags'[f.c] /\ ~old'[f.c]
  BY <1>1, <1>2, <1>3 DEF FitsNow, Fits, Calm
<1>7. f.at \in {"lock", "socket"} => sock'[f.c] \notin Fds
  BY <1>1, <1>2, <1>3 DEF FitsNow, Fits, Calm
<1>8. f.at = "lock" => "CONNECTED" \notin flags'[f.c]
  BY <1>1, <1>2, <1>3 DEF FitsNow, Fits, Calm
<1> QED BY <1>4, <1>5, <1>6, <1>7, <1>8 DEF FitsNext, Fits, f

(* Who waits for the section of a client that it opens, owns csNetwork. *)
LEMMA Waits ==
  ASSUME IInv, CallsInv, NEW u \in Threads, NEW i \in 1 .. Len(stack[u]), stack[u][i].at = "lock"
  PROVE  network = u /\ i = Len(stack[u])
BY DEF CallsInv, Proper, Kind, FitsNow, Fits

LEMMA CalmBelow ==
  ASSUME IInv, CallsInv, Calm, NEW t \in Threads, NetworkKept(t)
  PROVE  OthersFit(t) /\ BelowFits(t)
<1>1. OthersFit(t)
  <2> SUFFICES ASSUME NEW u \in Threads \ {t}, NEW i \in 1 .. Len(stack[u])
               PROVE  FitsNext(u, i, stack[u][i])
    BY DEF OthersFit
  <2>1. stack[u][i].at = "lock" => network' = u BY Waits DEF NetworkKept
  <2> QED BY <2>1, CalmFits
<1>2. BelowFits(t)
  <2> SUFFICES ASSUME NEW i \in 1 .. Len(stack[t]) - 1 PROVE FitsNext(t, i, stack[t][i])
    BY DEF BelowFits
  <2>1. stack[t] \in Seq(Frame) BY DEF IInv, Frames
  <2>2. i \in 1 .. Len(stack[t]) /\ i # Len(stack[t]) BY <2>1
  <2>3. stack[t][i].at # "lock" BY <2>2, Waits
  <2> QED BY <2>2, <2>3, CalmFits
<1> QED BY <1>1, <1>2

LEMMA TopIs ==
  ASSUME IInv, NEW t \in Threads, stack[t] # << >>
  PROVE  /\ Len(stack[t]) \in 1 .. Len(stack[t]) /\ Top(t) = stack[t][Len(stack[t])]
         /\ Top(t) \in Frame /\ stack[t] \in Seq(Frame)
         /\ Top(t).at \in Held => Top(t).c \in Clients /\ Top(t).c \in use.clients
<1>1. stack[t] \in Seq(Frame) BY DEF IInv, Frames
<1>2. Len(stack[t]) \in 1 .. Len(stack[t]) /\ Top(t) = stack[t][Len(stack[t])]
  BY <1>1 DEF Top, Last
<1> QED BY <1>1, <1>2, FrameIs

LEMMA TopFits ==
  ASSUME IInv, CallsInv, NEW t \in Threads, stack[t] # << >>
  PROVE  /\ FitsNow(t, Len(stack[t]), Top(t)) /\ Clear(t, Len(stack[t]), Top(t))
         /\ Kind(stack[t], Len(stack[t])) /\ NotBelow(t, Top(t).c) /\ NotBelow(t, None)
<1>1. Len(stack[t]) \in 1 .. Len(stack[t]) /\ Top(t) = stack[t][Len(stack[t])] BY TopIs
<1>2. Kind(stack[t], Len(stack[t])) /\ Apart(stack[t], Len(stack[t])) BY <1>1 DEF CallsInv, Proper
<1>3. NotBelow(t, None)
  <2> SUFFICES ASSUME NEW i \in 1 .. Len(stack[t]) - 1, Relies(stack[t][i], i)
               PROVE  stack[t][i].c # None
    BY DEF NotBelow
  <2>1. stack[t] \in Seq(Frame) BY DEF IInv, Frames
  <2>2. stack[t][i] \in Frame BY <2>1
  <2>3. stack[t][i].at \in Held BY DEF Relies, Held
  <2> QED BY <2>2, <2>3 DEF Frame
<1> QED BY <1>1, <1>2, <1>3 DEF CallsInv, NotBelow, Apart

LEMMA ModestFits ==
  ASSUME IInv, CallsInv, Calm, NEW t \in Threads, stack[t] # << >>, NEW f,
         Modest(Top(t), Len(stack[t]), f)
  PROVE  NewFits(t, Len(stack[t]), f)
<1> DEFINE n == Len(stack[t])
           e == Top(t)
<1>1. n \in 1 .. Len(stack[t]) /\ e = stack[t][n] BY TopIs
<1>2. FitsNow(t, n, e) /\ Clear(t, n, e) BY <1>1, TopFits
<1>6. e.at \in Held => e.c \in Clients BY TopIs
<1> HIDE DEF n, e
<1>3. Modest(e, n, f) BY DEF e, n
<1>4. FitsNext(t, n, f)
  <2>1. Relies(f, n) => "ACTIVE" \in flags'[f.c]
    <3>1. Relies(e, n) => e.at \in Held BY DEF Relies, Held
    <3> QED BY <1>2, <1>3, <1>6, <3>1 DEF FitsNow, Fits, Modest, Calm
  <2> QED BY <1>3, <2>1 DEF FitsNext, Fits, Modest
<1>5. Clear(t, n, f) BY <1>2, <1>3 DEF Clear, Modest
<1> QED BY <1>4, <1>5 DEF NewFits, n

LEMMA TypedLocks ==
  ASSUME Typed, NEW t \in Threads, NEW e, NEW f, Enters(t, e, f),
         e.at \in Inside => e.c \in Clients /\ depth[e.c] > 0, f.at \in Inside => f.c \in Clients
  PROVE  owner' \in [Clients -> Threads \cup {None}] /\ depth' \in [Clients -> Nat]
<1>1. owner \in [Clients -> Threads \cup {None}] /\ depth \in [Clients -> Nat] BY DEF Typed
<1>2. CASE UNCHANGED <<owner, depth>> BY <1>1, <1>2
<1>3. CASE f.at \in Inside /\ Take(t, f.c) BY <1>1, <1>3 DEF Take
<1>4. CASE e.at \in Inside /\ Leave(e.c)
  <2>1. depth[e.c] - 1 \in Nat BY <1>1, <1>4
  <2> QED BY <1>1, <1>4, <2>1 DEF Leave
<1> QED BY <1>2, <1>3, <1>4 DEF Enters

LEMMA CalmSockets ==
  ASSUME Sockets, Disconnected, Calm, use' = use
  PROVE  Sockets' /\ Disconnected'
<1>1. \A c \in Clients : /\ sock'[c] \in Fds => sock[c] = sock'[c]
                         /\ sock[c] \in Fds => sock'[c] = sock[c]
  BY DEF Calm
<1>2. \A c \in Clients :
        sock'[c] \in Fds => c \in use.clients /\ ("ACTIVE" \in flags'[c] \/ "CLOSED" \in flags'[c])
  BY <1>1 DEF Sockets, Calm
<1>3. \A c, d \in Clients : sock'[c] \in Fds /\ sock'[c] = sock'[d] => c = d
  BY <1>1 DEF Sockets
<1>4. \A f \in Fds : fds'[f] # "free" <=> \E c \in Clients : sock'[c] = f
  BY <1>1 DEF Sockets, Calm
<1>5. Disconnected' BY DEF Disconnected, Calm
<1> QED BY <1>2, <1>3, <1>4, <1>5 DEF Sockets

ToldLess == told' \in [Clients -> Nat] /\ \A c \in Clients : told'[c] \in {told[c], 0}

LEMMA CalmTold ==
  ASSUME Told, Calm, ToldLess
  PROVE  Told'
BY DEF Told, Calm, ToldLess

LEMMA CalmData ==
  ASSUME DataInv, Calm, use' = use, Told', told' \in [Clients -> Nat],
         owner' \in [Clients -> Threads \cup {None}], depth' \in [Clients -> Nat]
  PROVE  DataInv'
<1>1. Typed' BY DEF DataInv, Typed, Calm
<1>2. Sockets' /\ Disconnected' BY CalmSockets DEF DataInv
<1> QED BY <1>1, <1>2 DEF DataInv

(* A call goes on, calls another one or returns in such a step. *)
LEMMA CalmGoes ==
  ASSUME SInv, IInv', use' = use, Calm, Told', told' \in [Clients -> Nat],
         NEW t \in Threads, stack[t] # << >>, NetworkKept(t), NEW f \in Frame,
         stack' = [stack EXCEPT ![t] = Replaced(t, f)],
         FollowsOn(Top(t), Len(stack[t]), f), NotBelow(t, f.c), Enters(t, Top(t), f),
         NewFits(t, Len(stack[t]), f)
  PROVE  SInv'
<1>1. CallsInv' BY CalmBelow, GoesOn DEF SInv, DataInv
<1>2. Top(t).at \in Inside => Top(t).c \in Clients /\ depth[Top(t).c] > 0 BY OwnsTop DEF SInv
<1>3. f.at \in Inside => f.c \in Clients BY FrameInside DEF SInv
<1>4. owner' \in [Clients -> Threads \cup {None}] /\ depth' \in [Clients -> Nat]
  BY <1>2, <1>3, TypedLocks DEF SInv, DataInv
<1> QED BY <1>1, <1>4, CalmData DEF SInv

LEMMA CalmCalls ==
  ASSUME SInv, IInv', use' = use, Calm, Told', told' \in [Clients -> Nat],
         NEW t \in Threads, stack[t] # << >>, NetworkKept(t), NEW f \in Frame, NEW g \in Frame,
         stack' = [stack EXCEPT ![t] = Append(Replaced(t, f), g)],
         FollowsOn(Top(t), Len(stack[t]), f), NotBelow(t, f.c), Enters(t, Top(t), f), Pushed(t, f, g),
         NewFits(t, Len(stack[t]), f), NewFits(t, Len(stack[t]) + 1, g)
  PROVE  SInv'
<1>1. CallsInv' BY CalmBelow, CallsOn DEF SInv, DataInv
<1>2. Top(t).at \in Inside => Top(t).c \in Clients /\ depth[Top(t).c] > 0 BY OwnsTop DEF SInv
<1>3. f.at \in Inside => f.c \in Clients BY FrameInside DEF SInv
<1>4. owner' \in [Clients -> Threads \cup {None}] /\ depth' \in [Clients -> Nat]
  BY <1>2, <1>3, TypedLocks DEF SInv, DataInv
<1> QED BY <1>1, <1>4, CalmData DEF SInv

LEMMA CalmReturns ==
  ASSUME SInv, IInv', use' = use, Calm, Told', told' \in [Clients -> Nat],
         NEW t \in Threads, stack[t] # << >>, NetworkKept(t),
         Returns(t), Enters(t, Top(t), Gone)
  PROVE  SInv'
<1>1. CallsInv' BY CalmBelow, ReturnsTo DEF SInv, DataInv
<1>2. Top(t).at \in Inside => Top(t).c \in Clients /\ depth[Top(t).c] > 0 BY OwnsTop DEF SInv
<1>3. Gone.at \in Inside => Gone.c \in Clients BY DEF Gone, OpenCall, Call, Inside
<1>4. owner' \in [Clients -> Threads \cup {None}] /\ depth' \in [Clients -> Nat]
  BY <1>2, <1>3, TypedLocks DEF SInv, DataInv
<1> QED BY <1>1, <1>4, CalmData DEF SInv

----------------------------------------------------------------------------
(* The steps, one by one.  First, what they have in common. *)

LEMMA CalmSame ==
  ASSUME Typed, UNCHANGED <<flags, sock, old, fds>>
  PROVE  Calm
BY DEF Calm, Typed

LEMMA CalmMarks ==
  ASSUME IInv, Typed, UNCHANGED <<sock, old, fds>>, NEW c \in Clients, NEW minus, NEW plus,
         Flag(c, minus, plus),
         (minus \cup plus) \cap {"ACTIVE", "CLOSED", "AVAILABLE", "CONNECTED"} = {},
         "CLOSING" \notin minus
  PROVE  Calm
<1>1. flags \in [Clients -> SUBSET AllFlags] BY DEF IInv, Records
<1>2. /\ flags'[c] = (flags[c] \ minus) \cup plus
      /\ \A d \in Clients \ {c} : flags'[d] = flags[d]
  BY <1>1 DEF Flag
<1>3. ASSUME NEW d \in Clients
      PROVE  /\ \A x \in {"ACTIVE", "CLOSED", "AVAILABLE", "CONNECTED"} :
                  x \in flags'[d] <=> x \in flags[d]
             /\ "CLOSING" \in flags[d] => "CLOSING" \in flags'[d]
  BY <1>2
<1> QED BY <1>3 DEF Calm, Typed

(* A client is in one of the states. *)
LEMMA OneState ==
  ASSUME IInv, NEW c \in use.clients
  PROVE  \E s \in States : flags[c] \cap States = {s} /\ c \in Range(list[s])
BY DEF IInv, Records, Listed, Named

LEMMA StateOf ==
  ASSUME IInv, NEW s \in States, NEW c \in Range(list[s])
  PROVE  c \in use.clients /\ c \in Clients /\ c # None /\ c \in Mine /\ flags[c] \cap States = {s}
<1>1. list[s] \in Seq(use.clients) BY DEF IInv, Records
<1>2. c \in use.clients BY <1>1 DEF Range
<1>3. c \in Clients BY <1>2 DEF IInv
<1> QED BY <1>2, <1>3 DEF IInv, Records, Named, Mine

(* No other thread opens c. *)
Unopened(t, c) ==
  \A u \in Threads \ {t} : \A j \in 1 .. Len(stack[u]) :
    stack[u][j].at = "lock" => stack[u][j].c # c

LEMMA NobodyOpens ==
  ASSUME IInv, CallsInv, NEW t \in Threads, NEW c,
         \/ network = None
         \/ c \in Clients /\ "CONNECTED" \in flags[c]
         \/ \E e, i : c = e.c /\ Clear(t, i, e) /\ Relies(e, i)
  PROVE  Unopened(t, c)
<1> SUFFICES ASSUME NEW u \in Threads \ {t}, NEW j \in 1 .. Len(stack[u]),
                    stack[u][j].at = "lock", stack[u][j].c = c
             PROVE  FALSE
  BY DEF Unopened
<1>1. FitsNow(u, j, stack[u][j]) BY DEF CallsInv
<1>2. network = u /\ "CONNECTED" \notin flags[c] BY <1>1 DEF FitsNow, Fits
<1>3. None \notin Threads BY DEF Threads
<1>4. CASE \E e, i : c = e.c /\ Clear(t, i, e) /\ Relies(e, i) BY <1>4 DEF Clear
<1> QED BY <1>2, <1>3, <1>4

(* A call that relies on nothing, or on an active client that nobody opens. *)
LEMMA Carefree ==
  ASSUME NEW t, NEW i, NEW f, f.at \notin {"lock", "socket", "terminate"}, ~Relies(f, i)
  PROVE  NewFits(t, i, f)
BY DEF NewFits, FitsNext, Fits, Clear

LEMMA Relying ==
  ASSUME NEW t, NEW i, NEW f, f.at \notin {"lock", "socket", "terminate"},
         "ACTIVE" \in flags'[f.c], Unopened(t, f.c)
  PROVE  NewFits(t, i, f)
BY DEF NewFits, FitsNext, Fits, Clear, Unopened

(* The call of t, at another place and for another client. *)
Onto(t, at, c) == [Top(t) EXCEPT !.at = at, !.c = c]

LEMMA OntoIs ==
  ASSUME IInv, NEW t \in Threads, stack[t] # << >>, NEW at \in Places, NEW c \in Mine,
         at \in Held => c # None
  PROVE  /\ Onto(t, at, c) \in Frame
         /\ Onto(t, at, c).at = at /\ Onto(t, at, c).c = c
         /\ Onto(t, at, c).op = Top(t).op /\ Onto(t, at, c).kind = Top(t).kind
<1>1. Top(t) \in Frame BY TopIs
<1> QED BY <1>1 DEF Onto, Frame

(* It is not about a client on which one before it relies. *)
Spared(t, c) == c \in {Top(t).c, None} \/ Top(t).op \in {"net", "timer"}

LEMMA NothingBelow ==
  ASSUME IInv, CallsInv, NEW t \in Threads, stack[t] # << >>, NEW c, Spared(t, c)
  PROVE  NotBelow(t, c)
<1>1. CASE c \in {Top(t).c, None} BY <1>1, TopFits
<1>2. CASE Top(t).op \in {"net", "timer"}
  <2>1. Kind(stack[t], Len(stack[t])) /\ Top(t) = stack[t][Len(stack[t])] BY TopFits, TopIs
  <2>2. Len(stack[t]) = 1 BY <1>2, <2>1 DEF Kind
  <2> QED BY <2>2 DEF NotBelow
<1> QED BY <1>1, <1>2 DEF Spared

Onward(t, at, c) ==
  /\ at \in Places \ {"wait"} /\ c \in Mine /\ (at \in Held => c # None) /\ Spared(t, c)
  /\ at \in {"check", "enter", "terminate"} => Top(t).op = "remove"
  /\ Top(t).op = "remove" => /\ c = Top(t).c
                             /\ at = "callback" => Top(t).at = "callback" \/ Top(t).kind # "silent"

LEMMA OnwardFollows ==
  ASSUME IInv, CallsInv, NEW t \in Threads, stack[t] # << >>, NEW at, NEW c, Onward(t, at, c)
  PROVE  /\ Onto(t, at, c) \in Frame
         /\ Onto(t, at, c).at = at /\ Onto(t, at, c).c = c
         /\ Onto(t, at, c).op = Top(t).op /\ Onto(t, at, c).kind = Top(t).kind
         /\ FollowsOn(Top(t), Len(stack[t]), Onto(t, at, c))
         /\ NotBelow(t, Onto(t, at, c).c)
<1>1. at \in Places /\ c \in Mine /\ (at \in Held => c # None) BY DEF Onward
<1>2. /\ Onto(t, at, c) \in Frame
      /\ Onto(t, at, c).at = at /\ Onto(t, at, c).c = c
      /\ Onto(t, at, c).op = Top(t).op /\ Onto(t, at, c).kind = Top(t).kind
  BY <1>1, OntoIs
<1>3. NotBelow(t, c) BY NothingBelow DEF Onward
<1> DEFINE n == Len(stack[t])
<1>4. Kind(stack[t], n) /\ Top(t) = stack[t][n] BY TopFits, TopIs
<1>5. Top(t).op = "remove" => (n = 1 => Top(t).kind = "silent" /\ Top(t).at # "callback")
  BY <1>4 DEF Kind
<1>6. Top(t).op = "remove" => (n = 1 => at # "callback") BY <1>5 DEF Onward
<1> HIDE DEF n
<1>7. FollowsOn(Top(t), n, Onto(t, at, c)) BY <1>2, <1>6 DEF FollowsOn, Onward
<1> QED BY <1>2, <1>3, <1>7 DEF n

(* A quiet step: it changes nothing on which a call relies, and no close   *)
(* callback runs.                                                          *)
Quiet(t) == Calm /\ told' = told /\ NetworkKept(t)

LEMMA QuietTold ==
  ASSUME SInv, NEW t, Quiet(t)
  PROVE  Told' /\ told' \in [Clients -> Nat]
<1>1. told \in [Clients -> Nat] /\ told' = told /\ Told /\ Calm BY DEF SInv, DataInv, Typed, Quiet
<1>2. ToldLess BY <1>1 DEF ToldLess
<1> QED BY <1>1, <1>2, CalmTold

(* The thread goes on to a place where it relies on no more, or on an      *)
(* active client.                                                          *)
Unburdened(t, at, c) ==
  LET f == Onto(t, at, c)
  IN  \/ Modest(Top(t), Len(stack[t]), f)
      \/ at \notin {"lock", "socket", "terminate"} /\ "ACTIVE" \in flags'[c] /\ Unopened(t, c)

LEMMA UnburdenedFits ==
  ASSUME IInv, CallsInv, Calm, NEW t \in Threads, stack[t] # << >>, NEW at, NEW c,
         Onward(t, at, c), Unburdened(t, at, c)
  PROVE  NewFits(t, Len(stack[t]), Onto(t, at, c))
<1> DEFINE f == Onto(t, at, c)
<1>1. f.at = at /\ f.c = c BY OnwardFollows
<1>2. CASE Modest(Top(t), Len(stack[t]), f) BY <1>2, ModestFits
<1>3. CASE at \notin {"lock", "socket", "terminate"} /\ "ACTIVE" \in flags'[c] /\ Unopened(t, c)
  <2> HIDE DEF f
  <2>1. NewFits(t, Len(stack[t]), f) BY <1>1, <1>3, Relying
  <2> QED BY <2>1 DEF f
<1> QED BY <1>2, <1>3 DEF Unburdened

LEMMA QuietGoes ==
  ASSUME SInv, IInv', use' = use, NEW t \in Threads, stack[t] # << >>, Quiet(t),
         NEW at, NEW c, GoesWith(t, at, c), Onward(t, at, c),
         Enters(t, Top(t), Onto(t, at, c)), Unburdened(t, at, c)
  PROVE  SInv'
<1> DEFINE f == Onto(t, at, c)
<1>1. IInv /\ CallsInv BY DEF SInv
<1>2. f \in Frame /\ FollowsOn(Top(t), Len(stack[t]), f) /\ NotBelow(t, f.c)
  BY <1>1, OnwardFollows
<1>3. stack' = [stack EXCEPT ![t] = Replaced(t, f)] BY DEF GoesWith, Onto
<1>4. NewFits(t, Len(stack[t]), f) BY <1>1, UnburdenedFits DEF Quiet
<1>5. Told' /\ told' \in [Clients -> Nat] /\ Calm /\ NetworkKept(t) BY QuietTold DEF Quiet
<1>6. Enters(t, Top(t), f) OBVIOUS
<1> HIDE DEF f
<1> QED BY <1>2, <1>3, <1>4, <1>5, <1>6, CalmGoes

LEMMA QuietCalls ==
  ASSUME SInv, IInv', use' = use, NEW t \in Threads, stack[t] # << >>, Quiet(t),
         NEW at, NEW c, NEW g \in Frame,
         stack' = [stack EXCEPT ![t] = Append(Replaced(t, Onto(t, at, c)), g)],
         Onward(t, at, c), Enters(t, Top(t), Onto(t, at, c)), Unburdened(t, at, c),
         Pushed(t, Onto(t, at, c), g), NewFits(t, Len(stack[t]) + 1, g)
  PROVE  SInv'
<1> DEFINE f == Onto(t, at, c)
<1>1. IInv /\ CallsInv BY DEF SInv
<1>2. f \in Frame /\ FollowsOn(Top(t), Len(stack[t]), f) /\ NotBelow(t, f.c)
  BY <1>1, OnwardFollows
<1>4. NewFits(t, Len(stack[t]), f) BY <1>1, UnburdenedFits DEF Quiet
<1>5. Told' /\ told' \in [Clients -> Nat] /\ Calm /\ NetworkKept(t) BY QuietTold DEF Quiet
<1>6. /\ Enters(t, Top(t), f) /\ Pushed(t, f, g)
      /\ stack' = [stack EXCEPT ![t] = Append(Replaced(t, f), g)]
  OBVIOUS
<1> HIDE DEF f
<1> QED BY <1>2, <1>4, <1>5, <1>6, CalmCalls

LEMMA QuietReturns ==
  ASSUME SInv, IInv', use' = use, NEW t \in Threads, stack[t] # << >>, Quiet(t),
         Returns(t), Enters(t, Top(t), Gone)
  PROVE  SInv'
<1>5. Told' /\ told' \in [Clients -> Nat] /\ Calm /\ NetworkKept(t) BY QuietTold DEF Quiet
<1> QED BY <1>5, CalmReturns

(* Where the sections are left alone, or left. *)
LEMMA EntersNothing ==
  ASSUME NEW t, NEW e, NEW f, UNCHANGED <<owner, depth>>,
         \/ e.at \notin Inside /\ f.at \notin Inside
         \/ e.at \in Inside /\ f.at \in Inside /\ e.c = f.c
  PROVE  Enters(t, e, f)
BY DEF Enters, IsIn

LEMMA GoneOutside == Gone.at \notin Inside
BY DEF Gone, OpenCall, Call, Inside

LEMMA QuietSame ==
  ASSUME SInv, NEW t, UNCHANGED <<flags, sock, told, old, fds>>, NetworkKept(t)
  PROVE  Quiet(t)
BY CalmSame DEF SInv, DataInv, Quiet

LEMMA QuietMarks ==
  ASSUME SInv, NEW t, UNCHANGED <<sock, told, old, fds>>, NetworkKept(t),
         NEW c \in Clients, NEW minus, NEW plus, Flag(c, minus, plus),
         (minus \cup plus) \cap {"ACTIVE", "CLOSED", "AVAILABLE", "CONNECTED"} = {},
         "CLOSING" \notin minus
  PROVE  Quiet(t)
BY CalmMarks DEF SInv, DataInv, Quiet

----------------------------------------------------------------------------
(* Opening a client: the steps after which no call relies on more. *)

LEMMA OpenQuietSInv ==
  ASSUME SInv, IInv', use' = use, NEW t \in Threads,
         GetAgain(t) \/ ConnectFailed(t) \/ WaitDone(t) \/ AcceptDone(t)
  PROVE  SInv'
<1>1. stack[t] # << >> /\ UNCHANGED <<flags, sock, told, old, fds, network>>
  BY AtFrame DEF GetAgain, ConnectFailed, WaitDone, AcceptDone, record, locks, outside
<1>2. Quiet(t) BY <1>1, QuietSame DEF NetworkKept
<1>3. CASE Returns(t)
  <2>1. Enters(t, Top(t), Gone)
    <3>1. CASE GetAgain(t) \/ WaitDone(t)
      <4>1. UNCHANGED <<owner, depth>> /\ Top(t).at \in {"again", "wait"}
        BY <3>1 DEF GetAgain, WaitDone, locks, At
      <4>2. Top(t).at \notin Inside BY <4>1 DEF Inside
      <4> QED BY <4>1, <4>2, GoneOutside, EntersNothing
    <3>2. CASE ConnectFailed(t) \/ AcceptDone(t)
      <4>1. Leave(Top(t).c) /\ Top(t).at \in {"failed", "leave"}
        BY <3>2 DEF ConnectFailed, AcceptDone, At
      <4> QED BY <4>1, GoneOutside DEF Enters, Inside
    <3> QED BY <3>1, <3>2
  <2> QED BY <1>1, <1>2, <1>3, <2>1, QuietReturns
<1>4. CASE ~Returns(t)
  <2>1. GetAgain(t) /\ Goes(t, "getfree")
    BY <1>4 DEF GetAgain, ConnectFailed, WaitDone, AcceptDone
  <2>2. UNCHANGED <<owner, depth>> /\ Top(t).at = "again" /\ Top(t).op = "open"
    BY <2>1 DEF GetAgain, locks, At
  <2>3. Top(t).c \in Mine
    <3>1. Top(t) \in Frame BY <1>1, TopIs DEF SInv
    <3> QED BY <3>1 DEF Frame
  <2>4. Onward(t, "getfree", Top(t).c)
    BY <2>2, <2>3 DEF Onward, Spared, Places, Free, Held
  <2>5. Onto(t, "getfree", Top(t).c).at = "getfree"
    BY <1>1, <2>4, OnwardFollows DEF SInv
  <2>6. Enters(t, Top(t), Onto(t, "getfree", Top(t).c))
    BY <2>2, <2>5, EntersNothing DEF Inside
  <2>7. Unburdened(t, "getfree", Top(t).c)
    BY <2>5 DEF Unburdened, Modest, Relies
  <2> QED BY <1>1, <1>2, <2>1, <2>4, <2>6, <2>7, QuietGoes DEF Goes
<1> QED BY <1>3, <1>4

(* No call but the one of t relies on c. *)
Alone(t, c) ==
  \A u \in Threads : \A i \in 1 .. Len(stack[u]) :
    (u # t \/ i # Len(stack[u])) /\ stack[u][i].c = c => ~Relies(stack[u][i], i)

(* What calls find of a client is as before. *)
Same(d) ==
  /\ \A x \in {"ACTIVE", "CLOSED", "AVAILABLE", "CONNECTED"} : x \in flags'[d] <=> x \in flags[d]
  /\ sock'[d] = sock[d] /\ old'[d] = old[d]

(* Where a call waits to terminate c, c is still to be terminated. *)
Terminable(t, c) ==
  \A u \in Threads : \A i \in 1 .. Len(stack[u]) :
    (u # t \/ i # Len(stack[u])) /\ stack[u][i].c = c /\ stack[u][i].at = "terminate"
      => "CLOSED" \in flags'[c] /\ ~old'[c]

Touches(t, c) ==
  /\ \A d \in Clients \ {c} : Same(d)
  /\ NetworkKept(t) /\ Alone(t, c) /\ Terminable(t, c)

LEMMA Undisturbed ==
  ASSUME IInv, CallsInv, NEW t \in Threads, NEW c \in Clients, Touches(t, c)
  PROVE  OthersFit(t) /\ BelowFits(t)
<1>1. ASSUME NEW u \in Threads, NEW i \in 1 .. Len(stack[u]), u # t \/ i # Len(stack[u])
      PROVE  FitsNext(u, i, stack[u][i])
  <2> DEFINE f == stack[u][i]
  <2>1. FitsNow(u, i, f) BY DEF CallsInv
  <2>2. f.at \in Held => f.c \in Clients BY FrameIs
  <2>3. f.at = "lock" => network = u /\ i = Len(stack[u]) BY Waits
  <2>4. Relies(f, i) => f.c # c BY <1>1 DEF Touches, Alone
  <2>5. f.at = "terminate" /\ f.c = c => "CLOSED" \in flags'[c] /\ ~old'[c]
    BY <1>1 DEF Touches, Terminable
  <2> HIDE DEF f
  <2>6. f.at = "lock" => network' = u BY <1>1, <2>3 DEF Touches, NetworkKept
  <2>7. f.at \in {"lock", "socket"} => Relies(f, i) BY DEF Relies
  <2>8. Relies(f, i) \/ f.at \in {"terminate", "lock", "socket"} => f.at \in Held
    BY DEF Relies, Held
  <2>9. f.at \in Held /\ f.c # c => Same(f.c) BY <2>2 DEF Touches
  <2>10. Relies(f, i) => "ACTIVE" \in flags'[f.c]
    BY <2>1, <2>4, <2>8, <2>9 DEF FitsNow, Fits, Same
  <2>11. f.at = "terminate" => i > 1 /\ "CLOSED" \in flags'[f.c] /\ ~old'[f.c]
    BY <2>1, <2>5, <2>8, <2>9 DEF FitsNow, Fits, Same
  <2>12. f.at \in {"lock", "socket"} => sock'[f.c] \notin Fds
    BY <2>1, <2>4, <2>7, <2>8, <2>9 DEF FitsNow, Fits, Same
  <2>13. f.at = "lock" => "CONNECTED" \notin flags'[f.c]
    BY <2>1, <2>4, <2>7, <2>8, <2>9 DEF FitsNow, Fits, Same
  <2> QED BY <2>6, <2>10, <2>11, <2>12, <2>13 DEF FitsNext, Fits, f
<1>2. OthersFit(t) BY <1>1 DEF OthersFit
<1>3. BelowFits(t)
  <2>1. \A i \in 1 .. Len(stack[t]) - 1 : i \in 1 .. Len(stack[t]) /\ i # Len(stack[t])
    <3>1. Len(stack[t]) \in Nat BY DEF IInv, Frames
    <3> QED BY <3>1
  <2> QED BY <1>1, <2>1 DEF BelowFits
<1> QED BY <1>2, <1>3

(* On a client that is not active nobody relies; on one whose section t    *)
(* has, or may take, while nobody opens it, only t; t does not twice.      *)
LEMMA AloneInactive ==
  ASSUME IInv, CallsInv, NEW t, NEW c, "ACTIVE" \notin flags[c]
  PROVE  Alone(t, c)
BY DEF Alone, CallsInv, FitsNow, Fits

LEMMA AloneOwner ==
  ASSUME IInv, CallsInv, NEW t \in Threads, NEW c \in Clients, MayTake(t, c), Unopened(t, c),
         NotBelow(t, c)
  PROVE  Alone(t, c)
<1> SUFFICES ASSUME NEW u \in Threads, NEW i \in 1 .. Len(stack[u]), u # t \/ i # Len(stack[u]),
                    stack[u][i].c = c, Relies(stack[u][i], i)
             PROVE  FALSE
  BY DEF Alone
<1>1. CASE u = t
  <2>1. Len(stack[t]) \in Nat BY DEF IInv, Frames
  <2>2. i \in 1 .. Len(stack[t]) - 1 BY <1>1, <2>1
  <2> QED BY <1>1, <2>2 DEF NotBelow
<1>2. CASE u # t
  <2>1. stack[u][i].at # "lock" BY <1>2 DEF Unopened
  <2>2. owner[c] = u BY <2>1, RelyingOwns
  <2>3. None \notin Threads BY DEF Threads
  <2> QED BY <1>2, <2>2, <2>3 DEF MayTake
<1> QED BY <1>1, <1>2

(* Where c is not closed, or was closed long ago, no call terminates it;   *)
(* who does has its section, and does so in one call.                      *)
LEMMA TerminatesNone ==
  ASSUME IInv, CallsInv, NEW t, NEW c, "CLOSED" \notin flags[c] \/ old[c]
  PROVE  Terminable(t, c)
BY DEF Terminable, CallsInv, FitsNow, Fits

LEMMA TerminatesOne ==
  ASSUME IInv, CallsInv, NEW t \in Threads, stack[t] # << >>, Top(t).at = "terminate"
  PROVE  Top(t).c \in Clients /\ owner[Top(t).c] = t /\ Terminable(t, Top(t).c)
<1>1. ASSUME NEW u \in Threads, NEW i \in 1 .. Len(stack[u]), stack[u][i].at = "terminate"
      PROVE  i = Len(stack[u]) /\ stack[u][i].c \in Clients /\ owner[stack[u][i].c] = u
  <2>1. Kind(stack[u], i) /\ FitsNow(u, i, stack[u][i]) BY DEF CallsInv, Proper
  <2>2. i > 1 /\ i = Len(stack[u]) /\ stack[u][i].op = "remove"
    BY <1>1, <2>1 DEF Kind, FitsNow, Fits
  <2>3. stack[u][i].c \in Clients BY <1>1, FrameIs DEF Held
  <2>4. Len(stack[u]) \in Nat BY DEF IInv, Frames
  <2>5. i - 1 \in 1 .. Len(stack[u]) /\ i # 1 BY <2>2, <2>4
  <2>6. IsIn(stack[u][i - 1], stack[u][i].c) BY <2>1, <2>2, <2>5 DEF Kind
  <2> QED BY <2>2, <2>3, <2>5, <2>6, InsideOwns
<1>2. Len(stack[t]) \in 1 .. Len(stack[t]) /\ Top(t) = stack[t][Len(stack[t])] BY TopIs
<1>3. Top(t).c \in Clients /\ owner[Top(t).c] = t BY <1>1, <1>2
<1>4. Terminable(t, Top(t).c)
  <2> SUFFICES ASSUME NEW u \in Threads, NEW i \in 1 .. Len(stack[u]), u # t \/ i # Len(stack[u]),
                      stack[u][i].c = Top(t).c, stack[u][i].at = "terminate"
               PROVE  FALSE
    BY DEF Terminable
  <2>1. i = Len(stack[u]) /\ owner[Top(t).c] = u BY <1>1
  <2> QED BY <1>3, <2>1
<1> QED BY <1>3, <1>4

(* The data, when a client changes. *)
LEMMA SocketsSame ==
  ASSUME Sockets, use' = use, NEW c \in Clients, UNCHANGED <<sock, fds>>,
         \A d \in Clients \ {c} : Same(d),
         sock[c] \in Fds => "ACTIVE" \in flags'[c] \/ "CLOSED" \in flags'[c]
  PROVE  Sockets'
BY DEF Sockets, Same

LEMMA SocketOpened ==
  ASSUME Sockets, use \in Uses, use' = use,
         sock \in [Clients -> Fds \cup {Invalid, Zero}], DOMAIN fds = Fds,
         NEW c \in Clients, c \in use.clients, sock[c] \notin Fds, NEW state, state # "free", Opens(c, state),
         \A d \in Clients \ {c} : \A x \in {"ACTIVE", "CLOSED"} : x \in flags'[d] <=> x \in flags[d],
         "ACTIVE" \in flags'[c]
  PROVE  Sockets' /\ sock' \in [Clients -> Fds \cup {Invalid, Zero}] /\ DOMAIN fds' = Fds
<1>1. PICK f \in Fds : /\ fds[f] = "free" /\ fds' = [fds EXCEPT ![f] = state]
                       /\ sock' = [sock EXCEPT ![c] = f]
  <2>1. use.fds \subseteq Fds OBVIOUS
  <2> QED BY <2>1 DEF Opens
<1>2. sock'[c] = f /\ \A d \in Clients \ {c} : sock'[d] = sock[d] BY <1>1
<1>3. fds'[f] = state /\ \A g \in Fds \ {f} : fds'[g] = fds[g] BY <1>1
<1>4. \A d \in Clients : sock[d] # f BY <1>1 DEF Sockets
<1>5. \A d \in Clients :
        sock'[d] \in Fds => d \in use.clients /\ ("ACTIVE" \in flags'[d] \/ "CLOSED" \in flags'[d])
  BY <1>2 DEF Sockets
<1>6. \A d, e \in Clients : sock'[d] \in Fds /\ sock'[d] = sock'[e] => d = e
  <2> SUFFICES ASSUME NEW d \in Clients, NEW e \in Clients, sock'[d] \in Fds, sock'[d] = sock'[e]
               PROVE  d = e
    OBVIOUS
  <2>1. CASE d # c /\ e # c BY <1>2, <2>1 DEF Sockets
  <2>2. CASE d = c /\ e # c BY <1>2, <1>4, <2>2
  <2>3. CASE d # c /\ e = c BY <1>2, <1>4, <2>3
  <2> QED BY <2>1, <2>2, <2>3
<1>7. ASSUME NEW g \in Fds PROVE fds'[g] # "free" <=> \E d \in Clients : sock'[d] = g
  <2>1. CASE g = f BY <1>2, <1>3, <2>1
  <2>2. CASE g # f
    <3>1. \A d \in Clients : sock'[d] = g <=> sock[d] = g BY <1>2, <2>2
    <3>2. fds'[g] = fds[g] BY <1>3, <2>2
    <3> QED BY <3>1, <3>2 DEF Sockets
  <2> QED BY <2>1, <2>2
<1>8. sock' \in [Clients -> Fds \cup {Invalid, Zero}] /\ DOMAIN fds' = Fds BY <1>1
<1> QED BY <1>5, <1>6, <1>7, <1>8 DEF Sockets

LEMMA SocketClosed ==
  ASSUME Sockets, use' = use, sock \in [Clients -> Fds \cup {Invalid, Zero}], DOMAIN fds = Fds,
         NEW c \in Clients, Closed(c), sock' = [sock EXCEPT ![c] = Zero],
         \A d \in Clients \ {c} : \A x \in {"ACTIVE", "CLOSED"} : x \in flags'[d] <=> x \in flags[d]
  PROVE  Sockets' /\ sock' \in [Clients -> Fds \cup {Invalid, Zero}] /\ DOMAIN fds' = Fds
<1>1. sock'[c] = Zero /\ \A d \in Clients \ {c} : sock'[d] = sock[d] OBVIOUS
<1>2. Zero \notin Fds BY SocketsAssumption
<1>3. \A g \in Fds : fds'[g] = IF sock[c] = g THEN "free" ELSE fds[g] BY DEF Closed
<1>4. \A d \in Clients :
        sock'[d] \in Fds => d \in use.clients /\ ("ACTIVE" \in flags'[d] \/ "CLOSED" \in flags'[d])
  BY <1>1, <1>2 DEF Sockets
<1>5. \A d, e \in Clients : sock'[d] \in Fds /\ sock'[d] = sock'[e] => d = e
  BY <1>1, <1>2 DEF Sockets
<1>6. ASSUME NEW g \in Fds PROVE fds'[g] # "free" <=> \E d \in Clients : sock'[d] = g
  <2>1. CASE sock[c] = g
    <3>1. fds'[g] = "free" BY <1>3, <2>1
    <3>2. \A d \in Clients : sock'[d] # g BY <1>1, <1>2, <2>1 DEF Sockets
    <3> QED BY <3>1, <3>2
  <2>2. CASE sock[c] # g
    <3>1. \A d \in Clients : sock'[d] = g <=> sock[d] = g BY <1>1, <1>2, <2>2
    <3>2. fds'[g] = fds[g] BY <1>3, <2>2
    <3> QED BY <3>1, <3>2 DEF Sockets
  <2> QED BY <2>1, <2>2
<1>7. sock' \in [Clients -> Fds \cup {Invalid, Zero}] BY SocketsAssumption
<1>8. DOMAIN fds' = Fds BY DEF Closed
<1> QED BY <1>4, <1>5, <1>6, <1>7, <1>8 DEF Sockets

----------------------------------------------------------------------------
(* Opening a client: the other steps. *)

(* The client that is taken relies on being active from now on. *)
LEMMA GetFreeSInv ==
  ASSUME SInv, IInv', use' = use, NEW t \in Threads, GetFree(t)
  PROVE  SInv'
<1> DEFINE free == {i \in DOMAIN list["AVAILABLE"] :
                      "CLOSING" \notin flags[list["AVAILABLE"][i]]}
<1>1. /\ stack[t] # << >> /\ Top(t).op = "open" /\ Top(t).at = "getfree" /\ network = None
      /\ UNCHANGED <<sock, calls, told, old, owner, depth, fds>>
  BY DEF GetFree, At, outside
<1>2. IInv /\ CallsInv /\ DataInv BY DEF SInv
<1>3. CASE Goes(t, "again") /\ UNCHANGED <<list, flags, network>>
  <2>1. Quiet(t) BY <1>1, <1>3, QuietSame DEF NetworkKept
  <2>2. Top(t).c \in Mine
    <3>1. Top(t) \in Frame BY <1>1, <1>2, TopIs
    <3> QED BY <3>1 DEF Frame
  <2>3. Onward(t, "again", Top(t).c) BY <1>1, <2>2 DEF Onward, Spared, Places, Free, Held
  <2>4. Onto(t, "again", Top(t).c).at = "again" BY <1>1, <1>2, <2>3, OnwardFollows
  <2>5. Enters(t, Top(t), Onto(t, "again", Top(t).c)) BY <1>1, <2>4, EntersNothing DEF Inside
  <2>6. Unburdened(t, "again", Top(t).c) BY <2>4 DEF Unburdened, Modest, Relies
  <2> QED BY <1>1, <1>3, <2>1, <2>3, <2>5, <2>6, QuietGoes DEF Goes
<1>4. CASE \E i \in free : /\ MoveTo(list["AVAILABLE"][i], "ACTIVE", flags[list["AVAILABLE"][i]])
                           /\ network' = t
                           /\ GoesWith(t, "lock", list["AVAILABLE"][i])
  <2>1. PICK i \in free : /\ MoveTo(list["AVAILABLE"][i], "ACTIVE", flags[list["AVAILABLE"][i]])
                          /\ network' = t
                          /\ GoesWith(t, "lock", list["AVAILABLE"][i])
    BY <1>4
  <2> DEFINE c == list["AVAILABLE"][i]
  <2>2. c \in Range(list["AVAILABLE"]) BY DEF Range
  <2>3. MoveTo(c, "ACTIVE", flags[c]) /\ network' = t /\ GoesWith(t, "lock", c) BY <2>1
  <2> HIDE DEF c
  <2>4. /\ c \in use.clients /\ c \in Clients /\ c # None /\ c \in Mine
        /\ flags[c] \cap States = {"AVAILABLE"}
    <3>1. "AVAILABLE" \in States BY DEF States
    <3> QED BY <1>2, <2>2, <3>1, StateOf
  <2>5. "ACTIVE" \notin flags[c] /\ "CLOSED" \notin flags[c] /\ "AVAILABLE" \in flags[c]
    BY <2>4 DEF States
  <2>6. sock[c] \notin Fds /\ "CONNECTED" \notin flags[c]
    BY <1>2, <2>4, <2>5 DEF DataInv, Sockets, Disconnected
  <2>7. /\ flags' = [flags EXCEPT ![c] = (flags[c] \ States) \cup {"ACTIVE"}]
        /\ flags \in [Clients -> SUBSET AllFlags]
    BY <1>2, <2>3 DEF MoveTo, IInv, Records
  <2>8. /\ flags'[c] = (flags[c] \ States) \cup {"ACTIVE"}
        /\ \A d \in Clients \ {c} : flags'[d] = flags[d]
    BY <2>4, <2>7
  <2>9. Alone(t, c) /\ Terminable(t, c) BY <1>2, <2>5, AloneInactive, TerminatesNone
  <2>10. None \notin Threads BY DEF Threads
  <2>11. Touches(t, c) BY <1>1, <2>8, <2>9, <2>10 DEF Touches, Same, NetworkKept
  <2>12. OthersFit(t) /\ BelowFits(t) BY <1>2, <2>4, <2>11, Undisturbed
  <2> DEFINE f == Onto(t, "lock", c)
  <2>13. /\ f \in Frame /\ f.at = "lock" /\ f.c = c /\ f.op = Top(t).op /\ f.kind = Top(t).kind
    <3>1. "lock" \in Places BY DEF Places, Held
    <3> QED BY <1>1, <1>2, <2>4, <3>1, OntoIs
  <2>14. stack' = [stack EXCEPT ![t] = Replaced(t, f)] BY <2>3 DEF GoesWith, Onto
  <2> HIDE DEF f
  <2>15. NotBelow(t, f.c)
    <3>1. Len(stack[t]) \in Nat BY <1>2 DEF IInv, Frames
    <3>2. ASSUME NEW j \in 1 .. Len(stack[t]) - 1, Relies(stack[t][j], j) PROVE stack[t][j].c # c
      <4>1. j \in 1 .. Len(stack[t]) /\ j # Len(stack[t]) BY <3>1
      <4> QED BY <2>9, <3>2, <4>1 DEF Alone
    <3> QED BY <2>13, <3>2 DEF NotBelow
  <2>16. FollowsOn(Top(t), Len(stack[t]), f) BY <1>1, <2>13 DEF FollowsOn
  <2>17. Enters(t, Top(t), f) BY <1>1, <2>13, EntersNothing DEF Inside
  <2>18. NewFits(t, Len(stack[t]), f)
    <3>1. FitsNext(t, Len(stack[t]), f) BY <1>1, <2>3, <2>6, <2>8, <2>13 DEF FitsNext, Fits, States
    <3>2. ASSUME NEW u \in Threads \ {t}, NEW j \in 1 .. Len(stack[u]), stack[u][j].c = c
          PROVE  ~Relies(stack[u][j], j) /\ stack[u][j].at # "lock"
      BY <2>9, <3>2 DEF Alone, Relies
    <3>3. Clear(t, Len(stack[t]), f) BY <2>13, <3>2 DEF Clear
    <3> QED BY <3>1, <3>3 DEF NewFits
  <2>19. Typed BY <1>2 DEF DataInv
  <2>20. CallsInv' BY <1>1, <1>2, <2>12, <2>13, <2>14, <2>15, <2>16, <2>17, <2>18, <2>19, GoesOn
  <2>21. DataInv'
    <3>1. Typed' BY <1>1, <2>19 DEF Typed
    <3>2. Told' BY <1>1, <1>2, <2>4, <2>8 DEF DataInv, Told, States
    <3>3. Sockets' BY <1>1, <1>2, <2>4, <2>6, <2>11, SocketsSame DEF DataInv, Touches
    <3>4. Disconnected' BY <1>2, <2>6, <2>8 DEF DataInv, Disconnected, States
    <3> QED BY <3>1, <3>2, <3>3, <3>4 DEF DataInv
  <2> QED BY <2>20, <2>21 DEF SInv
<1> QED BY <1>3, <1>4 DEF GetFree

LEMMA GetLockSInv ==
  ASSUME SInv, IInv', use' = use, NEW t \in Threads, GetLock(t)
  PROVE  SInv'
<1> DEFINE c == Top(t).c
           n == Len(stack[t])
<1>1. /\ stack[t] # << >> /\ Top(t).op = "open" /\ Top(t).at = "lock"
      /\ MayTake(t, c) /\ Take(t, c) /\ network' = None
      /\ flags' = [flags EXCEPT ![c] = flags[c] \cap (States \cup {"CLOSING"})]
      /\ sock' = [sock EXCEPT ![c] = Zero] /\ told' = [told EXCEPT ![c] = 0]
      /\ GoesWith(t, "socket", c) /\ UNCHANGED <<old, fds>>
  BY DEF GetLock, At, outside, Cleared, Goes
<1>2. IInv /\ CallsInv /\ DataInv /\ Typed BY DEF SInv, DataInv
<1>3. c \in Clients /\ c \in use.clients /\ c \in Mine /\ c # None
  BY <1>1, <1>2, TopIs DEF Held, Mine
<1>4. FitsNow(t, n, Top(t)) /\ Clear(t, n, Top(t)) BY <1>1, <1>2, TopFits
<1>5. "ACTIVE" \in flags[c] /\ sock[c] \notin Fds /\ network = t /\ "CONNECTED" \notin flags[c]
  BY <1>1, <1>4 DEF FitsNow, Fits, Relies
<1> DEFINE f == Onto(t, "socket", c)
<1>6. Onward(t, "socket", c) BY <1>1, <1>3 DEF Onward, Spared, Places, Held
<1>7. /\ f \in Frame /\ f.at = "socket" /\ f.c = c
      /\ FollowsOn(Top(t), n, f) /\ NotBelow(t, f.c)
  BY <1>1, <1>2, <1>6, OnwardFollows
<1>8. stack' = [stack EXCEPT ![t] = Replaced(t, f)] BY <1>1 DEF GoesWith, Onto
<1>9. Unopened(t, c)
  <2>1. Relies(Top(t), n) BY <1>1 DEF Relies
  <2> QED BY <1>2, <1>4, <2>1, NobodyOpens
<1> HIDE DEF c, n, f
<1>10. flags \in [Clients -> SUBSET AllFlags] BY <1>2 DEF IInv, Records
<1>11. /\ flags'[c] = flags[c] \cap (States \cup {"CLOSING"})
       /\ \A d \in Clients \ {c} : flags'[d] = flags[d]
  BY <1>1, <1>3, <1>10
<1>12. sock'[c] = Zero /\ Zero \notin Fds /\ \A d \in Clients \ {c} : sock'[d] = sock[d]
  BY <1>1, <1>2, <1>3, SocketsAssumption DEF Typed
<1>13. Calm
  <2>1. sock' \in [Clients -> Fds \cup {Invalid, Zero}] BY <1>1, <1>2, <1>3 DEF Typed
  <2>2. ASSUME NEW d \in Clients
        PROVE  /\ \A x \in {"ACTIVE", "CLOSED", "AVAILABLE", "CONNECTED"} :
                    x \in flags'[d] <=> x \in flags[d]
               /\ "CLOSING" \in flags[d] => "CLOSING" \in flags'[d]
               /\ sock'[d] = sock[d] \/ {sock[d], sock'[d]} \cap Fds = {}
    <3>1. CASE d = c BY <1>5, <1>11, <1>12, <3>1 DEF States
    <3>2. CASE d # c BY <1>11, <1>12, <3>2
    <3> QED BY <3>1, <3>2
  <2> QED BY <1>1, <1>2, <2>1, <2>2 DEF Calm, Typed
<1>14. ToldLess BY <1>1, <1>2 DEF ToldLess, Typed
<1>15. Told' /\ told' \in [Clients -> Nat] BY <1>2, <1>13, <1>14, CalmTold DEF ToldLess, DataInv
<1>16. NetworkKept(t) BY <1>5 DEF NetworkKept
<1>17. Enters(t, Top(t), f) BY <1>1, <1>7 DEF Enters, Inside
<1>18. NewFits(t, n, f)
  <2>1. FitsNext(t, n, f) BY <1>5, <1>7, <1>11, <1>12 DEF FitsNext, Fits, States
  <2>2. Clear(t, n, f) BY <1>7, <1>9 DEF Clear, Unopened
  <2> QED BY <2>1, <2>2 DEF NewFits
<1> QED BY <1>1, <1>7, <1>8, <1>13, <1>15, <1>16, <1>17, <1>18, CalmGoes DEF n

LEMMA NoSocketSInv ==
  ASSUME SInv, IInv', use' = use, NEW t \in Threads, NoSocket(t)
  PROVE  SInv'
<1> DEFINE c == Top(t).c
<1>1. /\ stack[t] # << >> /\ Top(t).at = "socket" /\ sock' = [sock EXCEPT ![c] = Invalid]
      /\ Leave(c) /\ Returns(t) /\ UNCHANGED <<flags, told, old, network, fds>>
  BY DEF NoSocket, At
<1>2. IInv /\ CallsInv /\ DataInv /\ Typed BY DEF SInv, DataInv
<1>3. c \in Clients BY <1>1, <1>2, TopIs DEF Held
<1>4. FitsNow(t, Len(stack[t]), Top(t)) BY <1>1, <1>2, TopFits
<1>5. sock[c] \notin Fds BY <1>1, <1>4 DEF FitsNow, Fits
<1> HIDE DEF c
<1>6. sock'[c] = Invalid /\ Invalid \notin Fds /\ \A d \in Clients \ {c} : sock'[d] = sock[d]
  BY <1>1, <1>2, <1>3, SocketsAssumption DEF Typed
<1>7. sock' \in [Clients -> Fds \cup {Invalid, Zero}] BY <1>1, <1>2, <1>3 DEF Typed
<1>8. Calm BY <1>1, <1>2, <1>5, <1>6, <1>7 DEF Calm, Typed
<1>9. Quiet(t) BY <1>1, <1>8 DEF Quiet, NetworkKept
<1>10. Enters(t, Top(t), Gone) BY <1>1, GoneOutside DEF Enters, Inside, c
<1> QED BY <1>1, <1>9, <1>10, QuietReturns

(* A call that is the only one of its thread: an opened client, or one that *)
(* a blocking open has given up and removes.                               *)
LEMMA OnlyCall ==
  ASSUME SInv, use' = use, NEW t \in Threads, NEW g \in Frame,
         stack' = [stack EXCEPT ![t] = <<g>>],
         UNCHANGED <<flags, sock, told, old, network, owner, depth, fds>>,
         stack[t] = << >> \/ (Len(stack[t]) = 1 /\ stack[t][1].at \notin Inside),
         g.kind = "block" => use.open = "block",
         \/ g.op = "open" /\ g.at = "getfree"
         \/ g.op = "remove" /\ g.at = "check" /\ g.kind = "silent" /\ use.open = "block"
  PROVE  CallsInv' /\ DataInv'
<1> DEFINE s == <<g>>
<1>1. IInv /\ CallsInv /\ DataInv /\ Typed BY DEF SInv, DataInv
<1>2. s \in Seq(Frame) /\ Len(s) = 1 /\ s[1] = g /\ stack' = [stack EXCEPT ![t] = s] OBVIOUS
<1> HIDE DEF s
<1>3. Proper(s)
  <2> SUFFICES ASSUME NEW i \in 1 .. 1 PROVE Kind(s, i) /\ Apart(s, i)
    BY <1>2 DEF Proper
  <2>1. i = 1 OBVIOUS
  <2> QED BY <1>2, <2>1 DEF Kind, Apart
<1>4. g.at \notin Inside BY DEF Inside
<1>5. ASSUME NEW c \in Clients
      PROVE  Weight(g, c) = 0 /\ Times(s, Len(s), c) = 0 /\ Times(stack[t], Len(stack[t]), c) = 0
  <2>1. ASSUME NEW r, r[1].at \notin Inside PROVE Times(r, 1, c) = 0
    <3>1. Times(r, 0 + 1, c) = Times(r, 0, c) + Weight(r[0 + 1], c) /\ Times(r, 0, c) = 0
      BY TimesStep
    <3>2. Weight(r[1], c) = 0 BY <2>1 DEF Weight, IsIn
    <3> QED BY <3>1, <3>2
  <2>2. Times(s, Len(s), c) = 0 BY <1>2, <1>4, <2>1
  <2>3. Times(stack[t], Len(stack[t]), c) = 0
    <3>1. CASE stack[t] = << >> BY <3>1, TimesStep
    <3>2. CASE Len(stack[t]) = 1 /\ stack[t][1].at \notin Inside BY <2>1, <3>2
    <3> QED BY <3>1, <3>2
  <2> QED BY <1>4, <2>2, <2>3 DEF Weight, IsIn
<1>6. Locked'
  <2>1. Enters(t, g, g) BY DEF Enters
  <2>2. Balanced(t, s, g, g) BY <1>4, <1>5, <2>1 DEF Balanced
  <2> QED BY <1>1, <1>2, <2>2, LockedStep
<1>7. Calm BY <1>1, CalmSame
<1>8. OthersFit(t)
  <2>1. NetworkKept(t) BY DEF NetworkKept
  <2> QED BY <1>1, <1>7, <2>1, CalmBelow
<1>9. \A i \in 1 .. Len(s) : NewFits(t, i, s[i])
  <2>1. NewFits(t, 1, g) BY Carefree DEF Relies
  <2>2. \A i \in 1 .. Len(s) : i = 1 BY <1>2
  <2> QED BY <1>2, <2>1, <2>2
<1>10. CallsInv' BY <1>1, <1>2, <1>3, <1>6, <1>8, <1>9, CallsStep
<1>11. DataInv'
  <2>1. Quiet(t) BY QuietSame DEF NetworkKept
  <2>2. Told' /\ told' \in [Clients -> Nat] BY <2>1, QuietTold
  <2>3. owner' \in [Clients -> Threads \cup {None}] /\ depth' \in [Clients -> Nat]
    BY <1>1 DEF Typed
  <2> QED BY <1>1, <1>7, <2>2, <2>3, CalmData
<1> QED BY <1>10, <1>11

LEMMA WaitFailedSInv ==
  ASSUME SInv, IInv', use' = use, NEW t \in Threads, WaitFailed(t)
  PROVE  SInv'
<1> DEFINE g == Call("remove", "check", Top(t).c, "silent")
<1>1. /\ stack[t] # << >> /\ Top(t).at = "wait" /\ stack' = [stack EXCEPT ![t] = <<g>>]
      /\ UNCHANGED <<flags, sock, told, old, network, owner, depth, fds>>
  BY DEF WaitFailed, At, record, locks, outside
<1>2. IInv /\ CallsInv BY DEF SInv
<1>3. Len(stack[t]) = 1 /\ use.open = "block" /\ Top(t) = stack[t][1]
  <2>1. Kind(stack[t], Len(stack[t])) /\ Top(t) = stack[t][Len(stack[t])]
    BY <1>1, <1>2, TopFits, TopIs
  <2> QED BY <1>1, <2>1 DEF Kind
<1>4. g \in Frame /\ g.op = "remove" /\ g.at = "check" /\ g.kind = "silent"
  <2>1. Top(t).c \in Mine /\ Top(t).c # None BY <1>1, <1>2, TopIs DEF Held, Mine
  <2>2. g \in Frame BY <2>1, CallFrame DEF Ops, Places, Held, Kinds
  <2> QED BY <2>2 DEF Call
<1>5. stack[t][1].at \notin Inside BY <1>1, <1>3 DEF Inside
<1> HIDE DEF g
<1>6. CallsInv' /\ DataInv' BY <1>1, <1>3, <1>4, <1>5, OnlyCall
<1> QED BY <1>6 DEF SInv

LEMMA OpenTCPClientSInv ==
  ASSUME SInv, IInv', use' = use, NEW t \in Threads, OpenTCPClient(t)
  PROVE  SInv'
<1> DEFINE g == [OpenCall EXCEPT !.kind = use.open]
<1>1. /\ stack[t] = << >> /\ stack' = [stack EXCEPT ![t] = <<g>>]
      /\ UNCHANGED <<flags, sock, told, old, network, owner, depth, fds>>
  BY DEF OpenTCPClient, record, locks
<1>2. use.open \in {"async", "block"} BY DEF SInv, IInv
<1>3. g \in Frame /\ g.op = "open" /\ g.at = "getfree" /\ g.kind = use.open
  <2>1. g \in Frame BY <1>2 DEF OpenCall, Call, Frame, Ops, Places, Free, Held, Kinds, Mine
  <2> QED BY <2>1 DEF OpenCall, Call
<1> HIDE DEF g
<1>4. CallsInv' /\ DataInv' BY <1>1, <1>3, OnlyCall
<1> QED BY <1>4 DEF SInv

(* The client has a socket from now on. *)
Given(t, c) ==
  /\ c \in Clients /\ c \in use.clients /\ c \in Mine /\ c # None
  /\ OthersFit(t) /\ BelowFits(t) /\ "ACTIVE" \in flags'[c] /\ Unopened(t, c)
  /\ Told' /\ Sockets' /\ Disconnected'
  /\ sock' \in [Clients -> Fds \cup {Invalid, Zero}] /\ DOMAIN fds' = Fds

LEMMA SocketGiven ==
  ASSUME SInv, use' = use, NEW t \in Threads, stack[t] # << >>, Top(t).at = "socket",
         NEW state \in {"connecting", "failed", "up"}, Opens(Top(t).c, state),
         NEW mark \in {"CONNECTED", "CONNECTING"}, Flag(Top(t).c, {}, {mark}),
         UNCHANGED <<told, old, network>>
  PROVE  Given(t, Top(t).c)
<1> DEFINE c == Top(t).c
           n == Len(stack[t])
<1>1. IInv /\ CallsInv /\ DataInv /\ Typed BY DEF SInv, DataInv
<1>2. c \in Clients /\ c \in use.clients /\ c \in Mine /\ c # None
  BY <1>1, TopIs DEF Held, Mine
<1>3. FitsNow(t, n, Top(t)) /\ Clear(t, n, Top(t)) /\ NotBelow(t, c) BY <1>1, TopFits
<1>4. Relies(Top(t), n) BY DEF Relies
<1>5. "ACTIVE" \in flags[c] /\ sock[c] \notin Fds BY <1>3, <1>4 DEF FitsNow, Fits
<1>6. Unopened(t, c) BY <1>1, <1>3, <1>4, NobodyOpens
<1>7. owner[c] = t BY <1>1, OwnsTop DEF Inside
<1>8. Flag(c, {}, {mark}) /\ Opens(c, state) OBVIOUS
<1> HIDE DEF c, n
<1>9. flags \in [Clients -> SUBSET AllFlags] BY <1>1 DEF IInv, Records
<1>10. /\ flags'[c] = flags[c] \cup {mark}
       /\ \A d \in Clients \ {c} : flags'[d] = flags[d]
  BY <1>2, <1>8, <1>9 DEF Flag
<1>11. \E s \in States : flags[c] \cap States = {s}
  BY <1>1, <1>2, OneState
<1>12. "AVAILABLE" \notin flags[c] /\ "CLOSED" \notin flags[c] BY <1>5, <1>11 DEF States
<1>13. Alone(t, c) /\ Terminable(t, c)
  <2>1. MayTake(t, c) BY <1>7 DEF MayTake
  <2> QED BY <1>1, <1>2, <1>3, <1>6, <1>12, <2>1, AloneOwner, TerminatesNone DEF c
<1>14. \A d \in Clients \ {c} : sock'[d] = sock[d]
  BY <1>1, <1>2, <1>8 DEF Opens, Typed
<1>15. Touches(t, c) BY <1>10, <1>13, <1>14 DEF Touches, Same, NetworkKept
<1>16. OthersFit(t) /\ BelowFits(t) BY <1>1, <1>2, <1>15, Undisturbed
<1>17. /\ Sockets' /\ sock' \in [Clients -> Fds \cup {Invalid, Zero}] /\ DOMAIN fds' = Fds
  <2>1. /\ Sockets /\ sock \in [Clients -> Fds \cup {Invalid, Zero}] /\ DOMAIN fds = Fds
        /\ use \in Uses
    BY <1>1 DEF DataInv, Typed, IInv
  <2>2. state # "free" OBVIOUS
  <2>3. "ACTIVE" \in flags'[c] BY <1>5, <1>10
  <2> QED BY <1>2, <1>5, <1>8, <1>10, <2>1, <2>2, <2>3, SocketOpened
<1>18. Told' BY <1>1, <1>2, <1>10 DEF Told, DataInv
<1>19. Disconnected' BY <1>1, <1>2, <1>10, <1>12 DEF Disconnected, DataInv
<1> QED BY <1>2, <1>5, <1>6, <1>10, <1>16, <1>17, <1>18, <1>19 DEF Given, c

LEMMA AcceptSInv ==
  ASSUME SInv, IInv', use' = use, NEW t \in Threads, Accept(t)
  PROVE  SInv'
<1> DEFINE c == Top(t).c
<1>1. /\ stack[t] # << >> /\ Top(t).op = "open" /\ Top(t).at = "socket"
      /\ Opens(c, "up") /\ Flag(c, {}, {"CONNECTED"}) /\ GoesWith(t, "callback", c)
      /\ UNCHANGED <<told, old, network, owner, depth>>
  BY DEF Accept, At, locks, Goes
<1>2. IInv /\ CallsInv /\ DataInv /\ Typed BY DEF SInv, DataInv
<1>3. Given(t, c) BY <1>1, SocketGiven
<1> DEFINE f == Onto(t, "callback", c)
<1>4. Onward(t, "callback", c) BY <1>1, <1>3 DEF Onward, Spared, Places, Held, Given
<1>5. /\ f \in Frame /\ f.at = "callback" /\ f.c = c
      /\ FollowsOn(Top(t), Len(stack[t]), f) /\ NotBelow(t, f.c)
  BY <1>1, <1>2, <1>4, OnwardFollows
<1>6. stack' = [stack EXCEPT ![t] = Replaced(t, f)] BY <1>1 DEF GoesWith, Onto
<1>7. Enters(t, Top(t), f) BY <1>1, <1>5, EntersNothing DEF Inside
<1> HIDE DEF f
<1>8. NewFits(t, Len(stack[t]), f) BY <1>3, <1>5, Relying DEF Given
<1>9. OthersFit(t) /\ BelowFits(t) BY <1>3 DEF Given
<1>10. CallsInv' BY <1>1, <1>2, <1>5, <1>6, <1>7, <1>8, <1>9, GoesOn
<1>11. Typed' BY <1>1, <1>2, <1>3 DEF Typed, Given
<1> QED BY <1>3, <1>10, <1>11 DEF SInv, DataInv, Given

LEMMA ConnectSInv ==
  ASSUME SInv, IInv', use' = use, NEW t \in Threads, Connect(t)
  PROVE  SInv'
<1> DEFINE c == Top(t).c
           n == Len(stack[t])
<1>1. /\ stack[t] # << >> /\ Top(t).op = "open" /\ Top(t).at = "socket"
      /\ Flag(c, {}, {"CONNECTING"}) /\ UNCHANGED <<told, old, network>>
  BY DEF Connect, At
<1>2. IInv /\ CallsInv /\ DataInv /\ Typed BY DEF SInv, DataInv
<1>3. Given(t, c) BY <1>1, SocketGiven DEF Connect
<1>4. OthersFit(t) /\ BelowFits(t) BY <1>3 DEF Given
<1>5. c \in Clients /\ owner[c] = t /\ depth[c] > 0 BY <1>1, <1>2, OwnsTop DEF Inside
<1>6. ASSUME CallsInv', owner' \in [Clients -> Threads \cup {None}], depth' \in [Clients -> Nat]
      PROVE  SInv'
  <2>1. Typed' BY <1>1, <1>2, <1>3, <1>6 DEF Typed, Given
  <2> QED BY <1>3, <1>6, <2>1 DEF SInv, DataInv, Given
<1>7. CASE Leave(c) /\ (IF Top(t).kind = "block" THEN Goes(t, "wait") ELSE Returns(t))
  <2>1. owner' \in [Clients -> Threads \cup {None}] /\ depth' \in [Clients -> Nat]
    <3>1. Enters(t, Top(t), Gone) BY <1>1, <1>7, GoneOutside DEF Enters, Inside
    <3> QED BY <1>2, <1>5, <3>1, GoneOutside, TypedLocks
  <2>2. CASE Top(t).kind # "block"
    <3>1. Returns(t) BY <1>7, <2>2
    <3>2. Enters(t, Top(t), Gone) BY <1>1, <1>7, GoneOutside DEF Enters, Inside
    <3>3. CallsInv' BY <1>1, <1>2, <1>4, <3>1, <3>2, ReturnsTo
    <3> QED BY <1>6, <2>1, <3>3
  <2>3. CASE Top(t).kind = "block"
    <3> DEFINE f == Onto(t, "wait", c)
    <3>1. f \in Frame /\ f.at = "wait" /\ f.c = c /\ f.op = Top(t).op /\ f.kind = Top(t).kind
      <4>1. "wait" \in Places BY DEF Places, Held
      <4> QED BY <1>1, <1>2, <1>3, <4>1, OntoIs DEF Given
    <3>2. stack' = [stack EXCEPT ![t] = Replaced(t, f)] BY <1>7, <2>3 DEF Goes, GoesWith, Onto
    <3>3. NotBelow(t, f.c) BY <1>1, <1>2, <3>1, TopFits
    <3> HIDE DEF f
    <3>4. FollowsOn(Top(t), n, f) BY <1>1, <2>3, <3>1 DEF FollowsOn
    <3>5. Enters(t, Top(t), f) BY <1>1, <1>7, <3>1 DEF Enters, Inside
    <3>6. NewFits(t, n, f) BY <3>1, Carefree DEF Relies
    <3>7. CallsInv' BY <1>1, <1>2, <1>4, <3>1, <3>2, <3>3, <3>4, <3>5, <3>6, GoesOn DEF n
    <3> QED BY <1>6, <2>1, <3>7
  <2> QED BY <2>2, <2>3
<1>8. CASE /\ Calls(t, "failed", Call("remove", "check", c, "silent"))
           /\ UNCHANGED <<owner, depth>>
  <2> DEFINE f == Onto(t, "failed", c)
             g == Call("remove", "check", c, "silent")
  <2>1. Onward(t, "failed", c) BY <1>1, <1>3 DEF Onward, Spared, Places, Held, Given
  <2>2. /\ f \in Frame /\ f.at = "failed" /\ f.c = c
        /\ FollowsOn(Top(t), n, f) /\ NotBelow(t, f.c)
    BY <1>1, <1>2, <2>1, OnwardFollows
  <2>3. g \in Frame /\ g.op = "remove" /\ g.at = "check" /\ g.c = c /\ g.kind = "silent"
    <3>1. g \in Frame BY <1>3, CallFrame DEF Ops, Places, Held, Kinds, Given
    <3> QED BY <3>1 DEF Call
  <2>4. stack' = [stack EXCEPT ![t] = Append(Replaced(t, f), g)]
    <3>1. f = [Top(t) EXCEPT !.at = "failed"]
      <4>1. Top(t) \in Frame BY <1>1, <1>2, TopIs
      <4> QED BY <4>1 DEF Onto, Frame
    <3> QED BY <1>8, <3>1 DEF Calls
  <2>5. Enters(t, Top(t), f) BY <1>1, <1>8, <2>2, EntersNothing DEF Inside
  <2> HIDE DEF f, g
  <2>6. Pushed(t, f, g) BY <2>2, <2>3 DEF Pushed, IsIn, Inside
  <2>7. NewFits(t, n, f) BY <2>2, Carefree DEF Relies
  <2>8. NewFits(t, n + 1, g) BY <1>3, <2>3, Relying DEF Given
  <2>9. CallsInv'
    BY <1>1, <1>2, <1>4, <2>2, <2>3, <2>4, <2>5, <2>6, <2>7, <2>8, CallsOn DEF n
  <2>10. owner' \in [Clients -> Threads \cup {None}] /\ depth' \in [Clients -> Nat]
    BY <1>2, <1>8 DEF Typed
  <2> QED BY <1>6, <2>9, <2>10
<1> QED BY <1>7, <1>8 DEF Connect

----------------------------------------------------------------------------
(* Removing a client. *)

(* What a call that removes a client, and is not the first of its thread,  *)
(* relies on: its client is active, and of those that can be called twice  *)
(* it is the only one.                                                     *)
LEMMA RemoverIs ==
  ASSUME IInv, CallsInv, NEW t \in Threads, stack[t] # << >>, Top(t).op = "remove"
  PROVE  LET n == Len(stack[t])
         IN  IF n = 1 THEN Top(t).kind = "silent" /\ Top(t).at # "callback"
             ELSE Top(t).at \in {"check", "enter", "close"} => Relies(Top(t), n)
<1> DEFINE n == Len(stack[t])
<1>1. Kind(stack[t], n) /\ Top(t) = stack[t][n] /\ n \in 1 .. n BY TopFits, TopIs
<1>2. n \in Nat BY DEF IInv, Frames
<1> HIDE DEF n
<1>3. n # 1 => n > 1 BY <1>1, <1>2
<1> QED BY <1>1, <1>3 DEF Kind, Relies, n

LEMMA RemoverOwns ==
  ASSUME IInv, CallsInv, NEW t \in Threads
  PROVE  Possessed(t)
<1> DEFINE n == Len(stack[t])
<1> SUFFICES ASSUME At(t, "remove", "check") \/ At(t, "remove", "enter")
             PROVE  owner[Top(t).c] = t
  BY DEF Possessed
<1>1. stack[t] # << >> /\ Top(t).op = "remove" /\ Top(t).at \in {"check", "enter"}
  BY DEF At
<1>2. Kind(stack[t], n) /\ Top(t) = stack[t][n] /\ n \in 1 .. n BY <1>1, TopFits, TopIs
<1>3. n # 1 BY <1>1, <1>2 DEF Kind, IInv
<1>4. Relies(Top(t), n) BY <1>1, <1>3, RemoverIs
<1> QED BY <1>1, <1>2, <1>4, RelyingOwns

LEMMA RemoveCheckSInv ==
  ASSUME SInv, IInv', use' = use, NEW t \in Threads, RemoveCheck(t)
  PROVE  SInv'
<1> DEFINE c == Top(t).c
           n == Len(stack[t])
<1>1. /\ stack[t] # << >> /\ Top(t).op = "remove" /\ Top(t).at = "check"
      /\ UNCHANGED <<sock, told, old, network, owner, depth, fds>>
  BY DEF RemoveCheck, At, locks, outside
<1>2. IInv /\ CallsInv /\ DataInv /\ Typed BY DEF SInv, DataInv
<1>3. c \in Clients /\ c \in use.clients /\ c \in Mine /\ c # None
  BY <1>1, <1>2, TopIs DEF Held, Mine
<1>4. FitsNow(t, n, Top(t)) BY <1>1, <1>2, TopFits
<1>5. \E s \in States : flags[c] \cap States = {s} BY <1>2, <1>3, OneState
<1>6. CASE Flag(c, {}, {"WANTS"}) /\ Goes(t, "enter")
  <2>1. Quiet(t)
    <3>1. ({} \cup {"WANTS"}) \cap {"ACTIVE", "CLOSED", "AVAILABLE", "CONNECTED"} = {} OBVIOUS
    <3> HIDE DEF c
    <3> QED BY <1>1, <1>3, <1>6, <3>1, QuietMarks DEF NetworkKept
  <2>2. Onward(t, "enter", c) BY <1>1, <1>3 DEF Onward, Spared, Places, Held
  <2>3. Onto(t, "enter", c).at = "enter" /\ Onto(t, "enter", c).c = c
    BY <1>1, <1>2, <2>2, OnwardFollows
  <2>4. Enters(t, Top(t), Onto(t, "enter", c)) BY <1>1, <2>3, EntersNothing DEF Inside
  <2>5. Modest(Top(t), n, Onto(t, "enter", c)) BY <1>1, <2>3 DEF Modest, Relies
  <2> QED BY <1>1, <1>6, <2>1, <2>2, <2>4, <2>5, QuietGoes DEF Goes, Unburdened
<1>7. CASE /\ Closes(t)
           /\ ~(sock[c] # Invalid /\ "ACTIVE" \in flags[c])
           /\ \/ MoveTo(c, "AVAILABLE", flags[c]) /\ "AVAILABLE" \in flags[c]
              \/ flags' = flags
  <2>1. Returns(t)
    <3>1. CASE n = 1
      <4>1. Top(t).kind = "silent" BY <1>1, <1>2, <3>1, RemoverIs
      <4> QED BY <1>7, <4>1 DEF Closes
    <3>2. CASE n # 1
      <4>1. Relies(Top(t), n) BY <1>1, <1>2, <3>2, RemoverIs
      <4>2. "ACTIVE" \in flags[c] BY <1>4, <4>1 DEF FitsNow, Fits
      <4>3. "CLOSED" \notin flags[c] BY <1>5, <4>2 DEF States
      <4> QED BY <1>7, <4>3 DEF Closes
    <3> QED BY <3>1, <3>2
  <2>2. \A d \in Clients, x \in AllFlags : x \in flags'[d] <=> x \in flags[d]
    <3>1. CASE flags' = flags BY <3>1
    <3>2. CASE MoveTo(c, "AVAILABLE", flags[c]) /\ "AVAILABLE" \in flags[c]
      <4>1. flags \in [Clients -> SUBSET AllFlags] BY <1>2 DEF IInv, Records
      <4>2. (flags[c] \ States) \cup {"AVAILABLE"} = flags[c] BY <1>5, <3>2 DEF States
      <4>3. flags' = [flags EXCEPT ![c] = flags[c]] BY <3>2, <4>2 DEF MoveTo
      <4> QED BY <4>1, <4>3
    <3> QED BY <1>7, <3>1, <3>2
  <2>3. {"ACTIVE", "CLOSED", "AVAILABLE", "CONNECTED", "CLOSING"} \subseteq AllFlags
    BY DEF AllFlags, States
  <2>4. Calm BY <1>1, <1>2, <2>2, <2>3 DEF Calm, Typed
  <2>5. Quiet(t) BY <1>1, <2>4 DEF Quiet, NetworkKept
  <2>6. Enters(t, Top(t), Gone) BY <1>1, GoneOutside, EntersNothing DEF Inside
  <2> QED BY <1>1, <2>1, <2>5, <2>6, QuietReturns
<1>8. CASE sock[c] # Invalid /\ "ACTIVE" \in flags[c]
  <2>0. owner[c] = t BY <1>2, RemoverOwns DEF RemoveCheck, Possessed
  <2>1. Flag(c, {}, {"WANTS"}) /\ Goes(t, "enter") BY <1>8, <2>0 DEF RemoveCheck
  <2> QED BY <1>6, <2>1
<1>9. CASE ~(sock[c] # Invalid /\ "ACTIVE" \in flags[c])
  <2>1. /\ Closes(t)
        /\ \/ MoveTo(c, "AVAILABLE", flags[c]) /\ "AVAILABLE" \in flags[c]
           \/ flags' = flags
    BY <1>9 DEF RemoveCheck
  <2> QED BY <1>7, <1>9, <2>1
<1> QED BY <1>8, <1>9

LEMMA RemoveEntersSInv ==
  ASSUME SInv, IInv', use' = use, NEW t \in Threads, RemoveEnters(t)
  PROVE  SInv'
<1> DEFINE c == Top(t).c
           n == Len(stack[t])
           at == IF Tells(t) THEN "callback" ELSE "close"
           plus == IF Notifies(t) THEN {"CLOSING"} ELSE {}
<1>1. /\ stack[t] # << >> /\ Top(t).op = "remove" /\ Top(t).at = "enter"
      /\ MayTake(t, c) /\ Take(t, c) /\ Flag(c, {"WANTS"}, plus)
      /\ told' = [told EXCEPT ![c] = IF Tells(t) THEN @ + 1 ELSE @]
      /\ GoesWith(t, at, c) /\ UNCHANGED <<sock, old, network, fds>>
  BY DEF RemoveEnters, RemoveEntered, At, outside, Goes
<1>2. IInv /\ CallsInv /\ DataInv /\ Typed BY DEF SInv, DataInv
<1>3. c \in Clients /\ c \in use.clients /\ c \in Mine /\ c # None
  BY <1>1, <1>2, TopIs DEF Held, Mine
<1>4. at \in {"callback", "close"} /\ (at = "callback" => Tells(t) /\ Top(t).kind # "silent")
  BY DEF Tells, Notifies
<1>5. Calm
  <2>1. ({"WANTS"} \cup plus) \cap {"ACTIVE", "CLOSED", "AVAILABLE", "CONNECTED"} = {} OBVIOUS
  <2> HIDE DEF c, plus
  <2> QED BY <1>1, <1>2, <1>3, <2>1, CalmMarks
<1>6. Told' /\ told' \in [Clients -> Nat]
  <2>1. \A d \in Clients \ {c} : told'[d] = told[d] BY <1>1
  <2>2. told'[c] = IF Tells(t) THEN told[c] + 1 ELSE told[c] BY <1>1, <1>2, <1>3 DEF Typed
  <2>3. told' \in [Clients -> Nat] BY <1>1, <1>2, <1>3 DEF Typed
  <2>4. ASSUME NEW d \in Clients \ {c}
        PROVE  told'[d] <= 1 /\ (told'[d] = 1 => "CLOSING" \in flags'[d])
    BY <1>2, <1>5, <2>1 DEF DataInv, Told, Calm
  <2>5. told'[c] <= 1 /\ (told'[c] = 1 => "CLOSING" \in flags'[c])
    <3>1. CASE ~Tells(t) BY <1>2, <1>3, <1>5, <2>2, <3>1 DEF DataInv, Told, Calm
    <3>2. CASE Tells(t)
      <4>1. "CLOSING" \notin flags[c] /\ Notifies(t) BY <3>2 DEF Tells, Notifies
      <4>2. told[c] = 0
        <5>1. told[c] \in Nat /\ told[c] <= 1 /\ told[c] # 1
          BY <1>2, <1>3, <4>1 DEF DataInv, Told, Typed
        <5> QED BY <5>1
      <4>3. flags \in [Clients -> SUBSET AllFlags] BY <1>2 DEF IInv, Records
      <4>4. "CLOSING" \in flags'[c] BY <1>1, <1>3, <4>1, <4>3 DEF Flag
      <4> QED BY <2>2, <3>2, <4>2, <4>4
    <3> QED BY <3>1, <3>2
  <2> QED BY <2>3, <2>4, <2>5 DEF Told
<1> DEFINE f == Onto(t, at, c)
<1> HIDE DEF at
<1>7. Onward(t, at, c) BY <1>1, <1>3, <1>4 DEF Onward, Spared, Places, Held
<1>8. /\ f \in Frame /\ f.at = at /\ f.c = c
      /\ FollowsOn(Top(t), n, f) /\ NotBelow(t, f.c)
  BY <1>1, <1>2, <1>7, OnwardFollows
<1>9. stack' = [stack EXCEPT ![t] = Replaced(t, f)] BY <1>1 DEF GoesWith, Onto
<1>10. Enters(t, Top(t), f) BY <1>1, <1>4, <1>8 DEF Enters, Inside
<1>11. Modest(Top(t), n, f)
  <2>1. n = 1 => Top(t).kind = "silent" BY <1>1, <1>2, RemoverIs
  <2>2. n # 1 => Relies(Top(t), n) BY <1>1, <1>2, RemoverIs
  <2>3. n = 1 => ~Relies(f, n) BY <1>4, <1>8, <2>1 DEF Relies
  <2> QED BY <1>4, <1>8, <2>2, <2>3 DEF Modest
<1> HIDE DEF f
<1>12. NewFits(t, n, f) BY <1>1, <1>2, <1>5, <1>11, ModestFits
<1>13. NetworkKept(t) BY <1>1 DEF NetworkKept
<1> QED BY <1>1, <1>5, <1>6, <1>8, <1>9, <1>10, <1>12, <1>13, CalmGoes

(* Nobody but t looks at c any more, if it did. *)
LEMMA RemoveClosesSInv ==
  ASSUME SInv, IInv', use' = use, NEW t \in Threads, RemoveCloses(t)
  PROVE  SInv'
<1> DEFINE c == Top(t).c
           n == Len(stack[t])
<1>1. /\ stack[t] # << >> /\ Top(t).op = "remove" /\ Top(t).at \in {"close", "callback"}
      /\ network = None /\ MoveTo(c, "CLOSED", flags[c]) /\ old' = [old EXCEPT ![c] = FALSE]
      /\ Leave(c) /\ (IF Top(t).kind = "close" THEN Goes(t, "terminate") ELSE Returns(t))
      /\ UNCHANGED <<sock, told, network, fds>>
  BY DEF RemoveCloses, At, outside
<1>2. IInv /\ CallsInv /\ DataInv /\ Typed BY DEF SInv, DataInv
<1>3. c \in Clients /\ c \in use.clients /\ c \in Mine /\ c # None
  BY <1>1, <1>2, TopIs DEF Held, Mine
<1>4. owner[c] = t /\ depth[c] > 0 BY <1>1, <1>2, OwnsTop DEF Inside
<1>5. Top(t).kind = "close" => n > 1
  <2>1. n = 1 => Top(t).kind = "silent" BY <1>1, <1>2, RemoverIs
  <2>2. n \in Nat /\ n # 0 BY <1>1, <1>2 DEF IInv, Frames
  <2> HIDE DEF n
  <2>3. n # 1 => n > 1 BY <2>2
  <2> QED BY <2>1, <2>3
<1>6. NotBelow(t, c) BY <1>1, <1>2, TopFits
<1>7. flags \in [Clients -> SUBSET AllFlags] BY <1>2 DEF IInv, Records
<1> HIDE DEF c, n
<1>8. /\ flags'[c] = (flags[c] \ States) \cup {"CLOSED"}
      /\ \A d \in Clients \ {c} : flags'[d] = flags[d]
  BY <1>1, <1>3, <1>7 DEF MoveTo
<1>9. ~old'[c] /\ \A d \in Clients \ {c} : old'[d] = old[d] BY <1>1, <1>2, <1>3 DEF Typed
<1>10. OthersFit(t) /\ BelowFits(t)
  <2>1. Unopened(t, c) BY <1>1, <1>2, NobodyOpens
  <2>2. MayTake(t, c) BY <1>4 DEF MayTake
  <2>3. Alone(t, c) BY <1>2, <1>3, <1>6, <2>1, <2>2, AloneOwner
  <2>4. Terminable(t, c) BY <1>8, <1>9 DEF Terminable
  <2>5. Touches(t, c) BY <1>1, <1>8, <1>9, <2>3, <2>4 DEF Touches, Same, NetworkKept
  <2> QED BY <1>2, <1>3, <2>5, Undisturbed
<1>11. DataInv'
  <2>1. Enters(t, Top(t), Gone) BY <1>1, GoneOutside DEF Enters, Inside, c
  <2>2. owner' \in [Clients -> Threads \cup {None}] /\ depth' \in [Clients -> Nat]
    BY <1>2, <1>3, <1>4, <2>1, GoneOutside, TypedLocks DEF c
  <2>3. Typed' BY <1>1, <1>2, <2>2 DEF Typed
  <2>4. Told' BY <1>1, <1>2, <1>3, <1>8 DEF DataInv, Told, States
  <2>5. Sockets'
    <3>1. \A d \in Clients \ {c} : Same(d) BY <1>1, <1>8, <1>9 DEF Same
    <3> QED BY <1>1, <1>2, <1>3, <1>8, <3>1, SocketsSame DEF DataInv
  <2>6. Disconnected' BY <1>2, <1>8 DEF DataInv, Disconnected, States
  <2> QED BY <2>3, <2>4, <2>5, <2>6 DEF DataInv
<1>12. CASE Top(t).kind # "close"
  <2>1. Returns(t) BY <1>1, <1>12
  <2>2. Enters(t, Top(t), Gone) BY <1>1, GoneOutside DEF Enters, Inside, c
  <2>3. CallsInv' BY <1>1, <1>2, <1>10, <2>1, <2>2, ReturnsTo
  <2> QED BY <1>11, <2>3 DEF SInv
<1>13. CASE Top(t).kind = "close"
  <2> DEFINE f == Onto(t, "terminate", c)
  <2>1. Onward(t, "terminate", c) BY <1>1, <1>3 DEF Onward, Spared, Places, Held, c
  <2>2. /\ f \in Frame /\ f.at = "terminate" /\ f.c = c
        /\ FollowsOn(Top(t), n, f) /\ NotBelow(t, f.c)
    BY <1>1, <1>2, <2>1, OnwardFollows DEF n
  <2>3. stack' = [stack EXCEPT ![t] = Replaced(t, f)]
    BY <1>1, <1>13 DEF Goes, GoesWith, Onto, c
  <2> HIDE DEF f
  <2>4. Enters(t, Top(t), f) BY <1>1, <2>2 DEF Enters, Inside, c
  <2>5. NewFits(t, n, f)
    BY <1>5, <1>8, <1>9, <1>13, <2>2 DEF NewFits, FitsNext, Fits, Clear, Relies
  <2>6. CallsInv' BY <1>1, <1>2, <1>10, <2>2, <2>3, <2>4, <2>5, GoesOn DEF n
  <2> QED BY <1>11, <2>6 DEF SInv
<1> QED BY <1>12, <1>13

(* The socket of a closed client is closed, and the client available. *)
LEMMA TerminatedData ==
  ASSUME SInv, use' = use, NEW c \in use.clients, Terminated(c), UNCHANGED <<owner, depth>>
  PROVE  /\ DataInv'
         /\ \A d \in Clients \ {c} : Same(d)
<1>1. IInv /\ DataInv /\ Typed BY DEF SInv, DataInv
<1>2. c \in Clients BY <1>1 DEF IInv
<1>3. flags \in [Clients -> SUBSET AllFlags] BY <1>1 DEF IInv, Records
<1>4. flags'[c] = {"AVAILABLE"} /\ \A d \in Clients \ {c} : flags'[d] = flags[d]
  BY <1>2, <1>3 DEF Terminated, MoveTo, States
<1>5. /\ told' \in [Clients -> Nat] /\ told'[c] = 0 /\ \A d \in Clients \ {c} : told'[d] = told[d]
      /\ DOMAIN old' = Clients /\ \A d \in Clients \ {c} : old'[d] = old[d]
      /\ \A d \in Clients \ {c} : sock'[d] = sock[d]
  BY <1>1, <1>2 DEF Terminated, Typed
<1>6. Sockets' /\ sock' \in [Clients -> Fds \cup {Invalid, Zero}] /\ DOMAIN fds' = Fds
  <2>1. /\ Sockets /\ sock \in [Clients -> Fds \cup {Invalid, Zero}] /\ DOMAIN fds = Fds
        /\ Closed(c) /\ sock' = [sock EXCEPT ![c] = Zero]
    BY <1>1 DEF DataInv, Typed, Terminated
  <2> QED BY <1>2, <1>4, <2>1, SocketClosed
<1>7. Typed' BY <1>1, <1>5, <1>6 DEF Typed
<1>8. Told' BY <1>1, <1>2, <1>4, <1>5 DEF DataInv, Told
<1>9. Disconnected' BY <1>1, <1>4 DEF DataInv, Disconnected
<1>10. \A d \in Clients \ {c} : Same(d) BY <1>4, <1>5 DEF Same
<1> QED BY <1>6, <1>7, <1>8, <1>9, <1>10 DEF DataInv

LEMMA TerminateSInv ==
  ASSUME SInv, IInv', use' = use, NEW t \in Threads, Terminate(t)
  PROVE  SInv'
<1> DEFINE c == Top(t).c
<1>1. /\ stack[t] # << >> /\ Top(t).op = "remove" /\ Top(t).at = "terminate"
      /\ Terminated(c) /\ Returns(t) /\ UNCHANGED <<owner, depth, network>>
  BY DEF Terminate, At, locks
<1>2. IInv /\ CallsInv /\ DataInv /\ Typed BY DEF SInv, DataInv
<1>3. c \in Clients /\ c \in use.clients BY <1>1, <1>2, TopIs DEF Held
<1>4. DataInv' /\ \A d \in Clients \ {c} : Same(d) BY <1>1, <1>3, TerminatedData
<1>5. FitsNow(t, Len(stack[t]), Top(t)) BY <1>1, <1>2, TopFits
<1>6. "ACTIVE" \notin flags[c]
  <2>1. \E s \in States : flags[c] \cap States = {s} BY <1>2, <1>3, OneState
  <2>2. "CLOSED" \in flags[c] BY <1>1, <1>5 DEF FitsNow, Fits
  <2> QED BY <2>1, <2>2 DEF States
<1>7. Terminable(t, c) BY <1>1, <1>2, TerminatesOne
<1>8. Enters(t, Top(t), Gone) BY <1>1, GoneOutside, EntersNothing DEF Inside
<1> HIDE DEF c
<1>9. Alone(t, c) BY <1>2, <1>6, AloneInactive
<1>10. Touches(t, c) BY <1>1, <1>4, <1>7, <1>9 DEF Touches, NetworkKept
<1>11. OthersFit(t) /\ BelowFits(t) BY <1>2, <1>3, <1>10, Undisturbed
<1>12. CallsInv' BY <1>1, <1>2, <1>8, <1>11, ReturnsTo
<1> QED BY <1>4, <1>12 DEF SInv

(* No call of a thread goes on. *)
LEMMA CallsStay ==
  ASSUME IInv, CallsInv, use' = use, UNCHANGED <<stack, owner, depth>>,
         \A u \in Threads : \A i \in 1 .. Len(stack[u]) : FitsNext(u, i, stack[u][i])
  PROVE  CallsInv'
<1>1. \A u \in Threads : Proper(stack[u])' BY DEF CallsInv, Proper, Kind, Apart
<1>2. Locked' BY DEF CallsInv, Locked
<1>3. ASSUME NEW u \in Threads, NEW i \in 1 .. Len(stack'[u])
      PROVE  FitsNow(u, i, stack[u][i])' /\ Clear(u, i, stack[u][i])'
  <2>1. FitsNow(u, i, stack[u][i])' BY DEF FitsNow, FitsNext
  <2>2. Clear(u, i, stack[u][i]) BY DEF CallsInv
  <2>3. Clear(u, i, stack[u][i])' BY <2>2 DEF Clear
  <2> QED BY <2>1, <2>3
<1> QED BY <1>1, <1>2, <1>3 DEF CallsInv

LEMMA QuietStays ==
  ASSUME SInv, IInv', use' = use, UNCHANGED <<stack, network, owner, depth, told>>, Calm
  PROVE  SInv'
<1>1. IInv /\ CallsInv /\ DataInv /\ Typed BY DEF SInv, DataInv
<1>2. ASSUME NEW u \in Threads, NEW i \in 1 .. Len(stack[u]) PROVE FitsNext(u, i, stack[u][i])
  <2>1. stack[u][i].at = "lock" => network' = u BY <1>1, Waits
  <2> QED BY <1>1, <2>1, CalmFits
<1>3. CallsInv' BY <1>1, <1>2, CallsStay
<1>4. DataInv'
  <2>1. ToldLess BY <1>1 DEF ToldLess, Typed
  <2>2. Told' /\ told' \in [Clients -> Nat] BY <1>1, <2>1, CalmTold DEF DataInv, ToldLess
  <2>3. owner' \in [Clients -> Threads \cup {None}] /\ depth' \in [Clients -> Nat]
    BY <1>1 DEF Typed
  <2> QED BY <1>1, <2>2, <2>3, CalmData
<1> QED BY <1>3, <1>4 DEF SInv

----------------------------------------------------------------------------
(* The callbacks of the application. *)

LEMMA CallbackSInv ==
  ASSUME SInv, IInv', use' = use, NEW t \in Threads, CallbackStep(t)
  PROVE  SInv'
<1> DEFINE c == Top(t).c
           n == Len(stack[t])
<1>1. /\ stack[t] # << >> /\ Top(t).at \in {"callback", "closed"}
      /\ UNCHANGED <<sock, told, old, network, owner, depth, fds>>
  BY DEF CallbackStep, ReadCloses, CallbackOpens, ReadReturns, InRead, At, locks, record, outside
<1>2. IInv /\ CallsInv /\ DataInv /\ Typed BY DEF SInv, DataInv
<1>3. c \in Clients /\ c \in use.clients /\ c \in Mine /\ c # None
  BY <1>1, <1>2, TopIs DEF Held, Mine
<1>4. FitsNow(t, n, Top(t)) /\ Clear(t, n, Top(t)) /\ NotBelow(t, c) BY <1>1, <1>2, TopFits
<1>5. \A at : Onto(t, at, c) = [Top(t) EXCEPT !.at = at]
  <2>1. Top(t) \in Frame BY <1>1, <1>2, TopIs
  <2> QED BY <2>1 DEF Onto, Frame
<1>6. CASE ReadCloses(t)
  <2> DEFINE f == Onto(t, "closed", c)
             g == Call("remove", "check", c, "close")
  <2>1. Top(t).op # "remove" /\ Top(t).at = "callback" /\ flags' = flags
    BY <1>6 DEF ReadCloses, InRead, record
  <2>2. Onward(t, "closed", c) BY <1>3, <2>1 DEF Onward, Spared, Places, Held
  <2>3. f.at = "closed" /\ f.c = c BY <1>1, <1>2, <2>2, OnwardFollows
  <2>4. g \in Frame /\ g.op = "remove" /\ g.at = "check" /\ g.c = c /\ g.kind = "close"
    <3>1. g \in Frame BY <1>3, CallFrame DEF Ops, Places, Held, Kinds
    <3> QED BY <3>1 DEF Call
  <2>5. stack' = [stack EXCEPT ![t] = Append(Replaced(t, f), g)]
    BY <1>5, <1>6 DEF ReadCloses, Calls
  <2>6. Quiet(t) BY <1>1, <2>1, QuietSame DEF NetworkKept
  <2>7. Enters(t, Top(t), f) BY <1>1, <2>1, <2>3, EntersNothing DEF Inside
  <2>8. Unburdened(t, "closed", c) BY <2>3 DEF Unburdened, Modest, Relies
  <2>9. Pushed(t, f, g)
    <3> HIDE DEF f, g, c
    <3> QED BY <1>4, <2>3, <2>4 DEF Pushed, IsIn, Inside
  <2>10. NewFits(t, n + 1, g)
    <3>1. Relies(Top(t), n) BY <2>1 DEF Relies
    <3>2. "ACTIVE" \in flags'[c] BY <1>4, <2>1, <3>1 DEF FitsNow, Fits
    <3>3. Unopened(t, c) BY <1>2, <1>4, <3>1, NobodyOpens
    <3> HIDE DEF g
    <3> QED BY <2>4, <3>2, <3>3, Relying
  <2> HIDE DEF g
  <2> QED BY <1>1, <2>2, <2>4, <2>5, <2>6, <2>7, <2>8, <2>9, <2>10, QuietCalls
<1>7. CASE CallbackOpens(t)
  <2> DEFINE at == Top(t).at
             f == Onto(t, at, c)
             g == OpenCall
  <2>1. flags' = flags BY <1>7 DEF CallbackOpens, record
  <2>2. Onward(t, at, c) BY <1>1, <1>3 DEF Onward, Spared, Places, Held
  <2>3. f.at = at /\ f.c = c BY <1>1, <1>2, <2>2, OnwardFollows
  <2>4. g \in Frame /\ g.op = "open" /\ g.at = "getfree" /\ g.c = None /\ g.kind = "async"
    <3>1. g \in Frame BY CallFrame DEF OpenCall, Ops, Places, Free, Held, Kinds, Mine
    <3> QED BY <3>1 DEF OpenCall, Call
  <2>5. stack' = [stack EXCEPT ![t] = Append(Replaced(t, f), g)]
    BY <1>5, <1>7 DEF CallbackOpens, Calls
  <2>6. Quiet(t) BY <1>1, <2>1, QuietSame DEF NetworkKept
  <2>7. Enters(t, Top(t), f) BY <1>1, <2>3, EntersNothing DEF Inside
  <2>8. Unburdened(t, at, c) BY <1>1, <2>3 DEF Unburdened, Modest, Relies
  <2> HIDE DEF at, g
  <2>9. Pushed(t, f, g)
    <3>1. at \in {"callback", "closed"} BY <1>1 DEF at
    <3> HIDE DEF f
    <3> QED BY <2>3, <2>4, <3>1 DEF Pushed
  <2>10. NewFits(t, n + 1, g) BY <2>4, Carefree DEF Relies
  <2> QED BY <1>1, <2>2, <2>4, <2>5, <2>6, <2>7, <2>8, <2>9, <2>10, QuietCalls
<1>8. CASE ReadReturns(t)
  <2>1. Top(t).op # "remove" /\ GoesWith(t, "leave", c) BY <1>8 DEF ReadReturns, InRead, Goes
  <2>2. Quiet(t)
    <3>1. CASE flags' = flags BY <1>1, <3>1, QuietSame DEF NetworkKept
    <3>2. CASE Flag(c, {}, {"READPENDING"})
      <4>1. ({} \cup {"READPENDING"}) \cap {"ACTIVE", "CLOSED", "AVAILABLE", "CONNECTED"} = {}
        OBVIOUS
      <4> HIDE DEF c
      <4> QED BY <1>1, <1>3, <3>2, <4>1, QuietMarks DEF NetworkKept
    <3> QED BY <1>8, <3>1, <3>2 DEF ReadReturns
  <2>3. Onward(t, "leave", c) BY <1>3, <2>1 DEF Onward, Spared, Places, Held
  <2>4. Onto(t, "leave", c).at = "leave" /\ Onto(t, "leave", c).c = c
    BY <1>1, <1>2, <2>3, OnwardFollows
  <2>5. Enters(t, Top(t), Onto(t, "leave", c)) BY <1>1, <2>4, EntersNothing DEF Inside
  <2>6. Unburdened(t, "leave", c) BY <2>4 DEF Unburdened, Modest, Relies
  <2> QED BY <1>1, <2>1, <2>2, <2>3, <2>5, <2>6, QuietGoes
<1> QED BY <1>6, <1>7, <1>8 DEF CallbackStep

(* Another place of the loop of a thread, outside of every section. *)
LEMMA LoopGoes ==
  ASSUME SInv, IInv', use' = use, NEW t \in Threads, stack[t] # << >>,
         Top(t).op \in {"net", "timer"}, NEW at \in Free, NEW c \in Mine, GoesWith(t, at, c),
         Quiet(t),
         \/ UNCHANGED <<owner, depth>> /\ Top(t).at \notin Inside
         \/ Leave(Top(t).c) /\ Top(t).at \in Inside
  PROVE  SInv'
<1>1. at \in Places /\ at \notin Held /\ at \notin Inside
      /\ at \notin {"wait", "check", "enter", "terminate", "lock", "socket"}
  BY DEF Free, Places, Held, Inside
<1>2. Onward(t, at, c) BY <1>1 DEF Onward, Spared
<1>3. Onto(t, at, c).at = at BY <1>2, OnwardFollows DEF SInv
<1>4. Enters(t, Top(t), Onto(t, at, c)) BY <1>1, <1>3, EntersNothing DEF Enters
<1>5. Unburdened(t, at, c)
  <2>1. ~Relies(Onto(t, at, c), Len(stack[t])) BY <1>1, <1>3 DEF Relies, Held
  <2> QED BY <1>1, <1>3, <2>1 DEF Unburdened, Modest
<1> QED BY <1>2, <1>4, <1>5, QuietGoes

(* FinishPendingRead, with the section of an active client taken. *)
LEMMA FinishReadsSInv ==
  ASSUME SInv, IInv', use' = use, NEW t \in Threads, stack[t] # << >>,
         Top(t).op \in {"net", "timer"}, Top(t).at \notin Inside,
         NEW c \in use.clients, "ACTIVE" \in flags[c], MayTake(t, c), Take(t, c),
         NEW kind \in {"close", "reset"}, FinishPendingRead(t, c, kind),
         NetworkKept(t), UNCHANGED <<sock, told, old, fds>>
  PROVE  SInv'
<1>1. IInv /\ CallsInv /\ DataInv /\ Typed BY DEF SInv, DataInv
<1>2. c \in Clients /\ c \in Mine /\ c # None BY <1>1 DEF IInv, Mine
<1>3. ASSUME NEW at \in {"leave", "callback"}
      PROVE  /\ Onward(t, at, c) /\ Onto(t, at, c).at = at /\ Onto(t, at, c).c = c
             /\ Enters(t, Top(t), Onto(t, at, c))
  <2>1. Onward(t, at, c) BY <1>2 DEF Onward, Spared, Places, Held
  <2>2. Onto(t, at, c).at = at /\ Onto(t, at, c).c = c BY <1>1, <2>1, OnwardFollows
  <2> QED BY <2>1, <2>2 DEF Enters, Inside
<1>4. CASE GoesWith(t, "leave", c) /\ UNCHANGED flags
  <2>1. Quiet(t) BY <1>4, QuietSame
  <2>2. Unburdened(t, "leave", c) BY <1>3 DEF Unburdened, Modest, Relies
  <2> QED BY <1>3, <1>4, <2>1, <2>2, QuietGoes
<1>5. ASSUME "CONNECTED" \in flags[c] PROVE Unopened(t, c)
  BY <1>1, <1>2, <1>5, NobodyOpens
<1>6. CASE /\ "CONNECTED" \in flags[c] /\ Flag(c, {"READPENDING"}, {})
           /\ GoesWith(t, "callback", c)
  <2>1. Quiet(t)
    <3>1. ({"READPENDING"} \cup {}) \cap {"ACTIVE", "CLOSED", "AVAILABLE", "CONNECTED"} = {}
          /\ "CLOSING" \notin {"READPENDING"}
      OBVIOUS
    <3> QED BY <1>2, <1>6, <3>1, QuietMarks
  <2>2. "ACTIVE" \in flags'[c] BY <1>2, <2>1 DEF Quiet, Calm
  <2>3. Unopened(t, c) BY <1>5, <1>6
  <2>4. Unburdened(t, "callback", c) BY <2>2, <2>3 DEF Unburdened
  <2> QED BY <1>3, <1>6, <2>1, <2>4, QuietGoes
<1>7. CASE /\ "CONNECTED" \in flags[c] /\ UNCHANGED flags
           /\ stack' = [stack EXCEPT ![t] = Append(Replaced(t, [Top(t) EXCEPT !.at = "leave", !.c = c]),
                                                  Call("remove", "check", c, kind))]
  <2> DEFINE f == Onto(t, "leave", c)
             g == Call("remove", "check", c, kind)
  <2>1. Quiet(t) BY <1>7, QuietSame
  <2>2. Unburdened(t, "leave", c) BY <1>3 DEF Unburdened, Modest, Relies
  <2>3. g \in Frame /\ g.op = "remove" /\ g.at = "check" /\ g.c = c /\ g.kind = kind
    <3>1. g \in Frame BY <1>2, CallFrame DEF Ops, Places, Held, Kinds
    <3> QED BY <3>1 DEF Call
  <2>4. stack' = [stack EXCEPT ![t] = Append(Replaced(t, f), g)] BY <1>7 DEF Onto
  <2>5. f.at = "leave" /\ f.c = c /\ Onward(t, "leave", c) /\ Enters(t, Top(t), f) BY <1>3
  <2>6. NotBelow(t, c) BY <1>1, NothingBelow DEF Spared
  <2> HIDE DEF g
  <2>7. Pushed(t, f, g)
    <3> HIDE DEF f
    <3> QED BY <2>3, <2>5, <2>6 DEF Pushed, IsIn, Inside
  <2>8. NewFits(t, Len(stack[t]) + 1, g)
    <3>1. "ACTIVE" \in flags'[g.c] BY <1>7, <2>3
    <3>2. Unopened(t, g.c) BY <1>5, <1>7, <2>3
    <3> QED BY <2>3, <3>1, <3>2, Relying
  <2> QED BY <2>1, <2>2, <2>3, <2>4, <2>5, <2>7, <2>8, QuietCalls
<1> QED BY <1>4, <1>6, <1>7 DEF FinishPendingRead

----------------------------------------------------------------------------
(* The network thread. *)

LEMMA NetQuietSInv ==
  ASSUME SInv, IInv', use' = use, Build \/ WakeUp \/ Select \/ EventDone
  PROVE  SInv'
<1>1. /\ Net \in Threads /\ stack[Net] # << >> /\ Top(Net).op = "net"
      /\ Top(Net).at \in {"build", "asleep", "select", "leave"}
      /\ UNCHANGED <<flags, sock, told, old, network, fds>>
  BY DEF Build, WakeUp, Select, EventDone, At, Threads, record, locks, outside
<1>2. Quiet(Net) BY <1>1, QuietSame DEF NetworkKept
<1>3. Top(Net).c \in Mine /\ None \in Mine
  <2>1. Top(Net) \in Frame BY <1>1, TopIs DEF SInv
  <2> QED BY <2>1 DEF Frame, Mine
<1>4. PICK at \in Free, c \in Mine : GoesWith(Net, at, c)
  BY <1>3 DEF Build, WakeUp, Select, EventDone, Rebuilds, Goes, Free
<1>5. \/ UNCHANGED <<owner, depth>> /\ Top(Net).at \notin Inside
      \/ Leave(Top(Net).c) /\ Top(Net).at \in Inside
  BY DEF Build, WakeUp, Select, EventDone, At, locks, Inside
<1> QED BY <1>1, <1>2, <1>4, <1>5, LoopGoes

LEMMA AcceptClientSInv ==
  ASSUME SInv, IInv', use' = use, AcceptClient
  PROVE  SInv'
<1> DEFINE at == IF cnt = 1 THEN "build" ELSE "scan"
           c == Top(Net).c
           f == Onto(Net, at, c)
           g == [OpenCall EXCEPT !.kind = "accept"]
<1>1. /\ Net \in Threads /\ stack[Net] # << >> /\ Top(Net).op = "net" /\ Top(Net).at = "scan"
      /\ UNCHANGED <<flags, sock, told, old, network, owner, depth, fds>>
      /\ stack' = [stack EXCEPT ![Net] = Append(Replaced(Net, [Top(Net) EXCEPT !.at = at]), g)]
  BY DEF AcceptClient, At, Threads, record, locks, outside, Calls
<1>2. at \in {"build", "scan"} OBVIOUS
<1>3. IInv /\ CallsInv BY DEF SInv
<1>4. Quiet(Net) BY <1>1, QuietSame DEF NetworkKept
<1>5. Top(Net) \in Frame /\ c \in Mine
  <2>1. Top(Net) \in Frame BY <1>1, <1>3, TopIs
  <2> QED BY <2>1 DEF Frame
<1>6. g \in Frame /\ g.op = "open" /\ g.at = "getfree" /\ g.c = None /\ g.kind = "accept"
  <2>1. g \in Frame BY DEF OpenCall, Call, Frame, Ops, Places, Free, Held, Kinds, Mine
  <2> QED BY <2>1 DEF OpenCall, Call
<1>7. stack' = [stack EXCEPT ![Net] = Append(Replaced(Net, f), g)]
  <2>1. f = [Top(Net) EXCEPT !.at = at] BY <1>5 DEF Onto, Frame
  <2> QED BY <1>1, <2>1
<1> HIDE DEF at, g
<1>8. Onward(Net, at, c) BY <1>1, <1>2, <1>5 DEF Onward, Spared, Places, Free, Held
<1>9. f.at = at /\ f.c = c BY <1>1, <1>3, <1>8, OnwardFollows
<1>10. Enters(Net, Top(Net), f) BY <1>1, <1>2, <1>9, EntersNothing DEF Inside
<1>11. Unburdened(Net, at, c) BY <1>2, <1>9 DEF Unburdened, Modest, Relies
<1>12. Pushed(Net, f, g)
  <2> HIDE DEF f
  <2> QED BY <1>2, <1>6, <1>9 DEF Pushed
<1>13. NewFits(Net, Len(stack[Net]) + 1, g) BY <1>6, Carefree DEF Relies
<1> QED BY <1>1, <1>4, <1>6, <1>7, <1>8, <1>10, <1>11, <1>12, <1>13, QuietCalls

LEMMA ConnectedSInv ==
  ASSUME SInv, IInv', use' = use, Connected
  PROVE  SInv'
<1> DEFINE c == Top(Net).c
<1>1. /\ Net \in Threads /\ stack[Net] # << >> /\ Top(Net).op = "net" /\ Top(Net).at = "connected"
      /\ UNCHANGED <<sock, told, old, network, fds>>
  BY DEF Connected, At, Threads, outside
<1>2. IInv /\ CallsInv /\ DataInv /\ Typed BY DEF SInv, DataInv
<1>3. c \in Clients /\ c \in Mine /\ c # None BY <1>1, <1>2, TopIs DEF Held, Mine
<1>4. CASE Flag(c, {}, {"CONNECTERROR"}) /\ Leave(c) /\ GoesWith(Net, "scan", None)
  <2>1. Quiet(Net)
    <3>1. ({} \cup {"CONNECTERROR"}) \cap {"ACTIVE", "CLOSED", "AVAILABLE", "CONNECTED"} = {} OBVIOUS
    <3> HIDE DEF c
    <3> QED BY <1>1, <1>3, <1>4, <3>1, QuietMarks DEF NetworkKept
  <2>2. "scan" \in Free /\ None \in Mine /\ Top(Net).at \in Inside BY <1>1 DEF Free, Mine, Inside
  <2> QED BY <1>1, <1>4, <2>1, <2>2, LoopGoes
<1>5. CASE GoesWith(Net, "callback", c) /\ UNCHANGED <<flags, owner, depth>>
  <2>1. Quiet(Net) BY <1>1, <1>5, QuietSame DEF NetworkKept
  <2>2. Onward(Net, "callback", c) BY <1>1, <1>3 DEF Onward, Spared, Places, Held
  <2>3. Onto(Net, "callback", c).at = "callback" /\ Onto(Net, "callback", c).c = c
    BY <1>1, <1>2, <2>2, OnwardFollows
  <2>4. Enters(Net, Top(Net), Onto(Net, "callback", c)) BY <1>1, <1>5, <2>3, EntersNothing DEF Inside
  <2>5. Unburdened(Net, "callback", c) BY <1>1, <2>3 DEF Unburdened, Modest, Relies
  <2> QED BY <1>1, <1>5, <2>1, <2>2, <2>4, <2>5, QuietGoes
<1> QED BY <1>4, <1>5 DEF Connected, Goes

(* The connect of c is done: nobody waits for the section of a client that *)
(* it opens, as csNetwork is free.                                         *)
LEMMA WriteEventSInv ==
  ASSUME SInv, IInv', use' = use, At(Net, "net", "scan"), network = None,
         NEW c \in Range(list["ACTIVE"]), MayTake(Net, c), Take(Net, c), WriteEvent(c),
         UNCHANGED <<sock, told, old, network, fds>>
  PROVE  SInv'
<1>1. Net \in Threads /\ stack[Net] # << >> /\ Top(Net).op = "net" /\ Top(Net).at = "scan"
  BY DEF At, Threads
<1>2. IInv /\ CallsInv /\ DataInv /\ Typed BY DEF SInv, DataInv
<1>3. /\ c \in Clients /\ c \in Mine /\ c # None
      /\ flags[c] \cap States = {"ACTIVE"} /\ "ACTIVE" \in flags[c]
  <2>1. "ACTIVE" \in States BY DEF States
  <2> QED BY <1>2, <2>1, StateOf
<1>4. "CLOSED" \notin flags[c] /\ "AVAILABLE" \notin flags[c] BY <1>3 DEF States
<1>5. ASSUME NEW at \in {"leave", "connected"}
      PROVE  /\ Onward(Net, at, c) /\ Onto(Net, at, c).at = at /\ Onto(Net, at, c).c = c
             /\ Enters(Net, Top(Net), Onto(Net, at, c))
  <2>1. Onward(Net, at, c) BY <1>1, <1>3 DEF Onward, Spared, Places, Held
  <2>2. Onto(Net, at, c).at = at /\ Onto(Net, at, c).c = c BY <1>1, <1>2, <2>1, OnwardFollows
  <2> QED BY <1>1, <2>1, <2>2 DEF Enters, Inside
<1>6. CASE GoesWith(Net, "leave", c) /\ UNCHANGED flags
  <2>1. Quiet(Net) BY <1>6, QuietSame DEF NetworkKept
  <2>2. Unburdened(Net, "leave", c) BY <1>5 DEF Unburdened, Modest, Relies
  <2> QED BY <1>1, <1>5, <1>6, <2>1, <2>2, QuietGoes
<1>7. CASE Flag(c, {"CONNECTING"}, {"CONNECTED"}) /\ GoesWith(Net, "connected", c)
  <2> DEFINE f == Onto(Net, "connected", c)
  <2>1. /\ f \in Frame /\ f.at = "connected" /\ f.c = c
        /\ FollowsOn(Top(Net), Len(stack[Net]), f) /\ NotBelow(Net, f.c)
        /\ Enters(Net, Top(Net), f)
    BY <1>1, <1>2, <1>5, OnwardFollows
  <2>2. stack' = [stack EXCEPT ![Net] = Replaced(Net, f)] BY <1>7 DEF GoesWith, Onto
  <2>3. flags \in [Clients -> SUBSET AllFlags] BY <1>2 DEF IInv, Records
  <2>4. /\ flags'[c] = (flags[c] \ {"CONNECTING"}) \cup {"CONNECTED"}
        /\ \A d \in Clients \ {c} : flags'[d] = flags[d]
    BY <1>3, <1>7, <2>3 DEF Flag
  <2>5. Unopened(Net, c) BY <1>1, <1>2, NobodyOpens
  <2>6. OthersFit(Net) /\ BelowFits(Net)
    <3>1. Alone(Net, c) BY <1>1, <1>2, <1>3, <2>1, <2>5, AloneOwner
    <3>2. Terminable(Net, c) BY <1>2, <1>4, TerminatesNone
    <3>3. Touches(Net, c) BY <2>4, <3>1, <3>2 DEF Touches, Same, NetworkKept
    <3> QED BY <1>1, <1>2, <1>3, <3>3, Undisturbed
  <2> HIDE DEF f
  <2>7. NewFits(Net, Len(stack[Net]), f) BY <1>3, <2>1, <2>4, <2>5, Relying
  <2>8. CallsInv' BY <1>1, <1>2, <2>1, <2>2, <2>6, <2>7, GoesOn
  <2>9. DataInv'
    <3>1. owner' \in [Clients -> Threads \cup {None}] /\ depth' \in [Clients -> Nat]
      <4>1. Top(Net).at \notin Inside BY <1>1 DEF Inside
      <4> QED BY <1>1, <1>2, <1>3, <2>1, <4>1, TypedLocks
    <3>2. Typed' BY <1>2, <3>1 DEF Typed
    <3>3. Told' BY <1>2, <2>4 DEF DataInv, Told
    <3>4. Sockets'
      <4>1. \A d \in Clients \ {c} : Same(d) BY <2>4 DEF Same
      <4> QED BY <1>2, <1>3, <2>4, <4>1, SocketsSame DEF DataInv
    <3>5. Disconnected' BY <1>2, <1>4, <2>4 DEF DataInv, Disconnected
    <3> QED BY <3>2, <3>3, <3>4, <3>5 DEF DataInv
  <2> QED BY <2>8, <2>9 DEF SInv
<1> QED BY <1>6, <1>7 DEF WriteEvent

LEMMA ScanSInv ==
  ASSUME SInv, IInv', use' = use, Scan
  PROVE  SInv'
<1>1. /\ Net \in Threads /\ stack[Net] # << >> /\ Top(Net).op = "net" /\ Top(Net).at = "scan"
      /\ At(Net, "net", "scan") /\ network = None /\ UNCHANGED <<sock, told, old, network, fds>>
  BY DEF Scan, At, Threads, outside
<1>2. CASE Rebuilds /\ UNCHANGED <<flags, owner, depth>>
  <2>1. Quiet(Net) BY <1>1, <1>2, QuietSame DEF NetworkKept
  <2>2. "build" \in Free /\ None \in Mine /\ Top(Net).at \notin Inside BY <1>1 DEF Free, Mine, Inside
  <2> QED BY <1>1, <1>2, <2>1, <2>2, LoopGoes DEF Rebuilds
<1>3. ASSUME NEW c \in Range(list["ACTIVE"]), MayTake(Net, c), Take(Net, c),
             FinishPendingRead(Net, c, "close") \/ WriteEvent(c)
      PROVE  SInv'
  <2>1. CASE WriteEvent(c) BY <1>1, <1>3, <2>1, WriteEventSInv
  <2>2. CASE FinishPendingRead(Net, c, "close")
    <3>1. c \in use.clients /\ "ACTIVE" \in flags[c]
      <4>1. "ACTIVE" \in States BY DEF States
      <4>2. c \in use.clients /\ flags[c] \cap States = {"ACTIVE"} BY <4>1, StateOf DEF SInv
      <4> QED BY <4>2
    <3>2. Top(Net).at \notin Inside BY <1>1 DEF Inside
    <3>3. NetworkKept(Net) BY <1>1 DEF NetworkKept
    <3> QED BY <1>1, <1>3, <2>2, <3>1, <3>2, <3>3, FinishReadsSInv
  <2> QED BY <1>3, <2>1, <2>2
<1> QED BY <1>2, <1>3 DEF Scan

----------------------------------------------------------------------------
(* The timer thread. *)

LEMMA TimerStepSInv ==
  ASSUME SInv, IInv', use' = use, TimerStep
  PROVE  SInv'
<1>1. Timer \in Threads /\ stack[Timer] # << >> /\ Top(Timer).op = "timer"
  BY DEF TimerStep, TimerStart, TimerWalk, TimerRestart, TimerLeaves, TimerNext, TimerWalksClosed,
         TimerCloses, TimerEnds, At, Threads
<1>2. IInv /\ CallsInv /\ DataInv /\ Typed BY DEF SInv, DataInv
<1>3. /\ Top(Timer).c \in Mine /\ None \in Mine /\ next \in Mine
      /\ \A s \in States : HeadOf(s) \in Mine
      /\ \A d \in use.clients : After(d) \in Mine
  <2>1. Top(Timer) \in Frame BY <1>1, <1>2, TopIs
  <2>2. Records /\ next \in Mine BY <1>2 DEF IInv, Frames
  <2> QED BY <2>1, <2>2, WalkStays DEF Frame, Mine
<1>4. {"ACTIVE", "CLOSED"} \subseteq States BY DEF States
<1>5. CASE TimerStart \/ TimerRestart \/ TimerLeaves \/ TimerNext \/ TimerWalksClosed \/ TimerEnds
  <2>1. UNCHANGED <<flags, sock, told, old, fds>>
    BY <1>5 DEF TimerStart, TimerRestart, TimerLeaves, TimerNext, TimerWalksClosed, TimerEnds,
                record, outside
  <2>2. NetworkKept(Timer)
    <3>1. network' = network \/ network = None \/ network = Timer
      BY <1>5 DEF TimerStart, TimerRestart, TimerLeaves, TimerNext, TimerWalksClosed, TimerEnds,
                  locks, TimerLeavesNetwork
    <3> QED BY <3>1 DEF NetworkKept, Threads
  <2>3. Quiet(Timer) BY <2>1, <2>2, QuietSame
  <2>4. PICK at \in Free, c \in Mine : GoesWith(Timer, at, c)
    BY <1>3, <1>4, <1>5 DEF TimerStart, TimerRestart, TimerLeaves, TimerNext, TimerWalksClosed,
                            TimerEnds, Goes, Free
  <2>5. \/ UNCHANGED <<owner, depth>> /\ Top(Timer).at \notin Inside
        \/ Leave(Top(Timer).c) /\ Top(Timer).at \in Inside
    BY <1>5 DEF TimerStart, TimerRestart, TimerLeaves, TimerNext, TimerWalksClosed, TimerEnds,
                At, locks, Inside
  <2> QED BY <1>1, <2>3, <2>4, <2>5, LoopGoes
<1>6. CASE TimerWalk
  <2> DEFINE c == Top(Timer).c
  <2>1. /\ Top(Timer).at = "walk" /\ c # None /\ UNCHANGED <<sock, told, old, fds>>
        /\ c \in use.clients /\ c \in Clients /\ Top(Timer).at \notin Inside
    <3>1. Top(Timer).at = "walk" /\ c # None /\ UNCHANGED <<sock, told, old, fds>>
      BY <1>6 DEF TimerWalk, At, outside
    <3> QED BY <1>2, <1>3, <3>1 DEF Mine, IInv, Inside
  <2>2. CASE /\ GoesWith(Timer, "walk", After(c))
             /\ UNCHANGED <<owner, depth, network, next, flags>>
    <3>1. Quiet(Timer) BY <2>1, <2>2, QuietSame DEF NetworkKept
    <3>2. "walk" \in Free /\ After(c) \in Mine
      <4> HIDE DEF c
      <4> QED BY <1>3, <2>1 DEF Free
    <3> QED BY <1>1, <2>1, <2>2, <3>1, <3>2, LoopGoes
  <2>3. CASE /\ MayTake(Timer, c) /\ Take(Timer, c) /\ TimerLeavesNetwork
             /\ IF "ACTIVE" \in flags[c] THEN FinishPendingRead(Timer, c, "reset")
                                         ELSE Goes(Timer, "restart") /\ UNCHANGED flags
    <3>1. NetworkKept(Timer) BY <2>3 DEF NetworkKept, TimerLeavesNetwork
    <3>2. CASE "ACTIVE" \in flags[c]
      <4>1. FinishPendingRead(Timer, c, "reset") BY <2>3, <3>2
      <4> QED BY <1>1, <2>1, <2>3, <3>1, <3>2, <4>1, FinishReadsSInv
    <3>3. CASE "ACTIVE" \notin flags[c]
      <4>1. GoesWith(Timer, "restart", c) /\ UNCHANGED flags BY <2>3, <3>3 DEF Goes
      <4>2. Quiet(Timer) BY <2>1, <3>1, <4>1, QuietSame
      <4>3. Onward(Timer, "restart", c) BY <1>1, <1>3, <2>1 DEF Onward, Spared, Places, Held
      <4>4. Onto(Timer, "restart", c).at = "restart" /\ Onto(Timer, "restart", c).c = c
        BY <1>1, <1>2, <4>3, OnwardFollows
      <4>5. Enters(Timer, Top(Timer), Onto(Timer, "restart", c))
        BY <2>1, <2>3, <4>4 DEF Enters, Inside
      <4>6. Unburdened(Timer, "restart", c) BY <4>4 DEF Unburdened, Modest, Relies
      <4> QED BY <1>1, <4>1, <4>2, <4>3, <4>5, <4>6, QuietGoes
    <3> QED BY <3>2, <3>3
  <2> QED BY <1>6, <2>2, <2>3 DEF TimerWalk
<1>7. CASE TimerCloses
  <2> DEFINE c == Top(Timer).c
  <2>1. /\ Top(Timer).at = "closing" /\ c # None /\ c \in use.clients /\ c \in Clients
        /\ UNCHANGED <<network, owner, depth>> /\ GoesWith(Timer, "closing", After(c))
    <3>1. /\ Top(Timer).at = "closing" /\ c # None
          /\ UNCHANGED <<network, owner, depth>> /\ GoesWith(Timer, "closing", After(c))
      BY <1>7 DEF TimerCloses, At, locks
    <3> QED BY <1>2, <1>3, <3>1 DEF Mine, IInv
  <2>2. "closing" \in Free /\ After(c) \in Mine /\ Top(Timer).at \notin Inside
    <3>1. After(c) \in Mine
      <4> HIDE DEF c
      <4> QED BY <1>3, <2>1
    <3> QED BY <2>1, <3>1 DEF Free, Inside
  <2>3. CASE UNCHANGED <<record, fds>>
    <3>1. Quiet(Timer) BY <2>1, <2>3, QuietSame DEF NetworkKept, record
    <3> QED BY <1>1, <2>1, <2>2, <3>1, LoopGoes
  <2>4. CASE old[c] /\ "CLOSED" \in flags[c] /\ Terminated(c)
    <3>1. DataInv' /\ \A d \in Clients \ {c} : Same(d) BY <2>1, <2>4, TerminatedData
    <3>2. "ACTIVE" \notin flags[c]
      <4>1. \E s \in States : flags[c] \cap States = {s} BY <1>2, <2>1, OneState
      <4> QED BY <2>4, <4>1 DEF States
    <3> DEFINE f == Onto(Timer, "closing", After(c))
    <3>3. Onward(Timer, "closing", After(c))
      BY <1>1, <2>2 DEF Onward, Spared, Places, Free, Held
    <3>4. /\ f \in Frame /\ f.at = "closing" /\ f.c = After(c)
          /\ FollowsOn(Top(Timer), Len(stack[Timer]), f) /\ NotBelow(Timer, f.c)
      BY <1>1, <1>2, <3>3, OnwardFollows
    <3>5. stack' = [stack EXCEPT ![Timer] = Replaced(Timer, f)] BY <2>1 DEF GoesWith, Onto
    <3>6. Enters(Timer, Top(Timer), f) BY <2>1, <2>2, <3>4, EntersNothing DEF Inside
    <3> HIDE DEF c, f
    <3>7. OthersFit(Timer) /\ BelowFits(Timer)
      <4>1. Alone(Timer, c) BY <1>2, <3>2, AloneInactive
      <4>2. Terminable(Timer, c) BY <1>2, <2>4, TerminatesNone
      <4>3. Touches(Timer, c) BY <2>1, <3>1, <4>1, <4>2 DEF Touches, NetworkKept
      <4> QED BY <1>1, <1>2, <2>1, <4>3, Undisturbed
    <3>8. NewFits(Timer, Len(stack[Timer]), f) BY <3>4, Carefree DEF Relies
    <3>9. CallsInv' BY <1>1, <1>2, <3>4, <3>5, <3>6, <3>7, <3>8, GoesOn
    <3> QED BY <3>1, <3>9 DEF SInv
  <2> QED BY <1>7, <2>3, <2>4 DEF TimerCloses
<1> QED BY <1>5, <1>6, <1>7 DEF TimerStep

----------------------------------------------------------------------------
(* The other sides of the connections, and time. *)

LEMMA PeerSInv ==
  ASSUME SInv, IInv', use' = use, Peer
  PROVE  SInv'
<1>1. UNCHANGED <<stack, flags, sock, old, told, network, owner, depth>>
  BY DEF Peer, record, locks
<1>2. PICK f \in Fds, state \in {"up", "failed", "closed"} :
        fds[f] # "free" /\ fds' = [fds EXCEPT ![f] = state]
  BY DEF Peer, Established, Refused, PeerCloses
<1>3. Typed BY DEF SInv, DataInv
<1>4. DOMAIN fds' = Fds /\ \A g \in Fds : fds'[g] = "free" <=> fds[g] = "free"
  BY <1>2, <1>3 DEF Typed
<1>5. Calm BY <1>1, <1>3, <1>4 DEF Calm, Typed
<1> QED BY <1>1, <1>5, QuietStays

LEMMA PeerConnectsSInv ==
  ASSUME SInv, IInv', use' = use, PeerConnects
  PROVE  SInv'
<1>1. UNCHANGED <<stack, flags, sock, old, told, network, owner, depth, fds>>
  BY DEF PeerConnects, record, locks
<1>2. Calm BY <1>1, CalmSame DEF SInv, DataInv
<1> QED BY <1>1, <1>2, QuietStays

(* No call has the client to terminate. *)
LEMMA TwoSecondsSInv ==
  ASSUME SInv, IInv', use' = use, NEW c \in Clients, TwoSeconds(c)
  PROVE  SInv'
<1>1. /\ UNCHANGED <<stack, flags, sock, told, network, owner, depth, fds>>
      /\ old' = [old EXCEPT ![c] = TRUE]
      /\ ~ \E t \in Threads : At(t, "remove", "terminate") /\ Top(t).c = c
  BY DEF TwoSeconds, locks, outside
<1>2. IInv /\ CallsInv /\ DataInv /\ Typed BY DEF SInv, DataInv
<1>3. ASSUME NEW u \in Threads, NEW i \in 1 .. Len(stack[u])
      PROVE  stack[u][i].at = "terminate" => stack[u][i].c # c
  <2> SUFFICES ASSUME stack[u][i].at = "terminate", stack[u][i].c = c PROVE FALSE
    OBVIOUS
  <2>1. Kind(stack[u], i) BY <1>2 DEF CallsInv, Proper
  <2>2. i = Len(stack[u]) /\ stack[u][i].op = "remove" BY <2>1 DEF Kind
  <2>3. stack[u] # << >> BY <2>2
  <2>4. Top(u) = stack[u][i] BY <1>2, <2>2, <2>3, TopIs
  <2>5. At(u, "remove", "terminate") /\ Top(u).c = c BY <2>2, <2>3, <2>4 DEF At
  <2> QED BY <1>1, <2>5
<1>4. \A u \in Threads : \A i \in 1 .. Len(stack[u]) : FitsNext(u, i, stack[u][i])
  <2> SUFFICES ASSUME NEW u \in Threads, NEW i \in 1 .. Len(stack[u])
               PROVE  FitsNext(u, i, stack[u][i])
    OBVIOUS
  <2>1. FitsNow(u, i, stack[u][i]) BY <1>2 DEF CallsInv
  <2>2. stack[u][i].at = "terminate" => old'[stack[u][i].c] = old[stack[u][i].c]
    <3>1. \A d \in Clients \ {c} : old'[d] = old[d] BY <1>1, <1>2 DEF Typed
    <3>2. stack[u][i].at = "terminate" => stack[u][i].c \in Clients BY <1>2, FrameIs DEF Held
    <3> QED BY <1>3, <3>1, <3>2
  <2> QED BY <1>1, <2>1, <2>2 DEF FitsNow, FitsNext, Fits
<1>5. CallsInv' BY <1>1, <1>2, <1>4, CallsStay
<1>6. Typed' BY <1>1, <1>2 DEF Typed
<1>7. Told' BY <1>1, <1>2 DEF DataInv, Told
<1>8. Sockets' BY <1>1, <1>2 DEF DataInv, Sockets
<1>9. Disconnected' BY <1>1, <1>2 DEF DataInv, Disconnected
<1> QED BY <1>5, <1>6, <1>7, <1>8, <1>9 DEF SInv, DataInv

----------------------------------------------------------------------------
LEMMA InitSInv ==
  ASSUME Init, use.open = "async"
  PROVE  SInv
<1>1. IInv BY InitIInv
<1>2. ASSUME NEW t \in Threads
      PROVE  \/ stack[t] = << >>
             \/ /\ Len(stack[t]) = 1
                /\ stack[t][1].at \in {"build", "idle"} /\ stack[t][1].op \in {"net", "timer"}
                /\ stack[t][1].kind = ""
  BY DEF Init, Call
<1>3. ASSUME NEW t \in Threads, NEW i \in 1 .. Len(stack[t])
      PROVE  /\ i = 1 /\ stack[t][i].at \in {"build", "idle"}
             /\ stack[t][i].op \in {"net", "timer"} /\ stack[t][i].kind = ""
  <2>1. stack[t] # << >> /\ Len(stack[t]) = 1
    <3>1. CASE stack[t] = << >> BY <3>1
    <3> QED BY <1>2, <3>1
  <2>2. i = 1 BY <2>1
  <2> QED BY <1>2, <2>1, <2>2
<1>4. \A t \in Threads : Proper(stack[t])
  <2> SUFFICES ASSUME NEW t \in Threads, NEW i \in 1 .. Len(stack[t])
               PROVE  Kind(stack[t], i) /\ Apart(stack[t], i)
    BY DEF Proper
  <2>1. /\ i = 1 /\ stack[t][i].at \in {"build", "idle"}
        /\ stack[t][i].op \in {"net", "timer"} /\ stack[t][i].kind = ""
    BY <1>3
  <2>2. Kind(stack[t], i) BY <2>1 DEF Kind
  <2>3. Apart(stack[t], i)
    <3>1. \A j \in 1 .. 1 - 1 : FALSE OBVIOUS
    <3> QED BY <2>1, <3>1 DEF Apart
  <2> QED BY <2>2, <2>3
<1>5. Locked
  <2>1. ASSUME NEW c \in Clients
        PROVE  owner[c] = None /\ depth[c] = 0
    BY DEF Init
  <2>2. ASSUME NEW c \in Clients, NEW t \in Threads PROVE Times(stack[t], Len(stack[t]), c) = 0
    <3>1. CASE stack[t] = << >>
      <4>1. Len(stack[t]) = 0 BY <3>1
      <4> QED BY <4>1, TimesStep
    <3>2. CASE Len(stack[t]) = 1 /\ stack[t][1].at \in {"build", "idle"}
      <4>1. /\ Times(stack[t], 0 + 1, c) = Times(stack[t], 0, c) + Weight(stack[t][0 + 1], c)
            /\ Times(stack[t], 0, c) = 0
        BY TimesStep
      <4>2. Weight(stack[t][1], c) = 0 BY <3>2 DEF Weight, IsIn, Inside
      <4> QED BY <3>2, <4>1, <4>2
    <3> QED BY <1>2, <3>1, <3>2
  <2>3. None \notin Threads BY DEF Threads
  <2> QED BY <2>1, <2>2, <2>3 DEF Locked
<1>6. ASSUME NEW t \in Threads, NEW i \in 1 .. Len(stack[t])
      PROVE  FitsNow(t, i, stack[t][i]) /\ Clear(t, i, stack[t][i])
  <2>1. stack[t][i].at \in {"build", "idle"} /\ i = 1 BY <1>3
  <2>2. ~Relies(stack[t][i], i) BY <2>1 DEF Relies
  <2>3. FitsNow(t, i, stack[t][i]) BY <2>1, <2>2 DEF FitsNow, Fits
  <2>4. Clear(t, i, stack[t][i])
    <3>1. \A u \in Threads : \A j \in 1 .. Len(stack[u]) : stack[u][j].at # "lock" BY <1>3
    <3> QED BY <2>1, <3>1 DEF Clear
  <2> QED BY <2>3, <2>4
<1>7. CallsInv BY <1>4, <1>5, <1>6 DEF CallsInv
<1>8. DataInv
  <2>1. Typed BY DEF Typed, Init
  <2>2. Told
    <3>1. \A c \in Clients : told[c] = 0 BY DEF Init
    <3> QED BY <3>1 DEF Told
  <2>3. Sockets BY SocketsAssumption DEF Sockets, Init
  <2>4. Disconnected BY DEF Disconnected, Init
  <2> QED BY <2>1, <2>2, <2>3, <2>4 DEF DataInv
<1> QED BY <1>1, <1>7, <1>8 DEF SInv

LEMMA NextSInv == SInv /\ [Next]_<<use, vars>> => SInv'
<1> SUFFICES ASSUME SInv, [Next]_<<use, vars>> PROVE SInv'
  OBVIOUS
<1>1. IInv' /\ use' = use
  <2>1. \A t \in Threads : Possessed(t) BY RemoverOwns DEF SInv
  <2>2. IInv' BY <2>1, NextIInv DEF SInv
  <2> QED BY <2>2 DEF Next
<1>2. ASSUME NEW t \in Threads, Step(t) PROVE SInv'
  <2>1. CASE OpenStep(t)
    BY <1>1, <2>1, GetFreeSInv, GetLockSInv, OpenQuietSInv, NoSocketSInv, ConnectSInv,
       WaitFailedSInv, AcceptSInv
       DEF OpenStep
  <2>2. CASE RemoveStep(t)
    <3>1. ~RemoveLoads(t) /\ ~RemoveStores(t) BY MarksNothing DEF SInv
    <3> QED BY <1>1, <2>2, <3>1, RemoveCheckSInv, RemoveEntersSInv, RemoveClosesSInv, TerminateSInv
            DEF RemoveStep
  <2>3. CASE CallbackStep(t) BY <1>1, <2>3, CallbackSInv
  <2>4. CASE NetStep
    BY <1>1, <2>4, NetQuietSInv, ScanSInv, AcceptClientSInv, ConnectedSInv DEF NetStep
  <2>5. CASE TimerStep BY <1>1, <2>5, TimerStepSInv
  <2> QED BY <1>2, <2>1, <2>2, <2>3, <2>4, <2>5 DEF Step
<1>3. \A t \in Threads : ~RemoveRetries(t) BY RemoverOwns, NoRetries DEF SInv
<1>4. ASSUME NEW t \in Openers, OpenTCPClient(t) PROVE SInv'
  BY <1>1, <1>4, OpenTCPClientSInv DEF Threads
<1>5. CASE Peer \/ PeerConnects \/ \E c \in Clients : TwoSeconds(c)
  BY <1>1, <1>5, PeerSInv, PeerConnectsSInv, TwoSecondsSInv
<1>6. CASE UNCHANGED <<use, vars>>
  <2>1. UNCHANGED <<stack, network, owner, depth, told, flags, sock, old, fds>>
    BY <1>6 DEF vars, record, locks, outside
  <2>2. Calm BY <2>1, CalmSame DEF SInv, DataInv
  <2> QED BY <1>1, <2>1, <2>2, QuietStays
<1> QED BY <1>2, <1>3, <1>4, <1>5, <1>6 DEF Next

LEMMA AlwaysSInv == Spec /\ use.open = "async" => []SInv
BY InitSInv, NextSInv, PTL DEF Spec

(* Lists: in a program whose opens do not block, whatever threads open,    *)
(* accept and close, in any order, and whatever fails, a client is once on *)
(* the list that its state flag names, and on no other (the list macros    *)
(* and the flags of GetFreeNetworkClient, InternalRemoveClientEx and       *)
(* TerminateClosedClientEx).                                               *)
THEOREM Lists == Spec /\ use.open = "async" => []OnItsList
<1>1. SInv => OnItsList
  <2> SUFFICES ASSUME SInv PROVE OnItsList
    OBVIOUS
  <2>1. Records /\ use.clients \subseteq Clients BY DEF SInv, IInv
  <2>2. \A s \in States : IsInjective(list[s]) BY <2>1 DEF Records, Named
  <2>3. ASSUME NEW c \in use.clients
        PROVE  \E s \in States : OnlyOn(c, s) /\ flags[c] \cap States = {s}
    <3>1. PICK s \in States : c \in Range(list[s]) BY <2>1 DEF Records, Listed
    <3>2. \A r \in States : c \in Range(list[r]) <=> flags[c] \cap States = {r}
      BY <2>1 DEF Records, Named
    <3>3. flags[c] \cap States = {s} BY <3>1, <3>2
    <3>4. OnlyOn(c, s) BY <3>2, <3>3 DEF OnlyOn
    <3> QED BY <3>3, <3>4
  <2> QED BY <2>2, <2>3 DEF OnItsList
<1> QED BY <1>1, AlwaysSInv, PTL

(* Sockets: in a program whose opens do not block, with any number of      *)
(* threads, clients and descriptors and whatever fails, an open descriptor *)
(* belongs to one client, and that is active or closed, if a closed client *)
(* rests for longer than its close takes (TwoSeconds; the assignments of   *)
(* Socket, closesocket in TerminateClosedClientEx).                        *)
THEOREM SocketsHeld == Spec /\ use.open = "async" => []SocketsOwned
<1>1. SInv => SocketsOwned
  <2> SUFFICES ASSUME SInv PROVE SocketsOwned
    OBVIOUS
  <2>1. IInv /\ Sockets BY DEF SInv, DataInv
  <2>2. \A s \in States : Range(list[s]) \subseteq Clients BY <2>1, StateOf
  <2>3. ASSUME NEW c \in Clients, sock[c] \in Fds
        PROVE  c \in Range(list["ACTIVE"]) \cup Range(list["CLOSED"])
    <3>1. c \in use.clients /\ ("ACTIVE" \in flags[c] \/ "CLOSED" \in flags[c])
      BY <2>1, <2>3 DEF Sockets
    <3>2. PICK s \in States : flags[c] \cap States = {s} /\ c \in Range(list[s])
      BY <2>1, <3>1, OneState
    <3>3. s \in {"ACTIVE", "CLOSED"} BY <3>1, <3>2 DEF States
    <3> QED BY <3>2, <3>3
  <2> SUFFICES ASSUME NEW f \in Fds
               PROVE  fds[f] # "free" <=>
                        \E c \in Range(list["ACTIVE"]) \cup Range(list["CLOSED"]) :
                          \A d \in Clients : sock[d] = f <=> d = c
    BY DEF SocketsOwned
  <2>4. ASSUME fds[f] # "free"
        PROVE  \E c \in Range(list["ACTIVE"]) \cup Range(list["CLOSED"]) :
                 \A d \in Clients : sock[d] = f <=> d = c
    <3>1. PICK c \in Clients : sock[c] = f BY <2>1, <2>4 DEF Sockets
    <3>2. \A d \in Clients : sock[d] = f <=> d = c BY <2>1, <3>1 DEF Sockets
    <3> QED BY <2>3, <3>1, <3>2
  <2>5. ASSUME NEW c \in Range(list["ACTIVE"]) \cup Range(list["CLOSED"]),
               \A d \in Clients : sock[d] = f <=> d = c
        PROVE  fds[f] # "free"
    <3>1. c \in Clients BY <2>2 DEF States
    <3> QED BY <2>1, <2>5, <3>1 DEF Sockets
  <2> QED BY <2>4, <2>5
<1> QED BY <1>1, AlwaysSInv, PTL

(* The close callback: where opens do not block it runs at most once for a *)
(* connection, in a thread that has the section of the client, before the  *)
(* client leaves the active list (CF_CLOSING in InternalRemoveClientExx).  *)
THEOREM ToldOnce == Spec /\ use.open = "async" => []ToldInTime
<1>1. SInv => ToldInTime
  <2> SUFFICES ASSUME SInv, NEW c \in Clients
               PROVE  /\ told[c] <= 1
                      /\ \A t \in Threads : At(t, "remove", "callback") /\ Top(t).c = c
                                              => owner[c] = t /\ c \in Range(list["ACTIVE"])
    BY DEF ToldInTime
  <2>1. IInv /\ CallsInv BY DEF SInv
  <2>2. told[c] <= 1 BY DEF SInv, DataInv, Told
  <2>3. ASSUME NEW t \in Threads, At(t, "remove", "callback"), Top(t).c = c
        PROVE  owner[c] = t /\ c \in Range(list["ACTIVE"])
    <3>1. stack[t] # << >> /\ Top(t).at = "callback" BY <2>3 DEF At
    <3>2. owner[c] = t BY <2>1, <2>3, <3>1, OwnsTop DEF Inside
    <3>3. FitsNow(t, Len(stack[t]), Top(t)) BY <2>1, <3>1, TopFits
    <3>4. "ACTIVE" \in flags[c] BY <2>3, <3>1, <3>3 DEF FitsNow, Fits, Relies
    <3>5. c \in use.clients BY <2>1, <2>3, <3>1, TopIs DEF Held
    <3>6. PICK s \in States : flags[c] \cap States = {s} /\ c \in Range(list[s])
      BY <2>1, <3>5, OneState
    <3>7. s = "ACTIVE" BY <3>4, <3>6 DEF States
    <3> QED BY <3>2, <3>6, <3>7
  <2> QED BY <2>2, <2>3
<1> QED BY <1>1, AlwaysSInv, PTL

(* Who waits for the section of a client that it opens, with csNetwork,    *)
(* never waits for a thread that waits for csNetwork, in every program     *)
(* whose opens do not block ("oterhwise we'll deadlock the closing         *)
(* client", network.c:2123).  In those that do it may: see the run         *)
(* net_removers.                                                           *)
THEOREM OpensSafely == Spec /\ use.open = "async" => []OpenWaitsSafely
<1>1. SInv => OpenWaitsSafely
  <2> SUFFICES ASSUME SInv, NEW t \in Threads, NEW u \in Threads,
                      At(t, "open", "lock"), owner[Top(t).c] = u, u # t, RemovesHeld(u, Top(t).c)
               PROVE  FALSE
    BY DEF OpenWaitsSafely
  <2>1. IInv /\ CallsInv BY DEF SInv
  <2>2. stack[t] # << >> /\ Top(t).at = "lock" BY DEF At
  <2>3. /\ stack[u] # << >> /\ Top(u).op = "remove" /\ Top(u).at \in {"close", "callback"}
        /\ Top(u).c = Top(t).c
    BY DEF RemovesHeld, At
  <2>4. Clear(t, Len(stack[t]), Top(t)) BY <2>1, <2>2, TopFits
  <2>5. Len(stack[u]) \in 1 .. Len(stack[u]) /\ Top(u) = stack[u][Len(stack[u])] BY <2>1, <2>3, TopIs
  <2>6. Relies(Top(u), Len(stack[u]))
    <3>1. Kind(stack[u], Len(stack[u])) BY <2>1, <2>3, TopFits
    <3>2. Len(stack[u]) # 1 BY <2>1, <2>3, <2>5, <3>1 DEF Kind, IInv
    <3> QED BY <2>1, <2>3, <3>2, RemoverIs DEF Relies
  <2> QED BY <2>2, <2>3, <2>4, <2>5, <2>6 DEF Clear
<1> QED BY <1>1, AlwaysSInv, PTL

(* A client whose state flag stays, stays where it is. *)
LEMMA StaysActive ==
  ASSUME IInv, IInv', NEW d \in Range(list["ACTIVE"]),
         list' = list \/ flags'[d] \cap States = flags[d] \cap States
  PROVE  d \in Range(list'["ACTIVE"])
<1>1. "ACTIVE" \in States BY DEF States
<1>2. d \in Clients /\ flags[d] \cap States = {"ACTIVE"} BY <1>1, StateOf
<1>3. CASE list' = list BY <1>3
<1>4. CASE flags'[d] \cap States = flags[d] \cap States
  <2>1. Named' BY DEF IInv, Records
  <2> QED BY <1>1, <1>2, <1>4, <2>1 DEF Named
<1> QED BY <1>3, <1>4

LEMMA OthersStay ==
  ASSUME IInv, IInv', NEW c \in Clients, NEW state, NEW kept, MoveTo(c, state, kept),
         NEW d \in Range(list["ACTIVE"]), d # c
  PROVE  d \in Range(list'["ACTIVE"])
<1>1. "ACTIVE" \in States BY DEF States
<1>2. d \in Clients BY <1>1, StateOf
<1>3. flags \in [Clients -> SUBSET AllFlags] BY DEF IInv, Records
<1>4. flags'[d] = flags[d] BY <1>2, <1>3 DEF MoveTo
<1> QED BY <1>4, StaysActive

LEMMA StackMoves ==
  ASSUME IInv, NEW t \in Threads, stack[t] # << >>, NEW at, at # Top(t).at,
         Goes(t, at) \/ Returns(t)
  PROVE  stack'[t] # stack[t]
<1>1. stack \in [Threads -> Seq(Frame)] /\ Top(t) \in Frame BY TopIs DEF IInv, Frames
<1>2. CASE Returns(t)
  <2>1. stack'[t] = Front(stack[t]) /\ Len(Front(stack[t])) = Len(stack[t]) - 1
    BY <1>1, <1>2, FrontIs DEF Returns
  <2>2. Len(stack[t]) \in Nat BY <1>1
  <2>3. Len(stack[t]) - 1 # Len(stack[t]) BY <2>2
  <2> QED BY <2>1, <2>3
<1>3. CASE Goes(t, at)
  <2> DEFINE f == [Top(t) EXCEPT !.at = at, !.c = Top(t).c]
             n == Len(stack[t])
  <2>1. f.at = at BY <1>1 DEF Frame
  <2>2. stack'[t] = Replaced(t, f) BY <1>1, <1>3 DEF Goes, GoesWith
  <2>3. n \in 1 .. n /\ Top(t) = stack[t][n] /\ stack[t] \in Seq(Frame) BY TopIs
  <2> HIDE DEF f
  <2>4. stack'[t][n] = f BY <2>2, <2>3 DEF Replaced
  <2> QED BY <2>1, <2>3, <2>4
<1> QED BY <1>2, <1>3

(* Where opens do not block nobody but the thread that has the section of  *)
(* a client takes it off the active list, and it does so in a step of its  *)
(* own (GrabClient and AddClosed in InternalRemoveClientExx).              *)
THEOREM HoldersClose == Spec /\ use.open = "async" => HolderCloses
<1> DEFINE Step1 ==
      \A c \in Range(list["ACTIVE"]) \ Range(list'["ACTIVE"]) :
        owner[c] # None /\ stack'[owner[c]] # stack[owner[c]]
<1>1. SInv /\ [Next]_<<use, vars>> => [Step1]_vars
  <2> SUFFICES ASSUME SInv, Next, NEW d \in Range(list["ACTIVE"]), d \notin Range(list'["ACTIVE"])
               PROVE  owner[d] # None /\ stack'[owner[d]] # stack[owner[d]]
    OBVIOUS
  <2>1. IInv /\ CallsInv /\ IInv'
    <3>1. \A t \in Threads : Possessed(t) BY RemoverOwns DEF SInv
    <3> QED BY <3>1, NextIInv DEF SInv
  <2>2. d \in Clients /\ d \in use.clients /\ flags[d] \cap States = {"ACTIVE"}
    <3>1. "ACTIVE" \in States BY DEF States
    <3> QED BY <2>1, <3>1, StateOf
  <2>3. "ACTIVE" \in flags[d] /\ "CLOSED" \notin flags[d] /\ "AVAILABLE" \notin flags[d]
    BY <2>2 DEF States
  <2>4. list' # list BY <2>1, StaysActive
  <2>5. PICK t \in Threads :
          \/ GetFree(t) \/ RemoveCheck(t) \/ RemoveCloses(t) \/ Terminate(t)
          \/ t = Timer /\ TimerCloses
    <3>1. PICK t \in Threads : Step(t)
      BY <2>4 DEF Next, OpenTCPClient, RemoveRetries, Peer, PeerConnects, TwoSeconds, record
    <3>2. CASE OpenStep(t)
      BY <2>4, <3>2 DEF OpenStep, GetLock, GetAgain, NoSocket, Connect, ConnectFailed, WaitDone,
                        WaitFailed, Accept, AcceptDone, record
    <3>3. CASE RemoveStep(t) BY <2>4, <3>3 DEF RemoveStep, RemoveLoads, RemoveStores, RemoveEnters, record
    <3>4. CASE CallbackStep(t)
      BY <2>4, <3>4 DEF CallbackStep, ReadCloses, CallbackOpens, ReadReturns, record
    <3>5. CASE NetStep
      BY <2>4, <3>5 DEF NetStep, Build, WakeUp, Select, Scan, AcceptClient, Connected, EventDone,
                        record
    <3>6. CASE t = Timer /\ TimerStep
      BY <2>4, <3>6 DEF TimerStep, TimerStart, TimerWalk, TimerRestart, TimerLeaves, TimerNext,
                        TimerWalksClosed, TimerEnds, record
    <3> QED BY <3>1, <3>2, <3>3, <3>4, <3>5, <3>6 DEF Step
  <2>6. ASSUME NEW c \in Clients, NEW state, NEW kept, MoveTo(c, state, kept) PROVE d = c
    BY <2>1, <2>6, OthersStay
  <2>7. ~GetFree(t)
    <3> SUFFICES ASSUME GetFree(t) PROVE FALSE
      OBVIOUS
    <3>1. PICK i \in DOMAIN list["AVAILABLE"] :
            MoveTo(list["AVAILABLE"][i], "ACTIVE", flags[list["AVAILABLE"][i]])
      BY <2>4 DEF GetFree
    <3> DEFINE c == list["AVAILABLE"][i]
    <3>2. c \in Range(list["AVAILABLE"]) BY DEF Range
    <3>3. MoveTo(c, "ACTIVE", flags[c]) BY <3>1
    <3> HIDE DEF c
    <3>4. c \in Clients /\ flags[c] \cap States = {"AVAILABLE"}
      <4>1. "AVAILABLE" \in States BY DEF States
      <4> QED BY <2>1, <3>2, <4>1, StateOf
    <3>5. d = c BY <2>6, <3>3, <3>4
    <3> QED BY <2>2, <3>4, <3>5
  <2>8. ~RemoveCheck(t)
    <3> SUFFICES ASSUME RemoveCheck(t) PROVE FALSE
      OBVIOUS
    <3>1. stack[t] # << >> /\ Top(t).at = "check" BY DEF RemoveCheck, At
    <3>2. Top(t).c \in Clients BY <2>1, <3>1, TopIs DEF Held
    <3>3. MoveTo(Top(t).c, "AVAILABLE", flags[Top(t).c]) /\ "ACTIVE" \notin flags[Top(t).c]
      BY <2>4 DEF RemoveCheck
    <3>4. d = Top(t).c BY <2>6, <3>2, <3>3
    <3> QED BY <2>3, <3>3, <3>4
  <2>9. ~Terminate(t)
    <3> SUFFICES ASSUME Terminate(t) PROVE FALSE
      OBVIOUS
    <3>1. stack[t] # << >> /\ Top(t).at = "terminate" /\ MoveTo(Top(t).c, "AVAILABLE", {})
      BY DEF Terminate, Terminated, At
    <3>2. Top(t).c \in Clients BY <2>1, <3>1, TopIs DEF Held
    <3>3. FitsNow(t, Len(stack[t]), Top(t)) BY <2>1, <3>1, TopFits
    <3>4. "CLOSED" \in flags[Top(t).c] BY <3>1, <3>3 DEF FitsNow, Fits
    <3>5. d = Top(t).c BY <2>6, <3>1, <3>2
    <3> QED BY <2>3, <3>4, <3>5
  <2>10. ~TimerCloses
    <3> SUFFICES ASSUME TimerCloses PROVE FALSE
      OBVIOUS
    <3>1. /\ MoveTo(Top(Timer).c, "AVAILABLE", {}) /\ "CLOSED" \in flags[Top(Timer).c]
          /\ stack[Timer] # << >> /\ Top(Timer).c # None
      BY <2>4 DEF TimerCloses, Terminated, At, record
    <3>2. Top(Timer).c \in Clients
      <4>1. Top(Timer) \in Frame BY <2>1, <3>1, TopIs DEF Threads
      <4> QED BY <2>1, <3>1, <4>1 DEF Frame, Mine, IInv
    <3>3. d = Top(Timer).c BY <2>6, <3>1, <3>2
    <3> QED BY <2>3, <3>1, <3>3
  <2>11. CASE RemoveCloses(t)
    <3>1. /\ stack[t] # << >> /\ Top(t).at \in {"close", "callback"}
          /\ MoveTo(Top(t).c, "CLOSED", flags[Top(t).c])
          /\ Goes(t, "terminate") \/ Returns(t)
      BY <2>11 DEF RemoveCloses, At
    <3>2. Top(t).c \in Clients BY <2>1, <3>1, TopIs DEF Held
    <3>3. d = Top(t).c BY <2>6, <3>1, <3>2
    <3>4. owner[d] = t BY <2>1, <3>1, <3>3, OwnsTop DEF Inside
    <3>5. stack'[t] # stack[t] BY <2>1, <3>1, StackMoves
    <3>6. None \notin Threads BY DEF Threads
    <3> QED BY <3>4, <3>5, <3>6
  <2> QED BY <2>5, <2>7, <2>8, <2>9, <2>10, <2>11
<1> QED BY <1>1, AlwaysSInv, PTL DEF Spec, HolderCloses

=============================================================================
