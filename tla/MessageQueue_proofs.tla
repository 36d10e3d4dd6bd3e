------------------------ MODULE MessageQueue_proofs ------------------------
(***************************************************************************)
(* Where EnqueMsg puts messages; what the walks along the ring and the   *)
(* loops of DequeMsg and CollapseWaiting leave; and from these, for every *)
(* size of the ring, that a ring whose messages have been read takes any *)
(* other, that nobody sleeps over a message for it, and that the ring    *)
(* keeps its messages as a mailbox does, but in the two steps that break *)
(* it.                                                                   *)
(***************************************************************************)
EXTENDS MessageQueue, NaturalsInduction, WellFoundedInduction, TLAPS

Place == top \in Nat /\ TopLeavesRoom

LEMMA QuarterLength ==
  ASSUME NEW len \in Nat, len <= Size \div 4
  PROVE  4 * len <= Size
<1>1. Size \in Nat
  BY SizesAssumption
<1>2. 4 * (Size \div 4) <= Size
  BY <1>1
<1>3. Size \div 4 \in Nat
  BY <1>1
<1> QED
  BY <1>1, <1>2, <1>3

(* A message that is not too long is written inside the ring, and the Top *)
(* after it leaves room for one more header, wherever the old one was.   *)
LEMMA StoredInside ==
  ASSUME NEW len \in Nat, len <= Size \div 4, Place
  PROVE  /\ StoreAt(len) + len <= Size
         /\ NewTop(len) \in Nat /\ NewTop(len) + Hdr < Size
<1>1. 4 * len <= Size
  BY QuarterLength
<1>2. Size \in Nat /\ Hdr \in Nat \ {0} /\ 4 * Hdr <= Size
  BY SizesAssumption
<1>3. CASE ExactFit(len)
  BY <1>1, <1>2, <1>3 DEF StoreAt, NewTop, ExactFit, TooNear, Place, TopLeavesRoom
<1>4. CASE ~ExactFit(len) /\ TooNear(len)
  BY <1>1, <1>2, <1>4 DEF StoreAt, NewTop, Place, TopLeavesRoom
<1>5. CASE ~ExactFit(len) /\ ~TooNear(len)
  BY <1>1, <1>2, <1>5 DEF StoreAt, NewTop, ExactFit, TooNear, Place, TopLeavesRoom
<1> QED
  BY <1>3, <1>4, <1>5

(* An empty ring takes any message that is not too long, wherever its    *)
(* cursors are: EnqueMsg's retry loop ends once the readers are through. *)
THEOREM EmptyTakesAny ==
  ASSUME NEW len \in Nat \ {0}, len <= Size \div 4, Place, bottom = top
  PROVE  ~NoRoom(len)
<1>1. 4 * len <= Size
  BY QuarterLength
<1>2. Size \in Nat /\ Hdr \in Nat \ {0} /\ 4 * Hdr <= Size
  BY SizesAssumption
<1>3. CASE ExactFit(len)
  BY <1>1, <1>2, <1>3 DEF NoRoom, NewTop, ExactFit, TooNear, Place
<1>4. CASE ~ExactFit(len) /\ TooNear(len)
  BY <1>1, <1>2, <1>4 DEF NoRoom, StoreAt, NewTop, ExactFit, TooNear, Place
<1>5. CASE ~ExactFit(len) /\ ~TooNear(len)
  BY <1>1, <1>2, <1>5 DEF NoRoom, StoreAt, NewTop, Place
<1> QED
  BY <1>3, <1>4, <1>5

LEMMA PlaceInit ==
  ASSUME Init
  PROVE  Place
  BY SizesAssumption DEF Init, Place, TopLeavesRoom

LEMMA PlaceNext ==
  ASSUME Place, [Next]_vars
  PROVE  Place'
<1>1. ASSUME NEW msg \in Messages, EnqueMsg(msg)
      PROVE  Place'
  <2>1. msg.len \in Nat /\ msg.len <= Size \div 4
    BY <1>1, MessagesAssumption DEF EnqueMsg
  <2>2. NewTop(msg.len) \in Nat /\ NewTop(msg.len) + Hdr < Size
    BY <2>1, StoredInside
  <2>3. top' = NewTop(msg.len)
    BY <1>1 DEF EnqueMsg
  <2> QED
    BY <2>2, <2>3 DEF Place, TopLeavesRoom
<1>2. ASSUME UNCHANGED top
      PROVE  Place'
  BY <1>2 DEF Place, TopLeavesRoom
<1>3. ASSUME NEW t \in Threads, NEW read, Poll(t, read)
      PROVE  UNCHANGED top
  BY <1>3 DEF Poll, ScanRing
<1>4. ASSUME NEW t \in Threads, NEW read,
             ReadAtOnce(t, read) \/ ReadAndSleep(t, read) \/ ReadWithoutSlot(t, read)
      PROVE  UNCHANGED top
  BY <1>4 DEF ReadAtOnce, ReadAndSleep, ReadWithoutSlot, ScanRing
<1>5. ASSUME NEW t \in Threads, Resume(t) \/ WakeThread(t)
      PROVE  UNCHANGED top
  BY <1>5 DEF Resume, WakeThread, ScanRing, ring
<1>6. ASSUME Stopped \/ UNCHANGED vars
      PROVE  UNCHANGED top
  BY <1>6 DEF Stopped, vars, ring
<1> QED
  BY <1>1, <1>2, <1>3, <1>4, <1>5, <1>6 DEF Next

(* Top always leaves room in the ring for the header that returns to its *)
(* start, for all sizes: that header is never written outside.           *)
THEOREM TopRoom == Spec => []TopLeavesRoom
<1>1. Init => Place
  BY PlaceInit
<1>2. Place /\ [Next]_vars => Place'
  BY PlaceNext
<1>3. Place => TopLeavesRoom
  BY DEF Place
<1> QED
  BY <1>1, <1>2, <1>3, PTL DEF Spec
----------------------------------------------------------------------------
(* Induction, over sets of numbers.                                      *)

Less == {ss \in Nat \X Nat : ss[1] < ss[2]}

LEMMA LessWellFounded == IsWellFoundedOn(Less, Nat)
BY NatLessThanWellFounded DEF OpToRel, Less

LEMMA NatMinimum ==
  ASSUME NEW T \in SUBSET Nat, T # {}
  PROVE  \E x \in T : \A y \in T : x <= y
<1>1. PICK x \in T : \A y \in T : ~ (<<y, x>> \in Less)
  BY LessWellFounded, WFMin
<1>2. ASSUME NEW y \in T, y < x PROVE FALSE
  <2>1. <<y, x>> \in Nat \X Nat /\ <<y, x>>[1] = y /\ <<y, x>>[2] = x OBVIOUS
  <2>2. <<y, x>> \in Less BY <2>1, <1>2 DEF Less
  <2> QED BY <1>1, <2>2
<1> QED BY <1>2

LEMMA NatSetInduction ==
  ASSUME NEW S, 0 \in S, \A n \in Nat : n \in S => n + 1 \in S
  PROVE  Nat \subseteq S
<1> SUFFICES ASSUME Nat \ S # {} PROVE FALSE
  OBVIOUS
<1>1. PICK n \in Nat \ S : \A m \in Nat \ S : n <= m BY NatMinimum
<1>2. n # 0 OBVIOUS
<1>3. n - 1 \in Nat /\ n - 1 \in S BY <1>1, <1>2
<1> QED BY <1>3

(* A loop: its states, one turn after the other, are a function.         *)
Loops(f, start, turn, N) == f = [n \in 0 .. N |-> IF n = 0 THEN start ELSE turn[f[n - 1]]]

LEMMA LoopExists ==
  ASSUME NEW start, NEW turn, NEW N \in Nat
  PROVE  \E f : Loops(f, start, turn, N)
<1> DEFINE Has(k) == \E f : /\ DOMAIN f = 0 .. k /\ f = [n \in 0 .. k |-> f[n]]
                            /\ f[0] = start
                            /\ \A n \in 1 .. k : f[n] = turn[f[n - 1]]
           Good == {k \in Nat : Has(k)}
<1>1. Has(0)
  <2> DEFINE f == [n \in 0 .. 0 |-> start]
  <2> HIDE DEF f
  <2>1. DOMAIN f = 0 .. 0 /\ f = [n \in 0 .. 0 |-> f[n]] /\ f[0] = start BY DEF f
  <2> QED BY <2>1
<1>2. ASSUME NEW k \in Nat, Has(k) PROVE Has(k + 1)
  <2>1. PICK f : /\ DOMAIN f = 0 .. k
                 /\ f[0] = start
                 /\ \A n \in 1 .. k : f[n] = turn[f[n - 1]]
    BY <1>2
  <2> DEFINE g == [n \in 0 .. k + 1 |-> IF n = k + 1 THEN turn[f[k]] ELSE f[n]]
  <2>2. DOMAIN g = 0 .. k + 1 /\ g = [n \in 0 .. k + 1 |-> g[n]] OBVIOUS
  <2>3. g[0] = start BY <2>1
  <2>4. ASSUME NEW n \in 1 .. k + 1 PROVE g[n] = turn[g[n - 1]]
    <3>1. CASE n = k + 1
      <4>1. g[n] = turn[f[k]] BY <3>1
      <4>2. g[n - 1] = f[k] BY <3>1
      <4> QED BY <4>1, <4>2
    <3>2. CASE n # k + 1
      <4>1. n \in 1 .. k /\ n - 1 \in 0 .. k /\ n - 1 # k + 1 BY <3>2
      <4>2. g[n] = f[n] /\ g[n - 1] = f[n - 1] BY <4>1
      <4> QED BY <2>1, <4>1, <4>2
    <3> QED BY <3>1, <3>2
  <2> HIDE DEF g
  <2> QED BY <2>2, <2>3, <2>4
<1> HIDE DEF Has
<1>3. Nat \subseteq Good
  <2>1. 0 \in Good BY <1>1
  <2>2. \A k \in Nat : k \in Good => k + 1 \in Good BY <1>2
  <2> HIDE DEF Good
  <2> QED BY <2>1, <2>2, NatSetInduction
<1>4. Has(N) BY <1>3
<1>5. PICK f : /\ f = [n \in 0 .. N |-> f[n]]
               /\ f[0] = start
               /\ \A n \in 1 .. N : f[n] = turn[f[n - 1]]
  BY <1>4 DEF Has
<1>6. ASSUME NEW n \in 0 .. N PROVE f[n] = IF n = 0 THEN start ELSE turn[f[n - 1]]
  <2>1. n # 0 => n \in 1 .. N OBVIOUS
  <2> QED BY <1>5, <2>1
<1>7. Loops(f, start, turn, N) BY <1>5, <1>6 DEF Loops
<1> QED BY <1>7

LEMMA LoopIs ==
  ASSUME NEW start, NEW turn, NEW N \in Nat, NEW f, Loops(f, start, turn, N)
  PROVE  f[0] = start /\ \A n \in Nat : n < N => f[n + 1] = turn[f[n]]
<1>1. f = [n \in 0 .. N |-> IF n = 0 THEN start ELSE turn[f[n - 1]]] BY DEF Loops
<1>2. \A n \in 0 .. N : f[n] = IF n = 0 THEN start ELSE turn[f[n - 1]] BY <1>1
<1>3. ASSUME NEW n \in Nat, n < N PROVE f[n + 1] = turn[f[n]]
  <2>1. n + 1 \in 0 .. N /\ n + 1 # 0 /\ (n + 1) - 1 = n BY <1>3
  <2> QED BY <1>2, <2>1
<1>4. f[0] = start BY <1>2
<1> QED BY <1>3, <1>4

----------------------------------------------------------------------------
(* Walks.                                                                *)

Memory == [0 .. Size - 1 -> Headers]

(* w is a walk of n steps at most from b to t in the memory m.           *)
IsWalk(w, n, b, t, m) ==
  /\ w \in Seq(Nat) /\ Len(w) \in 1 .. n + 1 /\ w[1] = b
  /\ \A i \in 1 .. Len(w) - 1 : w[i] # t /\ IsHeader(w[i], m) /\ w[i + 1] = After(w[i], m)
  /\ Len(w) = n + 1 \/ w[Len(w)] = t \/ ~IsHeader(w[Len(w)], m)

Walks(g, t, m) ==
  g = [n \in 0 .. Size |->
        [p \in Nat |-> IF n = 0 \/ p = t \/ ~IsHeader(p, m) THEN <<p>>
                       ELSE <<p>> \o g[n - 1][After(p, m)]]]

LEMMA WalksExist ==
  ASSUME NEW t, NEW m
  PROVE  \E g : Walks(g, t, m)
<1> DEFINE Start == [p \in Nat |-> <<p>>]
           Far(h) == [p \in Nat |-> IF p = t \/ ~IsHeader(p, m) THEN <<p>>
                                    ELSE <<p>> \o h[After(p, m)]]
           Has(k) == \E f : /\ DOMAIN f = 0 .. k
                            /\ f[0] = Start
                            /\ \A n \in 1 .. k : f[n] = Far(f[n - 1])
           Good == {k \in Nat : Has(k)}
<1>1. Has(0)
  <2> DEFINE f == [n \in 0 .. 0 |-> Start]
  <2> HIDE DEF Far, Start
  <2>1. DOMAIN f = 0 .. 0 /\ f[0] = Start OBVIOUS
  <2> HIDE DEF f
  <2> QED BY <2>1
<1>2. ASSUME NEW k \in Nat, Has(k) PROVE Has(k + 1)
  <2> HIDE DEF Far, Start
  <2>1. PICK f : /\ DOMAIN f = 0 .. k
                 /\ f[0] = Start
                 /\ \A n \in 1 .. k : f[n] = Far(f[n - 1])
    BY <1>2
  <2> DEFINE g == [n \in 0 .. k + 1 |-> IF n = k + 1 THEN Far(f[k]) ELSE f[n]]
  <2>2. DOMAIN g = 0 .. k + 1 OBVIOUS
  <2>3. g[0] = Start BY <2>1
  <2>4. ASSUME NEW n \in 1 .. k + 1 PROVE g[n] = Far(g[n - 1])
    <3>1. CASE n = k + 1
      <4>1. g[n] = Far(f[k]) BY <3>1
      <4>2. g[n - 1] = f[k] BY <3>1
      <4> QED BY <4>1, <4>2
    <3>2. CASE n # k + 1
      <4>1. n \in 1 .. k /\ n - 1 \in 0 .. k /\ n - 1 # k + 1 BY <3>2
      <4>2. g[n] = f[n] /\ g[n - 1] = f[n - 1] BY <4>1
      <4> QED BY <2>1, <4>1, <4>2
    <3> QED BY <3>1, <3>2
  <2> HIDE DEF g
  <2> QED BY <2>2, <2>3, <2>4
<1> HIDE DEF Has
<1>3. Nat \subseteq Good
  <2>1. 0 \in Good BY <1>1
  <2>2. \A k \in Nat : k \in Good => k + 1 \in Good BY <1>2
  <2> HIDE DEF Good
  <2> QED BY <2>1, <2>2, NatSetInduction
<1>4. Has(Size) BY <1>3, SizesAssumption
<1>5. PICK f : /\ DOMAIN f = 0 .. Size
               /\ f[0] = Start
               /\ \A n \in 1 .. Size : f[n] = Far(f[n - 1])
  <2> HIDE DEF Far, Start
  <2> QED BY <1>4 DEF Has
<1> DEFINE g == [n \in 0 .. Size |-> f[n]]
           Step(n) == [p \in Nat |-> IF n = 0 \/ p = t \/ ~IsHeader(p, m) THEN <<p>>
                                     ELSE <<p>> \o g[n - 1][After(p, m)]]
<1>6. ASSUME NEW n \in 0 .. Size PROVE g[n] = Step(n)
  <2>1. CASE n = 0 BY <1>5, <2>1
  <2>2. CASE n # 0
    <3>1. n \in 1 .. Size /\ n - 1 \in 0 .. Size BY <2>2, SizesAssumption
    <3>2. g[n - 1] = f[n - 1] BY <3>1
    <3>3. g[n] = Far(g[n - 1]) BY <1>5, <3>1, <3>2
    <3>4. Step(n) = Far(g[n - 1]) BY <2>2
    <3> QED BY <3>3, <3>4
  <2> QED BY <2>1, <2>2
<1>7. g = [n \in 0 .. Size |-> Step(n)]
  <2> HIDE DEF Step
  <2> QED BY <1>6
<1>8. Walks(g, t, m) BY <1>7 DEF Walks
<1> QED BY <1>8

LEMMA WalkIs ==
  ASSUME NEW b \in Nat, NEW t, NEW m \in Memory
  PROVE  IsWalk(Walk(b, t, m), Size, b, t, m)
<1> DEFINE g == CHOOSE f : Walks(f, t, m)
<1>1. Walks(g, t, m) BY WalksExist
<1>2. Walk(b, t, m) = g[Size][b] BY DEF Walk, Walks
<1> HIDE DEF g
<1> DEFINE Good == {n \in Nat : n <= Size => \A p \in Nat : IsWalk(g[n][p], n, p, t, m)}
<1>3. 0 \in Good
  <2>1. ASSUME NEW p \in Nat PROVE IsWalk(g[0][p], 0, p, t, m)
    <3>1. g[0][p] = <<p>> BY <1>1, SizesAssumption DEF Walks
    <3> QED BY <3>1 DEF IsWalk
  <2> QED BY <2>1
<1>4. ASSUME NEW n \in Nat, n \in Good PROVE n + 1 \in Good
  <2> SUFFICES ASSUME n + 1 <= Size, NEW p \in Nat PROVE IsWalk(g[n + 1][p], n + 1, p, t, m)
    OBVIOUS
  <2>1. n + 1 \in 0 .. Size /\ n + 1 # 0 /\ n + 1 - 1 = n BY SizesAssumption
  <2>2. g[n + 1][p] = IF p = t \/ ~IsHeader(p, m) THEN <<p>> ELSE <<p>> \o g[n][After(p, m)]
    <3> DEFINE Turn1(k) == [q \in Nat |-> IF k = 0 \/ q = t \/ ~IsHeader(q, m) THEN <<q>>
                                          ELSE <<q>> \o g[k - 1][After(q, m)]]
    <3>1. g = [k \in 0 .. Size |-> Turn1(k)] BY <1>1 DEF Walks
    <3>2. g[n + 1] = Turn1(n + 1)
      <4> HIDE DEF Turn1
      <4> QED BY <2>1, <3>1
    <3> QED BY <2>1, <3>2
  <2>3. CASE p = t \/ ~IsHeader(p, m)
    <3>1. g[n + 1][p] = <<p>> BY <2>2, <2>3
    <3> QED BY <2>3, <3>1 DEF IsWalk
  <2>4. CASE ~(p = t \/ ~IsHeader(p, m))
    <3>1. After(p, m) \in Nat
      <4>1. p \in 0 .. Size - 1 BY <2>4, SizesAssumption DEF IsHeader
      <4> QED BY <4>1 DEF After, Memory, Headers
    <3> DEFINE v == g[n][After(p, m)]
               w == <<p>> \o v
    <3>2. IsWalk(v, n, After(p, m), t, m) BY <1>4, <2>1, <3>1, SizesAssumption
    <3>3. g[n + 1][p] = w BY <2>2, <2>4
    <3> HIDE DEF v
    <3>4. v \in Seq(Nat) /\ Len(v) \in 1 .. n + 1 /\ v[1] = After(p, m) BY <3>2 DEF IsWalk
    <3>5. w \in Seq(Nat) /\ Len(w) = Len(v) + 1 /\ w[1] = p BY <3>4
    <3>6. \A i \in 2 .. Len(v) + 1 : w[i] = v[i - 1] BY <3>4
    <3> HIDE DEF w
    <3>7. ASSUME NEW i \in 1 .. Len(w) - 1
          PROVE  w[i] # t /\ IsHeader(w[i], m) /\ w[i + 1] = After(w[i], m)
      <4>1. CASE i = 1 BY <2>4, <3>4, <3>5, <3>6, <4>1
      <4>2. CASE i # 1
        <5>1. /\ i - 1 \in 1 .. Len(v) - 1 /\ i \in 2 .. Len(v) + 1
              /\ i + 1 \in 2 .. Len(v) + 1 /\ (i + 1) - 1 = i - 1 + 1
          <6>1. \A k \in Nat : \A j \in 1 .. (k + 1) - 1 : j # 1 =>
                  /\ j - 1 \in 1 .. k - 1 /\ j \in 2 .. k + 1
                  /\ j + 1 \in 2 .. k + 1 /\ (j + 1) - 1 = j - 1 + 1
            OBVIOUS
          <6>2. Len(v) \in Nat /\ i \in 1 .. (Len(v) + 1) - 1 BY <3>4, <3>5
          <6> QED BY <4>2, <6>1, <6>2
        <5>2. i - 1 \in 1 .. Len(v) - 1 /\ w[i] = v[i - 1] /\ w[i + 1] = v[i - 1 + 1]
          BY <3>6, <5>1
        <5> QED BY <3>2, <5>2 DEF IsWalk
      <4> QED BY <4>1, <4>2
    <3>8. w[Len(w)] = v[Len(v)]
      <4>1. Len(w) \in 2 .. Len(v) + 1 /\ Len(w) - 1 = Len(v) BY <3>4, <3>5
      <4> QED BY <3>6, <4>1
    <3>9. Len(v) = n + 1 \/ v[Len(v)] = t \/ ~IsHeader(v[Len(v)], m) BY <3>2 DEF IsWalk
    <3>10. Len(w) = n + 1 + 1 \/ w[Len(w)] = t \/ ~IsHeader(w[Len(w)], m)
      BY <3>4, <3>5, <3>8, <3>9
    <3>11. Len(w) \in 1 .. n + 1 + 1 BY <3>4, <3>5
    <3>12. IsWalk(w, n + 1, p, t, m) BY <3>5, <3>7, <3>10, <3>11 DEF IsWalk
    <3> QED BY <3>3, <3>12
  <2> QED BY <2>3, <2>4
<1>5. Size \in Good
  <2>1. \A n \in Nat : n \in Good => n + 1 \in Good BY <1>4
  <2> HIDE DEF Good
  <2> QED BY <1>3, <2>1, NatSetInduction, SizesAssumption
<1> QED BY <1>2, <1>5

LEMMA Onward ==
  ASSUME NEW p \in Nat, NEW m \in Memory, IsHeader(p, m)
  PROVE  p \in 0 .. Size - 1 /\ m[p] \in Headers /\ m[p] # NoHeader /\ After(p, m) \in Nat
<1>1. p \in 0 .. Size - 1 /\ m[p] # NoHeader BY SizesAssumption DEF IsHeader
<1> QED BY <1>1 DEF Memory, Headers, After

(* A walk that arrives does not meet a position twice.                   *)
LEMMA Distinct ==
  ASSUME NEW n \in Nat, NEW b, NEW t, NEW m, NEW w, IsWalk(w, n, b, t, m), w[Len(w)] = t,
         NEW i \in 1 .. Len(w), NEW j \in 1 .. Len(w), i < j
  PROVE  w[i] # w[j]
<1> SUFFICES ASSUME w[i] = w[j] PROVE FALSE
  OBVIOUS
<1>1. Len(w) \in Nat /\ \A k \in 1 .. Len(w) - 1 : w[k] # t /\ w[k + 1] = After(w[k], m)
  BY DEF IsWalk
<1> DEFINE Good == {d \in Nat : j + d <= Len(w) => w[i + d] = w[j + d]}
<1>2. 0 \in Good OBVIOUS
<1>3. ASSUME NEW d \in Nat, d \in Good PROVE d + 1 \in Good
  <2> SUFFICES ASSUME j + (d + 1) <= Len(w) PROVE w[i + (d + 1)] = w[j + (d + 1)]
    OBVIOUS
  <2>1. w[i + d] = w[j + d] BY <1>1, <1>3
  <2>2. i + d \in 1 .. Len(w) - 1 /\ j + d \in 1 .. Len(w) - 1 BY <1>1
  <2>3. w[i + d + 1] = After(w[i + d], m) /\ w[j + d + 1] = After(w[j + d], m) BY <1>1, <2>2
  <2> QED BY <2>1, <2>3
<1>4. Len(w) - j \in Good
  <2>1. \A d \in Nat : d \in Good => d + 1 \in Good BY <1>3
  <2>2. Len(w) - j \in Nat BY <1>1
  <2> HIDE DEF Good
  <2> QED BY <1>2, <2>1, <2>2, NatSetInduction
<1>5. w[i + (Len(w) - j)] = w[Len(w)] BY <1>1, <1>4
<1>6. i + (Len(w) - j) \in 1 .. Len(w) - 1 BY <1>1
<1> QED BY <1>1, <1>5, <1>6

(* A walk only depends on the headers it meets.                          *)
LEMMA SameWalk ==
  ASSUME NEW n \in Nat, NEW b, NEW t, NEW m, NEW k, NEW w, NEW v,
         IsWalk(w, n, b, t, m), IsWalk(v, n, b, t, k),
         \A p \in Range(w) \ {t} : p < Size => k[p] = m[p],
         NEW i \in 1 .. Len(w)
  PROVE  i <= Len(v) /\ v[i] = w[i]
<1>1. /\ Len(w) \in 1 .. n + 1 /\ w[1] = b
      /\ \A j \in 1 .. Len(w) - 1 : w[j] # t /\ IsHeader(w[j], m) /\ w[j + 1] = After(w[j], m)
  BY DEF IsWalk
<1>2. /\ Len(v) \in 1 .. n + 1 /\ v[1] = b
      /\ \A j \in 1 .. Len(v) - 1 : v[j] # t /\ IsHeader(v[j], k) /\ v[j + 1] = After(v[j], k)
      /\ Len(v) = n + 1 \/ v[Len(v)] = t \/ ~IsHeader(v[Len(v)], k)
  BY DEF IsWalk
<1>3. w \in Seq(Nat) BY DEF IsWalk
<1> DEFINE Good == {d \in Nat : d + 1 <= Len(w) => d + 1 <= Len(v) /\ v[d + 1] = w[d + 1]}
<1>4. 0 \in Good BY <1>1, <1>2
<1>5. ASSUME NEW d \in Nat, d \in Good PROVE d + 1 \in Good
  <2> SUFFICES ASSUME d + 1 + 1 <= Len(w) PROVE d + 1 + 1 <= Len(v) /\ v[d + 1 + 1] = w[d + 1 + 1]
    OBVIOUS
  <2>1. d + 1 <= Len(v) /\ v[d + 1] = w[d + 1] BY <1>1, <1>5
  <2>2. d + 1 \in 1 .. Len(w) - 1 /\ d + 1 \in 1 .. Len(w) BY <1>1
  <2>3. w[d + 1] # t /\ IsHeader(w[d + 1], m) /\ w[d + 1 + 1] = After(w[d + 1], m) BY <1>1, <2>2
  <2>4. w[d + 1] \in Range(w) \ {t} BY <1>3, <2>2, <2>3 DEF Range
  <2>5. w[d + 1] < Size BY <2>3 DEF IsHeader
  <2>6. k[w[d + 1]] = m[w[d + 1]] BY <2>4, <2>5
  <2>7. v[d + 1] # t /\ IsHeader(v[d + 1], k) BY <2>1, <2>3, <2>6 DEF IsHeader
  <2>8. d + 1 # Len(v)
    <3> SUFFICES ASSUME d + 1 = Len(v) PROVE FALSE
      OBVIOUS
    <3>1. Len(v) = n + 1 BY <1>2, <2>7
    <3> QED BY <1>1, <3>1
  <2>9. d + 1 \in 1 .. Len(v) - 1 BY <1>2, <2>1, <2>8
  <2>10. v[d + 1 + 1] = After(v[d + 1], k) BY <1>2, <2>9
  <2>11. After(v[d + 1], k) = After(w[d + 1], m) BY <2>1, <2>6 DEF After
  <2> QED BY <1>2, <2>3, <2>9, <2>10, <2>11
<1>6. i - 1 \in Good
  <2>1. \A d \in Nat : d \in Good => d + 1 \in Good BY <1>5
  <2>2. i - 1 \in Nat BY <1>1
  <2> HIDE DEF Good
  <2> QED BY <1>4, <2>1, <2>2, NatSetInduction
<1> QED BY <1>1, <1>6

(* A walk ends where it arrives.                                         *)
LEMMA LastIs ==
  ASSUME NEW n \in Nat, NEW b, NEW t, NEW m, NEW w, IsWalk(w, n, b, t, m)
  PROVE  Last(w) = w[Len(w)]
BY DEF IsWalk, Last

(* Only headers that a walk from b to t meets are remembered.            *)
Clean(b, t, m) == \A p \in 0 .. Size - 1 : m[p] # NoHeader => p \in Range(Walk(b, t, m)) \ {t}

LEMMA VisitedIs ==
  ASSUME NEW b \in Nat, NEW t, NEW m \in Memory
  PROVE  /\ Visited(b, t, m) \in Memory
         /\ Clean(b, t, Visited(b, t, m))
         /\ \A p \in 0 .. Size - 1 :
              Visited(b, t, m)[p] # NoHeader => Visited(b, t, m)[p] = m[p]
         /\ \A p \in Range(Walk(b, t, m)) \ {t} : p < Size => Visited(b, t, m)[p] = m[p]
<1> DEFINE k == Visited(b, t, m)
           w == Walk(b, t, m)
           v == Walk(b, t, k)
<1>0. k = [p \in 0 .. Size - 1 |-> IF p \in Range(w) \ {t} THEN m[p] ELSE NoHeader]
  <2>1. w \in Seq(Nat)
    <3>1. IsWalk(w, Size, b, t, m) BY WalkIs
    <3> QED BY <3>1 DEF IsWalk
  <2>2. Range(w) \ {t} \in SUBSET Nat BY <2>1 DEF Range
  <2>3. k = Only(m)[Range(w) \ {t}] BY DEF Visited
  <2> HIDE DEF k, w
  <2> QED BY <2>2, <2>3 DEF Only
<1>1. \A p \in 0 .. Size - 1 : k[p] = IF p \in Range(w) \ {t} THEN m[p] ELSE NoHeader
  BY <1>0
<1>2. NoHeader \in Headers BY DEF NoHeader, Headers
<1>3. k \in Memory BY <1>0, <1>2 DEF Memory
<1> HIDE DEF k
<1>4. IsWalk(w, Size, b, t, m) /\ IsWalk(v, Size, b, t, k) BY <1>3, WalkIs
<1> HIDE DEF w, v
<1>5. w \in Seq(Nat) /\ v \in Seq(Nat) BY <1>4 DEF IsWalk
<1>6. \A p \in Range(w) \ {t} : p < Size => k[p] = m[p]
  <2> SUFFICES ASSUME NEW p \in Range(w) \ {t}, p < Size PROVE k[p] = m[p]
    OBVIOUS
  <2>1. p \in Nat BY <1>5 DEF Range
  <2>2. p \in 0 .. Size - 1 BY <2>1, SizesAssumption
  <2> QED BY <1>1, <2>2
<1>7. Range(w) \subseteq Range(v)
  <2>1. Range(w) = {w[i] : i \in 1 .. Len(w)} BY <1>5 DEF Range
  <2> SUFFICES ASSUME NEW i \in 1 .. Len(w) PROVE w[i] \in Range(v)
    BY <2>1
  <2>2. i <= Len(v) /\ v[i] = w[i] BY <1>4, <1>6, SameWalk, SizesAssumption
  <2>3. i \in 1 .. Len(v) BY <1>5, <2>2
  <2> QED BY <1>5, <2>2, <2>3 DEF Range
<1>8. Clean(b, t, k) BY <1>1, <1>7 DEF Clean, v
<1> QED BY <1>1, <1>3, <1>6, <1>8 DEF k, w

----------------------------------------------------------------------------
(* The loop of DequeMsg.                                                 *)

Asks(read) == read.id \in Nat /\ read.buffer \in Nat

ScanStart == [at |-> bottom, bottom |-> bottom, mem |-> mem, last |-> Size,
              found |-> NoMessage, big |-> FALSE]

(* Nothing more happens in the loop.                                     *)
Ends(s) == s.at = top \/ s.big \/ (~s.mem[s.at].read /\ s.found # NoMessage)

(* The headers are those of the memory m: only that of a message that has *)
(* been read grows.                                                      *)
Kept(k, m) ==
  \A p \in 0 .. Size - 1 :
    /\ k[p] # NoHeader <=> m[p] # NoHeader
    /\ ~k[p].read => k[p] = m[p]

Unasked(header, id) == header.read \/ (id # 0 /\ header.id # id)

(* After n turns the loop is at the i-th place of the walk w.            *)
ScanAt(s, n, i, w, read) ==
  /\ s \in LoopStates /\ i \in 1 .. Len(w) /\ s.at = w[i]
  /\ Kept(s.mem, mem)
  /\ s.last = Size \/ \E j \in 1 .. i - 1 : s.last = w[j]
  /\ \A j \in i .. Len(w) - 1 :
       /\ s.mem[w[j]].len = mem[w[j]].len /\ s.mem[w[j]].end = mem[w[j]].end
  /\ s.bottom = s.at \/ (s.bottom \in 0 .. Size - 1 /\ s.mem[s.bottom] # NoHeader /\ ~s.mem[s.bottom].read)
  /\ s.found = NoMessage /\ ~s.big => \A j \in 1 .. i - 1 : Unasked(mem[w[j]], read.id)
  /\ s.found = NoMessage => \A p \in 0 .. Size - 1 : s.mem[p].read <=> mem[p].read
  /\ s.big => ~s.mem[s.at].read
  /\ Ends(s) \/ n = (i - 1) + (IF s.found # NoMessage THEN 1 ELSE 0)

LEMMA ScanTurn ==
  ASSUME bottom \in Nat, top \in Nat, mem \in Memory, NEW read, Asks(read),
         NEW w, IsWalk(w, Size, bottom, top, mem), w[Len(w)] = top,
         NEW s, NEW n \in Nat, NEW i, ScanAt(s, n, i, w, read)
  PROVE  \E j \in 1 .. Len(w) : ScanAt(Turn(s, read), n + 1, j, w, read)
<1>1. /\ s \in LoopStates /\ i \in 1 .. Len(w) /\ s.at = w[i] /\ w \in Seq(Nat)
      /\ s.mem \in Memory /\ s.at \in Nat /\ s.bottom \in Nat /\ s.last \in Nat
      /\ s.big \in BOOLEAN /\ s.found \in [id : Nat, len : Nat] \cup {NoMessage}
  BY DEF ScanAt, LoopStates, IsWalk, Memory
<1> DEFINE r == Turn(s, read)
<1>2. CASE Ends(s) /\ r = s
  BY <1>2 DEF ScanAt
<1>3. CASE ~Ends(s)
  <2>1. i \in 1 .. Len(w) - 1 /\ i + 1 \in 1 .. Len(w) BY <1>1, <1>3 DEF Ends
  <2>2. s.at # top /\ IsHeader(s.at, mem) /\ w[i + 1] = After(s.at, mem)
    BY <1>1, <2>1 DEF IsWalk
  <2>3. s.at \in 0 .. Size - 1 /\ mem[s.at] # NoHeader /\ s.at # Size /\ w[i + 1] \in Nat
    <3>1. s.at \in 0 .. Size - 1 /\ mem[s.at] # NoHeader BY <1>1, <2>2, Onward
    <3>2. s.at # Size
      <4>1. \A q \in 0 .. Size - 1 : q # Size BY SizesAssumption
      <4> QED BY <3>1, <4>1
    <3>3. w[i + 1] \in Nat
      <4>1. \A k \in Nat : \A j \in 1 .. k - 1 : j + 1 \in 1 .. k OBVIOUS
      <4>2. w \in Seq(Nat) /\ Len(w) \in Nat BY <1>1 DEF IsWalk
      <4>3. i + 1 \in 1 .. Len(w) BY <2>1, <4>1, <4>2
      <4> QED BY <4>2, <4>3
    <3> QED BY <3>1, <3>2, <3>3
  <2>4. s.mem[s.at] \in Headers /\ s.mem[s.at] # NoHeader
    BY <1>1, <2>3 DEF Memory, ScanAt, Kept
  <2>5. After(s.at, s.mem) = w[i + 1]
    <3>1. s.mem[s.at].len = mem[s.at].len /\ s.mem[s.at].end = mem[s.at].end
      <4>1. i \in i .. Len(w) - 1 BY <2>1
      <4> QED BY <1>1, <4>1 DEF ScanAt
    <3> QED BY <2>2, <3>1 DEF After
  <2>6. n = (i - 1) + (IF s.found # NoMessage THEN 1 ELSE 0) BY <1>3 DEF ScanAt
  <2>7. CASE s.mem[s.at].read
    <3> DEFINE joins == s.last # Size /\ s.mem[s.last].read
               grown == IF s.mem[s.last].len + s.mem[s.at].len < Size
                        THEN s.mem[s.last].len + s.mem[s.at].len ELSE Size
               k == IF joins THEN [s.mem EXCEPT ![s.last].len = grown] ELSE s.mem
    <3>1. r = [s EXCEPT !.at = w[i + 1],
                        !.bottom = IF s.at = s.bottom THEN w[i + 1] ELSE s.bottom,
                        !.mem = k,
                        !.last = IF joins THEN s.last ELSE s.at]
      BY <1>3, <2>5, <2>7 DEF Ends, Turn, PassRead
    <3>2. ASSUME joins PROVE \E j \in 1 .. i - 1 : s.last = w[j] BY <3>2 DEF ScanAt
    <3>3. ASSUME joins
          PROVE  /\ s.last \in 0 .. Size - 1 /\ s.mem[s.last] \in Headers
                 /\ s.mem[s.last].read /\ s.mem[s.last] # NoHeader
      <4>1. PICK j \in 1 .. i - 1 : s.last = w[j] BY <3>2, <3>3
      <4>2. j \in 1 .. Len(w) - 1 BY <1>1, <4>1
      <4>3. IsHeader(s.last, mem) BY <4>1, <4>2 DEF IsWalk
      <4>4. s.last \in 0 .. Size - 1 /\ mem[s.last] # NoHeader BY <1>1, <4>3, Onward
      <4>5. s.mem[s.last] # NoHeader BY <4>4 DEF ScanAt, Kept
      <4>6. s.mem[s.last] \in Headers BY <1>1, <4>4 DEF Memory
      <4> QED BY <3>3, <4>4, <4>5, <4>6
    <3>4. grown \in Nat \/ ~joins
      <4> SUFFICES ASSUME joins PROVE grown \in Nat
        OBVIOUS
      <4>1. s.mem[s.last].len \in Nat /\ s.mem[s.at].len \in Nat BY <2>4, <3>3 DEF Headers
      <4>2. \A a, b \in Nat : (IF a + b < Size THEN a + b ELSE Size) \in Nat BY SizesAssumption
      <4> HIDE DEF joins
      <4> QED BY <4>1, <4>2
    <3>5. /\ k \in Memory
          /\ \A p \in 0 .. Size - 1 : ~(joins /\ p = s.last) => k[p] = s.mem[p]
          /\ joins => /\ k[s.last].read /\ k[s.last].end = s.mem[s.last].end
                      /\ k[s.last] # NoHeader
      <4>1. CASE joins
        <5> HIDE DEF grown
        <5>1. s.mem[s.last] \in Headers /\ s.last \in 0 .. Size - 1 /\ s.mem[s.last].read
          BY <3>3, <4>1
        <5> DEFINE f == [s.mem[s.last] EXCEPT !.len = grown]
        <5>2. f \in Headers /\ f.read /\ f.end = s.mem[s.last].end
          BY <3>4, <4>1, <5>1 DEF Headers
        <5>3. f # NoHeader BY <5>2 DEF NoHeader
        <5> HIDE DEF f
        <5>4. k = [s.mem EXCEPT ![s.last] = f] BY <4>1 DEF f
        <5> QED BY <1>1, <5>1, <5>2, <5>3, <5>4 DEF Memory
      <4>2. CASE ~joins BY <1>1, <4>2
      <4> QED BY <4>1, <4>2
    <3> HIDE DEF k, grown
    <3>6. r \in LoopStates /\ r.at = w[i + 1] /\ r.mem = k /\ r.found = s.found /\ r.big = s.big
          /\ r.bottom = (IF s.at = s.bottom THEN w[i + 1] ELSE s.bottom)
          /\ r.last = (IF joins THEN s.last ELSE s.at)
      <4> HIDE DEF joins
      <4> QED BY <1>1, <2>3, <3>1, <3>5 DEF LoopStates, Memory
    <3> HIDE DEF r
    <3>7. Kept(r.mem, mem)
      <4> SUFFICES ASSUME NEW p \in 0 .. Size - 1
                   PROVE  /\ k[p] # NoHeader <=> mem[p] # NoHeader
                          /\ ~k[p].read => k[p] = mem[p]
        BY <3>6 DEF Kept
      <4>1. /\ s.mem[p] # NoHeader <=> mem[p] # NoHeader
            /\ ~s.mem[p].read => s.mem[p] = mem[p]
        BY DEF ScanAt, Kept
      <4>2. CASE joins /\ p = s.last BY <3>3, <3>5, <4>1, <4>2
      <4>3. CASE ~(joins /\ p = s.last) BY <3>5, <4>1, <4>3
      <4> QED BY <4>2, <4>3
    <3>8. r.last = Size \/ \E j \in 1 .. (i + 1) - 1 : r.last = w[j]
      <4>1. CASE joins
        <5>1. PICK j \in 1 .. i - 1 : s.last = w[j] BY <3>2, <4>1
        <5>2. j \in 1 .. (i + 1) - 1 BY <2>1, <5>1
        <5> QED BY <3>6, <4>1, <5>1, <5>2
      <4>2. CASE ~joins
        <5>1. i \in 1 .. (i + 1) - 1 BY <2>1
        <5> QED BY <1>1, <3>6, <4>2, <5>1
      <4> QED BY <4>1, <4>2
    <3>9. ASSUME NEW j \in i + 1 .. Len(w) - 1
          PROVE  r.mem[w[j]].len = mem[w[j]].len /\ r.mem[w[j]].end = mem[w[j]].end
      <4>1. j \in i .. Len(w) - 1 /\ j \in 1 .. Len(w) /\ j \in 1 .. Len(w) - 1 BY <1>1, <2>1
      <4>2. s.mem[w[j]].len = mem[w[j]].len /\ s.mem[w[j]].end = mem[w[j]].end
        BY <4>1 DEF ScanAt
      <4>3. w[j] \in 0 .. Size - 1
        <5>1. IsHeader(w[j], mem) BY <4>1 DEF IsWalk
        <5>2. j \in 1 .. Len(w) /\ w \in Seq(Nat) BY <1>1, <4>1
        <5>3. w[j] \in Nat BY <5>2
        <5> QED BY <5>1, <5>3, Onward
      <4>4. ~(joins /\ w[j] = s.last)
        <5> SUFFICES ASSUME joins, w[j] = s.last PROVE FALSE
          OBVIOUS
        <5>1. PICK h \in 1 .. i - 1 : s.last = w[h] BY <3>2
        <5>2. h \in 1 .. Len(w) /\ h < j BY <1>1, <2>1, <4>1, <5>1
        <5> QED BY <4>1, <5>1, <5>2, Distinct, SizesAssumption
      <4> QED BY <3>5, <3>6, <4>2, <4>3, <4>4
    <3>10. \/ r.bottom = r.at
           \/ r.bottom \in 0 .. Size - 1 /\ r.mem[r.bottom] # NoHeader /\ ~r.mem[r.bottom].read
      <4>1. CASE s.bottom = s.at BY <3>6, <4>1
      <4>2. CASE s.bottom # s.at
        <5>1. s.bottom \in 0 .. Size - 1 /\ s.mem[s.bottom] # NoHeader /\ ~s.mem[s.bottom].read
          BY <4>2 DEF ScanAt
        <5>2. ~(joins /\ s.bottom = s.last) BY <3>3, <5>1
        <5> QED BY <3>5, <3>6, <4>2, <5>1, <5>2
      <4> QED BY <4>1, <4>2
    <3>11. ASSUME r.found = NoMessage, ~r.big, NEW j \in 1 .. (i + 1) - 1
           PROVE  Unasked(mem[w[j]], read.id)
      <4>1. CASE j = i
        <5>1. s.mem[s.at].read <=> mem[s.at].read BY <2>3, <3>6, <3>11 DEF ScanAt
        <5> QED BY <1>1, <2>7, <4>1, <5>1 DEF Unasked
      <4>2. CASE j # i
        <5>1. j \in 1 .. i - 1 BY <2>1, <4>2
        <5> QED BY <3>6, <3>11, <5>1 DEF ScanAt
      <4> QED BY <4>1, <4>2
    <3>12. ASSUME r.found = NoMessage, NEW p \in 0 .. Size - 1
           PROVE  r.mem[p].read <=> mem[p].read
      <4>1. s.mem[p].read <=> mem[p].read BY <3>6, <3>12 DEF ScanAt
      <4>2. CASE joins /\ p = s.last BY <3>3, <3>5, <3>6, <4>1, <4>2
      <4>3. CASE ~(joins /\ p = s.last) BY <3>5, <3>6, <4>1, <4>3
      <4> QED BY <4>2, <4>3
    <3>13. n + 1 = ((i + 1) - 1) + (IF r.found # NoMessage THEN 1 ELSE 0)
      BY <2>1, <2>6, <3>6
    <3>15. ~r.big BY <1>3, <3>6 DEF Ends
    <3>14. ScanAt(r, n + 1, i + 1, w, read)
      BY <2>1, <3>6, <3>7, <3>8, <3>9, <3>10, <3>11, <3>12, <3>13, <3>15 DEF ScanAt
    <3> QED BY <2>1, <3>14 DEF r
  <2>8. CASE ~s.mem[s.at].read /\ read.id # 0 /\ s.mem[s.at].id # read.id
    <3>1. s.found = NoMessage BY <1>3, <2>8 DEF Ends
    <3>2. r = [s EXCEPT !.at = w[i + 1], !.last = Size]
      BY <1>3, <2>5, <2>8, <3>1 DEF Ends, Turn
    <3>3. r \in LoopStates /\ r.at = w[i + 1] /\ r.last = Size /\ r.mem = s.mem
          /\ r.bottom = s.bottom /\ r.found = s.found /\ r.big = s.big
      BY <1>1, <2>3, <3>2, SizesAssumption DEF LoopStates
    <3> HIDE DEF r
    <3>4. ASSUME ~r.big, NEW j \in 1 .. (i + 1) - 1 PROVE Unasked(mem[w[j]], read.id)
      <4>1. CASE j = i
        <5>1. s.mem[s.at] = mem[s.at] BY <2>3, <2>8 DEF ScanAt, Kept
        <5> QED BY <1>1, <2>8, <4>1, <5>1 DEF Unasked
      <4>2. CASE j # i
        <5>1. j \in 1 .. i - 1 BY <2>1, <4>2
        <5> QED BY <3>1, <3>3, <3>4, <5>1 DEF ScanAt
      <4> QED BY <4>1, <4>2
    <3>5. n + 1 = ((i + 1) - 1) + (IF r.found # NoMessage THEN 1 ELSE 0)
      BY <2>1, <2>6, <3>3
    <3>6. \A j \in i + 1 .. Len(w) - 1 :
            r.mem[w[j]].len = mem[w[j]].len /\ r.mem[w[j]].end = mem[w[j]].end
      <4>1. \A j \in i + 1 .. Len(w) - 1 : j \in i .. Len(w) - 1 BY <2>1
      <4> QED BY <3>3, <4>1 DEF ScanAt
    <3>7. \/ r.bottom = r.at
          \/ r.bottom \in 0 .. Size - 1 /\ r.mem[r.bottom] # NoHeader /\ ~r.mem[r.bottom].read
      BY <2>3, <2>4, <2>8, <3>3 DEF ScanAt
    <3>8. Kept(r.mem, mem) /\ (r.found = NoMessage => \A p \in 0 .. Size - 1 : r.mem[p].read <=> mem[p].read)
      BY <3>3 DEF ScanAt
    <3>10. ~r.big BY <1>3, <3>3 DEF Ends
    <3>9. ScanAt(r, n + 1, i + 1, w, read)
      BY <2>1, <3>3, <3>4, <3>5, <3>6, <3>7, <3>8, <3>10 DEF ScanAt
    <3> QED BY <2>1, <3>9 DEF r
  <2>9. CASE ~s.mem[s.at].read /\ ~(read.id # 0 /\ s.mem[s.at].id # read.id) /\ read.buffer > s.mem[s.at].len
    <3>1. s.found = NoMessage BY <1>3, <2>9 DEF Ends
    <3> DEFINE message == [id |-> s.mem[s.at].id, len |-> s.mem[s.at].len]
               header == [s.mem[s.at] EXCEPT !.read = TRUE]
    <3>2. r = [s EXCEPT !.mem[s.at].read = TRUE, !.found = message]
      BY <1>3, <2>9, <3>1 DEF Ends, Turn, CopyOut
    <3>3. message \in [id : Nat, len : Nat] /\ message # NoMessage
      <4>1. message \in [id : Nat, len : Nat] BY <2>4 DEF Headers
      <4> HIDE DEF message
      <4> QED BY <4>1, MessagesAssumption
    <3>4. header \in Headers /\ header.read /\ header.len = s.mem[s.at].len
          /\ header.end = s.mem[s.at].end
      BY <2>4 DEF Headers
    <3>5. header # NoHeader BY <3>4 DEF NoHeader
    <3> HIDE DEF header, message
    <3>6. r.mem = [s.mem EXCEPT ![s.at] = header] /\ r.found = message /\ r.at = s.at
          /\ r.bottom = s.bottom /\ r.last = s.last /\ r.big = s.big
      BY <1>1, <3>2 DEF LoopStates, header
    <3>7. r \in LoopStates
      <4>1. r.mem \in Memory BY <1>1, <2>3, <3>4, <3>6 DEF Memory
      <4> QED BY <1>1, <3>2, <3>3, <3>6, <4>1 DEF LoopStates, Memory
    <3> HIDE DEF r
    <3>8. \A p \in 0 .. Size - 1 : r.mem[p] = IF p = s.at THEN header ELSE s.mem[p]
      BY <1>1, <2>3, <3>6 DEF Memory
    <3>9. Kept(r.mem, mem)
      <4> SUFFICES ASSUME NEW p \in 0 .. Size - 1
                   PROVE  /\ r.mem[p] # NoHeader <=> mem[p] # NoHeader
                          /\ ~r.mem[p].read => r.mem[p] = mem[p]
        BY DEF Kept
      <4>1. CASE p = s.at BY <2>3, <3>4, <3>5, <3>8, <4>1
      <4>2. CASE p # s.at BY <3>8, <4>2 DEF ScanAt, Kept
      <4> QED BY <4>1, <4>2
    <3>10. ASSUME NEW j \in i .. Len(w) - 1
           PROVE  r.mem[w[j]].len = mem[w[j]].len /\ r.mem[w[j]].end = mem[w[j]].end
      <4>1. j \in 1 .. Len(w) - 1 BY <2>1
      <4>2. w[j] \in 0 .. Size - 1
        <5>1. IsHeader(w[j], mem) BY <4>1 DEF IsWalk
        <5>2. j \in 1 .. Len(w) /\ w \in Seq(Nat) BY <1>1, <4>1
        <5>3. w[j] \in Nat BY <5>2
        <5> QED BY <5>1, <5>3, Onward
      <4>3. s.mem[w[j]].len = mem[w[j]].len /\ s.mem[w[j]].end = mem[w[j]].end BY DEF ScanAt
      <4> QED BY <3>4, <3>8, <4>2, <4>3
    <3>11. \/ r.bottom = r.at
           \/ r.bottom \in 0 .. Size - 1 /\ r.mem[r.bottom] # NoHeader /\ ~r.mem[r.bottom].read
      BY <3>6, <3>8 DEF ScanAt
    <3>12. n + 1 = (i - 1) + (IF r.found # NoMessage THEN 1 ELSE 0)
      BY <2>1, <2>6, <3>1, <3>3, <3>6
    <3>13. r.found # NoMessage BY <3>3, <3>6
    <3>14. r.last = Size \/ \E j \in 1 .. i - 1 : r.last = w[j] BY <3>6 DEF ScanAt
    <3>16. ~r.big BY <1>3, <3>6 DEF Ends
    <3>15. ScanAt(r, n + 1, i, w, read)
      BY <1>1, <3>16, <3>6, <3>7, <3>9, <3>10, <3>11, <3>12, <3>13, <3>14 DEF ScanAt
    <3> QED BY <1>1, <3>15 DEF r
  <2>10. CASE ~s.mem[s.at].read /\ ~(read.id # 0 /\ s.mem[s.at].id # read.id) /\ ~(read.buffer > s.mem[s.at].len)
    <3>1. s.found = NoMessage BY <1>3, <2>10 DEF Ends
    <3>2. r = [s EXCEPT !.big = TRUE] BY <1>3, <2>10, <3>1 DEF Ends, Turn
    <3>3. r \in LoopStates /\ r.at = s.at /\ r.last = s.last /\ r.mem = s.mem
          /\ r.bottom = s.bottom /\ r.found = s.found /\ r.big
      BY <1>1, <3>2 DEF LoopStates
    <3> HIDE DEF r
    <3>4. Ends(r) BY <3>3 DEF Ends
    <3>5. ScanAt(r, n + 1, i, w, read) BY <2>10, <3>3, <3>4 DEF ScanAt
    <3> QED BY <1>1, <3>5 DEF r
  <2> QED BY <2>7, <2>8, <2>9, <2>10
<1>4. Ends(s) => r = s BY DEF Ends, Turn
<1> QED BY <1>2, <1>3, <1>4

(* What the loop of DequeMsg leaves.                                     *)
Scanned(s, read) ==
  /\ s \in LoopStates /\ Kept(s.mem, mem)
  /\ \/ s.bottom = top
     \/ s.bottom \in 0 .. Size - 1 /\ s.mem[s.bottom] # NoHeader /\ ~s.mem[s.bottom].read
  /\ s.found = NoMessage /\ ~s.big => \A p \in Unread : Unasked(mem[p], read.id)

LEMMA ScanIs ==
  ASSUME bottom \in Nat, top \in Nat, mem \in Memory, Intact, NEW read, Asks(read)
  PROVE  Scanned(Scan(read), read)
<1> DEFINE w == Walk(bottom, top, mem)
           turn == [s \in LoopStates |-> Turn(s, read)]
           loop == CHOOSE f : Loops(f, ScanStart, turn, Size + 1)
<1>1. IsWalk(w, Size, bottom, top, mem) BY WalkIs
<1>2. Last(w) = top BY DEF Intact
<1>3. Scan(read) = loop[Size + 1] BY DEF Scan, ScanStart, Loops
<1> HIDE DEF w
<1>4. w[Len(w)] = top BY <1>1, <1>2, LastIs, SizesAssumption
<1>5. Loops(loop, ScanStart, turn, Size + 1)
  <2> HIDE DEF turn
  <2> QED BY LoopExists, SizesAssumption
<1> HIDE DEF loop
<1>6. loop[0] = ScanStart /\ \A n \in Nat : n < Size + 1 => loop[n + 1] = turn[loop[n]]
  <2> HIDE DEF turn
  <2> QED BY <1>5, LoopIs, SizesAssumption
<1> DEFINE Good == {n \in Nat : n <= Size + 1 => \E i \in 1 .. Len(w) : ScanAt(loop[n], n, i, w, read)}
<1>8. 0 \in Good
  <2>1. ScanStart \in LoopStates BY SizesAssumption DEF ScanStart, LoopStates, Memory
  <2>2. 1 \in 1 .. Len(w) /\ w[1] = bottom BY <1>1 DEF IsWalk
  <2>3. ScanAt(ScanStart, 0, 1, w, read)
    <3>1. Kept(mem, mem) BY DEF Kept
    <3> QED BY <2>1, <2>2, <3>1 DEF ScanAt, ScanStart
  <2> QED BY <1>6, <2>2, <2>3
<1>9. ASSUME NEW n \in Nat, n \in Good PROVE n + 1 \in Good
  <2> SUFFICES ASSUME n + 1 <= Size + 1
               PROVE  \E i \in 1 .. Len(w) : ScanAt(loop[n + 1], n + 1, i, w, read)
    OBVIOUS
  <2>1. PICK i \in 1 .. Len(w) : ScanAt(loop[n], n, i, w, read) BY <1>9, SizesAssumption
  <2>2. n < Size + 1 BY SizesAssumption
  <2>3. loop[n] \in LoopStates BY <2>1 DEF ScanAt
  <2>4. loop[n + 1] = Turn(loop[n], read)
    <3>1. loop[n + 1] = turn[loop[n]]
      <4> HIDE DEF turn
      <4> QED BY <1>6, <2>2
    <3> QED BY <2>3, <3>1
  <2> QED BY <1>1, <1>4, <2>1, <2>4, ScanTurn
<1>10. PICK i \in 1 .. Len(w) : ScanAt(loop[Size + 1], Size + 1, i, w, read)
  <2>1. \A n \in Nat : n \in Good => n + 1 \in Good BY <1>9
  <2>2. Size + 1 \in Good
    <3> HIDE DEF Good
    <3> QED BY <1>8, <2>1, NatSetInduction, SizesAssumption
  <2> QED BY <2>2, SizesAssumption
<1> DEFINE s == loop[Size + 1]
<1> HIDE DEF s
<1>11. ScanAt(s, Size + 1, i, w, read) BY <1>10 DEF s
<1>12. Ends(s)
  <2> SUFFICES ASSUME ~Ends(s) PROVE FALSE
    OBVIOUS
  <2>1. i <= Len(w) /\ Len(w) <= Size + 1 /\ Len(w) \in Nat BY <1>1 DEF IsWalk
  <2>2. Size + 1 = (i - 1) + (IF s.found # NoMessage THEN 1 ELSE 0) BY <1>11 DEF ScanAt
  <2>3. i = Len(w) BY <2>1, <2>2, SizesAssumption
  <2>4. s.at = top BY <1>4, <1>11, <2>3 DEF ScanAt
  <2> QED BY <2>4 DEF Ends
<1>13. s.mem \in Memory /\ s.at \in Nat BY <1>11 DEF ScanAt, LoopStates, Memory
<1>14. \/ s.bottom = top
       \/ s.bottom \in 0 .. Size - 1 /\ s.mem[s.bottom] # NoHeader /\ ~s.mem[s.bottom].read
  <2>1. \/ s.bottom = s.at
        \/ s.bottom \in 0 .. Size - 1 /\ s.mem[s.bottom] # NoHeader /\ ~s.mem[s.bottom].read
    BY <1>11 DEF ScanAt
  <2>2. ASSUME s.at # top PROVE s.at \in 0 .. Size - 1 /\ s.mem[s.at] # NoHeader /\ ~s.mem[s.at].read
    <3>1. i \in 1 .. Len(w) - 1 /\ s.at = w[i]
      <4>1. i \in 1 .. Len(w) /\ s.at = w[i] /\ Len(w) \in Nat BY <1>1, <1>11 DEF ScanAt, IsWalk
      <4> QED BY <1>4, <2>2, <4>1
    <3>2. IsHeader(s.at, mem) BY <1>1, <3>1 DEF IsWalk
    <3>3. s.at \in 0 .. Size - 1 /\ mem[s.at] # NoHeader BY <1>13, <3>2, Onward
    <3>4. s.mem[s.at] # NoHeader BY <1>11, <3>3 DEF ScanAt, Kept
    <3>5. ~s.mem[s.at].read BY <1>11, <1>12, <2>2 DEF ScanAt, Ends
    <3> QED BY <3>3, <3>4, <3>5
  <2> QED BY <2>1, <2>2
<1>15. ASSUME s.found = NoMessage, ~s.big, NEW p \in Unread
       PROVE  Unasked(mem[p], read.id)
  <2>1. s.at = top BY <1>12, <1>15 DEF Ends
  <2>2. i \in 1 .. Len(w) /\ s.at = w[i] /\ w \in Seq(Nat) BY <1>1, <1>11 DEF ScanAt, IsWalk
  <2>3. i = Len(w)
    <3>1. i \notin 1 .. Len(w) - 1 BY <1>1, <2>1, <2>2 DEF IsWalk
    <3> QED BY <2>2, <3>1
  <2>4. PICK j \in 1 .. Len(w) : p = w[j]
    <3>1. p \in Range(w) BY DEF Unread, w
    <3> QED BY <2>2, <3>1 DEF Range
  <2>5. p # top BY DEF Unread
  <2>6. j \in 1 .. i - 1 BY <1>4, <2>2, <2>3, <2>4, <2>5
  <2> QED BY <1>11, <1>15, <2>4, <2>6 DEF ScanAt
<1> QED BY <1>3, <1>11, <1>14, <1>15 DEF Scanned, ScanAt, s

----------------------------------------------------------------------------
(* The ring.                                                             *)

(* The positions an intact walk meets have headers.                      *)
LEMMA Met ==
  ASSUME NEW b \in Nat, NEW t, NEW m \in Memory, Last(Walk(b, t, m)) = t,
         NEW p \in Range(Walk(b, t, m)) \ {t}
  PROVE  p \in 0 .. Size - 1 /\ m[p] # NoHeader
<1> DEFINE w == Walk(b, t, m)
<1>1. IsWalk(w, Size, b, t, m) /\ Last(w) = t /\ p \in Range(w) BY WalkIs
<1> HIDE DEF w
<1>2. w[Len(w)] = t BY <1>1, LastIs, SizesAssumption
<1>3. w \in Seq(Nat) BY <1>1 DEF IsWalk
<1>4. PICK i \in 1 .. Len(w) : p = w[i] BY <1>1, <1>3 DEF Range
<1>5. i \in 1 .. Len(w) - 1 BY <1>2, <1>3, <1>4
<1>6. p \in Nat /\ IsHeader(p, m) BY <1>1, <1>3, <1>4, <1>5 DEF IsWalk
<1> QED BY <1>6, Onward

(* A ring that has not come to its Top starts with a header, and goes on. *)
LEMMA Starts ==
  ASSUME NEW b \in Nat, NEW t, NEW m \in Memory, Last(Walk(b, t, m)) = t, b # t
  PROVE  /\ b \in 0 .. Size - 1 /\ m[b] # NoHeader /\ b \in Range(Walk(b, t, m)) \ {t}
         /\ After(b, m) \in Range(Walk(b, t, m))
<1> DEFINE w == Walk(b, t, m)
<1>1. IsWalk(w, Size, b, t, m) /\ Last(w) = t BY WalkIs
<1> HIDE DEF w
<1>2. w[Len(w)] = t BY <1>1, LastIs, SizesAssumption
<1>3. w \in Seq(Nat) /\ Len(w) \in Nat /\ w[1] = b /\ 1 <= Len(w) BY <1>1 DEF IsWalk
<1>4. 1 \in 1 .. Len(w) - 1 /\ 2 \in 1 .. Len(w) /\ 1 \in 1 .. Len(w)
  <2>1. Len(w) # 1 BY <1>2, <1>3
  <2>2. Len(w) \in Nat /\ 1 <= Len(w) BY <1>3
  <2>3. \A k \in Nat : 1 <= k /\ k # 1 => 1 \in 1 .. k - 1 /\ 2 \in 1 .. k /\ 1 \in 1 .. k OBVIOUS
  <2> QED BY <2>1, <2>2, <2>3
<1>5. IsHeader(b, m) /\ w[2] = After(b, m) BY <1>1, <1>3, <1>4 DEF IsWalk
<1>6. b \in 0 .. Size - 1 /\ m[b] # NoHeader BY <1>5, Onward
<1>7. w[1] \in Range(w) /\ w[2] \in Range(w) BY <1>3, <1>4 DEF Range
<1> QED BY <1>3, <1>5, <1>6, <1>7 DEF w

(* Bottom is at the oldest unread message, or at the header that a message *)
(* left behind which went to the start of an empty ring, or at Top.      *)
Ready ==
  Intact =>
    \/ bottom = top
    \/ mem[bottom] # NoHeader /\ ~mem[bottom].read
    \/ /\ mem[bottom] = Junk /\ 0 < top /\ top < bottom
       /\ mem[0] # NoHeader /\ ~mem[0].read

RingInv ==
  /\ bottom \in Nat /\ Place /\ mem \in Memory
  /\ Clean(bottom, top, mem)
  /\ Ready

LEMMA ScanKeepsRing ==
  ASSUME RingInv, Intact, NEW read, Asks(read), ScanRing(Scan(read))
  PROVE  /\ RingInv'
         /\ Intact' => \A p \in Unread' : p \in Unread /\ mem'[p] = mem[p]
<1> DEFINE s == Scan(read)
<1>1. bottom \in Nat /\ top \in Nat /\ mem \in Memory /\ Clean(bottom, top, mem)
  BY DEF RingInv, Place
<1>2. Scanned(s, read) BY <1>1, ScanIs
<1>3. bottom' = s.bottom /\ mem' = Visited(s.bottom, top, s.mem) /\ top' = top BY DEF ScanRing
<1> HIDE DEF s
<1>4. s.bottom \in Nat /\ s.mem \in Memory BY <1>2 DEF Scanned, LoopStates, Memory
<1>5. /\ mem' \in Memory /\ Clean(bottom', top', mem')
      /\ \A p \in 0 .. Size - 1 : mem'[p] # NoHeader => mem'[p] = s.mem[p]
      /\ \A p \in Range(Walk(s.bottom, top, s.mem)) \ {top} : p < Size => mem'[p] = s.mem[p]
  BY <1>3, <1>4, VisitedIs
<1>6. Place'
  BY <1>3 DEF RingInv, Place, TopLeavesRoom
<1>7. ASSUME Intact', bottom' # top' PROVE mem'[bottom'] # NoHeader /\ ~mem'[bottom'].read
  <2>1. s.bottom \in 0 .. Size - 1 /\ ~s.mem[s.bottom].read
    BY <1>2, <1>3, <1>7 DEF Scanned
  <2>2. mem'[bottom'] # NoHeader
    <3>1. Last(Walk(bottom', top', mem')) = top' BY <1>7 DEF Intact
    <3> QED BY <1>3, <1>4, <1>5, <1>7, <3>1, Starts
  <2>3. mem'[bottom'] = s.mem[s.bottom] BY <1>3, <1>5, <2>1, <2>2
  <2> QED BY <2>1, <2>2, <2>3
<1>8. ASSUME Intact', NEW p \in Unread' PROVE p \in Unread /\ mem'[p] = mem[p]
  <2>1. p \in Range(Walk(bottom', top', mem')) \ {top'} /\ ~mem'[p].read BY DEF Unread
  <2>2. Last(Walk(bottom', top', mem')) = top' BY <1>8 DEF Intact
  <2>3. p \in 0 .. Size - 1 /\ mem'[p] # NoHeader BY <1>3, <1>4, <1>5, <2>1, <2>2, Met
  <2>4. mem'[p] = s.mem[p] BY <1>5, <2>3
  <2>5. s.mem[p] = mem[p] BY <1>2, <2>1, <2>3, <2>4 DEF Scanned, Kept
  <2>6. p \in Range(Walk(bottom, top, mem)) \ {top} BY <1>1, <2>3, <2>4, <2>5 DEF Clean
  <2> QED BY <2>1, <2>4, <2>5, <2>6 DEF Unread
<1>9. Ready' BY <1>7 DEF Ready
<1> QED BY <1>3, <1>4, <1>5, <1>6, <1>8, <1>9 DEF RingInv

(* The header of a message that is posted.                               *)
Header(msg) == [id |-> msg.id, len |-> msg.len, read |-> FALSE, end |-> ExactFit(msg.len)]

LEMMA StoredIs ==
  ASSUME RingInv, NEW msg \in Messages, msg.len <= Size \div 4
  PROVE  LET at == StoreAt(msg.len)
             m == Stored(msg)
         IN  /\ m \in Memory /\ Header(msg) \in Headers /\ Header(msg) # NoHeader
             /\ TooNear(msg.len) => top # at /\ top \notin at + 1 .. at + msg.len - 1
             /\ \A p \in 0 .. Size - 1 :
                  /\ p = at => m[p] = Header(msg)
                  /\ p \in at + 1 .. at + msg.len - 1 => m[p] = NoHeader
                  /\ p # at /\ p \notin at + 1 .. at + msg.len - 1 =>
                       m[p] = IF p = top /\ TooNear(msg.len) THEN Junk ELSE mem[p]
<1> DEFINE len == msg.len
           at == StoreAt(len)
           m == Stored(msg)
           header == Header(msg)
<1>1. top \in Nat /\ mem \in Memory BY DEF RingInv, Place
<1>2. len \in Nat /\ msg.id \in Nat /\ len <= Size \div 4 /\ 0 < len
  BY MessagesAssumption, SizesAssumption
<1>3. header \in Headers /\ header # NoHeader
  <2>1. header \in Headers BY <1>2 DEF Header, Headers, ExactFit
  <2>2. header.len # NoHeader.len BY <1>2 DEF Header, NoHeader
  <2> HIDE DEF header
  <2> QED BY <2>1, <2>2
<1>4. Junk \in Headers /\ NoHeader \in Headers BY DEF Junk, NoHeader, Headers
<1>5. m = [p \in 0 .. Size - 1 |->
            CASE p = at -> header
              [] p \in at + 1 .. at + len - 1 -> NoHeader
              [] p = top /\ TooNear(len) -> Junk
              [] OTHER -> mem[p]]
  BY DEF Stored, Header
<1>6. Size \in Nat /\ Hdr \in Nat \ {0} /\ 4 * Hdr <= Size /\ 4 * len <= Size
  BY <1>2, QuarterLength, SizesAssumption
<1> HIDE DEF header, at, len
<1>7. TooNear(len) => top # at /\ top \notin at + 1 .. at + len - 1
  BY <1>1, <1>2, <1>6 DEF TooNear, StoreAt, at
<1>8. at \in Nat BY <1>1 DEF at, StoreAt
<1>9. \A p \in 0 .. Size - 1 :
        /\ p = at => m[p] = header
        /\ p \in at + 1 .. at + len - 1 => m[p] = NoHeader
        /\ p # at /\ p \notin at + 1 .. at + len - 1 =>
             m[p] = IF p = top /\ TooNear(len) THEN Junk ELSE mem[p]
  <2> HIDE DEF m
  <2> SUFFICES ASSUME NEW p \in 0 .. Size - 1
               PROVE  /\ p = at => m[p] = header
                      /\ p \in at + 1 .. at + len - 1 => m[p] = NoHeader
                      /\ p # at /\ p \notin at + 1 .. at + len - 1 =>
                           m[p] = IF p = top /\ TooNear(len) THEN Junk ELSE mem[p]
    OBVIOUS
  <2>1. m[p] = CASE p = at -> header
                 [] p \in at + 1 .. at + len - 1 -> NoHeader
                 [] p = top /\ TooNear(len) -> Junk
                 [] OTHER -> mem[p]
    BY <1>5
  <2>2. at \notin at + 1 .. at + len - 1 BY <1>2, <1>8
  <2>3. CASE p = at BY <1>7, <2>1, <2>2, <2>3
  <2>4. CASE p \in at + 1 .. at + len - 1 BY <1>7, <2>1, <2>2, <2>4
  <2>5. CASE p # at /\ p \notin at + 1 .. at + len - 1 BY <2>1, <2>5
  <2> QED BY <2>2, <2>3, <2>4, <2>5
<1>10. m \in Memory
  <2>1. ASSUME NEW p \in 0 .. Size - 1 PROVE m[p] \in Headers
    <3>1. mem[p] \in Headers BY <1>1 DEF Memory
    <3> HIDE DEF m
    <3> QED BY <1>3, <1>4, <1>9, <3>1
  <2>2. m = [p \in 0 .. Size - 1 |-> m[p]] BY <1>5
  <2> HIDE DEF m
  <2> QED BY <2>1, <2>2 DEF Memory
<1> HIDE DEF m
<1> QED BY <1>3, <1>7, <1>9, <1>10 DEF m, at, len, header

LEMMA PostKeepsRing ==
  ASSUME RingInv, NEW msg \in Messages, EnqueMsg(msg)
  PROVE  /\ RingInv'
         /\ Intact' => \A p \in Unread' :
              (p \in Unread /\ mem'[p] = mem[p]) \/ mem'[p].id = msg.id
<1> DEFINE len == msg.len
           at == StoreAt(len)
           m == Stored(msg)
           header == [id |-> msg.id, len |-> len, read |-> FALSE, end |-> ExactFit(len)]
<1>1. bottom \in Nat /\ top \in Nat /\ mem \in Memory /\ Clean(bottom, top, mem) /\ Intact
      /\ Place /\ TopLeavesRoom
  BY DEF RingInv, Place, EnqueMsg
<1>2. len \in Nat /\ msg.id \in Nat /\ len <= Size \div 4 /\ ~NoRoom(len) /\ 0 < len
  BY MessagesAssumption, SizesAssumption DEF EnqueMsg
<1>3. /\ top' = NewTop(len) /\ bottom' = bottom /\ mem' = Visited(bottom, NewTop(len), m)
  BY DEF EnqueMsg, Stored
<1>4. header \in Headers /\ header # NoHeader /\ ~header.read /\ header.id = msg.id
  <2>1. ~header.read /\ header.id = msg.id OBVIOUS
  <2> QED BY <1>2, <2>1, StoredIs DEF Header
<1>5. Junk # NoHeader /\ Junk.read BY DEF Junk, NoHeader
<1>6. /\ m \in Memory
      /\ TooNear(len) => top # at /\ top \notin at + 1 .. at + len - 1
      /\ \A p \in 0 .. Size - 1 :
           /\ p = at => m[p] = header
           /\ p \in at + 1 .. at + len - 1 => m[p] = NoHeader
           /\ p # at /\ p \notin at + 1 .. at + len - 1 =>
                m[p] = IF p = top /\ TooNear(len) THEN Junk ELSE mem[p]
  BY <1>2, StoredIs DEF Header
<1>13. Size \in Nat /\ Hdr \in Nat \ {0} /\ 4 * Hdr <= Size BY SizesAssumption
<1>14. 4 * len <= Size BY <1>2, QuarterLength
<1> HIDE DEF header, at, len
<1>7. at \in Nat BY <1>1 DEF at, StoreAt
<1>8. \A p \in 0 .. Size - 1 :
        /\ p = at => m[p] = header
        /\ p \in at + 1 .. at + len - 1 => m[p] = NoHeader
        /\ p # at /\ p \notin at + 1 .. at + len - 1 =>
             m[p] = IF p = top /\ TooNear(len) THEN Junk ELSE mem[p]
  BY <1>6
<1>9. m \in Memory BY <1>6
<1> HIDE DEF m
<1>10. NewTop(len) \in Nat /\ NewTop(len) + Hdr < Size /\ Place'
  <2>1. NewTop(len) \in Nat /\ NewTop(len) + Hdr < Size BY <1>1, <1>2, StoredInside
  <2> QED BY <1>3, <2>1 DEF Place, TopLeavesRoom
<1>11. /\ mem' \in Memory /\ Clean(bottom', top', mem')
       /\ \A p \in 0 .. Size - 1 : mem'[p] # NoHeader => mem'[p] = m[p]
       /\ \A p \in Range(Walk(bottom, top', m)) \ {top'} : p < Size => mem'[p] = m[p]
  BY <1>1, <1>3, <1>9, <1>10, VisitedIs
<1>12. ASSUME Intact', NEW p \in Unread'
       PROVE  (p \in Unread /\ mem'[p] = mem[p]) \/ mem'[p].id = msg.id
  <2>1. p \in Range(Walk(bottom', top', mem')) \ {top'} /\ ~mem'[p].read BY DEF Unread
  <2>2. Last(Walk(bottom', top', mem')) = top' BY <1>12 DEF Intact
  <2>3. p \in 0 .. Size - 1 /\ mem'[p] # NoHeader BY <1>1, <1>3, <1>11, <2>1, <2>2, Met
  <2>4. mem'[p] = m[p] BY <1>11, <2>3
  <2>5. CASE p = at BY <1>4, <1>8, <2>3, <2>4, <2>5
  <2>6. CASE p # at
    <3>1. m[p] = mem[p] BY <1>5, <1>8, <2>1, <2>3, <2>4, <2>6
    <3>2. p \in Range(Walk(bottom, top, mem)) \ {top} BY <1>1, <2>3, <2>4, <3>1 DEF Clean
    <3> QED BY <2>1, <2>4, <3>1, <3>2 DEF Unread
  <2> QED BY <2>5, <2>6
<1>15. bottom' # top' BY <1>2, <1>3 DEF NoRoom
<1>16. ASSUME Intact'
       PROVE  \/ mem'[bottom'] # NoHeader /\ ~mem'[bottom'].read
              \/ /\ mem'[bottom'] = Junk /\ 0 < top' /\ top' < bottom'
                 /\ mem'[0] # NoHeader /\ ~mem'[0].read
  <2>1. Last(Walk(bottom', top', mem')) = top' BY <1>16 DEF Intact
  <2>2. bottom \in 0 .. Size - 1 /\ mem'[bottom] # NoHeader BY <1>1, <1>3, <1>11, <1>15, <2>1, Starts
  <2>3. mem'[bottom] = m[bottom] BY <1>11, <2>2
  <2>4. bottom \notin at + 1 .. at + len - 1 BY <1>8, <2>2, <2>3
  <2>5. CASE bottom = at BY <1>3, <1>4, <1>8, <2>2, <2>3, <2>5
  <2>8. After(bottom, mem') \in Range(Walk(bottom', top', mem'))
    BY <1>1, <1>3, <1>11, <1>15, <2>1, Starts
  <2>9. ASSUME mem'[bottom] = Junk, 0 < top', m[0] # NoHeader => ~m[0].read
        PROVE  mem'[0] # NoHeader /\ ~mem'[0].read
    <3>1. After(bottom, mem') = 0 BY <2>9 DEF After, Junk
    <3>2. 0 \in Range(Walk(bottom', top', mem')) \ {top'} BY <2>8, <2>9, <3>1
    <3>3. 0 \in 0 .. Size - 1 /\ mem'[0] # NoHeader BY <1>1, <1>3, <1>11, <2>1, <3>2, Met
    <3>4. mem'[0] = m[0] BY <1>11, <3>3
    <3> QED BY <2>9, <3>3, <3>4
  <2>10. 0 \in 0 .. Size - 1 BY <1>13
  <2>6. CASE bottom # at /\ bottom # top
    <3>1. m[bottom] = mem[bottom] BY <1>8, <2>2, <2>4, <2>6
    <3>2. CASE ~mem[bottom].read BY <1>3, <2>2, <2>3, <3>1, <3>2
    <3>3. CASE mem[bottom].read
      <4>1. mem[bottom] = Junk /\ 0 < top /\ top < bottom /\ ~mem[0].read
        BY <1>1, <2>6, <3>3 DEF RingInv, Ready
      <4>2. ~ExactFit(len)
        <5> SUFFICES ASSUME ExactFit(len) PROVE FALSE
          OBVIOUS
        <5>1. at = top /\ top + len = Size BY DEF at, StoreAt, TooNear, ExactFit
        <5> QED BY <1>1, <1>2, <1>13, <2>2, <2>4, <4>1, <5>1
      <4>3. CASE TooNear(len)
        <5>1. at = 0 /\ top' = len /\ len < bottom
          BY <1>1, <1>2, <1>3, <4>2, <4>3 DEF at, StoreAt, NewTop, NoRoom
        <5>2. m[0] = header BY <1>8, <2>10, <5>1
        <5>3. mem'[0] # NoHeader /\ ~mem'[0].read
          BY <1>2, <1>4, <2>3, <2>9, <3>1, <4>1, <5>1, <5>2
        <5> QED BY <1>2, <1>3, <2>3, <3>1, <4>1, <5>1, <5>3
      <4>4. CASE ~TooNear(len)
        <5>1. at = top /\ top' = top + len /\ ~(bottom < top')
          BY <1>1, <1>2, <1>3, <4>1, <4>2, <4>4 DEF at, StoreAt, NewTop, NoRoom
        <5>2. 0 < top' /\ top' < bottom BY <1>1, <1>2, <1>3, <1>15, <4>1, <5>1
        <5>3. 0 # at /\ 0 \notin at + 1 .. at + len - 1 /\ 0 # top BY <1>1, <1>2, <4>1, <5>1
        <5>4. m[0] = mem[0] BY <1>8, <2>10, <5>3
        <5>5. mem'[0] # NoHeader /\ ~mem'[0].read
          BY <2>3, <2>9, <3>1, <4>1, <5>2, <5>4
        <5> QED BY <1>3, <2>3, <3>1, <4>1, <5>2, <5>5
      <4> QED BY <4>3, <4>4
    <3> QED BY <3>2, <3>3
  <2>7. CASE bottom # at /\ bottom = top
    <3>1. TooNear(len) /\ at = 0 BY <2>7 DEF at, StoreAt
    <3>2. ~ExactFit(len) BY <3>1 DEF TooNear, ExactFit
    <3>3. top' = len /\ len < bottom BY <1>1, <1>2, <1>3, <3>1, <3>2 DEF NoRoom, NewTop, StoreAt
    <3>4. m[bottom] = Junk BY <1>8, <2>2, <2>4, <2>7, <3>1
    <3>5. m[0] = header BY <1>8, <2>10, <3>1
    <3>6. mem'[0] # NoHeader /\ ~mem'[0].read BY <1>2, <1>4, <2>3, <2>9, <3>3, <3>4, <3>5
    <3> QED BY <1>2, <1>3, <2>3, <3>3, <3>4, <3>6
  <2> QED BY <2>5, <2>6, <2>7
<1>17. Ready' BY <1>16 DEF Ready
<1> QED BY <1>1, <1>3, <1>10, <1>11, <1>12, <1>17 DEF RingInv

Calls == call \in [Threads -> [id : Nat, buffer : Nat]]
QInv == RingInv /\ Calls

LEMMA ReadsAsk ==
  /\ \A read \in Polls : Asks(read)
  /\ \A t \in Threads : \A read \in Blocks[t] : Asks(read) /\ read \in [id : Nat, buffer : Nat]
<1>1. \A read \in [id : Nat, buffer : Nat] : Asks(read) BY DEF Asks
<1>2. \A t \in Threads : Blocks[t] \subseteq [id : Nat, buffer : Nat] BY ReadersAssumption
<1> QED BY <1>1, <1>2, ReadersAssumption

LEMMA RingSame ==
  ASSUME RingInv, UNCHANGED ring
  PROVE  RingInv' /\ Unread' = Unread /\ (Intact' <=> Intact)
<1>1. bottom' = bottom /\ top' = top /\ mem' = mem BY DEF ring
<1>2. Walk(bottom', top', mem') = Walk(bottom, top, mem) BY <1>1
<1>3. (Intact' <=> Intact) /\ Unread' = Unread BY <1>1, <1>2 DEF Intact, Unread
<1>4. Clean(bottom', top', mem') BY <1>1 DEF RingInv
<1>5. Ready' BY <1>1, <1>3 DEF RingInv, Ready
<1>6. Place' /\ bottom' \in Nat /\ mem' \in Memory BY <1>1 DEF RingInv, Place, TopLeavesRoom
<1> QED BY <1>3, <1>4, <1>5, <1>6 DEF RingInv

LEMMA QInit == Init => QInv
<1> SUFFICES ASSUME Init PROVE QInv
  OBVIOUS
<1>1. /\ bottom = 0 /\ top = 0 /\ mem = [p \in 0 .. Size - 1 |-> NoHeader]
      /\ call = [t \in Threads |-> NoCall]
  BY DEF Init
<1>2. NoHeader \in Headers BY DEF NoHeader, Headers
<1>3. mem \in Memory BY <1>1, <1>2 DEF Memory
<1>4. Clean(bottom, top, mem) BY <1>1 DEF Clean
<1>5. Ready BY <1>1 DEF Ready
<1>6. Calls BY <1>1 DEF Calls, NoCall
<1>7. Place BY PlaceInit
<1> QED BY <1>1, <1>3, <1>4, <1>5, <1>6, <1>7 DEF QInv, RingInv

LEMMA QNext == QInv /\ [Next]_vars => QInv'
<1> SUFFICES ASSUME QInv, [Next]_vars PROVE QInv'
  OBVIOUS
<1>1. RingInv /\ Calls BY DEF QInv
<1>2. ASSUME NEW msg \in Messages, EnqueMsg(msg) PROVE QInv'
  <2>1. RingInv' BY <1>1, <1>2, PostKeepsRing
  <2>2. call' = call BY <1>2 DEF EnqueMsg
  <2> QED BY <1>1, <2>1, <2>2 DEF QInv, Calls
<1>3. ASSUME NEW t \in Threads, NEW read \in Polls, Poll(t, read) PROVE QInv'
  <2>1. Intact /\ ScanRing(Scan(read)) /\ call' = call BY <1>3 DEF Poll, CanRead
  <2>2. RingInv' BY <1>1, <2>1, ScanKeepsRing, ReadsAsk
  <2> QED BY <1>1, <2>1, <2>2 DEF QInv, Calls
<1>4. ASSUME NEW t \in Threads, NEW read \in Blocks[t],
             ReadAtOnce(t, read) \/ ReadAndSleep(t, read) \/ ReadWithoutSlot(t, read)
      PROVE  QInv'
  <2>1. Intact /\ ScanRing(Scan(read))
        /\ (call' = call \/ call' = [call EXCEPT ![t] = read])
    BY <1>4 DEF ReadAtOnce, ReadAndSleep, ReadWithoutSlot, CanRead
  <2>2. Asks(read) /\ read \in [id : Nat, buffer : Nat] BY ReadsAsk
  <2>3. RingInv' BY <1>1, <2>1, <2>2, ScanKeepsRing
  <2>4. Calls' BY <1>1, <2>1, <2>2 DEF Calls
  <2> QED BY <2>3, <2>4 DEF QInv
<1>5. ASSUME NEW t \in Threads, Resume(t) PROVE QInv'
  <2>1. Intact /\ ScanRing(Scan(call[t])) /\ call' = [call EXCEPT ![t] = NoCall]
    BY <1>5 DEF Resume
  <2>2. Asks(call[t]) BY <1>1 DEF Calls, Asks
  <2>3. RingInv' BY <1>1, <2>1, <2>2, ScanKeepsRing
  <2>4. Calls' BY <1>1, <2>1 DEF Calls, NoCall
  <2> QED BY <2>3, <2>4 DEF QInv
<1>6. ASSUME UNCHANGED <<ring, call>> PROVE QInv'
  <2>1. RingInv' BY <1>1, <1>6, RingSame
  <2> QED BY <1>1, <1>6, <2>1 DEF QInv, Calls
<1>7. ASSUME NEW t \in Threads, WakeThread(t) PROVE QInv'
  BY <1>6, <1>7 DEF WakeThread
<1>8. ASSUME Stopped \/ UNCHANGED vars PROVE QInv'
  BY <1>6, <1>8 DEF Stopped, vars
<1> QED BY <1>2, <1>3, <1>4, <1>5, <1>7, <1>8 DEF Next

LEMMA AlwaysQInv == Spec => []QInv
BY QInit, QNext, PTL DEF Spec

(* A queue whose messages have all been read takes any message of a quarter *)
(* of it, for every size, wherever it has wrapped and whatever has been  *)
(* joined: the loop of DequeMsg leaves Bottom at an unread message or at *)
(* Top, and only the header that a message leaves behind which goes to the *)
(* start of an empty ring is passed by nobody.                           *)
THEOREM DrainedTakes == Spec => []DrainedTakesAny
<1>1. QInv => DrainedTakesAny
  <2> SUFFICES ASSUME QInv, Intact, Unread = {}, NEW msg \in Messages, msg.len <= Size \div 4
               PROVE  ~NoRoom(msg.len)
    BY DEF DrainedTakesAny
  <2>1. /\ bottom \in Nat /\ top \in Nat /\ Place /\ mem \in Memory
        /\ Clean(bottom, top, mem) /\ Ready
    BY DEF QInv, RingInv, Place
  <2>2. bottom = top
    <3> SUFFICES ASSUME bottom # top PROVE FALSE
      OBVIOUS
    <3>1. Last(Walk(bottom, top, mem)) = top BY DEF Intact
    <3>2. bottom \in 0 .. Size - 1 /\ mem[bottom] # NoHeader /\ bottom \in Range(Walk(bottom, top, mem)) \ {top}
      BY <2>1, <3>1, Starts
    <3>3. CASE ~mem[bottom].read BY <3>2, <3>3 DEF Unread
    <3>4. CASE mem[bottom].read
      <4>1. mem[0] # NoHeader /\ ~mem[0].read BY <2>1, <3>4 DEF Ready
      <4>2. 0 \in 0 .. Size - 1 BY SizesAssumption
      <4>3. 0 \in Range(Walk(bottom, top, mem)) \ {top} BY <2>1, <4>1, <4>2 DEF Clean
      <4> QED BY <4>1, <4>3 DEF Unread
    <3> QED BY <3>3, <3>4
  <2>3. msg.len \in Nat \ {0} BY MessagesAssumption, SizesAssumption
  <2> QED BY <2>1, <2>2, <2>3, EmptyTakesAny
<1> QED BY <1>1, AlwaysQInv, PTL

----------------------------------------------------------------------------
(* The waiters.  At(d) is the place of the d-th entry after the oldest.  *)

At(d) == IF wbottom + d >= Slots THEN wbottom + d - Slots ELSE wbottom + d
Count == Ahead(wtop, wbottom)
Cursors == wbottom \in 0 .. Slots - 1 /\ wtop \in 0 .. Slots - 1

LEMMA Around ==
  ASSUME Cursors
  PROVE  /\ Count \in 0 .. Slots - 1 /\ At(0) = wbottom /\ At(Count) = wtop
         /\ \A d \in 0 .. Slots - 1 : At(d) \in 0 .. Slots - 1 /\ Ahead(At(d), wbottom) = d
         /\ \A d \in 0 .. Slots - 1 : d + 1 < Slots => Next1(At(d)) = At(d + 1)
         /\ \A d \in 0 .. Slots - 1 : 0 < d => Previous(At(d)) = At(d - 1)
         /\ \A i \in 0 .. Slots - 1 : Ahead(i, wbottom) \in 0 .. Slots - 1 /\ At(Ahead(i, wbottom)) = i
         /\ \A d, g \in 0 .. Slots - 1 : g <= d => Ahead(At(d), At(g)) = d - g
         /\ \A d, g \in 0 .. Slots - 1 : At(d) = At(g) => d = g
BY SizesAssumption DEF Cursors, At, Count, Ahead, Next1, Previous

Goes(entry, id) == entry.me = None \/ (id # 0 /\ entry.msg = id)

(* After k turns, g of the entries looked at have gone.                  *)
CollapseAt(s, k, g, w, id) ==
  /\ s \in CollapseStates /\ g \in 0 .. k
  /\ s.next = Previous(At(Count - k)) /\ s.bottom = At(g)
  /\ s.marked <=> 0 < g
  /\ s.found <=> g < k
  /\ 0 < g => s.tmp = At(Count - 1 - k + g)
  /\ \A d \in 0 .. Count - 1 - k : s.w[At(d)] = w[At(d)]
  /\ \A d \in Count - k .. Count - 1 :
       ~Goes(w[At(d)], id) => \E e \in Count - k + g .. Count - 1 : s.w[At(e)] = w[At(d)]

LEMMA TurnStays ==
  ASSUME Cursors, NEW w \in [0 .. Slots - 1 -> Entries], NEW id,
         NEW k \in Nat, k < Count, NEW g, NEW s, CollapseAt(s, k, g, w, id)
  PROVE  \E h \in {g, g + 1} : CollapseAt(CollapseTurn(s, id), k + 1, h, w, id)
<1> DEFINE n == Count - 1 - k
           entry == s.w[s.next]
           r == CollapseTurn(s, id)
<1>1. /\ s \in CollapseStates /\ g \in 0 .. k /\ g \in Nat
      /\ s.next = Previous(At(Count - k)) /\ s.bottom = At(g)
      /\ (s.marked <=> 0 < g) /\ (s.found <=> g < k)
      /\ (0 < g => s.tmp = At(n + g))
  BY DEF CollapseAt
<1>2. \A d \in 0 .. n : s.w[At(d)] = w[At(d)]
  BY DEF CollapseAt
<1>3. \A d \in Count - k .. Count - 1 :
        ~Goes(w[At(d)], id) => \E e \in Count - k + g .. Count - 1 : s.w[At(e)] = w[At(d)]
  BY DEF CollapseAt
<1>4. /\ Count \in 0 .. Slots - 1 /\ n \in 0 .. Slots - 1 /\ n < Count /\ Slots \in Nat
      /\ Count - k = n + 1 /\ Count - (k + 1) = n /\ n + g < Count
      /\ n + g \in 0 .. Slots - 1 /\ n + 1 \in 0 .. Slots - 1 /\ g + 1 \in 0 .. Slots - 1
      /\ g \in 0 .. Slots - 1
  <2>1. Count \in 0 .. Slots - 1 BY Around
  <2>2. Slots \in Nat BY SizesAssumption
  <2> QED BY <1>1, <2>1, <2>2
<1>5. s.next = At(n) /\ At(n) \in 0 .. Slots - 1
  BY <1>1, <1>4, Around
<1>6. entry = w[At(n)] /\ entry \in Entries
  <2>1. n \in 0 .. n BY <1>4
  <2>2. s.w[At(n)] = w[At(n)] BY <1>2, <2>1
  <2> QED BY <1>5, <2>2
<1>7. /\ s.w \in [0 .. Slots - 1 -> Entries] /\ s.tmp \in 0 .. Slots - 1
      /\ s.bottom \in 0 .. Slots - 1 /\ s.next \in 0 .. Slots - 1
      /\ s.marked \in BOOLEAN /\ s.found \in BOOLEAN
  BY <1>1 DEF CollapseStates
<1>8. /\ \A i \in 0 .. Slots - 1 : Previous(i) \in 0 .. Slots - 1 /\ Next1(i) \in 0 .. Slots - 1
  BY SizesAssumption DEF Previous, Next1
<1>9. r = [w |-> IF ~Goes(entry, id) /\ s.marked THEN [s.w EXCEPT ![s.tmp] = entry] ELSE s.w,
           tmp |-> IF Goes(entry, id) THEN (IF s.marked THEN s.tmp ELSE s.next)
                   ELSE IF s.marked THEN Previous(s.tmp) ELSE s.tmp,
           marked |-> s.marked \/ Goes(entry, id),
           found |-> s.found \/ ~Goes(entry, id),
           bottom |-> IF Goes(entry, id) THEN Next1(s.bottom) ELSE s.bottom,
           next |-> Previous(s.next)]
  BY DEF CollapseTurn, Goes
<1> HIDE DEF r, entry
<1>10. r \in CollapseStates
  <2>1. [s.w EXCEPT ![s.tmp] = entry] \in [0 .. Slots - 1 -> Entries] BY <1>6, <1>7
  <2>2. Goes(entry, id) \in BOOLEAN BY DEF Goes
  <2> QED BY <1>7, <1>8, <1>9, <2>1, <2>2 DEF CollapseStates
<1>11. r.next = Previous(At(Count - (k + 1)))
  BY <1>4, <1>5, <1>9
<1>12. CASE Goes(entry, id)
  <2>1. /\ r.w = s.w /\ r.marked = TRUE /\ (r.found <=> s.found)
        /\ r.bottom = At(g + 1)
    <3>1. Next1(At(g)) = At(g + 1) BY <1>4, Around
    <3> QED BY <1>1, <1>7, <1>9, <1>12, <3>1
  <2>2. r.tmp = At(n + g)
    <3>1. CASE 0 < g BY <1>1, <1>9, <1>12, <3>1
    <3>2. CASE g = 0 BY <1>1, <1>4, <1>5, <1>9, <1>12, <3>2
    <3> QED BY <1>1, <3>1, <3>2
  <2>3. \A d \in 0 .. Count - 1 - (k + 1) : r.w[At(d)] = w[At(d)]
    <3>1. \A d \in 0 .. Count - 1 - (k + 1) : d \in 0 .. n BY <1>4
    <3> QED BY <1>2, <2>1, <3>1
  <2>4. ASSUME NEW d \in Count - (k + 1) .. Count - 1, ~Goes(w[At(d)], id)
        PROVE  \E e \in Count - (k + 1) + (g + 1) .. Count - 1 : r.w[At(e)] = w[At(d)]
    <3>1. d # n BY <1>6, <1>12, <2>4
    <3>2. d \in Count - k .. Count - 1 BY <1>4, <3>1
    <3>3. Count - (k + 1) + (g + 1) = Count - k + g BY <1>1, <1>4
    <3> QED BY <1>3, <2>1, <2>4, <3>2, <3>3
  <2>5. Count - 1 - (k + 1) + (g + 1) = n + g /\ g + 1 \in 0 .. k + 1 /\ (g + 1 < k + 1 <=> g < k) /\ 0 < g + 1
    BY <1>1, <1>4
  <2>6. CollapseAt(r, k + 1, g + 1, w, id)
    BY <1>1, <1>10, <1>11, <2>1, <2>2, <2>3, <2>4, <2>5 DEF CollapseAt
  <2> QED BY <2>6 DEF r
<1>13. CASE ~Goes(entry, id)
  <2>1. /\ r.marked = s.marked /\ r.found = TRUE /\ r.bottom = At(g)
        /\ r.w = IF s.marked THEN [s.w EXCEPT ![At(n + g)] = entry] ELSE s.w
    BY <1>1, <1>7, <1>9, <1>13
  <2>2. ASSUME 0 < g PROVE r.tmp = At(Count - 1 - (k + 1) + g)
    <3>1. r.tmp = Previous(At(n + g)) BY <1>1, <1>9, <1>13, <2>2
    <3>2. n + g \in 0 .. Slots - 1 /\ 0 < n + g /\ (n + g) - 1 = Count - 1 - (k + 1) + g
      BY <1>1, <1>4, <2>2
    <3> QED BY <3>1, <3>2, Around
  <2>3. ASSUME NEW d \in 0 .. Count - 1, d # n + g \/ g = 0 PROVE r.w[At(d)] = s.w[At(d)]
    <3>1. d \in 0 .. Slots - 1 BY <1>4
    <3>2. At(d) \in 0 .. Slots - 1 /\ (At(d) = At(n + g) => d = n + g) BY <1>4, <3>1, Around
    <3> QED BY <1>1, <1>7, <2>1, <2>3, <3>2
  <2>4. \A d \in 0 .. Count - 1 - (k + 1) : r.w[At(d)] = w[At(d)]
    <3>1. \A d \in 0 .. Count - 1 - (k + 1) : d \in 0 .. Count - 1 /\ d \in 0 .. n /\ d # n + g
      BY <1>1, <1>4
    <3> QED BY <1>2, <2>3, <3>1
  <2>5. r.w[At(n + g)] = w[At(n)]
    <3>1. CASE 0 < g
      <4>1. At(n + g) \in 0 .. Slots - 1 BY <1>4, Around
      <4>2. s.marked BY <1>1, <3>1
      <4>3. r.w = [s.w EXCEPT ![At(n + g)] = entry] BY <2>1, <4>2
      <4>4. s.w \in [0 .. Slots - 1 -> Entries] BY <1>7
      <4>5. r.w[At(n + g)] = entry BY <4>1, <4>3, <4>4
      <4> QED BY <1>6, <4>5
    <3>2. CASE g = 0
      <4>1. n + g = n /\ n \in 0 .. n BY <1>4, <3>2
      <4> QED BY <1>1, <1>2, <2>1, <3>2, <4>1
    <3> QED BY <1>1, <3>1, <3>2
  <2>6. ASSUME NEW d \in Count - (k + 1) .. Count - 1, ~Goes(w[At(d)], id)
        PROVE  \E e \in Count - (k + 1) + g .. Count - 1 : r.w[At(e)] = w[At(d)]
    <3>1. CASE d = n
      <4>1. n + g = Count - (k + 1) + g /\ n + g <= Count - 1 BY <1>1, <1>4
      <4>2. n + g \in Count - (k + 1) + g .. Count - 1 BY <1>1, <1>4, <4>1
      <4>3. r.w[At(n + g)] = w[At(d)] BY <2>5, <3>1
      <4> QED BY <4>2, <4>3
    <3>2. CASE d # n
      <4>1. d \in Count - k .. Count - 1 BY <1>4, <3>2
      <4>2. PICK e \in Count - k + g .. Count - 1 : s.w[At(e)] = w[At(d)] BY <1>3, <2>6, <4>1
      <4>3. e \in 0 .. Count - 1 /\ e # n + g /\ e \in Count - (k + 1) + g .. Count - 1 BY <1>1, <1>4
      <4> QED BY <2>3, <4>2, <4>3
    <3> QED BY <3>1, <3>2
  <2>7. g \in 0 .. k + 1 /\ g < k + 1 BY <1>1
  <2>8. CollapseAt(r, k + 1, g, w, id)
    BY <1>1, <1>10, <1>11, <2>1, <2>2, <2>4, <2>6, <2>7 DEF CollapseAt
  <2> QED BY <2>8 DEF r
<1> QED BY <1>12, <1>13

(* What CollapseWaiting does: of the entries w, those that do not go stay *)
(* in the queue.                                                         *)
LEMMA CollapseKeeps ==
  ASSUME Cursors, NEW w \in [0 .. Slots - 1 -> Entries], NEW id, Collapse(w, id)
  PROVE  /\ wtop' = wtop /\ wbottom' \in 0 .. Slots - 1
         /\ waiters' \in [0 .. Slots - 1 -> Entries]
         /\ \A i \in 0 .. Slots - 1 : InQueue(i, wbottom) /\ ~Goes(w[i], id) =>
              \E j \in 0 .. Slots - 1 : InQueue(j, wbottom)' /\ waiters'[j] = w[i]
<1> DEFINE start == [w |-> w, tmp |-> Previous(wtop), marked |-> FALSE, found |-> FALSE,
                     bottom |-> wbottom, next |-> Previous(wtop)]
           turn == [s \in CollapseStates |-> CollapseTurn(s, id)]
           loop == CHOOSE f : Loops(f, start, turn, Slots)
           end == loop[Count]
<1>1. /\ wbottom' = IF ~end.found THEN wtop ELSE IF end.marked THEN end.bottom ELSE wbottom
      /\ waiters' = [i \in 0 .. Slots - 1 |-> IF InQueue(i, wbottom') THEN end.w[i] ELSE NoEntry]
      /\ wtop' = wtop
  BY DEF Collapse, Loops, Count
<1>2. Slots \in Nat /\ 0 < Slots BY SizesAssumption
<1>3. Count \in 0 .. Slots - 1 /\ At(0) = wbottom /\ At(Count) = wtop BY Around
<1>4. Loops(loop, start, turn, Slots)
  <2> HIDE DEF turn, start
  <2> QED BY LoopExists, <1>2
<1> HIDE DEF loop
<1>5. loop[0] = start /\ \A n \in Nat : n < Slots => loop[n + 1] = turn[loop[n]]
  <2> HIDE DEF turn, start
  <2> QED BY <1>4, LoopIs, <1>2
<1> DEFINE Good == {n \in Nat : n <= Count => \E g \in Nat : CollapseAt(loop[n], n, g, w, id)}
<1>6. 0 \in Good
  <2>1. Previous(wtop) \in 0 .. Slots - 1 BY <1>2 DEF Cursors, Previous
  <2>2. start \in CollapseStates BY <2>1 DEF CollapseStates, Cursors
  <2>3. /\ start.next = Previous(wtop) /\ start.bottom = wbottom /\ start.marked = FALSE
        /\ start.found = FALSE /\ start.w = w
    OBVIOUS
  <2> HIDE DEF start
  <2>4. Count - 0 = Count /\ 0 \in 0 .. 0 /\ ~(0 < 0) /\ \A d \in Count - 0 .. Count - 1 : FALSE BY <1>3
  <2>5. CollapseAt(start, 0, 0, w, id) BY <1>3, <2>2, <2>3, <2>4 DEF CollapseAt
  <2> QED BY <1>5, <2>5
<1>7. ASSUME NEW n \in Nat, n \in Good PROVE n + 1 \in Good
  <2> SUFFICES ASSUME n + 1 <= Count PROVE \E g \in Nat : CollapseAt(loop[n + 1], n + 1, g, w, id)
    OBVIOUS
  <2>1. n < Count /\ n <= Count /\ n < Slots BY <1>2, <1>3
  <2>2. PICK g \in Nat : CollapseAt(loop[n], n, g, w, id) BY <1>7, <2>1
  <2>3. loop[n + 1] = turn[loop[n]]
    <3> HIDE DEF turn, start
    <3> QED BY <1>5, <2>1
  <2>4. loop[n] \in CollapseStates BY <2>2 DEF CollapseAt
  <2>5. loop[n + 1] = CollapseTurn(loop[n], id) BY <2>3, <2>4
  <2>6. \E h \in {g, g + 1} : CollapseAt(CollapseTurn(loop[n], id), n + 1, h, w, id)
    BY <2>1, <2>2, TurnStays
  <2> QED BY <2>5, <2>6
<1>8. PICK g \in Nat : CollapseAt(end, Count, g, w, id)
  <2>1. \A n \in Nat : n \in Good => n + 1 \in Good BY <1>7
  <2>2. Count \in Good
    <3> HIDE DEF Good
    <3> QED BY <1>3, <1>6, <2>1, NatSetInduction
  <2> QED BY <1>3, <2>2
<1> HIDE DEF end
<1>9. /\ end \in CollapseStates /\ g \in 0 .. Count /\ end.bottom = At(g)
      /\ (end.marked <=> 0 < g) /\ (end.found <=> g < Count)
      /\ \A d \in Count - Count .. Count - 1 :
           ~Goes(w[At(d)], id) => \E e \in Count - Count + g .. Count - 1 : end.w[At(e)] = w[At(d)]
  BY <1>8 DEF CollapseAt
<1>10. wbottom' = At(g)
  <2>1. CASE ~end.found
    <3>1. g = Count BY <1>3, <1>9, <2>1
    <3> QED BY <1>1, <1>3, <2>1, <3>1
  <2>2. CASE end.found /\ end.marked BY <1>1, <1>9, <2>2
  <2>3. CASE end.found /\ ~end.marked
    <3>1. g = 0 BY <1>9, <2>3
    <3> QED BY <1>1, <1>3, <2>3, <3>1
  <2> QED BY <2>1, <2>2, <2>3
<1>11. wbottom' \in 0 .. Slots - 1
  <2>1. g \in 0 .. Slots - 1 BY <1>2, <1>3, <1>9
  <2> QED BY <1>10, <2>1, Around
<1>12. waiters' \in [0 .. Slots - 1 -> Entries]
  <2>1. NoEntry \in Entries BY DEF NoEntry, Entries, Ids
  <2>2. end.w \in [0 .. Slots - 1 -> Entries] BY <1>9 DEF CollapseStates
  <2> QED BY <1>1, <2>1, <2>2
<1>13. ASSUME NEW i \in 0 .. Slots - 1, InQueue(i, wbottom), ~Goes(w[i], id)
       PROVE  \E j \in 0 .. Slots - 1 : InQueue(j, wbottom)' /\ waiters'[j] = w[i]
  <2> DEFINE d == Ahead(i, wbottom)
  <2>1. d \in 0 .. Slots - 1 /\ At(d) = i BY Around
  <2>2. d < Count BY <1>13 DEF InQueue, Count
  <2> HIDE DEF d
  <2>3. d \in Count - Count .. Count - 1 /\ Count - Count + g = g BY <1>3, <1>9, <2>1, <2>2
  <2>4. PICK e \in g .. Count - 1 : end.w[At(e)] = w[i] BY <1>9, <1>13, <2>1, <2>3
  <2>5. e \in 0 .. Slots - 1 /\ g \in 0 .. Slots - 1 /\ g <= e /\ g <= Count /\ e - g < Count - g
    BY <1>2, <1>3, <1>9
  <2>6. Ahead(At(e), At(g)) = e - g /\ Ahead(At(Count), At(g)) = Count - g /\ At(e) \in 0 .. Slots - 1
    BY <1>3, <2>5, Around
  <2>7. PICK j \in 0 .. Slots - 1 : j = At(e) BY <2>6
  <2>8. InQueue(j, wbottom') BY <1>3, <1>10, <2>5, <2>6, <2>7 DEF InQueue
  <2>9. InQueue(j, wbottom)' BY <1>1, <2>8 DEF InQueue, Ahead
  <2>10. waiters'[j] = w[i] BY <1>1, <2>4, <2>7, <2>8
  <2> QED BY <2>9, <2>10
<1> QED BY <1>1, <1>11, <1>12, <1>13

(* No two threads sleep for the same ID, but for those that take messages *)
(* of any: "it's typically bad form to have two or more processes watiing *)
(* on the same ID..." (ScanForWaiting).  The read of one that wakes would *)
(* take the entry of the other off.                                      *)
OwnIds ==
  \A t, u \in Threads : t # u =>
    \A read \in Blocks[t], other \in Blocks[u] : read.id = other.id => read.id = 0

Sleeps(t) == pc[t] = "asleep" /\ ~sem[t]

(* A thread that sleeps unwoken has its entry in the queue.              *)
Registered ==
  \A t \in Threads : Sleeps(t) =>
    \E i \in 0 .. Slots - 1 : InQueue(i, wbottom) /\ waiters[i] = [me |-> t, msg |-> call[t].id]

Sleepers == \A t \in Threads : pc[t] = "asleep" => call[t] \in Blocks[t]

Types ==
  /\ Cursors /\ waiters \in [0 .. Slots - 1 -> Entries]
  /\ pc \in [Threads -> {"idle", "asleep", "stuck"}]
  /\ sem \in [Threads -> BOOLEAN]

SleepInv == QInv /\ Types /\ Sleepers /\ Registered /\ NobodyOverlooked

LEMMA SleepInit == Init => SleepInv
<1> SUFFICES ASSUME Init PROVE SleepInv
  OBVIOUS
<1>1. QInv BY QInit
<1>2. /\ wbottom = 0 /\ wtop = 0 /\ waiters = [i \in 0 .. Slots - 1 |-> NoEntry]
      /\ pc = [t \in Threads |-> "idle"] /\ sem = [t \in Threads |-> FALSE]
  BY DEF Init
<1>3. NoEntry \in Entries BY DEF NoEntry, Entries, Ids
<1>4. Types BY <1>2, <1>3, SizesAssumption DEF Types, Cursors
<1>5. \A t \in Threads : pc[t] # "asleep" BY <1>2
<1> QED BY <1>1, <1>4, <1>5 DEF SleepInv, Sleepers, Registered, Sleeps, NobodyOverlooked

(* A step that adds no unread message and puts nobody to sleep overlooks *)
(* nobody.                                                               *)
LEMMA NothingNew ==
  ASSUME NobodyOverlooked,
         Intact' => Intact /\ \A p \in Unread' : p \in Unread /\ mem'[p] = mem[p],
         \A t \in Threads : Sleeps(t)' => Sleeps(t) /\ call'[t] = call[t]
  PROVE  NobodyOverlooked'
<1> SUFFICES ASSUME Intact', NEW t \in Threads, Sleeps(t)', NEW p \in Unread'
             PROVE  ~(call'[t].id = 0 \/ mem'[p].id = call'[t].id)
  BY DEF NobodyOverlooked, Mail!Asked, Sleeps
<1>1. Intact /\ p \in Unread /\ mem'[p] = mem[p] /\ Sleeps(t) /\ call'[t] = call[t]
  OBVIOUS
<1> QED BY <1>1 DEF NobodyOverlooked, Mail!Asked, Sleeps

(* ... and when the waiters stay as they are, nobody's entry is lost.    *)
LEMMA SameQueue ==
  ASSUME SleepInv, QInv', UNCHANGED queue,
         pc' \in [Threads -> {"idle", "asleep", "stuck"}], sem' \in [Threads -> BOOLEAN],
         \A t \in Threads : Sleeps(t)' => Sleeps(t),
         \A t \in Threads : pc'[t] = "asleep" => pc[t] = "asleep" /\ call'[t] = call[t],
         Intact' => Intact /\ \A p \in Unread' : p \in Unread /\ mem'[p] = mem[p]
  PROVE  SleepInv'
<1>1. waiters' = waiters /\ wbottom' = wbottom /\ wtop' = wtop BY DEF queue
<1>2. Types /\ Sleepers /\ Registered /\ NobodyOverlooked BY DEF SleepInv
<1>3. Types' BY <1>1, <1>2 DEF Types, Cursors
<1>4. Sleepers' BY <1>2 DEF Sleepers
<1>5. \A t \in Threads : Sleeps(t)' => Sleeps(t) /\ call'[t] = call[t] BY DEF Sleeps
<1>6. \A i : InQueue(i, wbottom)' <=> InQueue(i, wbottom) BY <1>1 DEF InQueue, Ahead
<1>7. Registered' BY <1>1, <1>2, <1>5, <1>6 DEF Registered
<1>8. NobodyOverlooked' BY <1>2, <1>5, NothingNew
<1> QED BY <1>3, <1>4, <1>7, <1>8 DEF SleepInv

LEMMA SleepPost ==
  ASSUME SleepInv, QInv', NEW msg \in Messages, EnqueMsg(msg)
  PROVE  SleepInv'
<1> DEFINE woken == Woken(msg.id)
           w == [i \in DOMAIN waiters |-> IF i \in woken THEN [waiters[i] EXCEPT !.me = None]
                                          ELSE waiters[i]]
<1>1. /\ Types /\ Sleepers /\ Registered /\ NobodyOverlooked /\ RingInv
      /\ Cursors /\ DOMAIN waiters = 0 .. Slots - 1
      /\ waiters \in [0 .. Slots - 1 -> Entries]
  BY DEF SleepInv, QInv, Types
<1>2. /\ Intact /\ pc' = pc /\ call' = call
      /\ sem' = [t \in Threads |-> sem[t] \/ \E i \in woken : waiters[i].me = t]
      /\ IF woken = {} THEN UNCHANGED queue ELSE Collapse(w, 0)
  BY DEF EnqueMsg, ScanForWaiting
<1>3. \A p \in 0 .. Slots - 1 : p \in woken <=> /\ InQueue(p, wbottom) /\ waiters[p].me # None
                                                /\ waiters[p].msg \in {0, msg.id}
  BY <1>1 DEF Woken
<1>4. woken \subseteq 0 .. Slots - 1 BY <1>1 DEF Woken
<1> HIDE DEF woken
<1>5. w \in [0 .. Slots - 1 -> Entries]
  <2>1. ASSUME NEW i \in 0 .. Slots - 1 PROVE w[i] \in Entries
    <3>1. waiters[i] \in Entries BY <1>1
    <3>2. [waiters[i] EXCEPT !.me = None] \in Entries BY <3>1 DEF Entries
    <3> QED BY <1>1, <3>1, <3>2
  <2> QED BY <1>1, <2>1
<1>6. sem' \in [Threads -> BOOLEAN]
  <2>1. \A t \in Threads : sem[t] \in BOOLEAN BY <1>1 DEF Types
  <2>2. \A t \in Threads : (sem[t] \/ \E i \in woken : waiters[i].me = t) \in BOOLEAN BY <2>1
  <2> QED BY <1>2, <2>2
<1>7. Types'
  <2>1. wtop' = wtop /\ wbottom' \in 0 .. Slots - 1 /\ waiters' \in [0 .. Slots - 1 -> Entries]
    <3>1. CASE woken = {} BY <1>1, <1>2, <3>1 DEF queue, Cursors
    <3>2. CASE woken # {}
      <4>1. Collapse(w, 0) BY <1>2, <3>2
      <4> HIDE DEF w
      <4> QED BY <1>1, <1>5, <4>1, CollapseKeeps
    <3> QED BY <3>1, <3>2
  <2> QED BY <1>1, <1>2, <1>6, <2>1 DEF Types, Cursors
<1>8. Sleepers' BY <1>1, <1>2 DEF Sleepers
<1>9. ASSUME NEW t \in Threads, Sleeps(t)'
      PROVE  /\ Sleeps(t) /\ ~(call[t].id = 0 \/ msg.id = call[t].id)
             /\ \E i \in 0 .. Slots - 1 : InQueue(i, wbottom)' /\ waiters'[i] = [me |-> t, msg |-> call[t].id]
  <2>1. Sleeps(t) /\ ~\E i \in woken : waiters[i].me = t BY <1>2, <1>9 DEF Sleeps
  <2>2. PICK i \in 0 .. Slots - 1 : InQueue(i, wbottom) /\ waiters[i] = [me |-> t, msg |-> call[t].id]
    BY <1>1, <2>1 DEF Registered
  <2>3. waiters[i].me = t /\ waiters[i].msg = call[t].id /\ t # None BY <2>2, ReadersAssumption
  <2>4. i \notin woken /\ ~(call[t].id = 0 \/ msg.id = call[t].id)
    BY <1>3, <2>1, <2>2, <2>3
  <2>5. \E j \in 0 .. Slots - 1 : InQueue(j, wbottom)' /\ waiters'[j] = waiters[i]
    <3>1. CASE woken = {}
      <4>1. waiters' = waiters /\ wbottom' = wbottom /\ wtop' = wtop BY <1>2, <3>1 DEF queue
      <4>2. InQueue(i, wbottom)' BY <2>2, <4>1 DEF InQueue, Ahead
      <4> QED BY <4>1, <4>2
    <3>2. CASE woken # {}
      <4>1. Collapse(w, 0) BY <1>2, <3>2
      <4>2. w[i] = waiters[i] BY <1>1, <2>4
      <4> HIDE DEF w
      <4>3. ~Goes(w[i], 0) BY <2>3, <4>2 DEF Goes
      <4>4. \A k \in 0 .. Slots - 1 : InQueue(k, wbottom) /\ ~Goes(w[k], 0) =>
              \E j \in 0 .. Slots - 1 : InQueue(j, wbottom)' /\ waiters'[j] = w[k]
        BY <1>1, <1>5, <4>1, CollapseKeeps
      <4>5. \E j \in 0 .. Slots - 1 : InQueue(j, wbottom)' /\ waiters'[j] = w[i] BY <2>2, <4>3, <4>4
      <4> QED BY <4>2, <4>5
    <3> QED BY <3>1, <3>2
  <2> QED BY <2>1, <2>2, <2>4, <2>5
<1>10. Registered' BY <1>2, <1>9 DEF Registered
<1>11. NobodyOverlooked'
  <2> SUFFICES ASSUME Intact', NEW t \in Threads, Sleeps(t)', NEW p \in Unread'
               PROVE  ~(call'[t].id = 0 \/ mem'[p].id = call'[t].id)
    BY DEF NobodyOverlooked, Mail!Asked, Sleeps
  <2>1. Sleeps(t) /\ ~(call[t].id = 0 \/ msg.id = call[t].id) BY <1>9
  <2>2. (p \in Unread /\ mem'[p] = mem[p]) \/ mem'[p].id = msg.id BY <1>1, PostKeepsRing
  <2>3. p \in Unread => ~(call[t].id = 0 \/ mem[p].id = call[t].id)
    BY <1>1, <1>2, <2>1 DEF NobodyOverlooked, Mail!Asked, Sleeps
  <2> QED BY <1>2, <2>1, <2>2, <2>3
<1> QED BY <1>7, <1>8, <1>10, <1>11 DEF SleepInv

(* A thread that goes to sleep takes a slot that nobody uses.            *)
LEMMA OneMore ==
  ASSUME Cursors, Next1(wtop) # wbottom, wtop' = Next1(wtop), wbottom' = wbottom
  PROVE  \A i \in 0 .. Slots - 1 : /\ i = wtop => InQueue(i, wbottom)'
                                   /\ InQueue(i, wbottom) => InQueue(i, wbottom)' /\ i # wtop
BY SizesAssumption DEF Cursors, InQueue, Ahead, Next1

LEMMA SleepRead ==
  ASSUME SleepInv, QInv', NEW t \in Threads, NEW read \in Blocks[t], ReadAndSleep(t, read)
  PROVE  SleepInv'
<1>1. /\ Types /\ Sleepers /\ Registered /\ NobodyOverlooked /\ RingInv
      /\ Cursors /\ waiters \in [0 .. Slots - 1 -> Entries]
  BY DEF SleepInv, QInv, Types
<1>2. /\ Intact /\ pc[t] = "idle" /\ ScanRing(Scan(read))
      /\ Scan(read).found = NoMessage /\ ~Scan(read).big
      /\ Next1(wtop) # wbottom /\ wtop' = Next1(wtop) /\ wbottom' = wbottom
      /\ waiters' = [waiters EXCEPT ![wtop] = [me |-> t, msg |-> read.id]]
      /\ call' = [call EXCEPT ![t] = read] /\ pc' = [pc EXCEPT ![t] = "asleep"] /\ sem' = sem
  BY DEF ReadAndSleep, CanRead
<1>3. Asks(read) /\ read.id \in Ids
  <2>1. read \in Reads BY DEF Reads
  <2> QED BY <2>1, ReadsAsk DEF Ids
<1>4. /\ call \in [Threads -> [id : Nat, buffer : Nat]] /\ pc \in [Threads -> {"idle", "asleep", "stuck"}]
  BY DEF SleepInv, QInv, Calls, Types
<1>5. call'[t] = read /\ pc'[t] = "asleep" /\ \A u \in Threads : u # t => call'[u] = call[u] /\ pc'[u] = pc[u]
  BY <1>2, <1>4
<1>6. wtop \in 0 .. Slots - 1 /\ wtop' \in 0 .. Slots - 1
  BY <1>1, <1>2, SizesAssumption DEF Cursors, Next1
<1>7. Types'
  <2>1. [me |-> t, msg |-> read.id] \in Entries BY <1>3 DEF Entries
  <2>2. waiters' \in [0 .. Slots - 1 -> Entries] BY <1>1, <1>2, <2>1
  <2>3. pc' \in [Threads -> {"idle", "asleep", "stuck"}] BY <1>2, <1>4
  <2> QED BY <1>1, <1>2, <1>6, <2>2, <2>3 DEF Types, Cursors
<1>8. Sleepers' BY <1>1, <1>5 DEF Sleepers
<1>9. ASSUME NEW u \in Threads, Sleeps(u)'
      PROVE  \E i \in 0 .. Slots - 1 : InQueue(i, wbottom)' /\ waiters'[i] = [me |-> u, msg |-> call'[u].id]
  <2>1. CASE u = t
    <3>1. PICK i \in 0 .. Slots - 1 : i = wtop BY <1>6
    <3>2. InQueue(i, wbottom)' BY <1>1, <1>2, <3>1, OneMore
    <3>3. waiters'[i] = [me |-> u, msg |-> call'[u].id] BY <1>1, <1>2, <1>5, <2>1, <3>1
    <3> QED BY <3>2, <3>3
  <2>2. CASE u # t
    <3>1. Sleeps(u) /\ call'[u] = call[u] BY <1>2, <1>5, <1>9, <2>2 DEF Sleeps
    <3>2. PICK i \in 0 .. Slots - 1 : InQueue(i, wbottom) /\ waiters[i] = [me |-> u, msg |-> call[u].id]
      BY <1>1, <3>1 DEF Registered
    <3>3. InQueue(i, wbottom)' /\ i # wtop BY <1>1, <1>2, <3>2, OneMore
    <3>4. waiters'[i] = waiters[i] BY <1>1, <1>2, <1>6, <3>3
    <3> QED BY <3>1, <3>2, <3>3, <3>4
  <2> QED BY <2>1, <2>2
<1>10. Registered' BY <1>9 DEF Registered
<1>11. NobodyOverlooked'
  <2> SUFFICES ASSUME Intact', NEW u \in Threads, Sleeps(u)', NEW p \in Unread'
               PROVE  ~(call'[u].id = 0 \/ mem'[p].id = call'[u].id)
    BY DEF NobodyOverlooked, Mail!Asked, Sleeps
  <2>1. p \in Unread /\ mem'[p] = mem[p] BY <1>1, <1>2, <1>3, ScanKeepsRing
  <2>2. CASE u = t
    <3>1. Scanned(Scan(read), read) BY <1>1, <1>2, <1>3, ScanIs DEF RingInv, Place
    <3>2. Unasked(mem[p], read.id) BY <1>2, <2>1, <3>1 DEF Scanned
    <3>3. ~mem[p].read BY <2>1 DEF Unread
    <3> QED BY <1>5, <2>1, <2>2, <3>2, <3>3 DEF Unasked
  <2>3. CASE u # t
    <3>1. Sleeps(u) /\ call'[u] = call[u] BY <1>2, <1>5, <2>3 DEF Sleeps
    <3> QED BY <1>1, <1>2, <2>1, <3>1 DEF NobodyOverlooked, Mail!Asked, Sleeps
  <2> QED BY <2>2, <2>3
<1> QED BY <1>7, <1>8, <1>10, <1>11 DEF SleepInv

LEMMA SleepResume ==
  ASSUME OwnIds, SleepInv, QInv', NEW t \in Threads, Resume(t)
  PROVE  SleepInv'
<1>1. /\ Types /\ Sleepers /\ Registered /\ NobodyOverlooked /\ RingInv
      /\ Cursors /\ waiters \in [0 .. Slots - 1 -> Entries]
      /\ pc \in [Threads -> {"idle", "asleep", "stuck"}] /\ sem \in [Threads -> BOOLEAN]
      /\ call \in [Threads -> [id : Nat, buffer : Nat]]
  BY DEF SleepInv, QInv, Types, Calls
<1>2. /\ Intact /\ pc[t] = "asleep" /\ ScanRing(Scan(call[t]))
      /\ Collapse(waiters, call[t].id)
      /\ call' = [call EXCEPT ![t] = NoCall] /\ pc' = [pc EXCEPT ![t] = "idle"]
      /\ sem' = [sem EXCEPT ![t] = FALSE]
  BY DEF Resume, Return
<1>3. pc'[t] = "idle" /\ \A u \in Threads : u # t => call'[u] = call[u] /\ pc'[u] = pc[u] /\ sem'[u] = sem[u]
  BY <1>1, <1>2
<1>4. /\ wtop' = wtop /\ wbottom' \in 0 .. Slots - 1
      /\ waiters' \in [0 .. Slots - 1 -> Entries]
      /\ \A i \in 0 .. Slots - 1 : InQueue(i, wbottom) /\ ~Goes(waiters[i], call[t].id) =>
           \E j \in 0 .. Slots - 1 : InQueue(j, wbottom)' /\ waiters'[j] = waiters[i]
  BY <1>1, <1>2, CollapseKeeps
<1>5. Types'
  <2>1. pc' \in [Threads -> {"idle", "asleep", "stuck"}] /\ sem' \in [Threads -> BOOLEAN] BY <1>1, <1>2
  <2> QED BY <1>1, <1>4, <2>1 DEF Types, Cursors
<1>6. Sleepers' BY <1>1, <1>3 DEF Sleepers
<1>7. \A u \in Threads : Sleeps(u)' => u # t /\ Sleeps(u) /\ call'[u] = call[u]
  BY <1>3 DEF Sleeps
<1>8. ASSUME NEW u \in Threads, Sleeps(u)'
      PROVE  \E j \in 0 .. Slots - 1 : InQueue(j, wbottom)' /\ waiters'[j] = [me |-> u, msg |-> call'[u].id]
  <2>1. u # t /\ Sleeps(u) /\ call'[u] = call[u] BY <1>7, <1>8
  <2>2. PICK i \in 0 .. Slots - 1 : InQueue(i, wbottom) /\ waiters[i] = [me |-> u, msg |-> call[u].id]
    BY <1>1, <2>1 DEF Registered
  <2>3. waiters[i].me = u /\ waiters[i].msg = call[u].id /\ u # None BY <2>2, ReadersAssumption
  <2>4. call[u] \in Blocks[u] /\ call[t] \in Blocks[t] BY <1>1, <1>2, <2>1 DEF Sleepers, Sleeps
  <2>5. call[t].id # 0 => call[u].id # call[t].id BY <2>1, <2>4 DEF OwnIds
  <2>6. ~Goes(waiters[i], call[t].id) BY <2>3, <2>5 DEF Goes
  <2> QED BY <1>4, <2>1, <2>2, <2>6
<1>9. Registered' BY <1>8 DEF Registered
<1>10. Intact' => Intact /\ \A p \in Unread' : p \in Unread /\ mem'[p] = mem[p]
  <2>1. Asks(call[t]) BY <1>1 DEF Asks
  <2> QED BY <1>1, <1>2, <2>1, ScanKeepsRing
<1>11. NobodyOverlooked' BY <1>1, <1>7, <1>10, NothingNew
<1> QED BY <1>5, <1>6, <1>9, <1>11 DEF SleepInv

LEMMA SleepNext == OwnIds /\ SleepInv /\ [Next]_vars => SleepInv'
<1> SUFFICES ASSUME OwnIds, SleepInv, [Next]_vars PROVE SleepInv'
  OBVIOUS
<1>1. QInv' /\ QInv /\ RingInv BY QNext DEF SleepInv, QInv
<1>2. /\ pc \in [Threads -> {"idle", "asleep", "stuck"}] /\ sem \in [Threads -> BOOLEAN]
      /\ call \in [Threads -> [id : Nat, buffer : Nat]]
  BY DEF SleepInv, QInv, Types, Calls
<1>3. ASSUME NEW msg \in Messages, EnqueMsg(msg) PROVE SleepInv'
  BY <1>1, <1>3, SleepPost
<1>4. ASSUME NEW t \in Threads, NEW read, Asks(read), Intact, ScanRing(Scan(read)),
             UNCHANGED <<queue, call, sem>>,
             pc' = [pc EXCEPT ![t] = "idle"] \/ pc' = [pc EXCEPT ![t] = "stuck"]
      PROVE  SleepInv'
  <2>1. Intact' => Intact /\ \A p \in Unread' : p \in Unread /\ mem'[p] = mem[p]
    BY <1>1, <1>4, ScanKeepsRing
  <2>2. pc' \in [Threads -> {"idle", "asleep", "stuck"}] /\ sem' \in [Threads -> BOOLEAN]
    BY <1>2, <1>4
  <2>3. \A u \in Threads : pc'[u] = "asleep" => pc[u] = "asleep" /\ call'[u] = call[u]
    BY <1>2, <1>4
  <2>4. \A u \in Threads : Sleeps(u)' => Sleeps(u) BY <1>4, <2>3 DEF Sleeps
  <2> QED BY <1>1, <1>4, <2>1, <2>2, <2>3, <2>4, SameQueue
<1>5. ASSUME NEW t \in Threads, NEW read \in Polls, Poll(t, read) PROVE SleepInv'
  BY <1>4, <1>5, ReadsAsk DEF Poll, CanRead, Return
<1>6. ASSUME NEW t \in Threads, NEW read \in Blocks[t], ReadAtOnce(t, read) \/ ReadWithoutSlot(t, read)
      PROVE  SleepInv'
  BY <1>4, <1>6, ReadsAsk DEF ReadAtOnce, ReadWithoutSlot, CanRead, Return
<1>7. ASSUME NEW t \in Threads, NEW read \in Blocks[t], ReadAndSleep(t, read) PROVE SleepInv'
  BY <1>1, <1>7, SleepRead
<1>8. ASSUME NEW t \in Threads, Resume(t) PROVE SleepInv'
  BY <1>1, <1>8, SleepResume
<1>9. ASSUME UNCHANGED <<ring, queue, pc, call>>, sem' \in [Threads -> BOOLEAN],
             \A u \in Threads : sem[u] => sem'[u]
      PROVE  SleepInv'
  <2>1. Unread' = Unread /\ (Intact' <=> Intact) /\ mem' = mem BY <1>1, <1>9, RingSame DEF ring
  <2>2. \A u \in Threads : Sleeps(u)' => Sleeps(u) BY <1>9 DEF Sleeps
  <2> QED BY <1>2, <1>1, <1>9, <2>1, <2>2, SameQueue
<1>10. ASSUME NEW t \in Threads, WakeThread(t) PROVE SleepInv'
  <2>1. sem' = [sem EXCEPT ![t] = TRUE] /\ UNCHANGED <<ring, queue, pc, call>> BY <1>10 DEF WakeThread
  <2>2. sem' \in [Threads -> BOOLEAN] /\ \A u \in Threads : sem[u] => sem'[u] BY <1>2, <2>1
  <2> QED BY <1>9, <2>1, <2>2
<1>11. ASSUME Stopped \/ UNCHANGED vars PROVE SleepInv'
  BY <1>2, <1>9, <1>11 DEF Stopped, vars
<1> QED BY <1>3, <1>5, <1>6, <1>7, <1>8, <1>10, <1>11 DEF Next

(* For every queue, every number of slots and every set of threads that do *)
(* not sleep for each other's ID: no post, and no collapse of the waiters *)
(* by another thread, leaves a thread asleep over a message it asked for. *)
THEOREM SleepersKnow == OwnIds => (Spec => []NobodyOverlooked)
<1> SUFFICES ASSUME OwnIds PROVE Spec => []NobodyOverlooked
  OBVIOUS
<1>1. Init => SleepInv BY SleepInit
<1>2. SleepInv /\ [Next]_vars => SleepInv' BY SleepNext
<1>3. SleepInv => NobodyOverlooked BY DEF SleepInv
<1> QED BY <1>1, <1>2, <1>3, PTL DEF Spec
----------------------------------------------------------------------------
(* Once round the ring.                                                  *)

(* How far p is from b, along the ring.                                  *)
Off(b, p) == IF p < b THEN p + Size - b ELSE p - b

Places == 0 .. Size - 1
Heads(m) == {p \in Places : m[p] # NoHeader}

(* A walk from b goes round the ring once: each header leads further.    *)
Upward(b, m) ==
  \A p \in Heads(m) : After(p, m) \in Places /\ Off(b, p) < Off(b, After(p, m))

LEMMA OffIs ==
  ASSUME NEW b \in Places
  PROVE  /\ Off(b, b) = 0
         /\ \A p \in Places : Off(b, p) \in Places
         /\ \A p, q \in Places : Off(b, p) = Off(b, q) => p = q
         /\ \A c, p \in Places : Off(b, c) <= Off(b, p) => Off(c, p) = Off(b, p) - Off(b, c)
BY SizesAssumption DEF Off, Places

(* A walk that goes up goes up by one at least with each step.           *)
LEMMA Rising ==
  ASSUME NEW b \in Places, NEW n \in Nat, NEW c, NEW t, NEW m, NEW v, IsWalk(v, n, c, t, m),
         \A i \in 1 .. Len(v) : v[i] \in Places,
         \A i \in 1 .. Len(v) - 1 : Off(b, v[i]) < Off(b, v[i + 1]),
         NEW i \in 1 .. Len(v), NEW j \in 1 .. Len(v), i <= j
  PROVE  Off(b, v[i]) + (j - i) <= Off(b, v[j])
<1> DEFINE Good == {d \in Nat : i + d <= Len(v) => Off(b, v[i]) + d <= Off(b, v[i + d])}
<1>1. Len(v) \in Nat BY DEF IsWalk
<1>2. \A k \in 1 .. Len(v) : Off(b, v[k]) \in Nat
  <2>1. \A p \in Places : Off(b, p) \in Places BY OffIs
  <2> QED BY <2>1, SizesAssumption DEF Places
<1>3. 0 \in Good BY <1>1, <1>2
<1>4. ASSUME NEW d \in Nat, d \in Good PROVE d + 1 \in Good
  <2> SUFFICES ASSUME i + (d + 1) <= Len(v) PROVE Off(b, v[i]) + (d + 1) <= Off(b, v[i + (d + 1)])
    OBVIOUS
  <2>1. /\ i + d \in 1 .. Len(v) - 1 /\ i + d \in 1 .. Len(v) /\ i + d + 1 \in 1 .. Len(v)
        /\ i + (d + 1) = i + d + 1
    BY <1>1
  <2>2. Off(b, v[i]) + d <= Off(b, v[i + d]) BY <1>4, <2>1
  <2>3. Off(b, v[i + d]) < Off(b, v[i + d + 1]) BY <2>1
  <2>4. Off(b, v[i]) \in Nat /\ Off(b, v[i + d]) \in Nat /\ Off(b, v[i + d + 1]) \in Nat BY <1>2, <2>1
  <2> HIDE DEF Good
  <2> QED BY <2>1, <2>2, <2>3, <2>4
<1>5. j - i \in Good
  <2>1. \A d \in Nat : d \in Good => d + 1 \in Good BY <1>4
  <2>2. j - i \in Nat BY <1>1
  <2> HIDE DEF Good
  <2> QED BY <1>3, <2>1, <2>2, NatSetInduction
<1>6. i + (j - i) = j BY <1>1
<1> QED BY <1>1, <1>5, <1>6

(* The walk from c arrives at t, among the places S, and goes up: it      *)
(* meets all between them but what a header it meets leads over.         *)
Arrives(b, c, t, m, S) ==
  LET w == Walk(c, t, m)
      R == Range(w)
  IN  /\ Last(w) = t /\ R \subseteq S \cup {t} /\ c \in R
      /\ \A i, j \in 1 .. Len(w) : i < j => Off(b, w[i]) < Off(b, w[j])
      /\ \A p \in R \ {t} : After(p, m) \in R
      /\ \A p \in R : Off(b, c) <= Off(b, p) /\ Off(b, p) <= Off(b, t)
      /\ \A p, q \in R : Off(b, q) < Off(b, p) => Off(b, After(q, m)) <= Off(b, p)
      /\ \A p \in Places : Off(b, c) <= Off(b, p) /\ Off(b, p) < Off(b, t) =>
           p \in R \/ \E q \in R \ {t} : Off(b, q) < Off(b, p) /\ Off(b, p) < Off(b, After(q, m))

(* A walk from c that stays among the places S, and goes up from each of *)
(* them, arrives.                                                        *)
LEMMA Through ==
  ASSUME NEW b \in Places, NEW c \in Places, NEW t \in Places, NEW m \in Memory,
         NEW S \in SUBSET Places, c \in S \cup {t},
         \A p \in S : p # t /\ p \in Range(Walk(c, t, m)) =>
           /\ m[p] # NoHeader /\ After(p, m) \in S \cup {t}
           /\ Off(b, p) < Off(b, After(p, m))
  PROVE  Arrives(b, c, t, m, S)
<1> DEFINE v == Walk(c, t, m)
           R == Range(v)
<1>1. IsWalk(v, Size, c, t, m)
  <2>1. c \in Nat BY SizesAssumption DEF Places
  <2> QED BY <2>1, WalkIs
<1>2. \A p \in S : p # t /\ p \in R =>
        /\ m[p] # NoHeader /\ After(p, m) \in S \cup {t} /\ Off(b, p) < Off(b, After(p, m))
  OBVIOUS
<1> HIDE DEF v
<1>3. /\ v \in Seq(Nat) /\ Len(v) \in 1 .. Size + 1 /\ v[1] = c /\ Len(v) \in Nat /\ Size \in Nat
      /\ \A i \in 1 .. Len(v) - 1 : v[i] # t /\ IsHeader(v[i], m) /\ v[i + 1] = After(v[i], m)
      /\ Len(v) = Size + 1 \/ v[Len(v)] = t \/ ~IsHeader(v[Len(v)], m)
  BY <1>1, SizesAssumption DEF IsWalk
<1>4. R = {v[i] : i \in 1 .. Len(v)} BY <1>3 DEF Range
<1> HIDE DEF R
<1>5. \A i \in 1 .. Len(v) : v[i] \in S \cup {t}
  <2> DEFINE Good == {d \in Nat : d + 1 <= Len(v) => v[d + 1] \in S \cup {t}}
  <2>1. 0 \in Good BY <1>3
  <2>2. ASSUME NEW d \in Nat, d \in Good PROVE d + 1 \in Good
    <3> SUFFICES ASSUME d + 1 + 1 <= Len(v) PROVE v[d + 1 + 1] \in S \cup {t}
      OBVIOUS
    <3>1. d + 1 \in 1 .. Len(v) - 1 /\ d + 1 \in 1 .. Len(v)
      <4>1. Len(v) \in Nat BY <1>3
      <4> QED BY <4>1
    <3>2. v[d + 1] \in S /\ v[d + 1] # t /\ v[d + 1] \in R
      <4>1. v[d + 1] # t BY <1>3, <3>1
      <4>2. v[d + 1] \in R BY <1>4, <3>1
      <4>3. v[d + 1] \in S \cup {t} BY <1>3, <2>2, <3>1
      <4> QED BY <4>1, <4>2, <4>3
    <3> QED BY <1>2, <1>3, <3>1, <3>2
  <2>3. \A d \in Nat : d \in Good
    <3>1. \A d \in Nat : d \in Good => d + 1 \in Good BY <2>2
    <3> HIDE DEF Good
    <3> QED BY <2>1, <3>1, NatSetInduction
  <2> SUFFICES ASSUME NEW i \in 1 .. Len(v) PROVE v[i] \in S \cup {t}
    OBVIOUS
  <2>4. i - 1 \in Nat /\ i - 1 + 1 = i /\ i <= Len(v) BY <1>3
  <2> QED BY <2>3, <2>4
<1>6. \A i \in 1 .. Len(v) : v[i] \in Places /\ v[i] \in R BY <1>4, <1>5
<1>7. ASSUME NEW i \in 1 .. Len(v) - 1
      PROVE  /\ i \in 1 .. Len(v) /\ i + 1 \in 1 .. Len(v)
             /\ v[i + 1] = After(v[i], m) /\ Off(b, v[i]) < Off(b, v[i + 1])
  <2>1. i \in 1 .. Len(v) /\ i + 1 \in 1 .. Len(v) BY <1>3
  <2>2. v[i] \in S /\ v[i] # t /\ v[i + 1] = After(v[i], m) BY <1>3, <1>5, <2>1
  <2> QED BY <1>2, <1>6, <2>1, <2>2
<1>8. ASSUME NEW i \in 1 .. Len(v), NEW j \in 1 .. Len(v), i <= j
      PROVE  Off(b, v[i]) + (j - i) <= Off(b, v[j])
  BY <1>1, <1>3, <1>6, <1>7, <1>8, Rising
<1>9. \A p \in Places : Off(b, p) \in Nat /\ Off(b, p) < Size
  <2>1. \A p \in Places : Off(b, p) \in 0 .. Size - 1 BY OffIs DEF Places
  <2> QED BY <1>3, <2>1
<1>10. v[Len(v)] = t
  <2>1. 1 \in 1 .. Len(v) /\ Len(v) \in 1 .. Len(v) BY <1>3
  <2>2. Off(b, v[1]) + (Len(v) - 1) <= Off(b, v[Len(v)]) BY <1>3, <1>8, <2>1
  <2>3. Len(v) # Size + 1
    <3>1. v[1] \in Places /\ v[Len(v)] \in Places BY <1>6, <2>1
    <3>2. Off(b, v[1]) \in Nat /\ Off(b, v[Len(v)]) \in Nat /\ Off(b, v[Len(v)]) < Size
      BY <1>9, <3>1
    <3> QED BY <1>3, <2>2, <3>2
  <2>4. v[Len(v)] # t => IsHeader(v[Len(v)], m)
    <3> SUFFICES ASSUME v[Len(v)] # t PROVE IsHeader(v[Len(v)], m)
      OBVIOUS
    <3>1. v[Len(v)] \in S /\ v[Len(v)] \in R BY <1>5, <1>6, <2>1
    <3>2. m[v[Len(v)]] # NoHeader BY <1>2, <3>1
    <3>3. v[Len(v)] < Size BY <1>3, <3>1 DEF Places
    <3> QED BY <3>2, <3>3 DEF IsHeader
  <2> SUFFICES ASSUME v[Len(v)] # t PROVE FALSE
    OBVIOUS
  <2>5. Len(v) = Size + 1 \/ ~IsHeader(v[Len(v)], m) BY <1>3
  <2>6. IsHeader(v[Len(v)], m) BY <2>4
  <2> QED BY <2>3, <2>5, <2>6
<1>11. Last(v) = t BY <1>1, <1>10, LastIs, SizesAssumption
<1>12. R \subseteq S \cup {t} BY <1>4, <1>5
<1>13. c \in R
  <2>1. 1 \in 1 .. Len(v) BY <1>3
  <2> QED BY <1>3, <1>6, <2>1
<1>14. ASSUME NEW p \in R \ {t} PROVE After(p, m) \in R
  <2>1. PICK i \in 1 .. Len(v) : p = v[i] BY <1>4
  <2>2. i \in 1 .. Len(v) - 1 BY <1>3, <1>10, <2>1
  <2> QED BY <1>6, <1>7, <2>1, <2>2
<1>15. ASSUME NEW p \in R PROVE Off(b, c) <= Off(b, p) /\ Off(b, p) <= Off(b, t)
  <2>1. PICK i \in 1 .. Len(v) : p = v[i] BY <1>4
  <2>2. 1 \in 1 .. Len(v) /\ Len(v) \in 1 .. Len(v) /\ 1 <= i /\ i <= Len(v) BY <1>3
  <2>3. Off(b, c) + (i - 1) <= Off(b, p) /\ Off(b, p) + (Len(v) - i) <= Off(b, t)
    BY <1>3, <1>8, <1>10, <2>1, <2>2
  <2>4. Off(b, c) \in Nat /\ Off(b, p) \in Nat /\ Off(b, t) \in Nat
    BY <1>6, <1>9, <1>3, <2>1
  <2>5. i \in Int /\ Len(v) \in Int BY <1>3
  <2>6. 0 <= i - 1 /\ 0 <= Len(v) - i BY <2>2, <2>5
  <2>7. i - 1 \in Int /\ Len(v) - i \in Int BY <2>5
  <2> HIDE DEF v
  <2>8. Off(b, c) <= Off(b, p) BY <2>3, <2>4, <2>6, <2>7
  <2>9. Off(b, p) <= Off(b, t) BY <2>3, <2>4, <2>6, <2>7
  <2> QED BY <2>8, <2>9
<1>16. ASSUME NEW p \in R, NEW q \in R, Off(b, q) < Off(b, p)
       PROVE  Off(b, After(q, m)) <= Off(b, p)
  <2>1. PICK i \in 1 .. Len(v) : p = v[i] BY <1>4
  <2>2. PICK j \in 1 .. Len(v) : q = v[j] BY <1>4
  <2>3. Off(b, p) \in Nat /\ Off(b, q) \in Nat
    <3>1. p \in Places /\ q \in Places BY <1>6, <2>1, <2>2
    <3> QED BY <1>9, <3>1
  <2>4. j < i
    <3> SUFFICES ASSUME i <= j PROVE FALSE
      BY <1>3
    <3>1. Off(b, p) + (j - i) <= Off(b, q) BY <1>8, <2>1, <2>2
    <3>2. i \in Int /\ j \in Int /\ 0 <= j - i BY <1>3
    <3>3. Off(b, p) <= Off(b, q) BY <2>3, <3>1, <3>2
    <3> QED BY <1>16, <2>3, <3>3
  <2>5. j \in 1 .. Len(v) - 1 BY <1>3, <2>4
  <2>6. j + 1 \in 1 .. Len(v) /\ v[j + 1] = After(q, m) BY <1>7, <2>2, <2>5
  <2>7. Off(b, v[j + 1]) + (i - (j + 1)) <= Off(b, p)
    <3>1. j + 1 <= i BY <1>3, <2>4
    <3> QED BY <1>8, <2>1, <2>6, <3>1
  <2>8. Off(b, v[j + 1]) \in Nat BY <1>6, <1>9, <1>3, <2>6
  <2>9. i \in Int /\ j \in Int /\ 0 <= i - (j + 1) BY <1>3, <2>4
  <2>10. Off(b, v[j + 1]) <= Off(b, p) BY <2>3, <2>7, <2>8, <2>9
  <2> QED BY <2>6, <2>10
<1>17. ASSUME NEW p \in Places, Off(b, c) <= Off(b, p), Off(b, p) < Off(b, t), p \notin R
       PROVE  \E q \in R \ {t} : Off(b, q) < Off(b, p) /\ Off(b, p) < Off(b, After(q, m))
  <2> DEFINE T == {i \in 1 .. Len(v) : Off(b, p) < Off(b, v[i])}
  <2>1. T \in SUBSET Nat /\ Len(v) \in T BY <1>3, <1>10, <1>17
  <2>2. PICK i \in T : \A j \in T : i <= j
    <3> HIDE DEF T
    <3> QED BY <2>1, NatMinimum
  <2>3. \A j \in 1 .. Len(v) : v[j] # p /\ Off(b, v[j]) # Off(b, p)
    <3>1. \A j \in 1 .. Len(v) : v[j] # p BY <1>6, <1>17
    <3> QED BY <1>6, <3>1, OffIs
  <2>4. i # 1
    <3>1. Off(b, c) \in Nat /\ Off(b, p) \in Nat BY <1>9, <1>3
    <3> QED BY <1>3, <1>17, <3>1
  <2>5. i - 1 \in 1 .. Len(v) - 1 /\ i - 1 \in 1 .. Len(v) /\ i - 1 + 1 = i BY <1>3, <2>4
  <2>6. i - 1 \notin T BY <2>2, <2>5
  <2>7. Off(b, v[i - 1]) < Off(b, p)
    <3>2. v[i - 1] \in Places BY <1>6, <2>5
    <3>1. Off(b, v[i - 1]) \in Nat /\ Off(b, p) \in Nat BY <1>9, <3>2
    <3> QED BY <2>3, <2>5, <2>6, <3>1
  <2>8. v[i - 1] # t /\ v[i] = After(v[i - 1], m) /\ v[i - 1] \in R BY <1>3, <1>6, <2>5
  <2> QED BY <2>7, <2>8
<1>18. ASSUME NEW i \in 1 .. Len(v), NEW j \in 1 .. Len(v), i < j
       PROVE  Off(b, v[i]) < Off(b, v[j])
  <2>1. v[i] \in Places /\ v[j] \in Places BY <1>6
  <2>2. Off(b, v[i]) \in Nat /\ Off(b, v[j]) \in Nat BY <1>9, <2>1
  <2>3. i <= j BY <1>3, <1>18
  <2>4. Off(b, v[i]) + (j - i) <= Off(b, v[j]) BY <1>8, <2>3
  <2> QED BY <1>3, <1>18, <2>2, <2>4
<1> QED BY <1>11, <1>12, <1>13, <1>14, <1>15, <1>16, <1>17, <1>18 DEF Arrives, R, v

(* An intact ring whose headers lead up: every header leads to another   *)
(* one or to Top, over no third, and nothing is above a header that      *)
(* returns to the start.                                                 *)
LEMMA Rounds ==
  ASSUME RingInv, Intact, Upward(bottom, mem)
  PROVE  LET H == Heads(mem)
             w == Walk(bottom, top, mem)
         IN  /\ bottom \in Places /\ top \in Places /\ bottom \in H \cup {top} /\ top \notin H
             /\ H = Range(w) \ {top}
             /\ \A p \in H : After(p, mem) \in H \cup {top} /\ Off(bottom, p) < Off(bottom, top)
             /\ \A p \in H \cup {top}, q \in H :
                  Off(bottom, q) < Off(bottom, p) => Off(bottom, After(q, mem)) <= Off(bottom, p)
             /\ \A p \in H \cup {top}, e \in H : mem[e].end => p <= e /\ 0 < bottom /\ bottom <= e
             /\ \A i, j \in 1 .. Len(w) : i < j => Off(bottom, w[i]) < Off(bottom, w[j])
             /\ \A p \in H : \E j \in 1 .. Len(w) - 1 : w[j] = p
             /\ \A j \in 1 .. Len(w) : w[j] \in H \cup {top}
<1> DEFINE H == Heads(mem)
           w == Walk(bottom, top, mem)
<1>1. bottom \in Nat /\ top \in Nat /\ mem \in Memory /\ Clean(bottom, top, mem) /\ Last(w) = top
  BY DEF RingInv, Place, Intact
<1>2. top \in Places BY <1>1, SizesAssumption DEF RingInv, Place, TopLeavesRoom, Places
<1>3. bottom \in Places
  <2>1. CASE bottom = top BY <1>2, <2>1
  <2>2. CASE bottom # top BY <1>1, <2>2, Starts DEF Places
  <2> QED BY <2>1, <2>2
<1>4. IsWalk(w, Size, bottom, top, mem) BY <1>1, WalkIs
<1>5. H = Range(w) \ {top}
  <2>1. ASSUME NEW p \in Range(w) \ {top} PROVE p \in H
    BY <1>1, <2>1, Met DEF Places, Heads
  <2>2. ASSUME NEW p \in H PROVE p \in Range(w) \ {top} BY <1>1, <2>2 DEF Clean, Places, Heads
  <2> QED BY <2>1, <2>2
<1>6. H \in SUBSET Places /\ top \notin H BY <1>5 DEF Heads
<1>7. \A p \in H : /\ mem[p] # NoHeader /\ After(p, mem) \in Places
                   /\ Off(bottom, p) < Off(bottom, After(p, mem))
  BY DEF Heads, Upward
<1> HIDE DEF w, H
<1>8. /\ w \in Seq(Nat) /\ Len(w) \in Nat /\ w[1] = bottom /\ 1 \in 1 .. Len(w) /\ w[Len(w)] = top
      /\ \A i \in 1 .. Len(w) - 1 : w[i + 1] = After(w[i], mem)
  <2>1. w[Len(w)] = top BY <1>1, <1>4, LastIs, SizesAssumption
  <2> QED BY <1>4, <2>1, SizesAssumption DEF IsWalk
<1>9. Range(w) = {w[i] : i \in 1 .. Len(w)} BY <1>8 DEF Range
<1>10. \A p \in H : \E j \in 1 .. Len(w) - 1 : w[j] = p
  <2> SUFFICES ASSUME NEW p \in H PROVE \E j \in 1 .. Len(w) - 1 : w[j] = p
    OBVIOUS
  <2>1. p \in Range(w) /\ p # top BY <1>5
  <2>2. PICK j \in 1 .. Len(w) : w[j] = p BY <1>9, <2>1
  <2>3. j \in 1 .. Len(w) - 1 BY <1>8, <2>1, <2>2
  <2> QED BY <2>2, <2>3
<1>11. \A p \in H : After(p, mem) \in H \cup {top}
  <2> SUFFICES ASSUME NEW p \in H PROVE After(p, mem) \in H \cup {top}
    OBVIOUS
  <2>1. PICK j \in 1 .. Len(w) - 1 : w[j] = p BY <1>10
  <2>2. j + 1 \in 1 .. Len(w) /\ w[j + 1] = After(p, mem) BY <1>8, <2>1
  <2> QED BY <1>5, <1>9, <2>2
<1>12. bottom \in H \cup {top} BY <1>5, <1>8, <1>9
<1>13. \A p \in H : p # top /\ p \in Range(Walk(bottom, top, mem)) =>
         /\ mem[p] # NoHeader /\ After(p, mem) \in H \cup {top}
         /\ Off(bottom, p) < Off(bottom, After(p, mem))
  BY <1>7, <1>11
<1>14. /\ \A i, j \in 1 .. Len(w) : i < j => Off(bottom, w[i]) < Off(bottom, w[j])
       /\ \A p \in Range(w) : Off(bottom, bottom) <= Off(bottom, p) /\ Off(bottom, p) <= Off(bottom, top)
       /\ \A p, q \in Range(w) : Off(bottom, q) < Off(bottom, p) => Off(bottom, After(q, mem)) <= Off(bottom, p)
  <2>1. Arrives(bottom, bottom, top, mem, H) BY <1>1, <1>2, <1>3, <1>6, <1>12, <1>13, Through
  <2> QED BY <2>1 DEF Arrives, w
<1>15. top \in Range(w) /\ \A p \in H \cup {top} : p \in Range(w) /\ p \in Places
  <2>1. Len(w) \in 1 .. Len(w) BY <1>8
  <2>2. top \in Range(w) BY <1>8, <1>9, <2>1
  <2> QED BY <1>2, <1>5, <1>6, <2>2
<1>16. \A p \in H : Off(bottom, p) < Off(bottom, top)
  <2> SUFFICES ASSUME NEW p \in H PROVE Off(bottom, p) < Off(bottom, top)
    OBVIOUS
  <2>1. Off(bottom, p) <= Off(bottom, top) /\ p # top /\ p \in Places BY <1>6, <1>14, <1>15
  <2>2. Off(bottom, p) # Off(bottom, top) BY <1>2, <1>3, <2>1, OffIs
  <2>3. Off(bottom, p) \in Places /\ Off(bottom, top) \in Places BY <1>2, <1>3, <2>1, OffIs
  <2> QED BY <2>1, <2>2, <2>3, SizesAssumption DEF Places
<1>17. \A p \in H \cup {top}, q \in H :
         Off(bottom, q) < Off(bottom, p) => Off(bottom, After(q, mem)) <= Off(bottom, p)
  BY <1>14, <1>15
<1>18. \A p \in H \cup {top}, e \in H : mem[e].end => p <= e /\ 0 < bottom /\ bottom <= e
  <2> SUFFICES ASSUME NEW p \in H \cup {top}, NEW e \in H, mem[e].end
               PROVE  p <= e /\ 0 < bottom /\ bottom <= e
    OBVIOUS
  <2>1. After(e, mem) = 0 BY DEF After
  <2>2. Off(bottom, e) < Off(bottom, 0) BY <1>7, <2>1
  <2>3. Off(bottom, e) < Off(bottom, p) => Off(bottom, 0) <= Off(bottom, p) BY <1>17, <2>1
  <2>4. p \in Places /\ e \in Places BY <1>6, <1>15
  <2> QED BY <1>3, <2>2, <2>3, <2>4, SizesAssumption DEF Off, Places
<1> QED BY <1>2, <1>3, <1>5, <1>6, <1>10, <1>11, <1>12, <1>14, <1>15, <1>16, <1>17, <1>18,
           <1>9 DEF H, w

----------------------------------------------------------------------------
(* What the loop of DequeMsg has done, when it is in state s.            *)

(* The header q has grown over one that returns to the start.            *)
Over(k, q) ==
  /\ mem[q].len < k[q].len
  /\ \E e \in Heads(mem) : mem[e].end /\ q < e /\ e < q + k[q].len

(* Headers grow over messages that have been read only, and lead to      *)
(* another header, or to Top, farther from Bottom.                       *)
Grown(k) ==
  /\ \A p \in Heads(mem) :
       k[p].end = mem[p].end /\ (~mem[p].end => mem[p].len <= k[p].len)
  /\ \A q, p \in Heads(mem) : ~mem[q].end /\ q < p /\ p < q + k[q].len => k[p].read
  /\ \A q \in Heads(mem) : ~mem[q].end =>
       \/ Over(k, q)
       \/ /\ q + k[q].len \in Heads(mem) \cup {top}
          /\ Off(bottom, q) < Off(bottom, q + k[q].len)

(* The header that grows leads to where the loop is.                     *)
LeadsHere(s) ==
  s.last # Size /\ ~mem[s.last].end =>
    \/ s.last + s.mem[s.last].len = s.at
    \/ Over(s.mem, s.last)
    \/ /\ s.at = 0
       /\ \E e \in Heads(mem) : s.last + s.mem[s.last].len = e /\ mem[e].end /\ s.mem[e].read

BottomFollows(s) ==
  /\ s.bottom \in Heads(mem) \cup {top}
  /\ \A p \in Heads(mem) : Off(bottom, p) < Off(bottom, s.bottom) => s.mem[p].read

(* f is the oldest message the read asks for.                            *)
Oldest(f, read) ==
  /\ f \in Heads(mem) /\ ~Unasked(mem[f], read.id)
  /\ \A p \in Heads(mem) : Off(bottom, p) < Off(bottom, f) => Unasked(mem[p], read.id)

Answers(s, read) ==
  /\ s.found # NoMessage => \E f \in Heads(mem) :
       /\ Oldest(f, read) /\ s.found = [id |-> mem[f].id, len |-> mem[f].len]
       /\ \A p \in Heads(mem) : s.mem[p].read <=> (mem[p].read \/ p = f)
  /\ s.big => s.found = NoMessage /\ Oldest(s.at, read) /\ read.buffer <= mem[s.at].len

Sound(s, read) == Grown(s.mem) /\ LeadsHere(s) /\ BottomFollows(s) /\ Answers(s, read)

(* The turn from s to r passes a message that has been read, at the i-th *)
(* place of the walk w, and may add its length to that of the last one.  *)
Joins(s, r, i, w) ==
  /\ s.last # Size /\ r.last = s.last
  /\ \E j \in 1 .. i - 1 : s.last = w[j]
  /\ s.last \in Heads(mem) /\ s.mem[s.last].read /\ s.mem[s.last] \in Headers
  /\ \A p \in Places \ {s.last} : r.mem[p] = s.mem[p]
  /\ r.mem[s.last].read /\ r.mem[s.last].end = s.mem[s.last].end
  /\ r.mem[s.last].len = IF s.mem[s.last].len + s.mem[s.at].len < Size
                         THEN s.mem[s.last].len + s.mem[s.at].len ELSE Size

Passes(s, r, i, w) ==
  /\ i \in 1 .. Len(w) - 1 /\ s.at = w[i] /\ s.at \in Heads(mem)
  /\ s.mem[s.at].len = mem[s.at].len /\ s.mem[s.at].end = mem[s.at].end
  /\ r.at = After(s.at, mem) /\ r.found = s.found /\ ~r.big
  /\ r.bottom = IF s.at = s.bottom THEN After(s.at, mem) ELSE s.bottom
  /\ Joins(s, r, i, w) \/ (r.mem = s.mem /\ r.last = s.at)

LEMMA PassIs ==
  ASSUME bottom \in Nat, top \in Nat, mem \in Memory, NEW read,
         NEW w, IsWalk(w, Size, bottom, top, mem), w[Len(w)] = top,
         NEW s, NEW n, NEW i, ScanAt(s, n, i, w, read), ~Ends(s), s.mem[s.at].read
  PROVE  Passes(s, Turn(s, read), i, w)
<1>1. /\ s \in LoopStates /\ i \in 1 .. Len(w) /\ s.at = w[i] /\ w \in Seq(Nat)
      /\ s.mem \in Memory /\ s.at \in Nat /\ s.last \in Nat
      /\ Kept(s.mem, mem) /\ (s.last = Size \/ \E j \in 1 .. i - 1 : s.last = w[j])
  BY DEF ScanAt, LoopStates, IsWalk, Memory
<1>2. i \in 1 .. Len(w) - 1 BY <1>1 DEF Ends
<1>3. s.at # top /\ IsHeader(s.at, mem) /\ w[i + 1] = After(s.at, mem)
  BY <1>1, <1>2 DEF IsWalk
<1>4. s.at \in Heads(mem) /\ s.at # Size
  <2>1. s.at \in 0 .. Size - 1 /\ mem[s.at] # NoHeader BY <1>1, <1>3, Onward
  <2> QED BY <2>1, SizesAssumption DEF Heads, Places
<1>5. s.mem[s.at].len = mem[s.at].len /\ s.mem[s.at].end = mem[s.at].end
  <2>1. i \in i .. Len(w) - 1 BY <1>2
  <2> QED BY <1>1, <2>1 DEF ScanAt
<1>6. After(s.at, s.mem) = After(s.at, mem) BY <1>5 DEF After
<1> DEFINE joins == s.last # Size /\ s.mem[s.last].read
           g == IF s.mem[s.last].len + s.mem[s.at].len < Size
                THEN s.mem[s.last].len + s.mem[s.at].len ELSE Size
           k == IF joins THEN [s.mem EXCEPT ![s.last].len = g] ELSE s.mem
           r == Turn(s, read)
<1>7. r = [s EXCEPT !.at = After(s.at, mem),
                    !.bottom = IF s.at = s.bottom THEN After(s.at, mem) ELSE s.bottom,
                    !.mem = k,
                    !.last = IF joins THEN s.last ELSE s.at]
  BY <1>6 DEF Ends, Turn, PassRead
<1>8. /\ r.at = After(s.at, mem) /\ r.found = s.found /\ r.big = s.big
      /\ r.bottom = IF s.at = s.bottom THEN After(s.at, mem) ELSE s.bottom
      /\ r.mem = k /\ r.last = IF joins THEN s.last ELSE s.at
  <2> HIDE DEF joins, k, g, r
  <2> QED BY <1>1, <1>7 DEF LoopStates
<1>9. ~s.big BY DEF Ends
<1>10. ASSUME joins
       PROVE  /\ \E j \in 1 .. i - 1 : s.last = w[j]
              /\ s.last \in Heads(mem) /\ s.mem[s.last] \in Headers
              /\ \A p \in Places \ {s.last} : k[p] = s.mem[p]
              /\ k[s.last].read /\ k[s.last].end = s.mem[s.last].end /\ k[s.last].len = g
  <2>1. PICK j \in 1 .. i - 1 : s.last = w[j] BY <1>1, <1>10
  <2>2. j \in 1 .. Len(w) - 1 BY <1>1, <2>1
  <2>3. IsHeader(s.last, mem) BY <2>1, <2>2 DEF IsWalk
  <2>4. s.last \in 0 .. Size - 1 /\ mem[s.last] # NoHeader BY <1>1, <2>3, Onward
  <2>5. s.mem[s.last] \in Headers BY <1>1, <2>4 DEF Memory
  <2>6. k = [s.mem EXCEPT ![s.last].len = g] /\ s.mem[s.last].read BY <1>10
  <2> HIDE DEF g, k
  <2>7. k[s.last] = [s.mem[s.last] EXCEPT !.len = g] /\ \A p \in Places \ {s.last} : k[p] = s.mem[p]
    BY <1>1, <2>4, <2>6 DEF Memory, Places
  <2>8. k[s.last].read /\ k[s.last].end = s.mem[s.last].end /\ k[s.last].len = g
    BY <2>5, <2>6, <2>7 DEF Headers
  <2> QED BY <2>1, <2>4, <2>5, <2>7, <2>8 DEF Heads, Places
<1>11. ~joins => k = s.mem OBVIOUS
<1>12. joins => s.last # Size /\ s.mem[s.last].read OBVIOUS
<1>13. g = IF s.mem[s.last].len + s.mem[s.at].len < Size
           THEN s.mem[s.last].len + s.mem[s.at].len ELSE Size
  OBVIOUS
<1> HIDE DEF joins, k, r, g
<1>14. CASE joins
  <2>1. r.mem = k /\ r.last = s.last BY <1>8, <1>14
  <2>2. Joins(s, r, i, w) BY <1>10, <1>12, <1>13, <1>14, <2>1 DEF Joins
  <2> QED BY <1>1, <1>2, <1>4, <1>5, <1>8, <1>9, <2>2 DEF Passes, r
<1>15. CASE ~joins BY <1>1, <1>2, <1>4, <1>5, <1>8, <1>9, <1>11, <1>15 DEF Passes, r
<1> QED BY <1>14, <1>15

LEMMA SoundPass ==
  ASSUME RingInv, Intact, Upward(bottom, mem), NEW read,
         NEW s, NEW n, NEW i, ScanAt(s, n, i, Walk(bottom, top, mem), read),
         ~Ends(s), s.mem[s.at].read, Sound(s, read)
  PROVE  Sound(Turn(s, read), read)
<1> DEFINE H == Heads(mem)
           w == Walk(bottom, top, mem)
           r == Turn(s, read)
           at == s.at
           q == s.last
           next == After(at, mem)
<1>1. bottom \in Nat /\ top \in Nat /\ mem \in Memory /\ Last(w) = top /\ Size \in Nat
  BY SizesAssumption DEF RingInv, Place, Intact
<1>2. IsWalk(w, Size, bottom, top, mem) /\ w[Len(w)] = top /\ Len(w) \in Nat
  <2>1. IsWalk(w, Size, bottom, top, mem) BY <1>1, WalkIs
  <2>2. Last(w) = top /\ Size \in Nat BY <1>1
  <2> HIDE DEF w, r, H
  <2>3. Last(w) = w[Len(w)] BY <2>1, <2>2, LastIs
  <2>4. Len(w) \in Nat BY <2>1 DEF IsWalk
  <2> QED BY <2>1, <2>2, <2>3, <2>4
<1>3. /\ bottom \in Places /\ top \in Places /\ bottom \in H \cup {top} /\ top \notin H
      /\ \A p \in H : After(p, mem) \in H \cup {top} /\ Off(bottom, p) < Off(bottom, top)
      /\ \A p \in H \cup {top}, e \in H :
           Off(bottom, e) < Off(bottom, p) => Off(bottom, After(e, mem)) <= Off(bottom, p)
      /\ \A p \in H \cup {top}, e \in H : mem[e].end => p <= e /\ 0 < bottom /\ bottom <= e
      /\ \A j, k \in 1 .. Len(w) : j < k => Off(bottom, w[j]) < Off(bottom, w[k])
  BY Rounds
<1>0. Passes(s, r, i, w)
  <2>1. ScanAt(s, n, i, w, read) OBVIOUS
  <2> HIDE DEF w
  <2> QED BY <1>1, <1>2, <2>1, PassIs
<1> DEFINE joins == Joins(s, r, i, w)
<1>4. /\ i \in 1 .. Len(w) - 1 /\ at = w[i] /\ at \in H
      /\ s.mem[at].len = mem[at].len /\ s.mem[at].end = mem[at].end
      /\ r.at = next /\ r.found = s.found /\ ~r.big
      /\ r.bottom = IF at = s.bottom THEN next ELSE s.bottom
      /\ joins \/ (r.mem = s.mem /\ r.last = at)
  BY <1>0 DEF Passes
<1>6. /\ H \in SUBSET Places
      /\ \A p \in H : /\ After(p, mem) \in Places /\ Off(bottom, p) < Off(bottom, After(p, mem))
                      /\ mem[p] \in Headers /\ mem[p].len \in Nat
                      /\ ~mem[p].end => After(p, mem) = p + mem[p].len
                      /\ mem[p].end => After(p, mem) = 0
  <2>1. \A p \in Places : mem[p] \in Headers /\ mem[p].len \in Nat
    BY <1>1 DEF Memory, Places, Headers
  <2> QED BY <2>1 DEF Heads, Upward, After
<1>7. /\ Kept(s.mem, mem) /\ Grown(s.mem) /\ LeadsHere(s) /\ BottomFollows(s) /\ Answers(s, read)
  BY DEF Sound, ScanAt
<1>12. \A p \in Places : Off(bottom, p) \in Nat
  <2>1. \A p \in Places : Off(bottom, p) \in Places BY <1>3, OffIs
  <2> QED BY <1>1, <2>1 DEF Places
<1> HIDE DEF r, w
<1>8. Grown(r.mem) /\ LeadsHere(r)
  <2>1. CASE r.mem = s.mem /\ r.last = at
    <3>1. ~mem[at].end => at + s.mem[at].len = next BY <1>4, <1>6
    <3> QED BY <1>4, <1>7, <2>1, <3>1 DEF LeadsHere
  <2>2. CASE joins
    <3> DEFINE len == s.mem[q].len
               new == r.mem[q].len
               l == mem[at].len
    <3>0. /\ q # Size /\ r.last = q
          /\ \E j \in 1 .. i - 1 : q = w[j]
          /\ q \in H /\ s.mem[q].read /\ s.mem[q] \in Headers
          /\ \A p \in Places \ {q} : r.mem[p] = s.mem[p]
          /\ r.mem[q].read /\ r.mem[q].end = s.mem[q].end
          /\ new = IF len + s.mem[at].len < Size THEN len + s.mem[at].len ELSE Size
      BY <2>2 DEF Joins
    <3>1. /\ q # Size /\ r.last = q /\ q \in H /\ s.mem[q].read /\ q \in Places /\ q \in Nat
          /\ len \in Nat /\ l \in Nat /\ at \in Places /\ at \in Nat /\ next \in Places
          /\ \A p \in Places \ {q} : r.mem[p] = s.mem[p]
          /\ r.mem[q].read /\ r.mem[q].end = s.mem[q].end
          /\ new = IF len + l < Size THEN len + l ELSE Size
          /\ new \in Nat
      <4>1. q \in Places /\ at \in Places /\ next \in Places /\ l \in Nat BY <1>4, <1>6, <3>0
      <4>2. q \in Nat /\ at \in Nat BY <1>1, <4>1 DEF Places
      <4>3. len \in Nat BY <3>0 DEF Headers
      <4>4. new = IF len + l < Size THEN len + l ELSE Size BY <1>4, <3>0
      <4> QED BY <1>1, <3>0, <4>1, <4>2, <4>3, <4>4
    <3>2. Off(bottom, q) < Off(bottom, at)
      <4>1. PICK j \in 1 .. i - 1 : q = w[j] BY <3>0
      <4>2. j \in 1 .. Len(w) /\ i \in 1 .. Len(w) /\ j < i BY <1>2, <1>4
      <4> QED BY <1>3, <1>4, <4>1, <4>2
    <3> HIDE DEF joins
    <3>3. \A p \in H : /\ s.mem[p].read => r.mem[p].read
                       /\ r.mem[p].end = s.mem[p].end
                       /\ p # q => r.mem[p].len = s.mem[p].len
      BY <1>6, <3>1
    <3>4. \A p \in H : s.mem[p].end = mem[p].end /\ (~mem[p].end => mem[p].len <= s.mem[p].len)
      BY <1>7 DEF Grown
    <3>5. \A e, p \in H : ~mem[e].end /\ e < p /\ p < e + s.mem[e].len => s.mem[p].read
      BY <1>7 DEF Grown
    <3>6. \A e \in H : ~mem[e].end => \/ Over(s.mem, e)
                                      \/ /\ e + s.mem[e].len \in H \cup {top}
                                         /\ Off(bottom, e) < Off(bottom, e + s.mem[e].len)
      BY <1>7 DEF Grown
    <3>7. \A p \in H : p # q => (Over(s.mem, p) <=> Over(r.mem, p)) BY <3>3 DEF Over
    <3>8. ASSUME ~mem[q].end
          PROVE  /\ mem[q].len <= new
                 /\ \A p \in H : q < p /\ p < q + new => s.mem[p].read
                 /\ Over(r.mem, q) \/ (q + new \in H \cup {top} /\ Off(bottom, q) < Off(bottom, q + new))
                 /\ \/ q + new = next
                    \/ Over(r.mem, q)
                    \/ /\ next = 0
                       /\ \E e \in H : q + new = e /\ mem[e].end /\ s.mem[e].read
      <4>1. /\ mem[q].len <= len /\ mem[q].len \in Nat /\ mem[q].len < Size
            /\ \A p \in H : q < p /\ p < q + len => s.mem[p].read
        BY <1>1, <1>6, <3>1, <3>4, <3>5, <3>8 DEF Places
      <4>2. mem[q].len <= new BY <1>1, <3>1, <4>1
      <4>3. \/ q + len = at
            \/ Over(s.mem, q)
            \/ at = 0 /\ \E e \in H : q + len = e /\ mem[e].end /\ s.mem[e].read
        BY <1>7, <3>1, <3>8 DEF LeadsHere
      <4>4. ASSUME NEW e \in H, mem[e].end, q < e, e < q + new, len < new \/ mem[q].len < len
            PROVE  Over(r.mem, q)
        <5>1. e < q + r.mem[q].len BY <4>4
        <5>2. mem[q].len < r.mem[q].len
          <6>1. mem[q].len \in Nat /\ len \in Nat /\ new \in Nat BY <3>1, <4>1
          <6>2. mem[q].len <= len /\ mem[q].len < Size BY <4>1
          <6>3. CASE len < new BY <6>1, <6>2, <6>3
          <6>4. CASE mem[q].len < len
            <7>1. new = len + l \/ new = Size BY <3>1
            <7>2. l \in Nat /\ Size \in Nat BY <1>1, <3>1
            <7> QED BY <6>1, <6>2, <6>4, <7>1, <7>2
          <6> QED BY <4>4, <6>3, <6>4
        <5> QED BY <4>4, <5>1, <5>2 DEF Over
      <4>5. ASSUME NEW e \in H, mem[e].end, q < e, e <= q + len, s.mem[e].read,
                   NEW p \in H, q < p, p < q + new
            PROVE  s.mem[p].read
        <5>1. p <= e BY <1>3, <4>5
        <5>2. p \in Nat /\ e \in Nat BY <1>1, <1>6 DEF Places
        <5> QED BY <3>1, <4>1, <4>5, <5>1, <5>2
      <4>6. CASE q + len = at /\ ~mem[at].end
        <5>1. next = at + l /\ next < Size BY <1>1, <1>4, <1>6, <3>1, <4>6 DEF Places
        <5>2. new = len + l /\ q + new = next BY <1>1, <3>1, <4>6, <5>1
        <5>3. ASSUME NEW p \in H, q < p, p < q + new PROVE s.mem[p].read
          <6>1. p \in Nat BY <1>1, <1>6 DEF Places
          <6>2. CASE p < at BY <4>1, <4>6, <5>3, <6>2
          <6>3. CASE p = at BY <6>3
          <6>4. CASE at < p
            <7>1. p < at + s.mem[at].len BY <1>4, <5>1, <5>2, <5>3
            <7> QED BY <1>4, <3>5, <4>6, <6>4, <7>1
          <6> QED BY <3>1, <6>1, <6>2, <6>3, <6>4
        <5>4. Off(bottom, q) < Off(bottom, next)
          <6>1. Off(bottom, at) < Off(bottom, next) BY <1>4, <1>6
          <6>2. Off(bottom, q) \in Places /\ Off(bottom, at) \in Places /\ Off(bottom, next) \in Places
            BY <1>3, <3>1, OffIs
          <6> QED BY <1>1, <3>2, <6>1, <6>2 DEF Places
        <5>5. next \in H \cup {top} BY <1>3, <1>4
        <5> QED BY <4>2, <5>2, <5>3, <5>4, <5>5
      <4>7. CASE q + len = at /\ mem[at].end
        <5>1. next = 0 BY <1>4, <1>6, <4>7
        <5>2. 0 < len
          <6>2. Off(bottom, q) \in Nat BY <1>12, <3>1
          <6>1. q # at BY <3>2, <6>2
          <6> QED BY <3>1, <4>7, <6>1
        <5>3. q < at /\ at <= q + len BY <3>1, <4>7, <5>2
        <5>4. \A p \in H : q < p /\ p < q + new => s.mem[p].read BY <1>4, <4>5, <4>7, <5>3
        <5>5. CASE l = 0
          <6>1. new = len BY <1>1, <3>1, <4>7, <5>5 DEF Places
          <6> QED BY <1>4, <3>2, <4>2, <4>7, <5>1, <5>4, <6>1
        <5>6. CASE l # 0
          <6>1. len < new /\ at < q + new BY <1>1, <3>1, <4>7, <5>6 DEF Places
          <6>2. Over(r.mem, q) BY <1>4, <4>4, <4>7, <5>3, <6>1
          <6> QED BY <4>2, <5>4, <6>2
        <5> QED BY <5>5, <5>6
      <4>8. CASE Over(s.mem, q)
        <5>1. PICK e \in H : mem[e].end /\ q < e /\ e < q + len /\ mem[q].len < len
          BY <4>8 DEF Over
        <5>2. e \in Nat /\ e < Size BY <1>1, <1>6 DEF Places
        <5>3. s.mem[e].read BY <4>1, <5>1
        <5>4. e < q + new /\ (len < new \/ mem[q].len < len) /\ e <= q + len BY <1>1, <3>1, <5>1, <5>2
        <5>5. Over(r.mem, q) BY <4>4, <5>1, <5>4
        <5>6. \A p \in H : q < p /\ p < q + new => s.mem[p].read BY <4>5, <5>1, <5>3, <5>4
        <5> QED BY <4>2, <5>5, <5>6
      <4>9. CASE at = 0 /\ \E e \in H : q + len = e /\ mem[e].end /\ s.mem[e].read
        <5>1. PICK e \in H : q + len = e /\ mem[e].end /\ s.mem[e].read BY <4>9
        <5>2. e \in Nat /\ e < Size /\ 0 < bottom /\ bottom <= e /\ bottom \in Nat
          BY <1>1, <1>3, <1>6, <5>1 DEF Places
        <5>3. q # e
          <6> SUFFICES ASSUME q = e PROVE FALSE
            OBVIOUS
          <6> QED BY <3>8, <5>1
        <5>4. q < e /\ 0 < len BY <3>1, <5>1, <5>2, <5>3
        <5>5. ~mem[at].end BY <1>3, <1>4, <4>9, <5>2
        <5>6. 0 < l
          <6>3. Off(bottom, at) \in Nat /\ Off(bottom, at) < Off(bottom, next) BY <1>4, <1>6, <1>12, <3>1
          <6>1. next = at + l /\ next # at BY <1>4, <1>6, <5>5, <6>3
          <6> QED BY <3>1, <6>1
        <5>7. len < new /\ e < q + new BY <1>1, <3>1, <5>1, <5>2, <5>6
        <5>8. Over(r.mem, q) BY <4>4, <5>1, <5>4, <5>7
        <5>9. e <= q + len BY <5>1, <5>2
        <5>10. \A p \in H : q < p /\ p < q + new => s.mem[p].read BY <4>5, <5>1, <5>4, <5>9
        <5> QED BY <4>2, <5>8, <5>10
      <4> QED BY <4>3, <4>6, <4>7, <4>8, <4>9
    <3>9. Grown(r.mem)
      <4>1. \A p \in H : r.mem[p].end = mem[p].end /\ (~mem[p].end => mem[p].len <= r.mem[p].len)
        BY <3>3, <3>4, <3>8
      <4>2. \A e, p \in H : ~mem[e].end /\ e < p /\ p < e + r.mem[e].len => r.mem[p].read
        BY <3>3, <3>5, <3>8
      <4>3. \A e \in H : ~mem[e].end => \/ Over(r.mem, e)
                                        \/ /\ e + r.mem[e].len \in H \cup {top}
                                           /\ Off(bottom, e) < Off(bottom, e + r.mem[e].len)
        BY <3>3, <3>6, <3>7, <3>8
      <4> QED BY <4>1, <4>2, <4>3 DEF Grown
    <3>10. LeadsHere(r)
      <4> SUFFICES ASSUME ~mem[q].end
                   PROVE  \/ q + new = next
                          \/ Over(r.mem, q)
                          \/ /\ next = 0
                             /\ \E e \in H : q + new = e /\ mem[e].end /\ r.mem[e].read
        <5>1. r.last = q /\ r.at = next BY <1>4, <3>1
        <5> QED BY <5>1 DEF LeadsHere
      <4> QED BY <3>3, <3>8
    <3> QED BY <3>9, <3>10
  <2> QED BY <1>4, <2>1, <2>2
<1>9. \A p \in H : s.mem[p].read <=> r.mem[p].read
  BY <1>4, <1>6 DEF Joins
<1>10. BottomFollows(r)
  <2>1. CASE at # s.bottom BY <1>4, <1>7, <1>9, <2>1 DEF BottomFollows
  <2>2. CASE at = s.bottom
    <3>1. next \in H \cup {top} BY <1>3, <1>4
    <3>2. ASSUME NEW p \in H, Off(bottom, p) < Off(bottom, next) PROVE s.mem[p].read
      <4>1. Off(bottom, at) < Off(bottom, p) => Off(bottom, next) <= Off(bottom, p) BY <1>3, <1>4
      <4>2. p \in Places /\ at \in Places /\ next \in Places BY <1>4, <1>6
      <4>3. Off(bottom, p) \in Nat /\ Off(bottom, at) \in Nat /\ Off(bottom, next) \in Nat
        BY <1>12, <4>2
      <4>4. Off(bottom, p) < Off(bottom, at) \/ Off(bottom, p) = Off(bottom, at)
        BY <3>2, <4>1, <4>3
      <4>5. CASE Off(bottom, p) = Off(bottom, at)
        <5>1. p = at BY <1>3, <4>2, <4>5, OffIs
        <5> QED BY <5>1
      <4>6. CASE Off(bottom, p) < Off(bottom, at) BY <1>7, <2>2, <4>6 DEF BottomFollows
      <4> QED BY <4>4, <4>5, <4>6
    <3> QED BY <1>4, <1>9, <2>2, <3>1, <3>2 DEF BottomFollows
  <2> QED BY <2>1, <2>2
<1>11. Answers(r, read) BY <1>4, <1>7, <1>9 DEF Answers
<1> QED BY <1>8, <1>10, <1>11 DEF Sound, r

LEMMA Between ==
  ASSUME NEW b \in Places, NEW q \in Places, NEW a \in Places, NEW p \in Places,
         q < a, Off(b, q) < Off(b, a)
  PROVE  (q < p /\ p < a) <=> (Off(b, q) < Off(b, p) /\ Off(b, p) < Off(b, a))
BY SizesAssumption DEF Off, Places

LEMMA SoundStart ==
  ASSUME RingInv, Intact, Upward(bottom, mem), NEW read
  PROVE  Sound(ScanStart, read)
<1> DEFINE H == Heads(mem)
<1>1. /\ bottom \in Places /\ top \in Places /\ bottom \in H \cup {top}
      /\ \A p \in H : After(p, mem) \in H \cup {top}
      /\ \A p \in H \cup {top}, e \in H :
           Off(bottom, e) < Off(bottom, p) => Off(bottom, After(e, mem)) <= Off(bottom, p)
  BY Rounds
<1>2. mem \in Memory /\ Size \in Nat BY SizesAssumption DEF RingInv
<1>3. /\ H \in SUBSET Places
      /\ \A p \in H : /\ After(p, mem) \in Places /\ Off(bottom, p) < Off(bottom, After(p, mem))
                      /\ mem[p].len \in Nat
                      /\ ~mem[p].end => After(p, mem) = p + mem[p].len
  <2>1. \A p \in Places : mem[p] \in Headers /\ mem[p].len \in Nat
    BY <1>2 DEF Memory, Places, Headers
  <2> QED BY <2>1 DEF Heads, Upward, After
<1>4. \A p \in Places : Off(bottom, p) \in Nat
  <2>1. \A p \in Places : Off(bottom, p) \in Places BY <1>1, OffIs
  <2> QED BY <1>2, <2>1 DEF Places
<1>5. ASSUME NEW q \in H, NEW p \in H, ~mem[q].end, q < p, p < q + mem[q].len
      PROVE  FALSE
  <2> DEFINE a == After(q, mem)
  <2>1. a = q + mem[q].len /\ a \in Places /\ q \in Places /\ p \in Places
        /\ Off(bottom, q) < Off(bottom, a)
    BY <1>3, <1>5
  <2>2. q \in Nat /\ p \in Nat /\ q < a BY <1>2, <1>3, <1>5, <2>1 DEF Places
  <2>3. Off(bottom, q) < Off(bottom, p) /\ Off(bottom, p) < Off(bottom, a)
    <3>1. q < p /\ p < a /\ q < a /\ Off(bottom, q) < Off(bottom, a) BY <1>5, <2>1, <2>2
    <3>2. bottom \in Places /\ q \in Places /\ a \in Places /\ p \in Places BY <1>1, <2>1
    <3> HIDE DEF a
    <3> QED BY <3>1, <3>2, Between
  <2>4. Off(bottom, a) <= Off(bottom, p) BY <1>1, <2>3
  <2>5. Off(bottom, a) \in Nat /\ Off(bottom, p) \in Nat BY <1>4, <2>1
  <2> QED BY <2>3, <2>4, <2>5
<1>6. Grown(mem)
  <2>1. \A p \in H : ~mem[p].end => mem[p].len <= mem[p].len BY <1>3
  <2>2. \A q \in H : ~mem[q].end => /\ q + mem[q].len \in H \cup {top}
                                    /\ Off(bottom, q) < Off(bottom, q + mem[q].len)
    BY <1>1, <1>3
  <2> QED BY <1>5, <2>1, <2>2 DEF Grown
<1>7. ASSUME NEW p \in H, Off(bottom, p) < Off(bottom, bottom) PROVE FALSE
  <2>1. Off(bottom, bottom) = 0 /\ Off(bottom, p) \in Nat BY <1>1, <1>3, <1>4, OffIs
  <2> QED BY <1>7, <2>1
<1> QED BY <1>1, <1>6, <1>7 DEF Sound, ScanStart, LeadsHere, BottomFollows, Answers

(* The turns that pass no read message.                                  *)
LEMMA SoundTurn ==
  ASSUME RingInv, Intact, Upward(bottom, mem), NEW read, Asks(read),
         NEW s, NEW n, NEW i, ScanAt(s, n, i, Walk(bottom, top, mem), read), Sound(s, read)
  PROVE  Sound(Turn(s, read), read)
<1> DEFINE H == Heads(mem)
           w == Walk(bottom, top, mem)
           r == Turn(s, read)
           at == s.at
<1>1. CASE Ends(s)
  <2>1. r = s BY <1>1 DEF Ends, Turn
  <2> QED BY <2>1
<1>2. CASE ~Ends(s) /\ s.mem[at].read
  BY <1>2, SoundPass
<1>3. CASE ~Ends(s) /\ ~s.mem[at].read
  <2>1. bottom \in Nat /\ top \in Nat /\ mem \in Memory /\ Last(w) = top /\ Size \in Nat
    BY SizesAssumption DEF RingInv, Place, Intact
  <2>2. IsWalk(w, Size, bottom, top, mem) /\ w[Len(w)] = top /\ Len(w) \in Nat
    <3>1. IsWalk(w, Size, bottom, top, mem) BY <2>1, WalkIs
    <3>2. Last(w) = top /\ Size \in Nat BY <2>1
    <3> HIDE DEF w, r, H
    <3>3. Last(w) = w[Len(w)] BY <3>1, <3>2, LastIs
    <3>4. Len(w) \in Nat BY <3>1 DEF IsWalk
    <3> QED BY <3>1, <3>2, <3>3, <3>4
  <2>3. /\ s \in LoopStates /\ i \in 1 .. Len(w) /\ at = w[i] /\ Kept(s.mem, mem)
        /\ s.found = NoMessage /\ ~s.big /\ at # top
    BY <1>3 DEF ScanAt, Ends
  <2>4. /\ \A p \in H : \E j \in 1 .. Len(w) - 1 : w[j] = p
        /\ \A j, k \in 1 .. Len(w) : j < k => Off(bottom, w[j]) < Off(bottom, w[k])
        /\ \A j \in 1 .. Len(w) : w[j] \in H \cup {top}
        /\ bottom \in Places
    BY Rounds
  <2>5. at \in H /\ at \in Places /\ H \in SUBSET Places
    <3>1. H \in SUBSET Places BY DEF Heads
    <3> QED BY <2>3, <2>4, <3>1
  <2>6. s.mem \in Memory /\ s.mem[at] \in Headers /\ s.mem[at] = mem[at]
        /\ s.bottom \in Nat /\ s.last \in Nat /\ at \in Nat
    BY <1>3, <2>1, <2>3, <2>5 DEF Kept, Places, LoopStates, Memory
  <2>7. \A j \in 1 .. i - 1 : Unasked(mem[w[j]], read.id) BY <2>3 DEF ScanAt
  <2>8. \A p \in 0 .. Size - 1 : s.mem[p].read <=> mem[p].read BY <2>3 DEF ScanAt
  <2>9. Grown(s.mem) /\ LeadsHere(s) /\ BottomFollows(s) BY DEF Sound
  <2> HIDE DEF w
  <2>10. ~(read.id # 0 /\ s.mem[at].id # read.id) => Oldest(at, read)
    <3> SUFFICES ASSUME ~(read.id # 0 /\ s.mem[at].id # read.id),
                        NEW p \in H, Off(bottom, p) < Off(bottom, at)
                 PROVE  Unasked(mem[p], read.id)
      BY <1>3, <2>5, <2>6 DEF Oldest, Unasked
    <3>1. PICK j \in 1 .. Len(w) - 1 : w[j] = p BY <2>4
    <3>2. j \in 1 .. Len(w) BY <2>2
    <3>3. Off(bottom, p) \in Nat /\ Off(bottom, at) \in Nat
      <4>1. p \in Places BY <2>5
      <4>2. Off(bottom, p) \in Places /\ Off(bottom, at) \in Places BY <2>4, <2>5, <4>1, OffIs
      <4> QED BY <2>1, <4>2 DEF Places
    <3>4. j < i
      <4> SUFFICES ASSUME i <= j PROVE FALSE
        BY <2>2, <2>3, <3>2
      <4>1. i = j \/ i < j BY <2>2, <2>3, <3>2
      <4>2. i = j \/ Off(bottom, at) < Off(bottom, p) BY <2>3, <2>4, <3>1, <3>2, <4>1
      <4>3. i = j => Off(bottom, at) = Off(bottom, p) BY <2>3, <3>1
      <4> QED BY <3>3, <4>2, <4>3
    <3>5. j \in 1 .. i - 1 BY <2>2, <2>3, <3>2, <3>4
    <3> QED BY <2>7, <3>1, <3>5
  <2>11. CASE read.id # 0 /\ s.mem[at].id # read.id
    <3>1. r = [s EXCEPT !.at = After(at, s.mem), !.last = Size]
      BY <1>3, <2>3, <2>11 DEF Ends, Turn
    <3>2. r.last = Size /\ r.mem = s.mem /\ r.bottom = s.bottom /\ r.found = s.found /\ r.big = s.big
      <4> HIDE DEF r
      <4> QED BY <2>3, <3>1 DEF LoopStates
    <3> HIDE DEF r
    <3> QED BY <2>3, <2>9, <3>2 DEF Sound, LeadsHere, BottomFollows, Answers, r
  <2>12. CASE ~(read.id # 0 /\ s.mem[at].id # read.id) /\ read.buffer > s.mem[at].len
    <3> DEFINE message == [id |-> s.mem[at].id, len |-> s.mem[at].len]
               header == [s.mem[at] EXCEPT !.read = TRUE]
    <3>1. r = [s EXCEPT !.mem[at].read = TRUE, !.found = message]
      BY <1>3, <2>3, <2>12 DEF Ends, Turn, CopyOut
    <3>2. header.read /\ header.len = s.mem[at].len /\ header.end = s.mem[at].end
      BY <2>6 DEF Headers
    <3> HIDE DEF header, message
    <3>3. r.mem = [s.mem EXCEPT ![at] = header] /\ r.found = message /\ r.at = at
          /\ r.bottom = s.bottom /\ r.last = s.last /\ r.big = s.big
      BY <2>3, <3>1 DEF LoopStates, header
    <3> HIDE DEF r
    <3>4. \A p \in Places : r.mem[p] = IF p = at THEN header ELSE s.mem[p]
      BY <2>5, <2>6, <3>3 DEF Memory, Places
    <3>5. \A p \in H : /\ r.mem[p].len = s.mem[p].len /\ r.mem[p].end = s.mem[p].end
                       /\ r.mem[p].read <=> (s.mem[p].read \/ p = at)
      BY <2>5, <3>2, <3>4
    <3>6. \A p \in H : Over(s.mem, p) <=> Over(r.mem, p) BY <3>5 DEF Over
    <3>7. Grown(r.mem) BY <2>9, <3>5, <3>6 DEF Grown
    <3>8. LeadsHere(r)
      <4>1. s.last = Size \/ s.last \in H
        <5> SUFFICES ASSUME s.last # Size PROVE s.last \in H
          OBVIOUS
        <5>1. PICK j \in 1 .. i - 1 : s.last = w[j] BY DEF ScanAt, w
        <5>2. j \in 1 .. Len(w) - 1 /\ j \in 1 .. Len(w) BY <2>2, <2>3
        <5>3. w[j] # top BY <2>2, <5>2 DEF IsWalk
        <5> QED BY <2>4, <5>1, <5>2, <5>3
      <4> QED BY <2>9, <3>3, <3>5, <3>6, <4>1 DEF LeadsHere
    <3>9. BottomFollows(r) BY <2>9, <3>3, <3>5 DEF BottomFollows
    <3>10. Answers(r, read)
      <4>1. Oldest(at, read) BY <2>10, <2>12
      <4>2. r.found = [id |-> mem[at].id, len |-> mem[at].len] BY <2>6, <3>3 DEF message
      <4>3. \A p \in H : r.mem[p].read <=> (mem[p].read \/ p = at)
        BY <2>5, <2>8, <3>5 DEF Places
      <4> QED BY <2>3, <2>5, <3>3, <4>1, <4>2, <4>3 DEF Answers
    <3> QED BY <3>7, <3>8, <3>9, <3>10 DEF Sound, r
  <2>13. CASE ~(read.id # 0 /\ s.mem[at].id # read.id) /\ ~(read.buffer > s.mem[at].len)
    <3>1. r = [s EXCEPT !.big = TRUE] BY <1>3, <2>3, <2>13 DEF Ends, Turn
    <3>2. r.at = at /\ r.last = s.last /\ r.mem = s.mem /\ r.bottom = s.bottom /\ r.found = s.found
      <4> HIDE DEF r
      <4> QED BY <2>3, <3>1 DEF LoopStates
    <3> HIDE DEF r
    <3>3. read.buffer <= mem[at].len BY <2>6, <2>13 DEF Asks, Headers
    <3>4. Answers(r, read) BY <2>3, <2>10, <2>13, <3>2, <3>3 DEF Answers
    <3> QED BY <2>9, <3>2, <3>4 DEF Sound, LeadsHere, BottomFollows, r
  <2> QED BY <2>11, <2>12, <2>13
<1> QED BY <1>1, <1>2, <1>3

(* What every turn keeps, the loop keeps.                                *)
LEMMA ScanStays ==
  ASSUME NEW read, NEW P \in SUBSET LoopStates, ScanStart \in P,
         \A s \in P : Turn(s, read) \in P
  PROVE  Scan(read) \in P
<1> DEFINE turn == [s \in LoopStates |-> Turn(s, read)]
           loop == CHOOSE f : Loops(f, ScanStart, turn, Size + 1)
<1>1. Scan(read) = loop[Size + 1] BY DEF Scan, ScanStart, Loops
<1>2. \A s \in P : turn[s] \in P OBVIOUS
<1> HIDE DEF turn
<1>3. Loops(loop, ScanStart, turn, Size + 1) BY LoopExists, SizesAssumption
<1> HIDE DEF loop
<1>4. loop[0] = ScanStart /\ \A n \in Nat : n < Size + 1 => loop[n + 1] = turn[loop[n]]
  BY <1>3, LoopIs, SizesAssumption
<1> DEFINE Good == {n \in Nat : n <= Size + 1 => loop[n] \in P}
<1>5. 0 \in Good BY <1>4
<1>6. ASSUME NEW n \in Nat, n \in Good PROVE n + 1 \in Good
  <2> SUFFICES ASSUME n + 1 <= Size + 1 PROVE loop[n + 1] \in P
    OBVIOUS
  <2>1. n < Size + 1 /\ n <= Size + 1 BY SizesAssumption
  <2>2. loop[n] \in P BY <1>6, <2>1
  <2> QED BY <1>2, <1>4, <2>1, <2>2
<1>7. Size + 1 \in Good
  <2>1. \A n \in Nat : n \in Good => n + 1 \in Good BY <1>6
  <2> HIDE DEF Good
  <2> QED BY <1>5, <2>1, NatSetInduction, SizesAssumption
<1> QED BY <1>1, <1>7, SizesAssumption

LEMMA ScanSound ==
  ASSUME RingInv, Intact, Upward(bottom, mem), NEW read, Asks(read)
  PROVE  /\ Sound(Scan(read), read)
         /\ Scan(read).found = NoMessage =>
              \A p \in 0 .. Size - 1 : Scan(read).mem[p].read <=> mem[p].read
<1> DEFINE w == Walk(bottom, top, mem)
           P == {s \in LoopStates : Sound(s, read) /\ \E n \in Nat, i \in 1 .. Len(w) : ScanAt(s, n, i, w, read)}
<1>1. bottom \in Nat /\ top \in Nat /\ mem \in Memory /\ Last(w) = top /\ Size \in Nat
  BY SizesAssumption DEF RingInv, Place, Intact
<1>2. IsWalk(w, Size, bottom, top, mem) BY <1>1, WalkIs
<1> HIDE DEF w
<1>3. w[Len(w)] = top BY <1>1, <1>2, LastIs
<1>4. ScanStart \in P
  <2>1. ScanStart \in LoopStates BY <1>1 DEF ScanStart, LoopStates, Memory
  <2>2. 1 \in 1 .. Len(w) /\ w[1] = bottom BY <1>2 DEF IsWalk
  <2>3. Kept(mem, mem) BY DEF Kept
  <2>4. ScanAt(ScanStart, 0, 1, w, read) BY <2>1, <2>2, <2>3 DEF ScanAt, ScanStart
  <2> QED BY <2>1, <2>2, <2>4, SoundStart
<1>5. ASSUME NEW s \in P PROVE Turn(s, read) \in P
  <2>1. PICK n \in Nat, i \in 1 .. Len(w) : ScanAt(s, n, i, w, read) BY <1>5
  <2>2. Sound(s, read) BY <1>5
  <2>3. Sound(Turn(s, read), read) BY <2>1, <2>2, SoundTurn DEF w
  <2>4. PICK j \in 1 .. Len(w) : ScanAt(Turn(s, read), n + 1, j, w, read)
    BY <1>1, <1>2, <1>3, <2>1, ScanTurn
  <2>5. Turn(s, read) \in LoopStates BY <2>4 DEF ScanAt
  <2> QED BY <2>3, <2>4, <2>5
<1>6. Scan(read) \in P
  <2>1. P \in SUBSET LoopStates OBVIOUS
  <2> HIDE DEF P
  <2> QED BY <1>4, <1>5, <2>1, ScanStays
<1>7. PICK n \in Nat, i \in 1 .. Len(w) : ScanAt(Scan(read), n, i, w, read) BY <1>6
<1> QED BY <1>6, <1>7 DEF ScanAt

----------------------------------------------------------------------------
(* What a read and a post leave in the ring.                             *)

(* What is forgotten is not on the way.                                  *)
LEMMA VisitedWalk ==
  ASSUME NEW b \in Nat, NEW t, NEW m \in Memory, Last(Walk(b, t, m)) = t
  PROVE  Walk(b, t, Visited(b, t, m)) = Walk(b, t, m)
<1> DEFINE w == Walk(b, t, m)
           k == Visited(b, t, m)
           v == Walk(b, t, k)
<1>1. k \in Memory /\ \A p \in Range(w) \ {t} : p < Size => k[p] = m[p] BY VisitedIs
<1>2. IsWalk(w, Size, b, t, m) /\ IsWalk(v, Size, b, t, k) /\ Size \in Nat
  BY <1>1, WalkIs, SizesAssumption
<1>3. Last(w) = t OBVIOUS
<1> HIDE DEF w, v, k
<1>4. w[Len(w)] = t BY <1>2, <1>3, LastIs
<1>5. \A i \in 1 .. Len(w) : i <= Len(v) /\ v[i] = w[i] BY <1>1, <1>2, SameWalk
<1>6. w \in Seq(Nat) /\ v \in Seq(Nat) /\ Len(w) \in 1 .. Len(w) /\ Len(w) \in Nat /\ Len(v) \in Nat
  BY <1>2 DEF IsWalk
<1>7. Len(v) = Len(w)
  <2>1. Len(w) <= Len(v) /\ v[Len(w)] = t BY <1>4, <1>5, <1>6
  <2>2. Len(w) \notin 1 .. Len(v) - 1 BY <1>2, <2>1 DEF IsWalk
  <2> QED BY <1>6, <2>1, <2>2
<1>8. v = w
  <2>1. \A i \in 1 .. Len(w) : v[i] = w[i] BY <1>5
  <2>2. v = [i \in 1 .. Len(v) |-> v[i]] /\ w = [i \in 1 .. Len(w) |-> w[i]] BY <1>6
  <2>3. v = [i \in 1 .. Len(w) |-> v[i]] BY <1>7, <2>2
  <2> QED BY <2>1, <2>2, <2>3
<1> QED BY <1>8 DEF v, w, k

(* A read forgets no unread message but the one it takes: the headers it *)
(* passes lead to another one, and go over read messages only.           *)
LEMMA ReadRing ==
  ASSUME RingInv, Intact, Upward(bottom, mem), NEW read, Asks(read), ScanRing(Scan(read))
  PROVE  \/ JoinsReturn /\ ~Intact'
         \/ /\ Intact' /\ Upward(bottom', mem') /\ bottom' \in Places
            /\ Unread' = {p \in Unread : ~Scan(read).mem[p].read}
            /\ \A p \in Unread' : mem'[p] = mem[p] /\ Off(bottom, bottom') <= Off(bottom, p)
<1> DEFINE s == Scan(read)
           H == Heads(mem)
           w == Walk(bottom, top, mem)
           v == Walk(s.bottom, top, s.mem)
           R == Range(v)
<1>1. bottom \in Nat /\ top \in Nat /\ mem \in Memory /\ Size \in Nat /\ Clean(bottom, top, mem)
  BY SizesAssumption DEF RingInv, Place
<1>2. Scanned(s, read) BY <1>1, ScanIs
<1>3. bottom' = s.bottom /\ mem' = Visited(s.bottom, top, s.mem) /\ top' = top BY DEF ScanRing
<1>4. Grown(s.mem) /\ BottomFollows(s) BY ScanSound DEF Sound
<1> HIDE DEF s
<1>5. s.bottom \in Nat /\ s.mem \in Memory /\ Kept(s.mem, mem)
  BY <1>2 DEF Scanned, LoopStates, Memory
<1>6. /\ bottom \in Places /\ top \in Places /\ bottom \in H \cup {top} /\ top \notin H
      /\ H = Range(w) \ {top}
      /\ \A p \in H : After(p, mem) \in H \cup {top} /\ Off(bottom, p) < Off(bottom, top)
      /\ \A p \in H \cup {top}, q \in H :
           Off(bottom, q) < Off(bottom, p) => Off(bottom, After(q, mem)) <= Off(bottom, p)
      /\ \A p \in H \cup {top}, e \in H : mem[e].end => p <= e /\ 0 < bottom /\ bottom <= e
  BY Rounds
<1>7. /\ H \in SUBSET Places
      /\ \A p \in H : /\ s.mem[p] # NoHeader /\ s.mem[p] \in Headers /\ mem[p] \in Headers
                      /\ Off(bottom, p) < Off(bottom, After(p, mem))
                      /\ mem[p].end => After(p, mem) = 0 /\ After(p, s.mem) = 0
                      /\ ~mem[p].end => After(p, s.mem) = p + s.mem[p].len
  <2>1. \A p \in Places : s.mem[p] \in Headers /\ mem[p] \in Headers
    BY <1>1, <1>5 DEF Memory, Places
  <2>2. \A p \in H : s.mem[p].end = mem[p].end BY <1>4 DEF Grown
  <2> QED BY <1>5, <2>1, <2>2 DEF Heads, Places, Kept, Upward, After
<1>8. s.bottom \in H \cup {top} /\ s.bottom \in Places BY <1>4, <1>6, <1>7 DEF BottomFollows
<1>9. /\ mem' \in Memory /\ Clean(bottom', top', mem')
      /\ \A p \in 0 .. Size - 1 : mem'[p] # NoHeader => mem'[p] = s.mem[p]
      /\ \A p \in R \ {top} : p < Size => mem'[p] = s.mem[p]
  BY <1>3, <1>5, VisitedIs
<1>10. \A p \in Places : Off(bottom, p) \in Nat
  <2>1. \A p \in Places : Off(bottom, p) \in Places BY <1>6, OffIs
  <2> QED BY <1>1, <2>1 DEF Places
<1>11. \A p \in Places : p \in Nat /\ p < Size /\ p \in 0 .. Size - 1 BY <1>1 DEF Places
<1> HIDE DEF R, w
<1>12. CASE \E q \in H \cap R : ~mem[q].end /\ Over(s.mem, q)
  <2>1. PICK q \in H \cap R : ~mem[q].end /\ Over(s.mem, q) BY <1>12
  <2>2. PICK e \in H : mem[e].end /\ q < e /\ e < q + s.mem[q].len /\ mem[q].len < s.mem[q].len
    BY <2>1 DEF Over
  <2>3. mem'[q] = s.mem[q] /\ q # top /\ q \in Places /\ e \in Places
    BY <1>6, <1>7, <1>9, <1>11, <2>1
  <2>4. mem'[q].read
    <3>1. s.mem[q] # mem[q]
      <4>1. s.mem[q].len \in Nat /\ mem[q].len \in Nat BY <1>7, <2>1 DEF Headers
      <4> QED BY <2>2, <4>1
    <3> QED BY <1>5, <1>11, <2>3, <3>1 DEF Kept
  <2>5. e \in q + 1 .. Size - 1 BY <1>11, <2>2, <2>3
  <2>6. JoinsReturn BY <1>11, <2>1, <2>2, <2>3, <2>4, <2>5 DEF JoinsReturn
  <2>7. ASSUME Intact' PROVE FALSE
    <3> DEFINE u == Walk(bottom', top', mem')
               a == After(q, mem')
    <3>1. Last(u) = top' /\ bottom' \in Nat /\ top' \in Nat BY <1>1, <1>3, <1>5, <2>7 DEF Intact
    <3>2. IsWalk(u, Size, bottom', top', mem') BY <1>9, <3>1, WalkIs
    <3>3. mem'[q] # NoHeader BY <1>7, <2>1, <2>3
    <3>4. q \in Range(u) \ {top'} BY <1>9, <1>11, <2>3, <3>3 DEF Clean
    <3>5. \A p \in Range(u) \ {top'} : p \in 0 .. Size - 1 /\ mem'[p] # NoHeader
      BY <1>9, <3>1, Met
    <3> HIDE DEF u
    <3>6. u[Len(u)] = top' BY <1>1, <3>1, <3>2, LastIs
    <3>7. u \in Seq(Nat) /\ Len(u) \in Nat /\ \A j \in 1 .. Len(u) - 1 : u[j + 1] = After(u[j], mem')
      BY <3>2 DEF IsWalk
    <3>8. Range(u) = {u[j] : j \in 1 .. Len(u)} BY <3>7 DEF Range
    <3>9. PICK j \in 1 .. Len(u) : q = u[j] BY <3>4, <3>8
    <3>10. j \in 1 .. Len(u) - 1 /\ j + 1 \in 1 .. Len(u) BY <3>4, <3>6, <3>7, <3>9
    <3>11. a \in Range(u) BY <3>7, <3>8, <3>9, <3>10
    <3>12. a = q + s.mem[q].len
      <4>1. ~s.mem[q].end BY <1>4, <2>1 DEF Grown
      <4> QED BY <2>3, <4>1 DEF After
    <3>13. a \in H \cup {top}
      <4> SUFFICES ASSUME a # top PROVE a \in H
        OBVIOUS
      <4>1. a \in 0 .. Size - 1 /\ mem'[a] # NoHeader BY <1>3, <3>5, <3>11
      <4>2. s.mem[a] # NoHeader BY <1>9, <4>1
      <4>3. mem[a] # NoHeader BY <1>5, <4>1, <4>2 DEF Kept
      <4> QED BY <4>1, <4>3 DEF Heads, Places
    <3>14. a <= e BY <1>6, <2>2, <3>13
    <3>15. s.mem[q].len \in Nat /\ q \in Nat /\ e \in Nat BY <1>7, <1>11, <2>1, <2>3 DEF Headers
    <3> QED BY <2>2, <3>12, <3>14, <3>15
  <2> QED BY <2>6, <2>7
<1>13. CASE ~\E q \in H \cap R : ~mem[q].end /\ Over(s.mem, q)
  <2>1. ASSUME NEW p \in H, p \in R
        PROVE  /\ After(p, s.mem) \in H \cup {top}
               /\ Off(bottom, p) < Off(bottom, After(p, s.mem))
    <3>1. CASE mem[p].end BY <1>6, <1>7, <3>1
    <3>2. CASE ~mem[p].end BY <1>4, <1>7, <1>13, <2>1, <3>2 DEF Grown
    <3> QED BY <3>1, <3>2
  <2>2. \A p \in H : p # top /\ p \in Range(Walk(s.bottom, top, s.mem)) =>
          /\ s.mem[p] # NoHeader /\ After(p, s.mem) \in H \cup {top}
          /\ Off(bottom, p) < Off(bottom, After(p, s.mem))
    BY <1>7, <2>1 DEF R
  <2>3. /\ Last(v) = top /\ R \subseteq H \cup {top} /\ s.bottom \in R
        /\ \A p \in R \ {top} : After(p, s.mem) \in R
        /\ \A p \in R : Off(bottom, s.bottom) <= Off(bottom, p) /\ Off(bottom, p) <= Off(bottom, top)
        /\ \A p \in Places : Off(bottom, s.bottom) <= Off(bottom, p) /\ Off(bottom, p) < Off(bottom, top) =>
             p \in R \/ \E q \in R \ {top} : Off(bottom, q) < Off(bottom, p) /\ Off(bottom, p) < Off(bottom, After(q, s.mem))
    <3>1. s.bottom \in Places /\ s.bottom \in H \cup {top} /\ H \in SUBSET Places BY <1>7, <1>8
    <3>2. bottom \in Places /\ top \in Places /\ s.mem \in Memory BY <1>5, <1>6
    <3>3. Arrives(bottom, s.bottom, top, s.mem, H)
      <4> HIDE DEF H, v
      <4> QED BY <2>2, <3>1, <3>2, Through
    <3> QED BY <3>3 DEF Arrives, R
  <2>4. Walk(bottom', top', mem') = v BY <1>3, <1>5, <2>3, VisitedWalk
  <2>5. Intact' BY <1>3, <2>3, <2>4 DEF Intact
  <2> HIDE DEF v
  <2>6. \A p \in R \ {top} : p \in H /\ p \in Places /\ p \in 0 .. Size - 1 /\ mem'[p] = s.mem[p]
    BY <1>7, <1>9, <1>11, <2>3
  <2>7. Heads(mem') = R \ {top}
    <3>1. ASSUME NEW p \in Heads(mem') PROVE p \in R \ {top}
      <4>1. p \in Range(Walk(bottom', top', mem')) \ {top'}
        BY <1>9, <3>1 DEF Heads, Places, Clean
      <4> QED BY <1>3, <2>4, <4>1 DEF R
    <3>2. ASSUME NEW p \in R \ {top} PROVE p \in Heads(mem')
      BY <1>7, <2>6 DEF Heads
    <3> QED BY <3>1, <3>2
  <2>8. Upward(bottom', mem')
    <3> SUFFICES ASSUME NEW p \in R \ {top}
                 PROVE  /\ After(p, mem') \in Places
                        /\ Off(bottom', p) < Off(bottom', After(p, mem'))
      BY <2>7 DEF Upward
    <3> DEFINE a == After(p, s.mem)
    <3>1. After(p, mem') = a BY <2>6 DEF After
    <3>2. a \in R /\ Off(bottom, p) < Off(bottom, a) BY <2>1, <2>3, <2>6
    <3>3. a \in Places /\ p \in Places BY <1>6, <1>7, <2>3, <2>6, <3>2
    <3>4. Off(bottom, s.bottom) <= Off(bottom, p) /\ Off(bottom, s.bottom) <= Off(bottom, a)
      BY <2>3, <3>2
    <3>5. Off(bottom', p) = Off(bottom, p) - Off(bottom, s.bottom)
          /\ Off(bottom', a) = Off(bottom, a) - Off(bottom, s.bottom)
      BY <1>3, <1>6, <1>8, <3>3, <3>4, OffIs
    <3>6. Off(bottom, p) \in Nat /\ Off(bottom, a) \in Nat /\ Off(bottom, s.bottom) \in Nat
      BY <1>8, <1>10, <3>3
    <3> HIDE DEF a
    <3> QED BY <3>1, <3>2, <3>3, <3>5, <3>6
  <2>9. ASSUME NEW p \in H, ~s.mem[p].read
        PROVE  p \in R
    <3> SUFFICES ASSUME p \notin R PROVE FALSE
      OBVIOUS
    <3>1. p \in Places /\ Off(bottom, p) < Off(bottom, top) BY <1>6, <1>7
    <3>2. Off(bottom, s.bottom) <= Off(bottom, p)
      <4>1. ~(Off(bottom, p) < Off(bottom, s.bottom)) BY <1>4, <2>9 DEF BottomFollows
      <4>2. Off(bottom, p) \in Nat /\ Off(bottom, s.bottom) \in Nat BY <1>8, <1>10, <3>1
      <4> QED BY <4>1, <4>2
    <3>3. PICK q \in R \ {top} : Off(bottom, q) < Off(bottom, p) /\ Off(bottom, p) < Off(bottom, After(q, s.mem))
      BY <2>3, <3>1, <3>2
    <3> DEFINE a == After(q, s.mem)
    <3>4. q \in H /\ q \in Places /\ a \in Places /\ Off(bottom, q) < Off(bottom, a)
      BY <1>6, <1>7, <2>1, <2>6, <3>3
    <3>5. CASE mem[q].end
      <4>1. a = After(q, mem) BY <1>7, <3>4, <3>5
      <4>2. Off(bottom, a) <= Off(bottom, p) BY <1>6, <3>3, <3>4, <4>1
      <4>3. Off(bottom, a) \in Nat /\ Off(bottom, p) \in Nat BY <1>10, <3>1, <3>4
      <4> QED BY <3>3, <4>2, <4>3
    <3>6. CASE ~mem[q].end
      <4>1. a = q + s.mem[q].len /\ s.mem[q].len \in Nat BY <1>7, <3>4, <3>6 DEF Headers
      <4>2. q < a
        <5>1. a # q BY <1>10, <3>4
        <5>2. q \in Nat BY <1>11, <3>4
        <5> QED BY <4>1, <5>1, <5>2
      <4>3. q < p /\ p < a
        <5>1. Off(bottom, q) < Off(bottom, p) /\ Off(bottom, p) < Off(bottom, a) BY <3>3
        <5> HIDE DEF a
        <5> QED BY <1>6, <3>1, <3>4, <4>2, <5>1, Between
      <4>4. s.mem[p].read BY <1>4, <3>4, <3>6, <4>1, <4>3 DEF Grown
      <4> QED BY <2>9, <4>4
    <3> QED BY <3>5, <3>6
  <2>10. \A p \in Unread : p \in H
    BY <1>6 DEF Unread, w
  <2>11. Unread' = {p \in R \ {top} : ~mem'[p].read}
    BY <1>3, <2>4 DEF Unread, R
  <2>12. \A p \in R \ {top} : ~mem'[p].read => p \in Unread /\ ~s.mem[p].read /\ mem'[p] = mem[p]
    <3> SUFFICES ASSUME NEW p \in R \ {top}, ~mem'[p].read
                 PROVE  p \in Unread /\ ~s.mem[p].read /\ mem'[p] = mem[p]
      OBVIOUS
    <3>1. ~s.mem[p].read /\ mem'[p] = s.mem[p] BY <2>6
    <3>2. s.mem[p] = mem[p] BY <1>5, <2>6, <3>1 DEF Kept
    <3>3. p \in Range(w) \ {top} BY <1>6, <2>6
    <3> QED BY <3>1, <3>2, <3>3 DEF Unread, w
  <2>13. Unread' = {p \in Unread : ~s.mem[p].read}
    <3>1. ASSUME NEW p \in Unread, ~s.mem[p].read PROVE p \in Unread'
      <4>1. p \in H /\ p # top BY <1>6, <2>10
      <4>2. p \in R BY <2>9, <3>1, <4>1
      <4> QED BY <2>6, <2>11, <3>1, <4>1, <4>2
    <3>2. \A p \in Unread' : p \in Unread /\ ~s.mem[p].read BY <2>11, <2>12
    <3> QED BY <3>1, <3>2
  <2>14. \A p \in Unread' : mem'[p] = mem[p] /\ Off(bottom, bottom') <= Off(bottom, p)
    BY <1>3, <2>3, <2>11, <2>12
  <2> QED BY <1>3, <1>8, <2>5, <2>8, <2>13, <2>14 DEF s
<1> QED BY <1>12, <1>13

(* What is forgotten of a ring that goes up does not change that.        *)
LEMMA Forgotten ==
  ASSUME NEW b \in Places, NEW t \in Places, NEW m \in Memory,
         NEW S \in SUBSET Places, b \in S \cup {t},
         \A p \in S : p # t /\ p \in Range(Walk(b, t, m)) =>
           /\ m[p] # NoHeader /\ After(p, m) \in S \cup {t}
           /\ Off(b, p) < Off(b, After(p, m))
  PROVE  LET k == Visited(b, t, m)
             R == Range(Walk(b, t, m))
         IN  /\ Walk(b, t, k) = Walk(b, t, m) /\ Last(Walk(b, t, k)) = t
             /\ Heads(k) = R \ {t} /\ Upward(b, k)
             /\ \A p \in R \ {t} : k[p] = m[p]
<1> DEFINE w == Walk(b, t, m)
           R == Range(w)
           k == Visited(b, t, m)
<1>1. Arrives(b, b, t, m, S) BY Through
<1>2. Last(w) = t /\ R \subseteq S \cup {t} /\ \A p \in R \ {t} : After(p, m) \in R
  BY <1>1 DEF Arrives
<1>3. b \in Nat /\ Size \in Nat BY SizesAssumption DEF Places
<1>4. Walk(b, t, k) = w BY <1>2, <1>3, VisitedWalk
<1>5. /\ k \in Memory /\ Clean(b, t, k)
      /\ \A p \in R \ {t} : p < Size => k[p] = m[p]
  BY <1>3, VisitedIs
<1>6. \A p \in S : p # t /\ p \in R =>
        /\ m[p] # NoHeader /\ After(p, m) \in S \cup {t} /\ Off(b, p) < Off(b, After(p, m))
  OBVIOUS
<1>7. \A p \in 0 .. Size - 1 : k[p] # NoHeader => p \in R \ {t} BY <1>4, <1>5 DEF Clean
<1> HIDE DEF w, R, k
<1>8. \A p \in R \ {t} : p \in S /\ p \in Places /\ p \in 0 .. Size - 1 /\ k[p] = m[p]
  BY <1>2, <1>3, <1>5 DEF Places
<1>9. Heads(k) = R \ {t}
  <2>1. \A p \in Heads(k) : p \in R \ {t} BY <1>7 DEF Heads, Places
  <2>2. \A p \in R \ {t} : p \in Heads(k) BY <1>6, <1>8 DEF Heads
  <2> QED BY <2>1, <2>2
<1>10. Upward(b, k)
  <2>1. ASSUME NEW p \in R \ {t} PROVE After(p, k) \in Places /\ Off(b, p) < Off(b, After(p, k))
    <3>1. After(p, k) = After(p, m) BY <1>8 DEF After
    <3>2. p \in S /\ p \in R /\ p # t BY <1>8
    <3> QED BY <1>6, <3>1, <3>2
  <2> QED BY <1>9, <2>1 DEF Upward
<1> QED BY <1>2, <1>4, <1>8, <1>9, <1>10 DEF w, R, k

(* A post adds its message behind the others, or it overruns the ring.   *)
LEMMA PostRing ==
  ASSUME RingInv, Upward(bottom, mem), NEW msg \in Messages, EnqueMsg(msg)
  PROVE  /\ Intact' => Upward(bottom', mem')
         /\ \/ Overruns
            \/ \E at \in Places :
                 /\ Intact' /\ bottom' = bottom /\ bottom \in Places
                 /\ at \notin Unread /\ Unread' = Unread \cup {at} /\ mem'[at] = Header(msg)
                 /\ \A p \in Unread : mem'[p] = mem[p] /\ Off(bottom, p) < Off(bottom, at)
<1> DEFINE len == msg.len
           at == StoreAt(len)
           n == NewTop(len)
           m == Stored(msg)
           H == Heads(mem)
           k == Visited(bottom, n, m)
<1>1. bottom \in Nat /\ top \in Nat /\ mem \in Memory /\ Intact
      /\ Place /\ TopLeavesRoom /\ Size \in Nat /\ Hdr \in Nat \ {0} /\ 4 * Hdr <= Size
  BY SizesAssumption DEF RingInv, Place, EnqueMsg
<1>2. len \in Nat /\ len <= Size \div 4 /\ ~NoRoom(len) /\ 0 < len /\ 4 * len <= Size
  BY MessagesAssumption, SizesAssumption, QuarterLength DEF EnqueMsg
<1>3. top' = n /\ bottom' = bottom /\ mem' = k BY DEF EnqueMsg
<1>4. /\ m \in Memory /\ Header(msg) \in Headers /\ Header(msg) # NoHeader
      /\ \A p \in 0 .. Size - 1 :
           /\ p = at => m[p] = Header(msg)
           /\ p \in at + 1 .. at + len - 1 => m[p] = NoHeader
           /\ p # at /\ p \notin at + 1 .. at + len - 1 =>
                m[p] = IF p = top /\ TooNear(len) THEN Junk ELSE mem[p]
  BY <1>2, StoredIs
<1>5. n \in Nat /\ n + Hdr < Size BY <1>1, <1>2, StoredInside
<1>6. /\ bottom \in Places /\ top \in Places /\ bottom \in H \cup {top} /\ top \notin H
      /\ H = Range(Walk(bottom, top, mem)) \ {top}
      /\ \A p \in H : After(p, mem) \in H \cup {top} /\ Off(bottom, p) < Off(bottom, top)
      /\ \A p \in H \cup {top}, q \in H :
           Off(bottom, q) < Off(bottom, p) => Off(bottom, After(q, mem)) <= Off(bottom, p)
  BY <1>1, Rounds
<1>7. /\ ExactFit(len) => top + len = Size /\ at = top /\ n = 0 /\ ~TooNear(len)
      /\ TooNear(len) => at = 0 /\ n = len /\ n < bottom /\ top + len >= Size - Hdr /\ ~ExactFit(len)
      /\ ~ExactFit(len) /\ ~TooNear(len) =>
           at = top /\ n = top + len /\ (top < bottom => n < bottom)
      /\ n # bottom
  BY <1>1, <1>2 DEF ExactFit, TooNear, StoreAt, NewTop, NoRoom
<1>8. /\ H \in SUBSET Places
      /\ \A p \in H : mem[p] # NoHeader /\ Off(bottom, p) < Off(bottom, After(p, mem))
  BY DEF Heads, Upward
<1>9. \A p \in Places : p \in Nat /\ p < Size /\ p \in 0 .. Size - 1 BY <1>1 DEF Places
<1>10. n \in Places /\ at \in Places /\ 0 \in Places BY <1>1, <1>5, <1>6, <1>7 DEF Places
<1>11. Junk # NoHeader /\ Junk.end /\ Junk.read BY DEF Junk, NoHeader
<1>12. Header(msg).len = len /\ (Header(msg).end <=> ExactFit(len)) /\ ~Header(msg).read BY DEF Header
<1>13. \A p \in H : /\ bottom <= top => bottom <= p /\ p < top
                    /\ top < bottom => bottom <= p \/ p < top
  BY <1>1, <1>6, <1>8, <1>9 DEF Off
<1> HIDE DEF len, at, n, m, H, k
<1>14. CASE bottom <= top \/ (~ExactFit(len) /\ ~TooNear(len))
  <2> DEFINE S == H \cup {top, at}
             R == Range(Walk(bottom, n, m))
  <2>1. \A p \in H : m[p] = mem[p] /\ After(p, m) = After(p, mem)
    <3> SUFFICES ASSUME NEW p \in H PROVE m[p] = mem[p] /\ After(p, m) = After(p, mem)
      OBVIOUS
    <3>1. p \in 0 .. Size - 1 /\ p # top BY <1>6, <1>8, <1>9
    <3>2. p # at /\ p \notin at + 1 .. at + len - 1
      BY <1>1, <1>2, <1>6, <1>7, <1>8, <1>9, <1>13, <1>14
    <3>3. m[p] = mem[p] BY <1>4, <3>1, <3>2
    <3> QED BY <3>3 DEF After
  <2>2. /\ m[at] = Header(msg) /\ After(at, m) = n
        /\ at # top => at = 0 /\ m[top] = Junk /\ After(top, m) = at
    <3>1. m[at] = Header(msg) BY <1>4, <1>9, <1>10
    <3>2. After(at, m) = n
      <4>1. After(at, m) = IF ExactFit(len) THEN 0 ELSE at + len BY <1>12, <3>1 DEF After
      <4>2. ~ExactFit(len) => n = at + len
        <5>1. 0 + len = len BY <1>2
        <5> QED BY <1>7, <5>1
      <4> QED BY <1>7, <4>1, <4>2
    <3>3. ASSUME at # top PROVE at = 0 /\ m[top] = Junk /\ After(top, m) = at
      <4>1. TooNear(len) /\ at = 0 BY <1>7, <3>3
      <4>2. top \notin at + 1 .. at + len - 1 BY <1>1, <1>2, <1>7, <1>14, <4>1
      <4>3. m[top] = Junk BY <1>4, <1>6, <1>9, <3>3, <4>1, <4>2
      <4> QED BY <1>11, <4>1, <4>3 DEF After
    <3> QED BY <3>1, <3>2, <3>3
  <2>3. /\ Off(bottom, at) < Off(bottom, n) /\ Off(bottom, top) <= Off(bottom, at)
        /\ at # top => Off(bottom, top) < Off(bottom, at)
    BY <1>1, <1>2, <1>5, <1>6, <1>7, <1>9, <1>14 DEF Off
  <2>4. \A p \in Places : Off(bottom, p) \in Nat
    <3>1. \A p \in Places : Off(bottom, p) \in Places BY <1>6, OffIs
    <3> QED BY <1>9, <3>1
  <2>5. \A p \in S : /\ p \in Places /\ p # n /\ m[p] # NoHeader /\ After(p, m) \in S \cup {n}
                     /\ Off(bottom, p) < Off(bottom, After(p, m)) /\ Off(bottom, p) < Off(bottom, n)
    <3>1. ASSUME NEW p \in H
          PROVE  /\ p \in Places /\ m[p] # NoHeader /\ After(p, m) \in S \cup {n}
                 /\ Off(bottom, p) < Off(bottom, After(p, m)) /\ Off(bottom, p) < Off(bottom, n)
      <4>1. p \in Places /\ Off(bottom, p) < Off(bottom, top) BY <1>6, <1>8
      <4>2. Off(bottom, p) \in Nat /\ Off(bottom, top) \in Nat /\ Off(bottom, at) \in Nat /\ Off(bottom, n) \in Nat
        BY <1>6, <1>10, <2>4, <4>1
      <4>3. Off(bottom, p) < Off(bottom, n) BY <2>3, <4>1, <4>2
      <4> QED BY <1>6, <1>8, <2>1, <4>1, <4>3
    <3>2. Off(bottom, top) \in Nat /\ Off(bottom, at) \in Nat /\ Off(bottom, n) \in Nat
      BY <1>6, <1>10, <2>4
    <3>3. /\ m[at] # NoHeader /\ After(at, m) = n /\ Off(bottom, at) < Off(bottom, n) /\ at \in Places
      BY <1>4, <1>10, <2>2, <2>3
    <3>4. /\ m[top] # NoHeader /\ After(top, m) \in {at, n} /\ top \in Places
          /\ Off(bottom, top) < Off(bottom, After(top, m)) /\ Off(bottom, top) < Off(bottom, n)
      <4>1. CASE at = top BY <1>6, <2>3, <3>3, <4>1
      <4>2. CASE at # top BY <1>6, <1>11, <2>2, <2>3, <3>2, <4>2
      <4> QED BY <4>1, <4>2
    <3>5. ASSUME NEW p \in S
          PROVE  /\ p \in Places /\ m[p] # NoHeader /\ After(p, m) \in S \cup {n}
                 /\ Off(bottom, p) < Off(bottom, After(p, m)) /\ Off(bottom, p) < Off(bottom, n)
      BY <3>1, <3>3, <3>4
    <3>6. ASSUME NEW p \in S PROVE p # n
      <4>1. Off(bottom, p) < Off(bottom, n) BY <3>5
      <4> QED BY <3>2, <4>1
    <3> HIDE DEF S
    <3> QED BY <3>5, <3>6
  <2>6. S \in SUBSET Places /\ bottom \in S BY <1>6, <1>8, <1>10
  <2>7. \A p \in S : p # n /\ p \in Range(Walk(bottom, n, m)) =>
           /\ m[p] # NoHeader /\ After(p, m) \in S \cup {n}
           /\ Off(bottom, p) < Off(bottom, After(p, m))
    <3> HIDE DEF S
    <3> QED BY <2>5
  <2>8. /\ Walk(bottom, n, k) = Walk(bottom, n, m) /\ Last(Walk(bottom, n, k)) = n
        /\ Heads(k) = R \ {n} /\ Upward(bottom, k) /\ \A p \in R \ {n} : k[p] = m[p]
    <3> HIDE DEF S
    <3> QED BY <1>4, <1>6, <1>10, <2>6, <2>7, Forgotten DEF k
  <2>9. Arrives(bottom, bottom, n, m, S)
    <3> HIDE DEF S
    <3> QED BY <1>4, <1>6, <1>10, <2>6, <2>7, Through
  <2>10. /\ R \subseteq S \cup {n}
         /\ \A p \in Places : Off(bottom, bottom) <= Off(bottom, p) /\ Off(bottom, p) < Off(bottom, n) =>
              p \in R \/ \E q \in R \ {n} : Off(bottom, q) < Off(bottom, p) /\ Off(bottom, p) < Off(bottom, After(q, m))
    BY <2>9 DEF Arrives
  <2> HIDE DEF R
  <2>11. ASSUME NEW p \in S PROVE p \in R
    <3> SUFFICES ASSUME p \notin R PROVE FALSE
      OBVIOUS
    <3>1. p \in Places /\ Off(bottom, bottom) <= Off(bottom, p) /\ Off(bottom, p) < Off(bottom, n)
      <4>1. p \in Places /\ Off(bottom, p) < Off(bottom, n) BY <2>5
      <4>2. Off(bottom, bottom) = 0 /\ Off(bottom, p) \in Nat BY <1>6, <2>4, <4>1, OffIs
      <4> QED BY <4>1, <4>2
    <3>2. PICK q \in R \ {n} : Off(bottom, q) < Off(bottom, p) /\ Off(bottom, p) < Off(bottom, After(q, m))
      BY <2>10, <3>1
    <3>3. q \in S BY <2>10
    <3>4. /\ Off(bottom, p) \in Nat /\ Off(bottom, q) \in Nat /\ Off(bottom, top) \in Nat
          /\ Off(bottom, at) \in Nat /\ Off(bottom, n) \in Nat
      BY <1>6, <1>10, <2>4, <2>6, <3>1, <3>3
    <3>5. CASE q \in H
      <4>1. After(q, m) = After(q, mem) /\ After(q, mem) \in H \cup {top} BY <1>6, <2>1, <3>5
      <4>2. Off(bottom, After(q, mem)) \in Nat BY <1>6, <1>8, <2>4, <4>1
      <4>3. CASE p \in H \cup {top} BY <1>6, <3>2, <3>4, <3>5, <4>1, <4>2, <4>3
      <4>4. CASE p = at /\ at # top
        <5>1. Off(bottom, After(q, mem)) <= Off(bottom, top) BY <1>6, <3>4, <4>1, <4>2
        <5> QED BY <2>3, <3>2, <3>4, <4>1, <4>2, <4>4, <5>1
      <4> QED BY <4>3, <4>4
    <3>6. CASE q = top /\ at # top
      <4>1. After(q, m) = at BY <2>2, <3>6
      <4>2. Off(bottom, p) < Off(bottom, at) /\ Off(bottom, top) < Off(bottom, p) BY <3>2, <3>6, <4>1
      <4>3. p \in H BY <3>4, <4>2
      <4>4. Off(bottom, p) < Off(bottom, top) BY <1>6, <4>3
      <4> QED BY <3>4, <4>2, <4>4
    <3>7. CASE q = at
      <4>1. Off(bottom, at) < Off(bottom, p) BY <3>2, <3>7
      <4>2. p \in H BY <2>3, <3>4, <4>1
      <4>3. Off(bottom, p) < Off(bottom, top) BY <1>6, <4>2
      <4> QED BY <2>3, <3>4, <4>1, <4>3
    <3> QED BY <3>3, <3>5, <3>6, <3>7
  <2>12. R \ {n} = S
    <3> HIDE DEF S
    <3> QED BY <2>5, <2>10, <2>11
  <2>13. Intact' /\ Upward(bottom', mem') BY <1>3, <2>8 DEF Intact
  <2>14. Unread' = {p \in S : ~k[p].read} BY <1>3, <2>8, <2>12 DEF Unread, R
  <2>15. \A p \in S : k[p] = m[p] BY <2>8, <2>12
  <2>16. Unread = {p \in H : ~mem[p].read} BY <1>6 DEF Unread, H
  <2>17. at \notin H
    <3> SUFFICES ASSUME at \in H PROVE FALSE
      OBVIOUS
    <3>1. Off(bottom, at) < Off(bottom, top) BY <1>6
    <3>2. Off(bottom, at) \in Nat /\ Off(bottom, top) \in Nat BY <1>6, <1>10, <2>4
    <3> QED BY <2>3, <3>1, <3>2
  <2>18. k[at] = Header(msg) BY <2>2, <2>15
  <2>19. top # at => k[top].read BY <1>11, <2>2, <2>15
  <2>20. \A p \in H : k[p] = mem[p] BY <2>1, <2>15
  <2>21. Unread' = Unread \cup {at} BY <1>12, <2>14, <2>16, <2>18, <2>19, <2>20
  <2>22. \A p \in Unread : mem'[p] = mem[p] /\ Off(bottom, p) < Off(bottom, at)
    <3> SUFFICES ASSUME NEW p \in Unread PROVE mem'[p] = mem[p] /\ Off(bottom, p) < Off(bottom, at)
      OBVIOUS
    <3>1. p \in H /\ p \in Places BY <1>8, <2>16
    <3>2. Off(bottom, p) < Off(bottom, top) BY <1>6, <3>1
    <3>3. Off(bottom, p) \in Nat /\ Off(bottom, at) \in Nat /\ Off(bottom, top) \in Nat
      BY <1>6, <1>10, <2>4, <3>1
    <3> QED BY <1>3, <2>3, <2>20, <3>1, <3>2, <3>3
  <2> QED BY <1>3, <1>6, <1>10, <2>13, <2>16, <2>17, <2>18, <2>21, <2>22
<1>15. CASE top < bottom /\ ExactFit(len)
  <2>1. Overruns BY <1>1, <1>2, <1>3, <1>7, <1>15 DEF Overruns
  <2>2. ASSUME Intact' PROVE FALSE
    <3>1. Last(Walk(bottom, n, k)) = n /\ bottom # n BY <1>3, <1>7, <2>2 DEF Intact
    <3>2. /\ k \in Memory /\ \A p \in 0 .. Size - 1 : k[p] # NoHeader => k[p] = m[p]
      BY <1>1, <1>4, VisitedIs DEF k
    <3>3. k[bottom] # NoHeader /\ bottom \in 0 .. Size - 1 BY <1>1, <3>1, <3>2, Starts
    <3>4. bottom \in at + 1 .. at + len - 1 BY <1>1, <1>2, <1>7, <1>15, <3>3
    <3> QED BY <1>4, <3>2, <3>3, <3>4
  <2> QED BY <2>1, <2>2
<1>16. CASE top < bottom /\ TooNear(len)
  <2> DEFINE S == {p \in H : bottom <= p} \cup {0}
  <2>1. at = 0 /\ n = len /\ n < bottom /\ ~ExactFit(len) BY <1>7, <1>16
  <2>2. Overruns BY <1>1, <1>2, <1>3, <1>7, <1>16, <2>1 DEF Overruns
  <2>3. ASSUME NEW p \in H, bottom <= p
        PROVE  /\ p \in Places /\ m[p] # NoHeader /\ After(p, m) \in S
               /\ Off(bottom, p) < Off(bottom, After(p, m))
    <3>1. p \in Places /\ p \in 0 .. Size - 1 /\ p \in Nat BY <1>8, <1>9, <2>3
    <3>2. p # at /\ p \notin at + 1 .. at + len - 1 /\ p # top
      BY <1>1, <1>2, <1>16, <2>1, <2>3, <3>1
    <3>3. m[p] = mem[p] BY <1>4, <3>1, <3>2
    <3>4. After(p, m) = After(p, mem) BY <3>3 DEF After
    <3>5. After(p, mem) \in S
      <4>1. CASE mem[p].end BY <4>1 DEF After
      <4>2. CASE ~mem[p].end
        <5>1. After(p, mem) = p + mem[p].len /\ mem[p].len \in Nat
          BY <1>1, <3>1, <4>2 DEF After, Memory, Headers
        <5>2. bottom <= After(p, mem) BY <1>1, <2>3, <3>1, <5>1
        <5>3. After(p, mem) \in H
          <6>1. After(p, mem) # top BY <1>1, <1>16, <3>1, <5>1, <5>2
          <6> QED BY <1>6, <2>3, <6>1
        <5> QED BY <5>2, <5>3
      <4> QED BY <4>1, <4>2
    <3> HIDE DEF S
    <3> QED BY <1>8, <2>3, <3>1, <3>3, <3>4, <3>5
  <2>4. m[0] # NoHeader /\ After(0, m) = n /\ Off(bottom, 0) < Off(bottom, n)
    <3>1. m[0] = Header(msg) BY <1>4, <1>9, <1>10, <2>1
    <3>2. After(0, m) = n BY <1>2, <1>12, <2>1, <3>1 DEF After
    <3>3. Off(bottom, 0) < Off(bottom, n) BY <1>1, <1>2, <1>6, <1>9, <2>1 DEF Off
    <3> QED BY <1>4, <3>1, <3>2, <3>3
  <2>5. S \in SUBSET Places /\ bottom \in S BY <1>1, <1>6, <1>8, <1>10, <1>16
  <2>6. \A p \in S : p # n /\ p \in Range(Walk(bottom, n, m)) =>
           /\ m[p] # NoHeader /\ After(p, m) \in S \cup {n}
           /\ Off(bottom, p) < Off(bottom, After(p, m))
    BY <2>3, <2>4
  <2>7. Upward(bottom, k)
    <3> HIDE DEF S
    <3> QED BY <1>4, <1>6, <1>10, <2>5, <2>6, Forgotten DEF k
  <2> QED BY <1>3, <2>2, <2>7
<1> QED BY <1>1, <1>6, <1>9, <1>14, <1>15, <1>16

----------------------------------------------------------------------------
(* The mail.                                                             *)

(* box holds the messages whose headers are at the places U, the nearest *)
(* to b first: e are their places.                                       *)
Message(header) == [id |-> header.id, len |-> header.len]
Lists(box, L, e, U, b, m) ==
  /\ e \in [1 .. L -> U] /\ \A p \in U : \E i \in 1 .. L : e[i] = p
  /\ \A i, j \in 1 .. L : i < j => Off(b, e[i]) < Off(b, e[j])
  /\ box = [i \in 1 .. L |-> Message(m[e[i]])]
Listed(box, U, b, m) == \E L \in Nat : \E e : Lists(box, L, e, U, b, m)

LEMMA NoList ==
  ASSUME NEW b, NEW m
  PROVE  Listed(<< >>, {}, b, m)
<1> DEFINE e == [i \in 1 .. 0 |-> b]
<1>1. e \in [1 .. 0 -> {}] OBVIOUS
<1>2. << >> = [i \in 1 .. 0 |-> Message(m[e[i]])] OBVIOUS
<1>3. \A i \in 1 .. 0 : FALSE OBVIOUS
<1> HIDE DEF e
<1>4. Lists(<< >>, 0, e, {}, b, m) BY <1>1, <1>2, <1>3 DEF Lists
<1> QED BY <1>4 DEF Listed

(* A message behind the others.                                          *)
LEMMA OneMoreListed ==
  ASSUME NEW b \in Places, NEW U \in SUBSET Places, NEW m, NEW box, Listed(box, U, b, m),
         NEW p \in Places, \A q \in U : Off(b, q) < Off(b, p)
  PROVE  Listed(Append(box, Message(m[p])), U \cup {p}, b, m)
<1>1. PICK L \in Nat : \E e : Lists(box, L, e, U, b, m) BY DEF Listed
<1>2. PICK e : Lists(box, L, e, U, b, m) BY <1>1
<1>3. /\ e \in [1 .. L -> U] /\ \A q \in U : \E i \in 1 .. L : e[i] = q
      /\ \A i, j \in 1 .. L : i < j => Off(b, e[i]) < Off(b, e[j])
      /\ box = [i \in 1 .. L |-> Message(m[e[i]])]
  BY <1>2 DEF Lists
<1> DEFINE f == [i \in 1 .. L + 1 |-> IF i = L + 1 THEN p ELSE e[i]]
<1>4. /\ f[L + 1] = p /\ \A i \in 1 .. L : f[i] = e[i] /\ i \in 1 .. L + 1
      /\ \A i \in 1 .. L + 1 : i = L + 1 \/ i \in 1 .. L
      /\ L + 1 \in 1 .. L + 1
  OBVIOUS
<1>5. f \in [1 .. L + 1 -> U \cup {p}] BY <1>3
<1>6. Append(box, Message(m[p])) = [i \in 1 .. L + 1 |-> Message(m[f[i]])]
  <2> DEFINE msg(i) == Message(m[e[i]])
  <2>1. box = [i \in 1 .. L |-> msg(i)] BY <1>3
  <2> HIDE DEF msg
  <2>2. Append(box, Message(m[p])) = [i \in 1 .. L + 1 |-> IF i = L + 1 THEN Message(m[p]) ELSE msg(i)]
    BY <2>1
  <2>3. \A i \in 1 .. L + 1 : (IF i = L + 1 THEN Message(m[p]) ELSE msg(i)) = Message(m[f[i]])
    BY <1>4 DEF msg
  <2> HIDE DEF f
  <2> QED BY <2>2, <2>3
<1> HIDE DEF f
<1>7. \A q \in U \cup {p} : \E i \in 1 .. L + 1 : f[i] = q BY <1>3, <1>4
<1>8. \A i, j \in 1 .. L + 1 : i < j => Off(b, f[i]) < Off(b, f[j])
  <2> SUFFICES ASSUME NEW i \in 1 .. L + 1, NEW j \in 1 .. L + 1, i < j
               PROVE  Off(b, f[i]) < Off(b, f[j])
    OBVIOUS
  <2>1. i \in 1 .. L OBVIOUS
  <2>2. e[i] \in U /\ f[i] = e[i] BY <1>3, <1>4, <2>1
  <2> QED BY <1>3, <1>4, <2>1, <2>2
<1>9. Lists(Append(box, Message(m[p])), L + 1, f, U \cup {p}, b, m) BY <1>5, <1>6, <1>7, <1>8 DEF Lists
<1> QED BY <1>9 DEF Listed

(* Two lists of the same places are the same, step by step.              *)
LEMMA NotBefore ==
  ASSUME NEW b \in Places, NEW U \in SUBSET Places, NEW m,
         NEW x, NEW L \in Nat, NEW e, Lists(x, L, e, U, b, m),
         NEW y, NEW K \in Nat, NEW f, Lists(y, K, f, U, b, m),
         NEW i \in 1 .. L, i \in 1 .. K, \A j \in 1 .. i - 1 : e[j] = f[j]
  PROVE  ~(Off(b, e[i]) < Off(b, f[i]))
<1> SUFFICES ASSUME Off(b, e[i]) < Off(b, f[i]) PROVE FALSE
  OBVIOUS
<1>1. \A p \in Places : Off(b, p) \in Nat
  <2>1. \A p \in Places : Off(b, p) \in Places BY OffIs
  <2> QED BY <2>1, SizesAssumption DEF Places
<1>2. /\ e \in [1 .. L -> U] /\ f \in [1 .. K -> U]
      /\ \A p \in U : \E j \in 1 .. K : f[j] = p
      /\ \A k, j \in 1 .. L : k < j => Off(b, e[k]) < Off(b, e[j])
      /\ \A k, j \in 1 .. K : k < j => Off(b, f[k]) < Off(b, f[j])
  BY DEF Lists
<1>3. PICK j \in 1 .. K : f[j] = e[i] BY <1>2
<1>4. Off(b, e[i]) \in Nat /\ Off(b, f[i]) \in Nat BY <1>1, <1>2
<1>5. j < i
  <2>1. j # i BY <1>3, <1>4
  <2>2. ~(i < j) BY <1>2, <1>3, <1>4
  <2> QED BY <2>1, <2>2
<1>6. j \in 1 .. i - 1 /\ j \in 1 .. L BY <1>5
<1>7. e[j] = e[i] BY <1>3, <1>6
<1>8. Off(b, e[j]) < Off(b, e[i]) BY <1>2, <1>5, <1>6
<1> QED BY <1>4, <1>7, <1>8

LEMMA NotLonger ==
  ASSUME NEW b \in Places, NEW U \in SUBSET Places, NEW m,
         NEW x, NEW L \in Nat, NEW e, Lists(x, L, e, U, b, m),
         NEW y, NEW K \in Nat, NEW f, Lists(y, K, f, U, b, m),
         \A i \in 1 .. L : i \in 1 .. K => e[i] = f[i]
  PROVE  K <= L
<1> SUFFICES ASSUME L < K PROVE FALSE
  OBVIOUS
<1>1. \A p \in Places : Off(b, p) \in Nat
  <2>1. \A p \in Places : Off(b, p) \in Places BY OffIs
  <2> QED BY <2>1, SizesAssumption DEF Places
<1>2. /\ f \in [1 .. K -> U]
      /\ \A p \in U : \E j \in 1 .. L : e[j] = p
      /\ \A k, j \in 1 .. K : k < j => Off(b, f[k]) < Off(b, f[j])
  BY DEF Lists
<1>3. L + 1 \in 1 .. K OBVIOUS
<1>4. PICK j \in 1 .. L : e[j] = f[L + 1] BY <1>2, <1>3
<1>5. j \in 1 .. K /\ j < L + 1 OBVIOUS
<1>6. f[j] = f[L + 1] BY <1>4, <1>5
<1>7. Off(b, f[j]) < Off(b, f[L + 1]) BY <1>2, <1>3, <1>5
<1>8. Off(b, f[L + 1]) \in Nat BY <1>1, <1>2, <1>3
<1> QED BY <1>6, <1>7, <1>8

LEMMA OneList ==
  ASSUME NEW b \in Places, NEW U \in SUBSET Places, NEW m,
         NEW x, Listed(x, U, b, m), NEW y, Listed(y, U, b, m)
  PROVE  x = y
<1>1. PICK L \in Nat : \E e : Lists(x, L, e, U, b, m) BY DEF Listed
<1>2. PICK e : Lists(x, L, e, U, b, m) BY <1>1
<1>3. PICK K \in Nat : \E f : Lists(y, K, f, U, b, m) BY DEF Listed
<1>4. PICK f : Lists(y, K, f, U, b, m) BY <1>3
<1>5. \A i \in 1 .. L : i \in 1 .. K => e[i] = f[i]
  <2> DEFINE D == {i \in 1 .. L : i \in 1 .. K /\ e[i] # f[i]}
  <2> SUFFICES ASSUME D # {} PROVE FALSE
    OBVIOUS
  <2>1. D \in SUBSET Nat OBVIOUS
  <2>2. PICK i \in D : \A j \in D : i <= j
    <3> HIDE DEF D
    <3> QED BY <2>1, NatMinimum
  <2>3. i \in 1 .. L /\ i \in 1 .. K /\ e[i] # f[i] OBVIOUS
  <2>4. \A j \in 1 .. i - 1 : e[j] = f[j] /\ f[j] = e[j]
    <3> SUFFICES ASSUME NEW j \in 1 .. i - 1 PROVE e[j] = f[j]
      OBVIOUS
    <3>1. j \in 1 .. L /\ j \in 1 .. K /\ ~(i <= j) BY <2>3
    <3> QED BY <2>2, <3>1
  <2> HIDE DEF D
  <2>5. ~(Off(b, e[i]) < Off(b, f[i])) BY <1>2, <1>4, <2>3, <2>4, NotBefore
  <2>6. ~(Off(b, f[i]) < Off(b, e[i])) BY <1>2, <1>4, <2>3, <2>4, NotBefore
  <2>7. e[i] \in Places /\ f[i] \in Places
    <3>1. e \in [1 .. L -> U] /\ f \in [1 .. K -> U] BY <1>2, <1>4 DEF Lists
    <3> QED BY <2>3, <3>1
  <2>8. Off(b, e[i]) \in Nat /\ Off(b, f[i]) \in Nat
    <3>1. \A p \in Places : Off(b, p) \in Places BY OffIs
    <3> QED BY <2>7, <3>1, SizesAssumption DEF Places
  <2>9. Off(b, e[i]) = Off(b, f[i]) BY <2>5, <2>6, <2>8
  <2> QED BY <2>3, <2>7, <2>9, OffIs
<1>6. L = K
  <2>1. K <= L BY <1>2, <1>4, <1>5, NotLonger
  <2>2. \A i \in 1 .. K : i \in 1 .. L => f[i] = e[i] BY <1>5
  <2>3. L <= K BY <1>2, <1>4, <2>2, NotLonger
  <2> QED BY <2>1, <2>3
<1>7. x = [i \in 1 .. L |-> Message(m[e[i]])] /\ y = [i \in 1 .. K |-> Message(m[f[i]])]
  BY <1>2, <1>4 DEF Lists
<1> QED BY <1>5, <1>6, <1>7

(* What comes first does not depend on where the walk starts, and what is *)
(* listed not on other places.                                           *)
LEMMA ListedFrom ==
  ASSUME NEW b \in Places, NEW U \in SUBSET Places, NEW m, NEW x, Listed(x, U, b, m),
         NEW c \in Places, NEW k, \A p \in U : Off(b, c) <= Off(b, p) /\ k[p] = m[p]
  PROVE  Listed(x, U, c, k)
<1>1. PICK L \in Nat : \E e : Lists(x, L, e, U, b, m) BY DEF Listed
<1>2. PICK e : Lists(x, L, e, U, b, m) BY <1>1
<1>3. /\ e \in [1 .. L -> U] /\ \A q \in U : \E i \in 1 .. L : e[i] = q
      /\ \A i, j \in 1 .. L : i < j => Off(b, e[i]) < Off(b, e[j])
      /\ x = [i \in 1 .. L |-> Message(m[e[i]])]
  BY <1>2 DEF Lists
<1>4. x = [i \in 1 .. L |-> Message(k[e[i]])] BY <1>3
<1>5. ASSUME NEW i \in 1 .. L, NEW j \in 1 .. L, i < j
      PROVE  Off(c, e[i]) < Off(c, e[j])
  <2>1. e[i] \in Places /\ e[j] \in Places /\ Off(b, c) <= Off(b, e[i]) /\ Off(b, c) <= Off(b, e[j])
    BY <1>3
  <2>2. Off(c, e[i]) = Off(b, e[i]) - Off(b, c) /\ Off(c, e[j]) = Off(b, e[j]) - Off(b, c)
    BY <2>1, OffIs
  <2>3. Off(b, e[i]) \in Nat /\ Off(b, e[j]) \in Nat /\ Off(b, c) \in Nat
    <3>1. \A p \in Places : Off(b, p) \in Places BY OffIs
    <3> QED BY <2>1, <3>1, SizesAssumption DEF Places
  <2>4. Off(b, e[i]) < Off(b, e[j]) BY <1>3, <1>5
  <2> QED BY <2>2, <2>3, <2>4
<1>6. Lists(x, L, e, U, c, k) BY <1>3, <1>4, <1>5 DEF Lists
<1> QED BY <1>6 DEF Listed

(* One message less.                                                     *)
LEMMA OneLessListed ==
  ASSUME NEW b \in Places, NEW U \in SUBSET Places, NEW m,
         NEW x, NEW L \in Nat, NEW e, Lists(x, L, e, U, b, m), NEW i \in 1 .. L
  PROVE  Listed([j \in 1 .. Len(x) - 1 |-> x[IF j < i THEN j ELSE j + 1]], U \ {e[i]}, b, m)
<1>1. /\ e \in [1 .. L -> U] /\ \A q \in U : \E j \in 1 .. L : e[j] = q
      /\ \A k, j \in 1 .. L : k < j => Off(b, e[k]) < Off(b, e[j])
      /\ x = [j \in 1 .. L |-> Message(m[e[j]])]
  BY DEF Lists
<1>2. Len(x) = L BY <1>1
<1> DEFINE g(j) == IF j < i THEN j ELSE j + 1
           f == [j \in 1 .. L - 1 |-> e[g(j)]]
<1>3. L - 1 \in Nat OBVIOUS
<1>4. \A j \in 1 .. L - 1 : g(j) \in 1 .. L /\ g(j) # i OBVIOUS
<1>5. \A k, j \in 1 .. L - 1 : k < j => g(k) < g(j) OBVIOUS
<1>6. \A j \in 1 .. L : j # i => \E k \in 1 .. L - 1 : g(k) = j
  <2> SUFFICES ASSUME NEW j \in 1 .. L, j # i PROVE \E k \in 1 .. L - 1 : g(k) = j
    OBVIOUS
  <2>1. CASE j < i
    <3>1. j \in 1 .. L - 1 /\ g(j) = j BY <2>1
    <3> QED BY <3>1
  <2>2. CASE i < j
    <3>1. j - 1 \in 1 .. L - 1 /\ g(j - 1) = j BY <2>2
    <3> QED BY <3>1
  <2> QED BY <2>1, <2>2
<1>7. \A j \in 1 .. L : j # i => e[j] # e[i]
  <2> SUFFICES ASSUME NEW j \in 1 .. L, j # i, e[j] = e[i] PROVE FALSE
    OBVIOUS
  <2>1. \A p \in Places : Off(b, p) \in Nat
    <3>1. \A p \in Places : Off(b, p) \in Places BY OffIs
    <3> QED BY <3>1, SizesAssumption DEF Places
  <2>2. Off(b, e[i]) \in Nat BY <1>1, <2>1
  <2>3. Off(b, e[i]) < Off(b, e[i]) BY <1>1
  <2> QED BY <2>2, <2>3
<1>8. [j \in 1 .. Len(x) - 1 |-> x[g(j)]] = [j \in 1 .. L - 1 |-> Message(m[f[j]])]
  <2>1. \A j \in 1 .. L - 1 : x[g(j)] = Message(m[f[j]])
    <3> HIDE DEF g
    <3> QED BY <1>1, <1>4
  <2> HIDE DEF g, f
  <2> QED BY <1>2, <2>1
<1>9. f \in [1 .. L - 1 -> U \ {e[i]}]
  <2> HIDE DEF g
  <2> QED BY <1>1, <1>4, <1>7
<1>10. \A q \in U \ {e[i]} : \E j \in 1 .. L - 1 : f[j] = q
  <2> SUFFICES ASSUME NEW q \in U \ {e[i]} PROVE \E j \in 1 .. L - 1 : f[j] = q
    OBVIOUS
  <2>1. PICK j \in 1 .. L : e[j] = q BY <1>1
  <2>2. PICK k \in 1 .. L - 1 : g(k) = j BY <1>6, <2>1
  <2> HIDE DEF g
  <2> QED BY <2>1, <2>2
<1>11. \A k, j \in 1 .. L - 1 : k < j => Off(b, f[k]) < Off(b, f[j])
  <2> HIDE DEF g
  <2> QED BY <1>1, <1>4, <1>5
<1> DEFINE y == [j \in 1 .. Len(x) - 1 |-> x[g(j)]]
<1>12. Lists(y, L - 1, f, U \ {e[i]}, b, m)
  <2> HIDE DEF f, g
  <2> QED BY <1>8, <1>9, <1>10, <1>11 DEF Lists
<1>13. Listed(y, U \ {e[i]}, b, m)
  <2> HIDE DEF f, y
  <2> QED BY <1>3, <1>12 DEF Listed
<1> QED BY <1>13

(* The messages along the walk w, one place after the other.             *)
Mails(f, w, t, m) ==
  f = [n \in 0 .. Len(w) |->
        IF n = 0 THEN << >>
        ELSE IF w[n] = t \/ m[w[n]].read THEN f[n - 1]
        ELSE Append(f[n - 1], [id |-> m[w[n]].id, len |-> m[w[n]].len])]

LEMMA MailsExist ==
  ASSUME NEW w, Len(w) \in Nat, NEW t, NEW m
  PROVE  \E f : Mails(f, w, t, m)
<1> DEFINE step(n, x) == IF w[n] = t \/ m[w[n]].read THEN x
                         ELSE Append(x, [id |-> m[w[n]].id, len |-> m[w[n]].len])
           Has(k) == \E f : /\ DOMAIN f = 0 .. k /\ f = [n \in 0 .. k |-> f[n]]
                            /\ f[0] = << >>
                            /\ \A n \in 1 .. k : f[n] = step(n, f[n - 1])
           Good == {k \in Nat : Has(k)}
<1> HIDE DEF step
<1>1. Has(0)
  <2> DEFINE f == [n \in 0 .. 0 |-> << >>]
  <2>1. DOMAIN f = 0 .. 0 /\ f = [n \in 0 .. 0 |-> f[n]] /\ f[0] = << >> OBVIOUS
  <2>2. \A n \in 1 .. 0 : FALSE OBVIOUS
  <2> HIDE DEF f
  <2> QED BY <2>1, <2>2
<1>2. ASSUME NEW k \in Nat, Has(k) PROVE Has(k + 1)
  <2>1. PICK f : /\ DOMAIN f = 0 .. k
                 /\ f[0] = << >>
                 /\ \A n \in 1 .. k : f[n] = step(n, f[n - 1])
    BY <1>2
  <2> DEFINE g == [n \in 0 .. k + 1 |-> IF n = k + 1 THEN step(k + 1, f[k]) ELSE f[n]]
  <2>2. DOMAIN g = 0 .. k + 1 /\ g = [n \in 0 .. k + 1 |-> g[n]] OBVIOUS
  <2>3. g[0] = << >> BY <2>1
  <2>4. ASSUME NEW n \in 1 .. k + 1 PROVE g[n] = step(n, g[n - 1])
    <3>1. CASE n = k + 1
      <4>1. g[n] = step(k + 1, f[k]) BY <3>1
      <4>2. g[n - 1] = f[k] BY <3>1
      <4> QED BY <3>1, <4>1, <4>2
    <3>2. CASE n # k + 1
      <4>1. n \in 1 .. k /\ n - 1 \in 0 .. k /\ n - 1 # k + 1 BY <3>2
      <4>2. g[n] = f[n] /\ g[n - 1] = f[n - 1] BY <4>1
      <4> QED BY <2>1, <4>1, <4>2
    <3> QED BY <3>1, <3>2
  <2> HIDE DEF g
  <2> QED BY <2>2, <2>3, <2>4
<1> HIDE DEF Has
<1>3. Nat \subseteq Good
  <2>1. 0 \in Good BY <1>1
  <2>2. \A k \in Nat : k \in Good => k + 1 \in Good BY <1>2
  <2> HIDE DEF Good
  <2> QED BY <2>1, <2>2, NatSetInduction
<1>4. Has(Len(w)) BY <1>3
<1>5. PICK f : /\ f = [n \in 0 .. Len(w) |-> f[n]]
               /\ f[0] = << >>
               /\ \A n \in 1 .. Len(w) : f[n] = step(n, f[n - 1])
  BY <1>4 DEF Has
<1>6. ASSUME NEW n \in 0 .. Len(w) PROVE f[n] = IF n = 0 THEN << >> ELSE step(n, f[n - 1])
  <2>1. n # 0 => n \in 1 .. Len(w) OBVIOUS
  <2> QED BY <1>5, <2>1
<1>7. Mails(f, w, t, m) BY <1>5, <1>6 DEF Mails, step
<1> QED BY <1>7

(* A walk that goes up lists the unread messages.                        *)
LEMMA UnreadListed ==
  ASSUME NEW b \in Places, NEW t \in Places, NEW m \in Memory,
         Last(Walk(b, t, m)) = t, Upward(b, m)
  PROVE  Listed(UnreadAlong(Walk(b, t, m), t, m),
                {p \in Range(Walk(b, t, m)) \ {t} : ~m[p].read}, b, m)
<1> DEFINE w == Walk(b, t, m)
           f == CHOOSE g : Mails(g, w, t, m)
           U(n) == {p \in Places : p # t /\ ~m[p].read /\ \E i \in 1 .. n : w[i] = p}
<1>1. b \in Nat /\ Size \in Nat BY SizesAssumption DEF Places
<1>2. IsWalk(w, Size, b, t, m) BY <1>1, WalkIs
<1>3. UnreadAlong(w, t, m) = f[Len(w)] BY DEF UnreadAlong, Mails
<1>4. Last(w) = t OBVIOUS
<1> HIDE DEF w, f
<1>5. w[Len(w)] = t BY <1>1, <1>2, <1>4, LastIs
<1>6. w \in Seq(Nat) /\ Len(w) \in Nat /\ \A i \in 1 .. Len(w) - 1 : w[i + 1] = After(w[i], m)
  BY <1>2 DEF IsWalk
<1>7. \A i \in 1 .. Len(w) - 1 : w[i] \in Heads(m) /\ w[i] \in Places
  <2> SUFFICES ASSUME NEW i \in 1 .. Len(w) - 1 PROVE w[i] \in Heads(m) /\ w[i] \in Places
    OBVIOUS
  <2>1. w[i] \in Nat /\ IsHeader(w[i], m) BY <1>2, <1>6 DEF IsWalk
  <2> QED BY <2>1, Onward DEF Heads, Places
<1>8. \A i \in 1 .. Len(w) : w[i] \in Places
  <2> SUFFICES ASSUME NEW i \in 1 .. Len(w) PROVE w[i] \in Places
    OBVIOUS
  <2>1. i \in 1 .. Len(w) - 1 \/ i = Len(w) BY <1>6
  <2> QED BY <1>5, <1>7, <2>1
<1>9. \A i \in 1 .. Len(w) - 1 : Off(b, w[i]) < Off(b, w[i + 1]) BY <1>6, <1>7 DEF Upward
<1>10. \A p \in Places : Off(b, p) \in Nat
  <2>1. \A p \in Places : Off(b, p) \in Places BY OffIs
  <2> QED BY <1>1, <2>1 DEF Places
<1>11. ASSUME NEW i \in 1 .. Len(w), NEW j \in 1 .. Len(w), i < j
       PROVE  Off(b, w[i]) < Off(b, w[j])
  <2>1. i <= j BY <1>6, <1>11
  <2>2. Off(b, w[i]) + (j - i) <= Off(b, w[j]) BY <1>1, <1>2, <1>8, <1>9, <2>1, Rising
  <2>3. Off(b, w[i]) \in Nat /\ Off(b, w[j]) \in Nat BY <1>8, <1>10
  <2> QED BY <1>6, <1>11, <2>2, <2>3
<1>12. Mails(f, w, t, m)
  <2>1. \E g : Mails(g, w, t, m) BY <1>6, MailsExist
  <2> QED BY <2>1 DEF f
<1>13. /\ f[0] = << >>
       /\ \A n \in 1 .. Len(w) : f[n] = IF w[n] = t \/ m[w[n]].read THEN f[n - 1]
                                       ELSE Append(f[n - 1], Message(m[w[n]]))
  <2>1. \A n \in 0 .. Len(w) : f[n] = IF n = 0 THEN << >>
                                     ELSE IF w[n] = t \/ m[w[n]].read THEN f[n - 1]
                                     ELSE Append(f[n - 1], [id |-> m[w[n]].id, len |-> m[w[n]].len])
    BY <1>12 DEF Mails
  <2>2. 0 \in 0 .. Len(w) /\ \A n \in 1 .. Len(w) : n \in 0 .. Len(w) /\ n # 0 BY <1>6
  <2> QED BY <2>1, <2>2 DEF Message
<1> DEFINE Good == {n \in Nat : n <= Len(w) => Listed(f[n], U(n), b, m)}
<1>14. 0 \in Good
  <2>1. U(0) = {} OBVIOUS
  <2> HIDE DEF U
  <2> QED BY <1>13, <2>1, NoList
<1>15. ASSUME NEW n \in Nat, n \in Good PROVE n + 1 \in Good
  <2> SUFFICES ASSUME n + 1 <= Len(w) PROVE Listed(f[n + 1], U(n + 1), b, m)
    <3> HIDE DEF U
    <3> QED OBVIOUS
  <2>1. n <= Len(w) /\ n + 1 \in 1 .. Len(w) /\ (n + 1) - 1 = n BY <1>6
  <2>2. Listed(f[n], U(n), b, m) BY <1>15, <2>1
  <2>3. w[n + 1] \in Places BY <1>8, <2>1
  <2>4. \A i : i \in 1 .. n + 1 <=> (i \in 1 .. n \/ i = n + 1) OBVIOUS
  <2>5. CASE w[n + 1] = t \/ m[w[n + 1]].read
    <3>1. U(n + 1) = U(n) BY <2>4, <2>5
    <3>2. f[n + 1] = f[n] BY <1>13, <2>1, <2>5
    <3> HIDE DEF U
    <3> QED BY <2>2, <3>1, <3>2
  <2>6. CASE ~(w[n + 1] = t \/ m[w[n + 1]].read)
    <3>1. U(n + 1) = U(n) \cup {w[n + 1]} BY <2>3, <2>4, <2>6
    <3>2. f[n + 1] = Append(f[n], Message(m[w[n + 1]])) BY <1>13, <2>1, <2>6
    <3>3. U(n) \in SUBSET Places OBVIOUS
    <3>4. \A q \in U(n) : Off(b, q) < Off(b, w[n + 1])
      <4> SUFFICES ASSUME NEW q \in U(n) PROVE Off(b, q) < Off(b, w[n + 1])
        OBVIOUS
      <4>1. PICK i \in 1 .. n : w[i] = q OBVIOUS
      <4>2. i \in 1 .. Len(w) /\ i < n + 1 BY <1>6, <2>1
      <4> QED BY <1>11, <2>1, <4>1, <4>2
    <3> HIDE DEF U, Good
    <3>5. Listed(Append(f[n], Message(m[w[n + 1]])), U(n) \cup {w[n + 1]}, b, m)
      BY <2>2, <2>3, <3>3, <3>4, OneMoreListed
    <3> QED BY <3>1, <3>2, <3>5
  <2> QED BY <2>5, <2>6
<1>16. Len(w) \in Good
  <2>1. \A n \in Nat : n \in Good => n + 1 \in Good BY <1>15
  <2> HIDE DEF Good
  <2> QED BY <1>6, <1>14, <2>1, NatSetInduction
<1>17. Listed(f[Len(w)], U(Len(w)), b, m)
  <2>1. Len(w) <= Len(w) BY <1>6
  <2> HIDE DEF U
  <2> QED BY <1>16, <2>1
<1>18. U(Len(w)) = {p \in Range(w) \ {t} : ~m[p].read}
  <2>1. Range(w) = {w[i] : i \in 1 .. Len(w)} BY <1>6 DEF Range
  <2> QED BY <1>8, <2>1
<1> HIDE DEF U
<1> QED BY <1>3, <1>17, <1>18 DEF w

LEMMA BoxListed ==
  ASSUME RingInv, Intact, Upward(bottom, mem)
  PROVE  /\ Listed(Box, Unread, bottom, mem) /\ Unread \in SUBSET Heads(mem)
         /\ bottom \in Places /\ top \in Places
<1>1. /\ bottom \in Places /\ top \in Places /\ Heads(mem) = Range(Walk(bottom, top, mem)) \ {top}
  BY Rounds
<1>2. mem \in Memory /\ Last(Walk(bottom, top, mem)) = top BY DEF RingInv, Intact
<1>3. Listed(UnreadAlong(Walk(bottom, top, mem), top, mem), Unread, bottom, mem)
  BY <1>1, <1>2, UnreadListed DEF Unread
<1>4. Box = UnreadAlong(Walk(bottom, top, mem), top, mem) BY <1>2 DEF Box
<1> QED BY <1>1, <1>3, <1>4 DEF Unread

(* ... and after a step.                                                 *)
LEMMA NewBoxListed ==
  ASSUME RingInv', Intact', bottom' \in Places, Upward(bottom', mem')
  PROVE  Listed(Box', Unread', bottom', mem')
<1>1. top' \in Places
  <2>1. top' \in Nat /\ top' + Hdr < Size BY DEF RingInv, Place, TopLeavesRoom
  <2>2. Size \in Nat /\ Hdr \in Nat /\ 0 < Hdr BY SizesAssumption
  <2>3. \A p \in Nat : p + Hdr < Size => p < Size BY <2>2
  <2>4. top' < Size BY <2>1, <2>3
  <2> QED BY <2>1, <2>2, <2>4 DEF Places
<1>2. mem' \in Memory /\ Last(Walk(bottom', top', mem')) = top' BY DEF RingInv, Intact
<1>3. Listed(UnreadAlong(Walk(bottom', top', mem'), top', mem'), Unread', bottom', mem')
  BY <1>1, <1>2, UnreadListed DEF Unread
<1>4. Box' = UnreadAlong(Walk(bottom', top', mem'), top', mem') BY <1>2 DEF Box
<1> QED BY <1>3, <1>4

(* A post that does not overrun the ring is a post of the mailbox.       *)
LEMMA PostMail ==
  ASSUME RingInv, Upward(bottom, mem), NEW msg \in Messages, EnqueMsg(msg)
  PROVE  Mail!Post(msg) \/ Overruns
<1> SUFFICES ASSUME ~Overruns PROVE Mail!Post(msg)
  OBVIOUS
<1>1. Intact /\ out' = out BY DEF EnqueMsg
<1>2. PICK at \in Places :
        /\ Intact' /\ bottom' = bottom /\ bottom \in Places
        /\ at \notin Unread /\ Unread' = Unread \cup {at} /\ mem'[at] = Header(msg)
        /\ \A p \in Unread : mem'[p] = mem[p] /\ Off(bottom, p) < Off(bottom, at)
  BY PostRing
<1>3. Upward(bottom', mem') BY <1>2, PostRing
<1>4. RingInv' BY PostKeepsRing
<1>5. Listed(Box, Unread, bottom, mem) /\ Unread \in SUBSET Places
  BY <1>1, BoxListed DEF Heads
<1>6. Listed(Box', Unread \cup {at}, bottom, mem') BY <1>2, <1>3, <1>4, NewBoxListed
<1>7. Listed(Box, Unread, bottom, mem')
  <2>1. \A p \in Unread : Off(bottom, bottom) <= Off(bottom, p) /\ mem'[p] = mem[p]
    <3>1. Off(bottom, bottom) = 0 /\ \A p \in Places : Off(bottom, p) \in Places BY <1>2, OffIs
    <3> QED BY <1>2, <1>5, <3>1, SizesAssumption DEF Places
  <2> QED BY <1>2, <1>5, <2>1, ListedFrom
<1>8. Listed(Append(Box, Message(mem'[at])), Unread \cup {at}, bottom, mem')
  BY <1>2, <1>5, <1>7, OneMoreListed
<1>9. Box' = Append(Box, Message(mem'[at]))
  <2>1. Unread \cup {at} \in SUBSET Places BY <1>5
  <2> QED BY <1>2, <1>6, <1>8, <2>1, OneList
<1>10. Message(mem'[at]) = msg
  <2>1. msg \in [id : Nat \ {0}, len : Nat] BY MessagesAssumption
  <2>2. Message(Header(msg)) = [id |-> msg.id, len |-> msg.len] BY DEF Message, Header
  <2> QED BY <1>2, <2>1, <2>2
<1> QED BY <1>1, <1>9, <1>10 DEF Mail!Post

(* What is left after a read is listed as it was.                        *)
LEMMA LeftListed ==
  ASSUME RingInv, Intact, Upward(bottom, mem), NEW read, Asks(read), ScanRing(Scan(read)),
         ~JoinsReturn, NEW x, Listed(x, Unread', bottom, mem)
  PROVE  Box' = x
<1>1. /\ Intact' /\ Upward(bottom', mem') /\ bottom' \in Places
      /\ Unread' = {p \in Unread : ~Scan(read).mem[p].read}
      /\ \A p \in Unread' : mem'[p] = mem[p] /\ Off(bottom, bottom') <= Off(bottom, p)
  BY ReadRing
<1>2. RingInv' BY ScanKeepsRing
<1>3. Unread \in SUBSET Places /\ bottom \in Places BY BoxListed DEF Heads
<1>4. Listed(Box', Unread', bottom', mem') BY <1>1, <1>2, NewBoxListed
<1>5. Unread' \in SUBSET Places BY <1>1, <1>3
<1>6. Listed(x, Unread', bottom', mem') BY <1>1, <1>3, <1>5, ListedFrom
<1> QED BY <1>1, <1>4, <1>5, <1>6, OneList

(* A read that finds nothing leaves the mail as it is.                   *)
LEMMA NothingTaken ==
  ASSUME RingInv, Intact, Upward(bottom, mem), NEW read, Asks(read), ScanRing(Scan(read)),
         Scan(read).found = NoMessage
  PROVE  Box' = Box \/ JoinsReturn
<1> SUFFICES ASSUME ~JoinsReturn PROVE Box' = Box
  OBVIOUS
<1>1. Unread' = {p \in Unread : ~Scan(read).mem[p].read} BY ReadRing
<1>2. Listed(Box, Unread, bottom, mem) /\ Unread \in SUBSET Places BY BoxListed DEF Heads
<1>3. \A p \in Unread : ~mem[p].read BY DEF Unread
<1>4. \A p \in Places : Scan(read).mem[p].read <=> mem[p].read BY ScanSound DEF Places
<1>5. Unread' = Unread BY <1>1, <1>2, <1>3, <1>4
<1> QED BY <1>2, <1>5, LeftListed

(* The place in the box of the message the read asks for.                *)
LEMMA OldestIs ==
  ASSUME NEW L \in Nat, NEW e, Lists(Box, L, e, Unread, bottom, mem), bottom \in Places,
         Unread \in SUBSET Heads(mem), NEW i \in 1 .. L, NEW read, Oldest(e[i], read)
  PROVE  /\ i \in DOMAIN Box /\ Mail!IsOldest(i, read.id) /\ Box[i] = Message(mem[e[i]])
<1>1. /\ e \in [1 .. L -> Unread]
      /\ \A j, k \in 1 .. L : j < k => Off(bottom, e[j]) < Off(bottom, e[k])
      /\ Box = [j \in 1 .. L |-> Message(mem[e[j]])]
  BY DEF Lists
<1>2. DOMAIN Box = 1 .. L /\ \A j \in 1 .. L : Box[j] = Message(mem[e[j]]) /\ Box[j].id = mem[e[j]].id
  BY <1>1 DEF Message
<1>3. ~Unasked(mem[e[i]], read.id)
      /\ \A p \in Heads(mem) : Off(bottom, p) < Off(bottom, e[i]) => Unasked(mem[p], read.id)
  BY DEF Oldest
<1>4. i \in Mail!Candidates(read.id) BY <1>2, <1>3 DEF Mail!Candidates, Mail!Asked, Unasked
<1>5. ASSUME NEW j \in Mail!Candidates(read.id), j < i PROVE FALSE
  <2>1. j \in 1 .. L /\ (read.id = 0 \/ mem[e[j]].id = read.id)
    BY <1>2, <1>5 DEF Mail!Candidates, Mail!Asked
  <2>2. e[j] \in Heads(mem) /\ ~mem[e[j]].read BY <1>1, <2>1 DEF Unread
  <2>3. Off(bottom, e[j]) < Off(bottom, e[i]) BY <1>1, <1>5, <2>1
  <2> QED BY <1>3, <2>1, <2>2, <2>3 DEF Unasked
<1>6. \A j \in Mail!Candidates(read.id) : j \in 1 .. L BY <1>2 DEF Mail!Candidates
<1>7. \A j \in Mail!Candidates(read.id) : i <= j BY <1>5, <1>6
<1> QED BY <1>2, <1>4, <1>7 DEF Mail!IsOldest

(* A read that returns: a message, nothing, or a message too long.       *)
LEMMA ReadMail ==
  ASSUME RingInv, Intact, Upward(bottom, mem), NEW read, Asks(read), ScanRing(Scan(read)),
         out' = Scan(read).found
  PROVE  \/ Mail!Take(read.id) \/ Mail!FindNothing(read.id) \/ Mail!FindTooBig(read.id, read.buffer)
         \/ JoinsReturn
<1> SUFFICES ASSUME ~JoinsReturn
             PROVE  Mail!Take(read.id) \/ Mail!FindNothing(read.id) \/ Mail!FindTooBig(read.id, read.buffer)
  OBVIOUS
<1> DEFINE s == Scan(read)
<1>1. Listed(Box, Unread, bottom, mem) /\ Unread \in SUBSET Heads(mem) /\ bottom \in Places
  BY BoxListed
<1>2. PICK L \in Nat : \E e : Lists(Box, L, e, Unread, bottom, mem) BY <1>1 DEF Listed
<1>3. PICK e : Lists(Box, L, e, Unread, bottom, mem) BY <1>2
<1>4. /\ e \in [1 .. L -> Unread] /\ \A p \in Unread : \E i \in 1 .. L : e[i] = p
      /\ Box = [j \in 1 .. L |-> Message(mem[e[j]])]
  BY <1>3 DEF Lists
<1>5. Answers(s, read) BY ScanSound DEF Sound
<1>6. \A f \in Heads(mem) : Oldest(f, read) => f \in Unread
  <2>1. Heads(mem) = Range(Walk(bottom, top, mem)) \ {top} BY Rounds
  <2> QED BY <2>1 DEF Oldest, Unasked, Unread
<1>7. CASE s.found # NoMessage
  <2>1. PICK f \in Heads(mem) :
          /\ Oldest(f, read) /\ s.found = [id |-> mem[f].id, len |-> mem[f].len]
          /\ \A p \in Heads(mem) : s.mem[p].read <=> (mem[p].read \/ p = f)
    BY <1>5, <1>7 DEF Answers
  <2>2. PICK i \in 1 .. L : e[i] = f BY <1>4, <1>6, <2>1
  <2>3. i \in DOMAIN Box /\ Mail!IsOldest(i, read.id) /\ Box[i] = Message(mem[f])
    BY <1>1, <1>3, <2>1, <2>2, OldestIs
  <2>4. out' = Box[i] BY <2>1, <2>3 DEF Message
  <2>5. Unread' = Unread \ {f}
    <3>1. Unread' = {p \in Unread : ~s.mem[p].read} BY ReadRing
    <3>2. \A p \in Unread : ~mem[p].read BY DEF Unread
    <3> QED BY <1>1, <2>1, <3>1, <3>2
  <2> DEFINE x == [j \in 1 .. Len(Box) - 1 |-> Box[IF j < i THEN j ELSE j + 1]]
  <2>6. Listed(x, Unread', bottom, mem)
    <3>1. Unread \in SUBSET Places BY <1>1 DEF Heads
    <3>2. Listed(x, Unread \ {e[i]}, bottom, mem) BY <1>1, <1>3, <3>1, OneLessListed
    <3> QED BY <2>2, <2>5, <3>2
  <2> HIDE DEF x
  <2>7. Box' = x BY <2>6, LeftListed
  <2>8. Box' = [j \in 1 .. Len(Box) - 1 |-> Box[IF j < i THEN j ELSE j + 1]] BY <2>7 DEF x
  <2> QED BY <2>3, <2>4, <2>8 DEF Mail!Take
<1>8. CASE s.found = NoMessage /\ s.big
  <2>1. Oldest(s.at, read) /\ read.buffer <= mem[s.at].len BY <1>5, <1>8 DEF Answers
  <2>2. s.at \in Unread BY <1>6, <2>1 DEF Oldest
  <2>3. PICK i \in 1 .. L : e[i] = s.at BY <1>4, <2>2
  <2>4. i \in DOMAIN Box /\ Mail!IsOldest(i, read.id) /\ Box[i] = Message(mem[s.at])
    BY <1>1, <1>3, <2>1, <2>3, OldestIs
  <2>5. read.buffer <= Box[i].len BY <2>1, <2>4 DEF Message
  <2>6. Box' = Box BY <1>8, NothingTaken
  <2> QED BY <1>8, <2>4, <2>5, <2>6 DEF Mail!FindTooBig
<1>9. CASE s.found = NoMessage /\ ~s.big
  <2>1. Scanned(s, read) BY ScanIs DEF RingInv, Place
  <2>2. \A p \in Unread : Unasked(mem[p], read.id) BY <1>9, <2>1 DEF Scanned
  <2>3. ASSUME NEW j \in Mail!Candidates(read.id) PROVE FALSE
    <3>1. j \in 1 .. L /\ Box[j].id = mem[e[j]].id /\ (read.id = 0 \/ Box[j].id = read.id)
      BY <1>4 DEF Mail!Candidates, Mail!Asked, Message
    <3>2. e[j] \in Unread /\ ~mem[e[j]].read BY <1>4, <3>1 DEF Unread
    <3> QED BY <2>2, <3>1, <3>2 DEF Unasked
  <2>4. Mail!Candidates(read.id) = {} BY <2>3
  <2>5. Box' = Box BY <1>9, NothingTaken
  <2> QED BY <1>9, <2>4, <2>5 DEF Mail!FindNothing
<1> QED BY <1>7, <1>8, <1>9

(* The invariant of the mail: the ring is as QInv says, an intact ring    *)
(* goes up, and who sleeps asked for an ID it may wait for.              *)
KeepInv ==
  /\ QInv /\ (Intact => Upward(bottom, mem))
  /\ pc \in [Threads -> {"idle", "asleep", "stuck"}] /\ Sleepers

LEMMA KeepInit == Init => KeepInv
<1> SUFFICES ASSUME Init PROVE KeepInv
  OBVIOUS
<1>1. /\ mem = [p \in 0 .. Size - 1 |-> NoHeader] /\ pc = [t \in Threads |-> "idle"]
  BY DEF Init
<1>2. Heads(mem) = {} BY <1>1 DEF Heads, Places
<1>3. Upward(bottom, mem) BY <1>2 DEF Upward
<1>4. Sleepers BY <1>1 DEF Sleepers
<1> QED BY <1>1, <1>3, <1>4, QInit DEF KeepInv

LEMMA KeepNext == KeepInv /\ [Next]_vars => KeepInv'
<1> SUFFICES ASSUME KeepInv, [Next]_vars PROVE KeepInv'
  OBVIOUS
<1>1. /\ QInv /\ RingInv /\ Calls /\ (Intact => Upward(bottom, mem)) /\ Sleepers
      /\ pc \in [Threads -> {"idle", "asleep", "stuck"}]
      /\ call \in [Threads -> [id : Nat, buffer : Nat]]
  BY DEF KeepInv, QInv, Calls
<1>2. QInv' BY <1>1, QNext
<1>3. ASSUME NEW read, Asks(read), Intact, ScanRing(Scan(read))
      PROVE  Intact' => Upward(bottom', mem')
  BY <1>1, <1>3, ReadRing
<1>4. ASSUME NEW msg \in Messages, EnqueMsg(msg) PROVE KeepInv'
  <2>1. Intact' => Upward(bottom', mem')
    <3>1. Intact BY <1>4 DEF EnqueMsg
    <3> QED BY <1>1, <1>4, <3>1, PostRing
  <2>2. pc' = pc /\ call' = call BY <1>4 DEF EnqueMsg
  <2> QED BY <1>1, <1>2, <2>1, <2>2 DEF KeepInv, Sleepers
<1>5. ASSUME NEW t \in Threads, NEW read \in Polls, Poll(t, read) PROVE KeepInv'
  <2>1. Intact /\ ScanRing(Scan(read)) /\ call' = call /\ pc' = [pc EXCEPT ![t] = "idle"]
    BY <1>5 DEF Poll, CanRead, Return
  <2>2. Intact' => Upward(bottom', mem') BY <1>3, <2>1, ReadsAsk
  <2>3. pc' \in [Threads -> {"idle", "asleep", "stuck"}] /\ Sleepers' BY <1>1, <2>1 DEF Sleepers
  <2> QED BY <1>2, <2>2, <2>3 DEF KeepInv
<1>6. ASSUME NEW t \in Threads, NEW read \in Blocks[t], ReadAtOnce(t, read) \/ ReadWithoutSlot(t, read)
      PROVE  KeepInv'
  <2>1. /\ Intact /\ ScanRing(Scan(read)) /\ call' = call
        /\ pc' = [pc EXCEPT ![t] = "idle"] \/ pc' = [pc EXCEPT ![t] = "stuck"]
    BY <1>6 DEF ReadAtOnce, ReadWithoutSlot, CanRead, Return
  <2>2. Intact' => Upward(bottom', mem') BY <1>3, <2>1, ReadsAsk
  <2>3. pc' \in [Threads -> {"idle", "asleep", "stuck"}] /\ Sleepers' BY <1>1, <2>1 DEF Sleepers
  <2> QED BY <1>2, <2>2, <2>3 DEF KeepInv
<1>7. ASSUME NEW t \in Threads, NEW read \in Blocks[t], ReadAndSleep(t, read) PROVE KeepInv'
  <2>1. /\ Intact /\ ScanRing(Scan(read)) /\ call' = [call EXCEPT ![t] = read]
        /\ pc' = [pc EXCEPT ![t] = "asleep"]
    BY <1>7 DEF ReadAndSleep, CanRead
  <2>2. Intact' => Upward(bottom', mem') BY <1>3, <2>1, ReadsAsk
  <2>3. pc' \in [Threads -> {"idle", "asleep", "stuck"}] /\ Sleepers' BY <1>1, <2>1 DEF Sleepers
  <2> QED BY <1>2, <2>2, <2>3 DEF KeepInv
<1>8. ASSUME NEW t \in Threads, Resume(t) PROVE KeepInv'
  <2>1. /\ Intact /\ ScanRing(Scan(call[t])) /\ call' = [call EXCEPT ![t] = NoCall]
        /\ pc' = [pc EXCEPT ![t] = "idle"]
    BY <1>8 DEF Resume, Return
  <2>2. Asks(call[t]) BY <1>1 DEF Asks
  <2>3. Intact' => Upward(bottom', mem') BY <1>3, <2>1, <2>2
  <2>4. pc' \in [Threads -> {"idle", "asleep", "stuck"}] /\ Sleepers' BY <1>1, <2>1 DEF Sleepers
  <2> QED BY <1>2, <2>3, <2>4 DEF KeepInv
<1>9. ASSUME UNCHANGED <<ring, call, pc>> PROVE KeepInv'
  <2>1. (Intact' <=> Intact) /\ bottom' = bottom /\ mem' = mem BY <1>1, <1>9, RingSame DEF ring
  <2>2. Sleepers' BY <1>1, <1>9 DEF Sleepers
  <2> QED BY <1>1, <1>2, <1>9, <2>1, <2>2 DEF KeepInv
<1>10. ASSUME NEW t \in Threads, WakeThread(t) PROVE KeepInv'
  BY <1>9, <1>10 DEF WakeThread
<1>11. ASSUME Stopped \/ UNCHANGED vars PROVE KeepInv'
  BY <1>9, <1>11 DEF Stopped, vars
<1> QED BY <1>4, <1>5, <1>6, <1>7, <1>8, <1>10, <1>11 DEF Next

(* Whatever the messages, the reads and the sizes are, the ring keeps its *)
(* messages as a mailbox does, but in the two steps that break it: posts *)
(* go behind the messages already there (After, the wrap and the exact   *)
(* fit), a read takes the oldest it asks for and no other, and says that *)
(* there is none, or that it is too long, only when this is so.          *)
THEOREM MailKept == Spec => KeepsMessages
<1> DEFINE Step == Mail!Next \/ Overruns \/ JoinsReturn
<1>1. ASSUME KeepInv, [Next]_vars PROVE [Step]_<<Box, out>>
  <2>1. /\ RingInv /\ (Intact => Upward(bottom, mem)) /\ Sleepers
        /\ call \in [Threads -> [id : Nat, buffer : Nat]]
    BY <1>1 DEF KeepInv, QInv, Calls
  <2>2. ASSUME NEW msg \in Messages, EnqueMsg(msg) PROVE Step
    <3>1. Intact BY <2>2 DEF EnqueMsg
    <3>2. Mail!Post(msg) \/ Overruns BY <2>1, <2>2, <3>1, PostMail
    <3> QED BY <3>2 DEF Mail!Next
  <2>3. ASSUME NEW read \in Reads, Intact, ScanRing(Scan(read)), out' = Scan(read).found PROVE Step
    <3>1. Asks(read) BY ReadsAsk DEF Reads
    <3>2. read.id \in Ids /\ read.buffer \in {r.buffer : r \in Reads} BY DEF Ids
    <3>3. \/ Mail!Take(read.id) \/ Mail!FindNothing(read.id) \/ Mail!FindTooBig(read.id, read.buffer)
          \/ JoinsReturn
      BY <2>1, <2>3, <3>1, ReadMail
    <3> QED BY <3>2, <3>3 DEF Mail!Next
  <2>4. ASSUME NEW read \in Reads, Intact, ScanRing(Scan(read)), Scan(read).found = NoMessage, out' = out
        PROVE  [Step]_<<Box, out>>
    <3>1. Asks(read) BY ReadsAsk DEF Reads
    <3>2. Box' = Box \/ JoinsReturn BY <2>1, <2>4, <3>1, NothingTaken
    <3> QED BY <2>4, <3>2
  <2>5. ASSUME NEW t \in Threads, NEW read \in Polls, Poll(t, read) PROVE Step
    <3>1. read \in Reads BY DEF Reads
    <3>2. Intact /\ ScanRing(Scan(read)) /\ out' = Scan(read).found BY <2>5 DEF Poll, CanRead, Return
    <3> QED BY <2>3, <3>1, <3>2
  <2>6. ASSUME NEW t \in Threads, NEW read \in Blocks[t], ReadAtOnce(t, read) PROVE Step
    <3>1. read \in Reads BY DEF Reads
    <3>2. Intact /\ ScanRing(Scan(read)) /\ out' = Scan(read).found BY <2>6 DEF ReadAtOnce, CanRead, Return
    <3> QED BY <2>3, <3>1, <3>2
  <2>7. ASSUME NEW t \in Threads, NEW read \in Blocks[t], ReadAndSleep(t, read) \/ ReadWithoutSlot(t, read)
        PROVE  [Step]_<<Box, out>>
    <3>1. read \in Reads BY DEF Reads
    <3>2. Intact /\ ScanRing(Scan(read)) /\ Scan(read).found = NoMessage /\ out' = out
      BY <2>7 DEF ReadAndSleep, ReadWithoutSlot, CanRead
    <3> QED BY <2>4, <3>1, <3>2
  <2>8. ASSUME NEW t \in Threads, Resume(t) PROVE Step
    <3>1. Intact /\ pc[t] = "asleep" /\ ScanRing(Scan(call[t])) /\ out' = Scan(call[t]).found
      BY <2>8 DEF Resume, Return
    <3>2. call[t] \in Reads BY <2>1, <3>1 DEF Sleepers, Reads
    <3> QED BY <2>3, <3>1, <3>2
  <2>9. ASSUME UNCHANGED <<ring, out>> PROVE UNCHANGED <<Box, out>>
    <3>1. bottom' = bottom /\ top' = top /\ mem' = mem /\ out' = out BY <2>9 DEF ring
    <3> QED BY <3>1 DEF Box
  <2>10. ASSUME NEW t \in Threads, WakeThread(t) PROVE UNCHANGED <<Box, out>>
    BY <2>9, <2>10 DEF WakeThread
  <2>11. ASSUME Stopped \/ UNCHANGED vars PROVE UNCHANGED <<Box, out>>
    BY <2>9, <2>11 DEF Stopped, vars
  <2> HIDE DEF Step
  <2> QED BY <1>1, <2>2, <2>5, <2>6, <2>7, <2>8, <2>10, <2>11 DEF Next
<1> QED BY <1>1, KeepInit, KeepNext, PTL DEF Spec, KeepsMessages
=============================================================================
