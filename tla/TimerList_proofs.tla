------------------------- MODULE TimerList_proofs -------------------------
(***************************************************************************)
(* Proofs about TimerList, for any number of timers, delays, frequencies   *)
(* and any end of time: the chain of delays is a queue of deadlines        *)
(* (ImplementsQueue), the sleep is bounded (OversleepBound), a pass ends   *)
(* (PassEnds), and no timer catches up (NoCatchUp).                        *)
(*                                                                         *)
(* The deadline of a listed timer is a sum over the timers before it, so   *)
(* the first half of the module is about sums: SumTo by recursion, and     *)
(* what InsertAt, RemoveAt and Tail do to a sequence and to its sums.  The *)
(* steps are then summed up in two facts about (timer, deadline) pairs:    *)
(* Kept, no step gives anybody a new deadline, and Placed, but for u.      *)
(***************************************************************************)
EXTENDS TimerList, WellFoundedInduction, TLAPS

Less == {ss \in Nat \X Nat : ss[1] < ss[2]}

LEMMA LessWellFounded == IsWellFoundedOn(Less, Nat)
BY NatLessThanWellFounded DEF OpToRel, Less

LEMMA NatMinimum ==
  ASSUME NEW T \in SUBSET Nat, T # {}
  PROVE  \E x \in T : \A y \in T : x <= y
<1>1. PICK x \in T : \A y \in T : ~ (<<y, x>> \in Less)
  BY LessWellFounded, WFMin
<1>2. ASSUME NEW y \in T, y < x PROVE FALSE
  <2>1. <<y, x>> \in Nat \X Nat /\ <<y, x>>[1] = y /\ <<y, x>>[2] = x OBVIOUS
  <2>2. <<y, x>> \in Less BY <2>1, <1>2 DEF Less
  <2> QED BY <1>1, <2>2
<1> QED BY <1>2

LEMMA NatSetInduction ==
  ASSUME NEW S, 0 \in S, \A n \in Nat : n \in S => n + 1 \in S
  PROVE  Nat \subseteq S
<1> SUFFICES ASSUME Nat \ S # {} PROVE FALSE
  OBVIOUS
<1>1. PICK n \in Nat \ S : \A m \in Nat \ S : n <= m BY NatMinimum
<1>2. n # 0 OBVIOUS
<1>3. n - 1 \in Nat /\ n - 1 \in S BY <1>1, <1>2
<1> QED BY <1>3


----------------------------------------------------------------------------
(* The sums of the delays of a list, with FoldLeft expanded: it folds over *)
(* the set of the places, from the greatest one down.                      *)

LEMMA MaxIs ==
  ASSUME NEW n \in Nat, NEW s \in SUBSET (1 .. n), n \in s
  PROVE  Max(s) = n
<1>1. \A y \in s : n >= y OBVIOUS
<1>2. \A x \in s : (\A y \in s : x >= y) => x = n OBVIOUS
<1> QED BY <1>1, <1>2 DEF Max

LEMMA MaxIn ==
  ASSUME NEW n \in Nat, NEW s \in SUBSET (1 .. n), s # {}
  PROVE  Max(s) \in s
<1> DEFINE below == {n - y : y \in s}
<1>1. below \in SUBSET Nat OBVIOUS
<1>2. below # {}
  <2>1. PICK y \in s : TRUE OBVIOUS
  <2>2. n - y \in below OBVIOUS
  <2> QED BY <2>2
<1>3. PICK x \in below : \A z \in below : x <= z
  <2> HIDE DEF below
  <2> QED BY <1>1, <1>2, NatMinimum
<1>4. PICK w \in s : x = n - w OBVIOUS
<1>5. \A y \in s : n - y \in below OBVIOUS
<1>6. \A y \in s : w >= y
  <2> TAKE y \in s
  <2>1. n - w <= n - y BY <1>3, <1>4, <1>5
  <2> QED BY <2>1
<1> QED BY <1>4, <1>6 DEF Max

(* g[s] is the sum of the delays d of the timers of l at the places s. *)
Sums(g, l, d, n) ==
  g = [s \in SUBSET (1 .. n) |-> IF s = {} THEN 0 ELSE g[s \ {Max(s)}] + d[l[Max(s)]]]

LEMMA SumsExist ==
  ASSUME NEW l, NEW d, NEW N \in Nat, \A i \in 1 .. N : d[l[i]] \in Int
  PROVE  \E g \in [SUBSET (1 .. N) -> Int] : Sums(g, l, d, N)
<1> DEFINE Has(n) == \E g \in [SUBSET (1 .. n) -> Int] : Sums(g, l, d, n)
           Good == {n \in Nat : n <= N => Has(n)}
<1>1. Has(0)
  <2> DEFINE g == [s \in SUBSET (1 .. 0) |-> 0]
  <2>1. \A s \in SUBSET (1 .. 0) : s = {} OBVIOUS
  <2>2. g = [s \in SUBSET (1 .. 0) |-> IF s = {} THEN 0 ELSE g[s \ {Max(s)}] + d[l[Max(s)]]]
    BY <2>1
  <2>3. g \in [SUBSET (1 .. 0) -> Int] OBVIOUS
  <2> HIDE DEF g
  <2> QED BY <2>2, <2>3 DEF Sums
<1>2. ASSUME NEW n \in Nat, n + 1 <= N, Has(n) PROVE Has(n + 1)
  <2>1. PICK g \in [SUBSET (1 .. n) -> Int] : Sums(g, l, d, n) BY <1>2
  <2> DEFINE new == d[l[n + 1]]
             h == [s \in SUBSET (1 .. n + 1) |->
                     IF n + 1 \in s THEN g[s \ {n + 1}] + new ELSE g[s]]
  <2>2. new \in Int BY <1>2
  <2>3. /\ \A s \in SUBSET (1 .. n + 1) : s \ {n + 1} \in SUBSET (1 .. n)
        /\ \A s \in SUBSET (1 .. n + 1) : n + 1 \notin s => s \in SUBSET (1 .. n)
        /\ \A s \in SUBSET (1 .. n) : s \in SUBSET (1 .. n + 1) /\ n + 1 \notin s
    OBVIOUS
  <2>4. h \in [SUBSET (1 .. n + 1) -> Int]
    <3> HIDE DEF new
    <3> QED BY <2>2, <2>3
  <2>5. ASSUME NEW s \in SUBSET (1 .. n + 1)
        PROVE  h[s] = IF s = {} THEN 0 ELSE h[s \ {Max(s)}] + d[l[Max(s)]]
    <3>1. CASE n + 1 \in s
      <4>1. Max(s) = n + 1 BY <3>1, MaxIs
      <4>2. h[s \ {n + 1}] = g[s \ {n + 1}] BY <2>3
      <4> QED BY <3>1, <4>1, <4>2
    <3>2. CASE n + 1 \notin s
      <4>1. s \in SUBSET (1 .. n) BY <2>3, <3>2
      <4>2. h[s] = g[s] BY <3>2
      <4>3. g[s] = IF s = {} THEN 0 ELSE g[s \ {Max(s)}] + d[l[Max(s)]]
        BY <2>1, <4>1, Zenon DEF Sums
      <4>4. s \ {Max(s)} \in SUBSET (1 .. n) BY <4>1
      <4>5. h[s \ {Max(s)}] = g[s \ {Max(s)}] BY <2>3, <4>4
      <4> HIDE DEF h
      <4> QED BY <4>2, <4>3, <4>5
    <3> QED BY <3>1, <3>2
  <2> HIDE DEF h
  <2>6. h = [s \in SUBSET (1 .. n + 1) |-> IF s = {} THEN 0 ELSE h[s \ {Max(s)}] + d[l[Max(s)]]]
    BY <2>4, <2>5
  <2> QED BY <2>4, <2>6 DEF Sums
<1> HIDE DEF Has
<1>3. 0 \in Good BY <1>1
<1>4. ASSUME NEW n \in Nat, n \in Good PROVE n + 1 \in Good
  <2>1. n + 1 <= N => Has(n + 1) BY <1>2, <1>4
  <2> QED BY <2>1
<1>5. Nat \subseteq Good
  <2> HIDE DEF Good
  <2> QED BY <1>3, <1>4, NatSetInduction
<1>6. Has(N) BY <1>5
<1> QED BY <1>6 DEF Has

(* A sum of the first places is one step from the one before it. *)
LEMMA SumsStep ==
  ASSUME NEW l, NEW d, NEW n \in Nat, NEW g, Sums(g, l, d, n), NEW k \in Nat, k <= n
  PROVE  /\ k = 0 => g[1 .. k] = 0
         /\ k > 0 => g[1 .. k] = g[1 .. k - 1] + d[l[k]]
<1>1. 1 .. k \in SUBSET (1 .. n) OBVIOUS
<1>2. g[1 .. k] = IF 1 .. k = {} THEN 0 ELSE g[(1 .. k) \ {Max(1 .. k)}] + d[l[Max(1 .. k)]]
  BY <1>1, Zenon DEF Sums
<1>3. ASSUME k > 0 PROVE 1 .. k # {} /\ Max(1 .. k) = k /\ (1 .. k) \ {k} = 1 .. k - 1
  <2>1. k \in 1 .. k BY <1>3
  <2>2. Max(1 .. k) = k BY <2>1, MaxIs
  <2>3. (1 .. k) \ {k} = 1 .. k - 1 BY <1>3
  <2> QED BY <2>1, <2>2, <2>3, Zenon
<1>4. k = 0 => 1 .. k = {} OBVIOUS
<1> QED BY <1>2, <1>3, <1>4

LEMMA SumsZero ==
  ASSUME NEW l, NEW d, NEW n \in Nat, NEW g, Sums(g, l, d, n)
  PROVE  g[1 .. 0] = 0
<1>1. 1 .. 0 \in SUBSET (1 .. n) /\ 1 .. 0 = {} OBVIOUS
<1>2. g[1 .. 0] = IF 1 .. 0 = {} THEN 0 ELSE g[(1 .. 0) \ {Max(1 .. 0)}] + d[l[Max(1 .. 0)]]
  BY <1>1, Zenon DEF Sums
<1> QED BY <1>1, <1>2

LEMMA SumsSame ==
  ASSUME NEW l, NEW d, NEW n \in Nat, NEW m \in Nat, NEW f, NEW g,
         Sums(f, l, d, n), Sums(g, l, d, m), NEW k \in Nat, k <= n, k <= m
  PROVE  f[1 .. k] = g[1 .. k]
<1> DEFINE Good == {j \in Nat : j <= k => f[1 .. j] = g[1 .. j]}
<1>1. 0 \in Good
  <2>1. f[1 .. 0] = 0 /\ g[1 .. 0] = 0 BY SumsZero
  <2> QED BY <2>1
<1>2. ASSUME NEW j \in Nat, j \in Good PROVE j + 1 \in Good
  <2> SUFFICES ASSUME j + 1 <= k PROVE f[1 .. j + 1] = g[1 .. j + 1]
    OBVIOUS
  <2>1. j + 1 \in Nat /\ j + 1 <= n /\ j + 1 <= m /\ j + 1 > 0 /\ (j + 1) - 1 = j OBVIOUS
  <2>2. f[1 .. j + 1] = f[1 .. (j + 1) - 1] + d[l[j + 1]] BY <2>1, SumsStep
  <2>3. g[1 .. j + 1] = g[1 .. (j + 1) - 1] + d[l[j + 1]] BY <2>1, SumsStep
  <2>4. f[1 .. j] = g[1 .. j] BY <1>2
  <2> QED BY <2>1, <2>2, <2>3, <2>4
<1>3. Nat \subseteq Good
  <2> HIDE DEF Good
  <2> QED BY <1>1, <1>2, NatSetInduction
<1> QED BY <1>3

LEMMA SumToIs ==
  ASSUME NEW l \in Seq(Timers), NEW d \in [Timers -> Int], NEW n \in Nat, n <= Len(l)
  PROVE  \E g \in [SUBSET (1 .. n) -> Int] : Sums(g, l, d, n) /\ SumTo(l, d, n) = g[1 .. n]
<1>1. \A i \in 1 .. n : d[l[i]] \in Int OBVIOUS
<1>2. PICK g \in [SUBSET (1 .. n) -> Int] : Sums(g, l, d, n) BY <1>1, SumsExist
<1> DEFINE s == SubSeq(l, 1, n)
           OfS(f) == f = [t \in SUBSET (1 .. n) |->
                            IF t = {} THEN 0 ELSE f[t \ {Max(t)}] + d[s[Max(t)]]]
           c == CHOOSE f : OfS(f)
<1>3. DOMAIN s = 1 .. n /\ \A i \in 1 .. n : s[i] = l[i] OBVIOUS
<1>4. SumTo(l, d, n) = c[1 .. n] BY <1>3 DEF SumTo, FoldLeft, MapThenFoldSet
<1>5. \A f : OfS(f) <=> Sums(f, l, d, n)
  <2> TAKE f
  <2> DEFINE a == [t \in SUBSET (1 .. n) |-> IF t = {} THEN 0 ELSE f[t \ {Max(t)}] + d[s[Max(t)]]]
             b == [t \in SUBSET (1 .. n) |-> IF t = {} THEN 0 ELSE f[t \ {Max(t)}] + d[l[Max(t)]]]
  <2>1. \A t \in SUBSET (1 .. n) : t # {} => s[Max(t)] = l[Max(t)]
    <3> HIDE DEF s
    <3> QED BY <1>3, MaxIn
  <2> HIDE DEF s
  <2>2. a = b BY <2>1
  <2> QED BY <2>2 DEF Sums
<1> HIDE DEF OfS
<1>6. OfS(c) BY <1>2, <1>5
<1> HIDE DEF c
<1>7. c[1 .. n] = g[1 .. n] BY <1>2, <1>5, <1>6, SumsSame
<1> QED BY <1>2, <1>4, <1>7

(* The sum up to a place, by recursion. *)
LEMMA SumToStep ==
  ASSUME NEW l \in Seq(Timers), NEW d \in [Timers -> Int]
  PROVE  /\ SumTo(l, d, 0) = 0
         /\ \A n \in 1 .. Len(l) : SumTo(l, d, n) = SumTo(l, d, n - 1) + d[l[n]]
         /\ \A n \in 0 .. Len(l) : SumTo(l, d, n) \in Int
<1>1. \A n \in 0 .. Len(l) : SumTo(l, d, n) \in Int
  <2> TAKE n \in 0 .. Len(l)
  <2>1. PICK g \in [SUBSET (1 .. n) -> Int] : Sums(g, l, d, n) /\ SumTo(l, d, n) = g[1 .. n]
    <3>1. n \in Nat /\ n <= Len(l) OBVIOUS
    <3> QED BY <3>1, SumToIs
  <2>2. 1 .. n \in SUBSET (1 .. n) OBVIOUS
  <2> QED BY <2>1, <2>2
<1>2. SumTo(l, d, 0) = 0
  <2>1. 0 <= Len(l) /\ 0 <= 0 OBVIOUS
  <2>2. PICK g : Sums(g, l, d, 0) /\ SumTo(l, d, 0) = g[1 .. 0] BY <2>1, SumToIs
  <2> QED BY <2>1, <2>2, SumsStep
<1>3. ASSUME NEW n \in 1 .. Len(l) PROVE SumTo(l, d, n) = SumTo(l, d, n - 1) + d[l[n]]
  <2>1. n \in Nat /\ n - 1 \in Nat /\ n <= Len(l) /\ n - 1 <= Len(l) /\ n > 0 /\ n - 1 <= n OBVIOUS
  <2>2. PICK g : Sums(g, l, d, n) /\ SumTo(l, d, n) = g[1 .. n] BY <2>1, SumToIs
  <2>3. PICK f : Sums(f, l, d, n - 1) /\ SumTo(l, d, n - 1) = f[1 .. n - 1]
    <3> DEFINE m == n - 1
    <3>1. m \in Nat /\ m <= Len(l) BY <2>1
    <3> HIDE DEF m
    <3>2. \E f : Sums(f, l, d, m) /\ SumTo(l, d, m) = f[1 .. m] BY <3>1, SumToIs
    <3> QED BY <3>2 DEF m
  <2>4. g[1 .. n] = g[1 .. n - 1] + d[l[n]] BY <2>1, <2>2, SumsStep
  <2>5. g[1 .. n - 1] = f[1 .. n - 1]
    <3>1. n - 1 <= n - 1 BY <2>1
    <3> QED BY <2>1, <2>2, <2>3, <3>1, SumsSame
  <2> QED BY <2>2, <2>3, <2>4, <2>5
<1> QED BY <1>1, <1>2, <1>3

----------------------------------------------------------------------------
(* What InsertAt and RemoveAt do to the elements, and equal sums.          *)

LEMMA ConcatIs ==
  ASSUME NEW S, NEW s \in Seq(S), NEW t \in Seq(S)
  PROVE  /\ s \o t \in Seq(S) /\ Len(s \o t) = Len(s) + Len(t)
         /\ \A j \in 1 .. Len(s) : (s \o t)[j] = s[j]
         /\ \A j \in Len(s) + 1 .. Len(s) + Len(t) : (s \o t)[j] = t[j - Len(s)]
OBVIOUS

(* r is s with e put in at i. *)
PutIn(S, r, s, i, e) ==
  /\ r \in Seq(S) /\ Len(r) = Len(s) + 1
  /\ \A j \in 1 .. i - 1 : r[j] = s[j]
  /\ r[i] = e
  /\ \A j \in i .. Len(s) : r[j + 1] = s[j]

LEMMA InsertAtIs ==
  ASSUME NEW S, NEW s \in Seq(S), NEW i \in 1 .. Len(s) + 1, NEW e \in S
  PROVE  PutIn(S, InsertAt(s, i, e), s, i, e)
<1> DEFINE a == SubSeq(s, 1, i - 1)
           b == <<e>>
           c == SubSeq(s, i, Len(s))
<1>1. a \in Seq(S) /\ Len(a) = i - 1 /\ \A j \in 1 .. i - 1 : a[j] = s[j] OBVIOUS
<1>2. b \in Seq(S) /\ Len(b) = 1 /\ b[1] = e OBVIOUS
<1>3. c \in Seq(S) /\ Len(c) = Len(s) - i + 1 /\ \A j \in i .. Len(s) : c[j - i + 1] = s[j] OBVIOUS
<1>4. InsertAt(s, i, e) = (a \o b) \o c BY DEF InsertAt
<1> HIDE DEF a, b, c
<1> DEFINE ab == a \o b
<1>5. /\ ab \in Seq(S) /\ Len(ab) = i /\ ab[i] = e
      /\ \A j \in 1 .. i - 1 : ab[j] = s[j]
  <2>1. /\ ab \in Seq(S) /\ Len(ab) = Len(a) + Len(b)
        /\ \A j \in 1 .. Len(a) : ab[j] = a[j]
        /\ \A j \in Len(a) + 1 .. Len(a) + Len(b) : ab[j] = b[j - Len(a)]
    BY <1>1, <1>2, ConcatIs
  <2> HIDE DEF ab
  <2>2. i \in Len(a) + 1 .. Len(a) + Len(b) /\ i - Len(a) = 1 BY <1>1, <1>2
  <2>3. ab[i] = b[1] BY <2>1, <2>2
  <2> QED BY <1>1, <1>2, <2>1, <2>3
<1>6. InsertAt(s, i, e) = ab \o c BY <1>4
<1> HIDE DEF ab
<1>7. /\ ab \o c \in Seq(S) /\ Len(ab \o c) = Len(s) + 1
      /\ \A j \in 1 .. i : (ab \o c)[j] = ab[j]
      /\ \A j \in i .. Len(s) : (ab \o c)[j + 1] = c[j - i + 1]
  <2> DEFINE r == ab \o c
  <2>1. /\ r \in Seq(S) /\ Len(r) = Len(ab) + Len(c)
        /\ \A j \in 1 .. Len(ab) : r[j] = ab[j]
        /\ \A j \in Len(ab) + 1 .. Len(ab) + Len(c) : r[j] = c[j - Len(ab)]
    BY <1>3, <1>5, ConcatIs
  <2> HIDE DEF r
  <2>2. ASSUME NEW j \in i .. Len(s) PROVE r[j + 1] = c[j - i + 1]
    <3>1. j + 1 \in Len(ab) + 1 .. Len(ab) + Len(c) /\ (j + 1) - Len(ab) = j - i + 1
      BY <1>3, <1>5
    <3> QED BY <2>1, <3>1
  <2> QED BY <1>3, <1>5, <2>1, <2>2 DEF r
<1>8. /\ \A j \in 1 .. i - 1 : (ab \o c)[j] = s[j]
      /\ (ab \o c)[i] = e
      /\ \A j \in i .. Len(s) : (ab \o c)[j + 1] = s[j]
  BY <1>3, <1>5, <1>7
<1> QED BY <1>6, <1>7, <1>8 DEF PutIn

LEMMA RemoveAtIs ==
  ASSUME NEW S, NEW s \in Seq(S), NEW i \in 1 .. Len(s)
  PROVE  /\ RemoveAt(s, i) \in Seq(S) /\ Len(RemoveAt(s, i)) = Len(s) - 1
         /\ \A j \in 1 .. i - 1 : RemoveAt(s, i)[j] = s[j]
         /\ \A j \in i .. Len(s) - 1 : RemoveAt(s, i)[j] = s[j + 1]
<1> DEFINE a == SubSeq(s, 1, i - 1)
           c == SubSeq(s, i + 1, Len(s))
<1>1. a \in Seq(S) /\ Len(a) = i - 1 /\ \A j \in 1 .. i - 1 : a[j] = s[j] OBVIOUS
<1>2. c \in Seq(S) /\ Len(c) = Len(s) - i /\ \A j \in i .. Len(s) - 1 : c[j - i + 1] = s[j + 1]
  OBVIOUS
<1>3. RemoveAt(s, i) = a \o c BY DEF RemoveAt
<1> HIDE DEF a, c
<1>4. /\ a \o c \in Seq(S) /\ Len(a \o c) = Len(s) - 1
      /\ \A j \in 1 .. i - 1 : (a \o c)[j] = a[j]
      /\ \A j \in i .. Len(s) - 1 : (a \o c)[j] = c[j - i + 1]
  <2> DEFINE r == a \o c
  <2>1. /\ r \in Seq(S) /\ Len(r) = Len(a) + Len(c)
        /\ \A j \in 1 .. Len(a) : r[j] = a[j]
        /\ \A j \in Len(a) + 1 .. Len(a) + Len(c) : r[j] = c[j - Len(a)]
    BY <1>1, <1>2, ConcatIs
  <2> HIDE DEF r
  <2>2. ASSUME NEW j \in i .. Len(s) - 1 PROVE r[j] = c[j - i + 1]
    <3>1. j \in Len(a) + 1 .. Len(a) + Len(c) /\ j - Len(a) = j - i + 1
      BY <1>1, <1>2
    <3> QED BY <2>1, <3>1
  <2> QED BY <1>1, <1>2, <2>1, <2>2, SMTT(40) DEF r
<1> QED BY <1>1, <1>2, <1>3, <1>4

Injective(l) == \A i, j \in DOMAIN l : l[i] = l[j] => i = j

LEMMA RemoveFirstIs ==
  ASSUME NEW S, NEW s \in Seq(S), Injective(s), NEW i \in 1 .. Len(s)
  PROVE  RemoveFirst(s, s[i]) = RemoveAt(s, i)
<1> DEFINE places == {j \in 1 .. Len(s) : s[j] = s[i]}
<1>1. places = {i} BY DEF Injective
<1>2. Min(places) = i
  <2> HIDE DEF places
  <2> QED BY <1>1 DEF Min
<1>3. SelectInSeq(s, LAMBDA v : v = s[i]) = Min(places) BY <1>1 DEF SelectInSeq
<1>4. \E j \in 1 .. Len(s) : s[j] = s[i] OBVIOUS
<1> QED BY <1>2, <1>3, <1>4 DEF RemoveFirst

(* Sums that start from equal ones, up to c, over n equal delays. *)
SameDelays(l, d, a, m, e, b, n, c) ==
  /\ l \in Seq(Timers) /\ d \in [Timers -> Int]
  /\ m \in Seq(Timers) /\ e \in [Timers -> Int]
  /\ a \in Nat /\ b \in Nat /\ n \in Nat /\ c \in Int
  /\ a + n <= Len(l) /\ b + n <= Len(m)
  /\ SumTo(m, e, b) = SumTo(l, d, a) + c
  /\ \A j \in 1 .. n : e[m[b + j]] = d[l[a + j]]

LEMMA SumsFrom ==
  ASSUME NEW l, NEW d, NEW a, NEW m, NEW e, NEW b, NEW n, NEW c,
         SameDelays(l, d, a, m, e, b, n, c)
  PROVE  \A j \in 0 .. n : SumTo(m, e, b + j) = SumTo(l, d, a + j) + c
<1>0. /\ l \in Seq(Timers) /\ d \in [Timers -> Int]
      /\ m \in Seq(Timers) /\ e \in [Timers -> Int]
      /\ a \in Nat /\ b \in Nat /\ n \in Nat /\ c \in Int
      /\ a + n <= Len(l) /\ b + n <= Len(m)
      /\ SumTo(m, e, b) = SumTo(l, d, a) + c
      /\ \A j \in 1 .. n : e[m[b + j]] = d[l[a + j]]
  BY Zenon DEF SameDelays
<1> DEFINE Good == {j \in Nat : j <= n => SumTo(m, e, b + j) = SumTo(l, d, a + j) + c}
<1>1. 0 \in Good BY <1>0
<1>2. ASSUME NEW j \in Nat, j \in Good PROVE j + 1 \in Good
  <2> SUFFICES ASSUME j + 1 <= n
               PROVE  SumTo(m, e, b + (j + 1)) = SumTo(l, d, a + (j + 1)) + c
    OBVIOUS
  <2> DEFINE x == a + (j + 1)
             y == b + (j + 1)
  <2>1. x \in 1 .. Len(l) /\ y \in 1 .. Len(m) /\ x - 1 = a + j /\ y - 1 = b + j
        /\ x - 1 \in 0 .. Len(l) /\ y - 1 \in 0 .. Len(m)
    BY <1>0
  <2>2. e[m[y]] = d[l[x]]
    <3>1. j + 1 \in 1 .. n BY <1>0
    <3> QED BY <1>0, <3>1, Zenon
  <2>3. d[l[x]] \in Int BY <1>0, <2>1, SMTT(40)
  <2> HIDE DEF x, y
  <2>4. SumTo(l, d, x) = SumTo(l, d, x - 1) + d[l[x]] BY <1>0, <2>1, SumToStep
  <2>5. SumTo(m, e, y) = SumTo(m, e, y - 1) + e[m[y]] BY <1>0, <2>1, SumToStep
  <2>6. SumTo(m, e, y - 1) = SumTo(l, d, x - 1) + c BY <1>0, <1>2, <2>1
  <2>7. SumTo(l, d, x - 1) \in Int BY <1>0, <2>1, SumToStep
  <2>8. SumTo(m, e, y) = SumTo(l, d, x) + c
    <3>1. PICK p \in Int, q \in Int : p = SumTo(l, d, x - 1) /\ q = d[l[x]] BY <2>3, <2>7
    <3>2. SumTo(m, e, y) = (p + c) + q BY <1>0, <2>2, <2>5, <2>6, <3>1
    <3>3. SumTo(l, d, x) = p + q BY <2>4, <3>1
    <3> QED BY <1>0, <3>2, <3>3
  <2> QED BY <2>8 DEF x, y
<1>3. Nat \subseteq Good
  <2> HIDE DEF Good
  <2> QED BY <1>1, <1>2, NatSetInduction
<1> QED BY <1>3

(* No delay is negative, and so the sums grow. *)
LEMMA SumsGrow ==
  ASSUME NEW l \in Seq(Timers), NEW d \in [Timers -> Nat], NEW i \in 0 .. Len(l), NEW j \in 0 .. Len(l),
         i <= j
  PROVE  SumTo(l, d, i) <= SumTo(l, d, j)
<1> DEFINE Good == {k \in Nat : i + k <= Len(l) => SumTo(l, d, i) <= SumTo(l, d, i + k)}
<1>0. d \in [Timers -> Int] OBVIOUS
<1>1. 0 \in Good
  <2>1. SumTo(l, d, i) \in Int BY <1>0, SumToStep
  <2> QED BY <2>1
<1>2. ASSUME NEW k \in Nat, k \in Good PROVE k + 1 \in Good
  <2> SUFFICES ASSUME i + (k + 1) <= Len(l) PROVE SumTo(l, d, i) <= SumTo(l, d, i + (k + 1))
    OBVIOUS
  <2> DEFINE x == i + (k + 1)
  <2>1. x \in 1 .. Len(l) /\ x - 1 = i + k /\ x - 1 \in 0 .. Len(l) OBVIOUS
  <2>2. d[l[x]] \in Nat BY <2>1
  <2> HIDE DEF x
  <2>3. SumTo(l, d, x) = SumTo(l, d, x - 1) + d[l[x]] BY <1>0, <2>1, SumToStep
  <2>4. SumTo(l, d, x - 1) \in Int /\ SumTo(l, d, i) \in Int BY <1>0, <2>1, SumToStep
  <2>5. SumTo(l, d, i) <= SumTo(l, d, x - 1) BY <1>2, <2>1
  <2>6. SumTo(l, d, i) <= SumTo(l, d, x) BY <2>2, <2>3, <2>4, <2>5
  <2> QED BY <2>6 DEF x
<1>3. Nat \subseteq Good
  <2> HIDE DEF Good
  <2> QED BY <1>1, <1>2, NatSetInduction
<1>4. PICK k \in Nat : i + k = j
  <2>1. j - i \in Nat /\ i + (j - i) = j OBVIOUS
  <2> QED BY <2>1
<1>5. k \in Good BY <1>3
<1>6. SumTo(l, d, i) <= SumTo(l, d, i + k) BY <1>4, <1>5
<1> QED BY <1>4, <1>6

----------------------------------------------------------------------------
(* DoInsertTimer and DoRemoveTimer on a list without negative delays.      *)

(* u has the place i, between the timers that are due no later and those   *)
(* that are due later, whose sums stay.                                    *)
InsertedAt(i, l, d, u, delay) ==
  /\ list' \in Seq(Timers) /\ Injective(list') /\ Len(list') = Len(l) + 1
  /\ list'[i] = u
  /\ \A j \in 1 .. i - 1 : list'[j] = l[j]
  /\ \A j \in i .. Len(l) : list'[j + 1] = l[j]
  /\ delta' \in [Timers -> Nat]
  /\ \A t \in Timers : t # u /\ (i <= Len(l) => t # l[i]) => delta'[t] = d[t]
  /\ \A j \in 1 .. i - 1 : SumTo(list', delta', j) = SumTo(l, d, j) /\ SumTo(l, d, j) <= delay
  /\ SumTo(list', delta', i) = delay
  /\ \A j \in i .. Len(l) : SumTo(list', delta', j + 1) = SumTo(l, d, j) /\ SumTo(l, d, j) > delay

LEMMA MinIn ==
  ASSUME NEW T \in SUBSET Nat, T # {}
  PROVE  Min(T) \in T /\ \A y \in T : Min(T) <= y
<1>1. PICK x \in T : \A y \in T : x <= y BY NatMinimum
<1> QED BY <1>1 DEF Min

LEMMA InsertIs ==
  ASSUME NEW l \in Seq(Timers), Injective(l), NEW d \in [Timers -> Nat],
         NEW u \in Timers, \A i \in DOMAIN l : l[i] # u, NEW delay \in Nat,
         Insert(l, d, u, delay)
  PROVE  \E i \in 1 .. Len(l) + 1 : list' = InsertAt(l, i, u) /\ InsertedAt(i, l, d, u, delay)
<1> DEFINE later == {i \in DOMAIN l : delay < SumTo(l, d, i)}
           i == IF later = {} THEN Len(l) + 1 ELSE Min(later)
           rest == delay - SumTo(l, d, i - 1)
<1>1. /\ list' = InsertAt(l, i, u)
      /\ delta' = [t \in Timers |->
                     CASE t = u -> rest
                       [] i <= Len(l) /\ t = l[i] -> d[t] - rest
                       [] OTHER -> d[t]]
  BY Zenon DEF Insert
<1>2. d \in [Timers -> Int] /\ DOMAIN l = 1 .. Len(l) /\ Len(l) \in Nat OBVIOUS
<1>3. /\ SumTo(l, d, 0) = 0
      /\ \A n \in 1 .. Len(l) : SumTo(l, d, n) = SumTo(l, d, n - 1) + d[l[n]]
      /\ \A n \in 0 .. Len(l) : SumTo(l, d, n) \in Int
  BY <1>2, SumToStep
<1>4. /\ i \in 1 .. Len(l) + 1
      /\ \A j \in 1 .. i - 1 : SumTo(l, d, j) <= delay
      /\ \A j \in i .. Len(l) : SumTo(l, d, j) > delay
  <2>1. CASE later = {} 
    <3>1. \A j \in 1 .. Len(l) : ~ (delay < SumTo(l, d, j)) BY <1>2, <2>1
    <3>2. i = Len(l) + 1 BY <2>1
    <3> QED BY <1>2, <1>3, <3>1, <3>2
  <2>2. CASE later # {}
    <3>1. later \in SUBSET Nat BY <1>2
    <3>2. i \in later /\ \A y \in later : i <= y BY <2>2, <3>1, MinIn
    <3>3. i \in 1 .. Len(l) /\ delay < SumTo(l, d, i) BY <1>2, <3>2
    <3>4. ASSUME NEW j \in 1 .. i - 1 PROVE SumTo(l, d, j) <= delay
      <4> HIDE DEF i
      <4>1. j \in 1 .. Len(l) /\ ~ (i <= j) BY <3>3
      <4>2. j \notin later
        <5> HIDE DEF later
        <5> QED BY <3>2, <4>1
      <4>3. ~ (delay < SumTo(l, d, j)) BY <1>2, <4>1, <4>2
      <4> HIDE DEF later
      <4> QED BY <1>3, <4>1, <4>3
    <3>5. ASSUME NEW j \in i .. Len(l) PROVE SumTo(l, d, j) > delay
      <4> HIDE DEF i, later
      <4>1. i \in 0 .. Len(l) /\ j \in 0 .. Len(l) /\ i <= j BY <3>3
      <4>2. SumTo(l, d, i) <= SumTo(l, d, j) BY <4>1, SumsGrow
      <4> QED BY <1>3, <3>3, <4>1, <4>2
    <3> HIDE DEF i, later
    <3> QED BY <3>3, <3>4, <3>5
  <2> QED BY <2>1, <2>2
<1> HIDE DEF i
<1>5. i - 1 \in 0 .. Len(l) /\ SumTo(l, d, i - 1) \in Int /\ SumTo(l, d, i - 1) <= delay
  <2>1. i - 1 \in 0 .. Len(l) BY <1>2, <1>4
  <2>2. CASE i = 1 BY <1>3, <2>1, <2>2
  <2>3. CASE i # 1
    <3>1. i - 1 \in 1 .. i - 1 BY <1>4, <2>3
    <3> QED BY <1>3, <1>4, <2>1, <3>1
  <2> QED BY <2>2, <2>3
<1>6. rest \in Nat BY <1>5
<1>7. ASSUME i <= Len(l)
      PROVE  /\ i \in 1 .. Len(l) /\ d[l[i]] - rest \in Nat /\ l[i] \in Timers /\ l[i] # u
             /\ SumTo(l, d, i) = SumTo(l, d, i - 1) + d[l[i]]
  <2>1. i \in 1 .. Len(l) /\ i \in i .. Len(l) BY <1>4, <1>7
  <2>2. SumTo(l, d, i) = SumTo(l, d, i - 1) + d[l[i]] /\ SumTo(l, d, i) > delay
    BY <1>3, <1>4, <2>1
  <2>3. l[i] \in Timers /\ d[l[i]] \in Nat /\ l[i] # u BY <1>2, <2>1
  <2>4. d[l[i]] - rest \in Nat BY <1>5, <2>2, <2>3
  <2> QED BY <2>1, <2>2, <2>3, <2>4
<1> HIDE DEF rest
<1>8. /\ list' \in Seq(Timers) /\ Len(list') = Len(l) + 1 /\ list'[i] = u
      /\ \A j \in 1 .. i - 1 : list'[j] = l[j]
      /\ \A j \in i .. Len(l) : list'[j + 1] = l[j]
  <2> HIDE DEF later
  <2>1. /\ InsertAt(l, i, u) \in Seq(Timers) /\ Len(InsertAt(l, i, u)) = Len(l) + 1
        /\ \A j \in 1 .. i - 1 : InsertAt(l, i, u)[j] = l[j]
        /\ InsertAt(l, i, u)[i] = u
        /\ \A j \in i .. Len(l) : InsertAt(l, i, u)[j + 1] = l[j]
    <3>1. PutIn(Timers, InsertAt(l, i, u), l, i, u) BY <1>4, InsertAtIs
    <3> QED BY <3>1 DEF PutIn
  <2>2. list' = InsertAt(l, i, u) BY <1>1
  <2> QED BY <2>1, <2>2, Zenon
<1>9. Injective(list')
  <2>1. ASSUME NEW j \in 1 .. Len(l) + 1, j # i
        PROVE  \E k \in 1 .. Len(l) : list'[j] = l[k] /\ ((j < i /\ k = j) \/ (j > i /\ k = j - 1))
    <3>1. CASE j < i
      <4>1. j \in 1 .. i - 1 /\ j \in 1 .. Len(l) BY <1>4, <3>1
      <4>2. list'[j] = l[j] BY <1>8, <4>1
      <4> QED BY <3>1, <4>1, <4>2, Zenon
    <3>2. CASE j > i
      <4>1. j - 1 \in i .. Len(l) /\ (j - 1) + 1 = j /\ j - 1 \in 1 .. Len(l) BY <1>4, <3>2
      <4>2. list'[j] = l[j - 1] BY <1>8, <4>1
      <4> DEFINE k == j - 1
      <4>3. k \in 1 .. Len(l) /\ list'[j] = l[k] /\ j > i /\ k = j - 1 BY <3>2, <4>1, <4>2
      <4> QED BY <4>3, Zenon
    <3>3. j < i \/ j > i BY <1>4, <2>1
    <3> QED BY <3>1, <3>2, <3>3, Zenon
  <2>2. \A k \in 1 .. Len(l) : l[k] # u BY <1>2
  <2> SUFFICES ASSUME NEW j \in 1 .. Len(l) + 1, NEW k \in 1 .. Len(l) + 1, list'[j] = list'[k]
               PROVE  j = k
    BY <1>8 DEF Injective
  <2>3. CASE j = i \/ k = i
    <3>1. ASSUME NEW x \in 1 .. Len(l) + 1, x # i PROVE list'[x] # u BY <2>1, <2>2, <3>1
    <3> QED BY <1>8, <2>3, <3>1
  <2>4. CASE j # i /\ k # i
    <3>1. PICK x \in 1 .. Len(l) : list'[j] = l[x] /\ ((j < i /\ x = j) \/ (j > i /\ x = j - 1))
      BY <2>1, <2>4
    <3>2. PICK y \in 1 .. Len(l) : list'[k] = l[y] /\ ((k < i /\ y = k) \/ (k > i /\ y = k - 1))
      BY <2>1, <2>4
    <3>3. x = y BY <1>2, <3>1, <3>2 DEF Injective
    <3> QED BY <1>4, <3>1, <3>2, <3>3
  <2> QED BY <2>3, <2>4
<1>10. /\ delta' \in [Timers -> Nat] /\ delta'[u] = rest
       /\ i <= Len(l) => delta'[l[i]] = d[l[i]] - rest
       /\ \A t \in Timers : t # u /\ (i <= Len(l) => t # l[i]) => delta'[t] = d[t]
  BY <1>1, <1>6, <1>7
<1>11. delta' \in [Timers -> Int] /\ l \in Seq(Timers) BY <1>10
<1>12. \A j \in 1 .. i - 1 : delta'[list'[j]] = d[l[j]]
  <2> TAKE j \in 1 .. i - 1
  <2>1. j \in 1 .. Len(l) /\ j # i BY <1>4
  <2>2. list'[j] = l[j] BY <1>8
  <2>3. l[j] \in Timers /\ l[j] # u BY <1>2, <2>1
  <2>4. i <= Len(l) => l[j] # l[i] BY <1>2, <1>4, <2>1, SMTT(40) DEF Injective
  <2> QED BY <1>10, <2>2, <2>3, <2>4
<1>13. \A j \in 0 .. i - 1 : SumTo(list', delta', j) = SumTo(l, d, j)
  <2>1. /\ 0 + (i - 1) <= Len(l) /\ 0 + (i - 1) <= Len(list') /\ i - 1 \in Nat
        /\ \A j \in 1 .. i - 1 : 0 + j = j
    BY <1>4, <1>8
  <2>2. SumTo(list', delta', 0) = SumTo(l, d, 0) + 0 BY <1>3, <1>8, <1>11, SumToStep
  <2>3. \A j \in 1 .. i - 1 : delta'[list'[0 + j]] = d[l[0 + j]] BY <1>12, <2>1
  <2>4. \A j \in 0 .. i - 1 : SumTo(list', delta', 0 + j) = SumTo(l, d, 0 + j) + 0
    <3> DEFINE n == i - 1
    <3>1. n \in Nat /\ 0 + n <= Len(l) /\ 0 + n <= Len(list') BY <2>1
    <3>2. \A j \in 1 .. n : delta'[list'[0 + j]] = d[l[0 + j]] BY <2>3
    <3>3. list' \in Seq(Timers) BY <1>8
    <3> HIDE DEF n
    <3>4. \A j \in 0 .. n : SumTo(list', delta', 0 + j) = SumTo(l, d, 0 + j) + 0
      <4>1. 0 \in Nat /\ 0 \in Int OBVIOUS
      <4>2. SameDelays(l, d, 0, list', delta', 0, n, 0)
        BY <1>2, <1>11, <2>2, <3>1, <3>2, <3>3, <4>1, Zenon DEF SameDelays
      <4> QED BY <4>2, SumsFrom
    <3> QED BY <3>4 DEF n
  <2> TAKE j \in 0 .. i - 1
  <2>5. j \in 0 .. Len(l) /\ 0 + j = j BY <1>4
  <2>6. SumTo(l, d, j) \in Int BY <1>3, <2>5
  <2> QED BY <2>4, <2>5, <2>6
<1>14. SumTo(list', delta', i) = delay
  <2>1. i \in 1 .. Len(list') BY <1>4, <1>8
  <2>2. SumTo(list', delta', i) = SumTo(list', delta', i - 1) + delta'[list'[i]]
    BY <1>8, <1>11, <2>1, SumToStep
  <2>3. i - 1 \in 0 .. i - 1 BY <1>4
  <2>4. SumTo(list', delta', i - 1) = SumTo(l, d, i - 1) BY <1>13, <2>3
  <2> QED BY <1>5, <1>8, <1>10, <2>2, <2>4 DEF rest
<1>15. \A j \in i .. Len(l) : SumTo(list', delta', j + 1) = SumTo(l, d, j)
  <2> SUFFICES ASSUME i <= Len(l)
               PROVE  \A j \in i .. Len(l) : SumTo(list', delta', j + 1) = SumTo(l, d, j)
    BY <1>4
  <2>1. /\ i \in 1 .. Len(l) /\ i + 1 \in 1 .. Len(list') /\ (i + 1) - 1 = i /\ i \in i .. Len(l)
        /\ i + 1 \in Nat /\ i \in Nat
    BY <1>4, <1>8
  <2>2. SumTo(list', delta', i + 1) = SumTo(list', delta', i) + delta'[list'[i + 1]]
    <3>1. SumTo(list', delta', i + 1) = SumTo(list', delta', (i + 1) - 1) + delta'[list'[i + 1]]
      BY <1>8, <1>11, <2>1, SumToStep
    <3> QED BY <2>1, <3>1
  <2>3. list'[i + 1] = l[i] BY <1>8, <2>1
  <2>4. SumTo(list', delta', i + 1) = SumTo(l, d, i)
    <3>1. SumTo(list', delta', i + 1) = delay + (d[l[i]] - rest)
      BY <1>10, <1>14, <2>1, <2>2, <2>3
    <3>2. d[l[i]] \in Nat BY <1>7
    <3> QED BY <1>5, <1>7, <3>1, <3>2, SMTT(40) DEF rest
  <2> DEFINE n == Len(l) - i
  <2>5. n \in Nat /\ i + n <= Len(l) /\ (i + 1) + n <= Len(list') BY <1>8, <2>1
  <2>6. \A j \in 1 .. n : delta'[list'[(i + 1) + j]] = d[l[i + j]]
    <3> TAKE j \in 1 .. n
    <3>1. i + j \in i .. Len(l) /\ i + j \in 1 .. Len(l) /\ (i + 1) + j = (i + j) + 1 /\ i + j # i
      BY <2>1
    <3>2. list'[(i + 1) + j] = l[i + j] BY <1>8, <3>1
    <3>3. l[i + j] \in Timers /\ l[i + j] # u /\ l[i + j] # l[i]
      BY <1>2, <2>1, <3>1, SMTT(40) DEF Injective
    <3> QED BY <1>10, <3>2, <3>3
  <2>7. SumTo(list', delta', i + 1) = SumTo(l, d, i) + 0
    <3>1. SumTo(l, d, i) \in Int BY <1>3, <2>1
    <3> QED BY <2>4, <3>1
  <2> HIDE DEF n
  <2>8. \A j \in 0 .. n : SumTo(list', delta', (i + 1) + j) = SumTo(l, d, i + j) + 0
    <3> DEFINE b == i + 1
    <3>1. b \in Nat /\ i \in Nat /\ b + n <= Len(list') BY <2>1, <2>5
    <3>2. \A j \in 1 .. n : delta'[list'[b + j]] = d[l[i + j]] BY <2>6
    <3>3. list' \in Seq(Timers) BY <1>8
    <3>4. SumTo(list', delta', b) = SumTo(l, d, i) + 0 BY <2>7
    <3> HIDE DEF b
    <3>5. \A j \in 0 .. n : SumTo(list', delta', b + j) = SumTo(l, d, i + j) + 0
      <4>1. 0 \in Int OBVIOUS
      <4>2. SameDelays(l, d, i, list', delta', b, n, 0)
        BY <1>2, <1>11, <2>5, <3>1, <3>2, <3>3, <3>4, <4>1, Zenon DEF SameDelays
      <4> QED BY <4>2, SumsFrom
    <3> QED BY <3>5 DEF b
  <2> TAKE j \in i .. Len(l)
  <2>9. PICK k \in 0 .. n : (i + 1) + k = j + 1 /\ i + k = j
    <3>1. j - i \in 0 .. n /\ (i + 1) + (j - i) = j + 1 /\ i + (j - i) = j BY <2>1 DEF n
    <3> QED BY <3>1
  <2>10. SumTo(l, d, j) \in Int
    <3>1. j \in 0 .. Len(l) BY <2>1
    <3> QED BY <1>3, <3>1
  <2>11. SumTo(list', delta', (i + 1) + k) = SumTo(l, d, i + k) + 0 BY <2>8
  <2> QED BY <2>9, <2>10, <2>11
<1>16. InsertedAt(i, l, d, u, delay)
  <2>1. \A j \in 1 .. i - 1 : SumTo(list', delta', j) = SumTo(l, d, j)
    <3> TAKE j \in 1 .. i - 1
    <3>1. j \in 0 .. i - 1 OBVIOUS
    <3> QED BY <1>13, <3>1
  <2> QED BY <1>4, <1>8, <1>9, <1>10, <1>14, <1>15, <2>1 DEF InsertedAt
<1> QED BY <1>1, <1>4, <1>16

(* Sums do not depend on the delays of timers that are not in the list. *)
LEMMA SumsKeep ==
  ASSUME NEW l \in Seq(Timers), NEW d \in [Timers -> Int], NEW e \in [Timers -> Int],
         \A i \in 1 .. Len(l) : e[l[i]] = d[l[i]]
  PROVE  \A i \in 0 .. Len(l) : SumTo(l, e, i) = SumTo(l, d, i)
<1>1. Len(l) \in Nat /\ 0 \in Nat /\ 0 \in Int /\ 0 + Len(l) <= Len(l) OBVIOUS
<1>2. SumTo(l, e, 0) = SumTo(l, d, 0) + 0
  <2>1. SumTo(l, e, 0) = 0 /\ SumTo(l, d, 0) = 0 BY SumToStep
  <2> QED BY <2>1
<1>3. \A j \in 1 .. Len(l) : e[l[0 + j]] = d[l[0 + j]]
  <2> TAKE j \in 1 .. Len(l)
  <2>1. 0 + j = j OBVIOUS
  <2> QED BY <2>1
<1>4. SameDelays(l, d, 0, l, e, 0, Len(l), 0) BY <1>1, <1>2, <1>3, Zenon DEF SameDelays
<1>5. \A j \in 0 .. Len(l) : SumTo(l, e, 0 + j) = SumTo(l, d, 0 + j) + 0 BY <1>4, SumsFrom
<1> TAKE i \in 0 .. Len(l)
<1>6. 0 + i = i /\ SumTo(l, d, i) \in Int BY SumToStep
<1> QED BY <1>5, <1>6

(* The timer at the place k is gone, and the sums of the others stay. *)
DeletedAt(k, l, d) ==
  /\ list' \in Seq(Timers) /\ Injective(list') /\ Len(list') = Len(l) - 1
  /\ \A j \in 1 .. k - 1 : list'[j] = l[j]
  /\ \A j \in k .. Len(l) - 1 : list'[j] = l[j + 1]
  /\ delta' \in [Timers -> Nat]
  /\ \A j \in 1 .. k - 1 : SumTo(list', delta', j) = SumTo(l, d, j)
  /\ \A j \in k .. Len(l) - 1 : SumTo(list', delta', j) = SumTo(l, d, j + 1)

LEMMA DeleteIs ==
  ASSUME list \in Seq(Timers), Injective(list), delta \in [Timers -> Nat],
         NEW k \in 1 .. Len(list), Delete(list[k])
  PROVE  list' = RemoveAt(list, k) /\ DeletedAt(k, list, delta)
<1> DEFINE u == list[k]
<1>1. u \in Listed /\ u \in Timers BY DEF Listed, ToSet
<1>2. /\ list' = RemoveFirst(list, u)
      /\ delta' = [t \in Timers |-> IF t \in Next1(u) THEN delta[t] + delta[u] ELSE delta[t]]
  BY <1>1, Zenon DEF Delete
<1>3. list' = RemoveAt(list, k) BY <1>2, RemoveFirstIs
<1>4. Next1(u) = IF k < Len(list) THEN {list[k + 1]} ELSE {}
  <2> DEFINE i == CHOOSE i \in DOMAIN list : list[i] = u
  <2>1. k \in DOMAIN list /\ list[k] = u OBVIOUS
  <2>2. \A j \in DOMAIN list : list[j] = u => j = k BY <2>1 DEF Injective
  <2>3. i \in DOMAIN list /\ list[i] = u BY <2>1
  <2>4. i = k
    <3> HIDE DEF i
    <3> QED BY <2>2, <2>3
  <2>5. Next1(u) = IF i < Len(list) THEN {list[i + 1]} ELSE {} BY Zenon DEF Next1
  <2> QED BY <2>4, <2>5
<1>5. /\ list' \in Seq(Timers) /\ Len(list') = Len(list) - 1
      /\ \A j \in 1 .. k - 1 : list'[j] = list[j]
      /\ \A j \in k .. Len(list) - 1 : list'[j] = list[j + 1]
  <2>1. /\ RemoveAt(list, k) \in Seq(Timers) /\ Len(RemoveAt(list, k)) = Len(list) - 1
        /\ \A j \in 1 .. k - 1 : RemoveAt(list, k)[j] = list[j]
        /\ \A j \in k .. Len(list) - 1 : RemoveAt(list, k)[j] = list[j + 1]
    BY RemoveAtIs
  <2> QED BY <1>3, <2>1, Zenon
<1>6. Injective(list')
  <2> SUFFICES ASSUME NEW i \in 1 .. Len(list) - 1, NEW j \in 1 .. Len(list) - 1,
                      list'[i] = list'[j]
               PROVE  i = j
    <3>1. DOMAIN list' = 1 .. Len(list) - 1 BY <1>5
    <3> QED BY <3>1, Zenon DEF Injective
  <2>1. PICK x \in 1 .. Len(list) : list'[i] = list[x] /\ ((i < k /\ x = i) \/ (i >= k /\ x = i + 1))
    <3>1. CASE i < k
      <4>1. i \in 1 .. k - 1 /\ i \in 1 .. Len(list) BY <3>1
      <4>2. list'[i] = list[i] BY <1>5, <4>1
      <4> QED BY <3>1, <4>1, <4>2
    <3>2. CASE i >= k
      <4>1. i \in k .. Len(list) - 1 /\ i + 1 \in 1 .. Len(list) BY <3>2
      <4>2. list'[i] = list[i + 1] BY <1>5, <4>1
      <4> QED BY <3>2, <4>1, <4>2
    <3>3. i < k \/ i >= k OBVIOUS
    <3> QED BY <3>1, <3>2, <3>3
  <2>2. PICK y \in 1 .. Len(list) : list'[j] = list[y] /\ ((j < k /\ y = j) \/ (j >= k /\ y = j + 1))
    <3>1. CASE j < k
      <4>1. j \in 1 .. k - 1 /\ j \in 1 .. Len(list) BY <3>1
      <4>2. list'[j] = list[j] BY <1>5, <4>1
      <4> QED BY <3>1, <4>1, <4>2
    <3>2. CASE j >= k
      <4>1. j \in k .. Len(list) - 1 /\ j + 1 \in 1 .. Len(list) BY <3>2
      <4>2. list'[j] = list[j + 1] BY <1>5, <4>1
      <4> QED BY <3>2, <4>1, <4>2
    <3>3. j < k \/ j >= k OBVIOUS
    <3> QED BY <3>1, <3>2, <3>3
  <2>3. x = y
    <3>0. DOMAIN list = 1 .. Len(list) OBVIOUS
    <3>1. x \in DOMAIN list /\ y \in DOMAIN list /\ list[x] = list[y] BY <2>1, <2>2, <3>0, Zenon
    <3> QED BY <3>1, Zenon DEF Injective
  <2> QED BY <2>1, <2>2, <2>3, SMTT(30)
<1> DEFINE next == Next1(u)
<1>7. delta' \in [Timers -> Nat] /\ delta' \in [Timers -> Int] /\ delta \in [Timers -> Int]
  <2>1. delta[u] \in Nat /\ \A t \in Timers : delta[t] \in Nat BY <1>1
  <2> HIDE DEF u
  <2>2. \A t \in Timers : delta[t] + delta[u] \in Nat BY <2>1
  <2>3. delta' \in [Timers -> Nat] BY <1>2, <2>1, <2>2
  <2> QED BY <2>3
<1>8. /\ \A j \in 1 .. Len(list) : j # k + 1 => delta'[list[j]] = delta[list[j]]
      /\ k < Len(list) => delta'[list[k + 1]] = delta[list[k + 1]] + delta[list[k]]
  <2>1. ASSUME NEW j \in 1 .. Len(list), j # k + 1 PROVE delta'[list[j]] = delta[list[j]]
    <3>1. list[j] \in Timers OBVIOUS
    <3>2. list[j] \notin Next1(u)
      <4>1. CASE k < Len(list)
        <5>1. k + 1 \in DOMAIN list BY <4>1
        <5>2. list[j] # list[k + 1] BY <2>1, <5>1 DEF Injective
        <5> QED BY <1>4, <4>1, <5>2
      <4> QED BY <1>4, <4>1
    <3> QED BY <1>2, <3>1, <3>2, Zenon
  <2>2. ASSUME k < Len(list) PROVE delta'[list[k + 1]] = delta[list[k + 1]] + delta[list[k]]
    <3>1. list[k + 1] \in Timers /\ list[k + 1] \in Next1(u) BY <1>4, <2>2
    <3> QED BY <1>2, <3>1, Zenon
  <2> QED BY <2>1, <2>2
<1>9. \A n \in 0 .. Len(list) : SumTo(list, delta, n) \in Int BY <1>7, SumToStep
<1>10. \A j \in 0 .. k - 1 : SumTo(list', delta', j) = SumTo(list, delta, j)
  <2> DEFINE n == k - 1
  <2>1. n \in Nat /\ 0 \in Nat /\ 0 \in Int /\ 0 + n <= Len(list) /\ 0 + n <= Len(list')
    BY <1>5
  <2>2. SumTo(list', delta', 0) = SumTo(list, delta, 0) + 0
    <3>1. SumTo(list', delta', 0) = 0 /\ SumTo(list, delta, 0) = 0 BY <1>5, <1>7, SumToStep
    <3> QED BY <3>1
  <2>3. \A j \in 1 .. n : delta'[list'[0 + j]] = delta[list[0 + j]]
    <3> TAKE j \in 1 .. n
    <3>1. 0 + j = j /\ j \in 1 .. Len(list) /\ j # k + 1 /\ j \in 1 .. k - 1 OBVIOUS
    <3>2. list'[j] = list[j] BY <1>5, <3>1
    <3> QED BY <1>8, <3>1, <3>2
  <2> HIDE DEF n
  <2>4. SameDelays(list, delta, 0, list', delta', 0, n, 0)
    BY <1>5, <1>7, <2>1, <2>2, <2>3, Zenon DEF SameDelays
  <2>5. \A j \in 0 .. n : SumTo(list', delta', 0 + j) = SumTo(list, delta, 0 + j) + 0
    BY <2>4, SumsFrom
  <2> TAKE j \in 0 .. k - 1
  <2>6. j \in 0 .. n /\ 0 + j = j /\ j \in 0 .. Len(list) BY DEF n
  <2> QED BY <1>9, <2>5, <2>6
<1>11. \A j \in k .. Len(list) - 1 : SumTo(list', delta', j) = SumTo(list, delta, j + 1)
  <2> SUFFICES ASSUME k < Len(list)
               PROVE  \A j \in k .. Len(list) - 1 : SumTo(list', delta', j) = SumTo(list, delta, j + 1)
    OBVIOUS
  <2> DEFINE a == k + 1
             n == Len(list) - a
  <2>1. /\ a \in Nat /\ k \in Nat /\ n \in Nat /\ 0 \in Int
        /\ a + n <= Len(list) /\ k + n <= Len(list')
    BY <1>5
  <2>2. SumTo(list', delta', k) = SumTo(list, delta, a) + 0
    <3>1. /\ k \in 1 .. Len(list') /\ k - 1 \in 0 .. k - 1 /\ k - 1 \in 0 .. Len(list)
          /\ k \in 1 .. Len(list) /\ a \in 1 .. Len(list) /\ a - 1 = k /\ k \in k .. Len(list) - 1
      BY <1>5
    <3>2. list'[k] = list[a] BY <1>5, <3>1
    <3>3. SumTo(list', delta', k) = SumTo(list', delta', k - 1) + delta'[list'[k]]
      BY <1>5, <1>7, <3>1, SumToStep
    <3>4. SumTo(list', delta', k - 1) = SumTo(list, delta, k - 1) BY <1>10, <3>1
    <3>5. SumTo(list, delta, k) = SumTo(list, delta, k - 1) + delta[list[k]]
      BY <1>7, <3>1, SumToStep
    <3>6. SumTo(list, delta, a) = SumTo(list, delta, a - 1) + delta[list[a]]
      BY <1>7, <3>1, SumToStep
    <3>7. delta'[list'[k]] = delta[list[a]] + delta[list[k]] BY <1>8, <3>2
    <3>8. PICK p \in Int, q \in Int, r \in Int :
            p = SumTo(list, delta, k - 1) /\ q = delta[list[k]] /\ r = delta[list[a]]
      <4>1. /\ SumTo(list, delta, k - 1) \in Int
            /\ delta[list[k]] \in Int /\ delta[list[a]] \in Int
        BY <1>7, <1>9, <3>1, SMTT(40)
      <4> QED BY <4>1
    <3> HIDE DEF a
    <3>9. SumTo(list', delta', k) = p + (r + q) BY <3>3, <3>4, <3>7, <3>8
    <3>10. SumTo(list, delta, a) = (p + q) + r BY <3>1, <3>5, <3>6, <3>8
    <3> QED BY <3>9, <3>10
  <2>3. \A j \in 1 .. n : delta'[list'[k + j]] = delta[list[a + j]]
    <3> TAKE j \in 1 .. n
    <3>1. /\ k + j \in k .. Len(list) - 1 /\ a + j = (k + j) + 1
          /\ a + j \in 1 .. Len(list) /\ a + j # k + 1
      OBVIOUS
    <3>2. list'[k + j] = list[a + j] BY <1>5, <3>1
    <3> QED BY <1>8, <3>1, <3>2
  <2> HIDE DEF a, n
  <2>4. SameDelays(list, delta, a, list', delta', k, n, 0)
    BY <1>5, <1>7, <2>1, <2>2, <2>3, Zenon DEF SameDelays
  <2>5. \A j \in 0 .. n : SumTo(list', delta', k + j) = SumTo(list, delta, a + j) + 0
    BY <2>4, SumsFrom
  <2> TAKE j \in k .. Len(list) - 1
  <2>6. PICK i \in 0 .. n : k + i = j /\ a + i = j + 1 /\ j + 1 \in 0 .. Len(list)
    <3>1. j - k \in 0 .. n /\ k + (j - k) = j /\ a + (j - k) = j + 1 /\ j + 1 \in 0 .. Len(list)
      BY DEF a, n
    <3> QED BY <3>1
  <2>7. SumTo(list', delta', k + i) = SumTo(list, delta, a + i) + 0 BY <2>5
  <2>8. SumTo(list, delta, j + 1) \in Int BY <1>9, <2>6
  <2>9. SumTo(list', delta', j) = SumTo(list, delta, j + 1) + 0 BY <2>6, <2>7, Zenon
  <2> QED BY <2>8, <2>9
<1>12. \A j \in 1 .. k - 1 : SumTo(list', delta', j) = SumTo(list, delta, j)
  <2> TAKE j \in 1 .. k - 1
  <2>1. j \in 0 .. k - 1 OBVIOUS
  <2> QED BY <1>10, <2>1
<1> QED BY <1>3, <1>5, <1>6, <1>7, <1>11, <1>12 DEF DeletedAt

(* The last timer can leave the list without a word to the others. *)
LastDropped(l, d, n) ==
  /\ RemoveFirst(l, Last(l)) = RemoveAt(l, n)
  /\ RemoveAt(l, n) \in Seq(Timers) /\ Len(RemoveAt(l, n)) = n - 1
  /\ \A j \in 1 .. n - 1 : RemoveAt(l, n)[j] = l[j] /\ l[j] # l[n]
  /\ \A j \in 1 .. n - 1 : SumTo(RemoveAt(l, n), d, j) = SumTo(l, d, j)

LEMMA DropLastIs ==
  ASSUME NEW l \in Seq(Timers), Injective(l), NEW d \in [Timers -> Nat], l # << >>
  PROVE  LastDropped(l, d, Len(l))
<1> DEFINE n == Len(l)
           m == RemoveAt(l, n)
<1>0. n \in Nat /\ n > 0 OBVIOUS
<1>1. n \in 1 .. Len(l) /\ l[n] = Last(l) BY <1>0 DEF Last
<1>2. m = RemoveFirst(l, Last(l)) BY <1>1, RemoveFirstIs
<1>3. m \in Seq(Timers) /\ Len(m) = n - 1 /\ \A j \in 1 .. n - 1 : m[j] = l[j] BY <1>1, RemoveAtIs
<1>4. \A j \in 1 .. n - 1 : l[j] # l[n] BY <1>1 DEF Injective
<1> HIDE DEF m
<1>5. \A j \in 1 .. n - 1 : SumTo(m, d, j) = SumTo(l, d, j)
  <2> DEFINE k == n - 1
  <2>1. k \in Nat /\ 0 \in Nat /\ 0 \in Int /\ 0 + k <= Len(l) /\ 0 + k <= Len(m) BY <1>3
  <2>2. d \in [Timers -> Int] OBVIOUS
  <2>3. SumTo(m, d, 0) = SumTo(l, d, 0) + 0
    <3>1. SumTo(m, d, 0) = 0 /\ SumTo(l, d, 0) = 0 BY <1>3, <2>2, SumToStep
    <3> QED BY <3>1
  <2>4. \A j \in 1 .. k : d[m[0 + j]] = d[l[0 + j]]
    <3> TAKE j \in 1 .. k
    <3>1. 0 + j = j OBVIOUS
    <3> QED BY <1>3, <3>1
  <2> HIDE DEF k
  <2>5. SameDelays(l, d, 0, m, d, 0, k, 0)
    BY <1>3, <2>1, <2>2, <2>3, <2>4, Zenon DEF SameDelays
  <2>6. \A j \in 0 .. k : SumTo(m, d, 0 + j) = SumTo(l, d, 0 + j) + 0 BY <2>5, SumsFrom
  <2> TAKE j \in 1 .. n - 1
  <2>7. j \in 0 .. k /\ 0 + j = j /\ j \in 0 .. Len(l) BY DEF k
  <2>8. SumTo(l, d, j) \in Int BY <2>2, <2>7, SumToStep
  <2> QED BY <2>6, <2>7, <2>8
<1> QED BY <1>2, <1>3, <1>4, <1>5 DEF m, LastDropped

(* Without its head, the sums of the list are smaller by its delay. *)
LEMMA TailIs ==
  ASSUME NEW l \in Seq(Timers), Injective(l), NEW d \in [Timers -> Nat], l # << >>
  PROVE  /\ Tail(l) \in Seq(Timers) /\ Injective(Tail(l)) /\ Len(Tail(l)) = Len(l) - 1
         /\ \A j \in 1 .. Len(l) - 1 : Tail(l)[j] = l[j + 1]
         /\ \A j \in 1 .. Len(l) - 1 : Tail(l)[j] # Head(l)
         /\ Head(l) \in Timers /\ Head(l) = l[1] /\ SumTo(l, d, 1) = d[Head(l)]
         /\ \A j \in 1 .. Len(l) - 1 : SumTo(Tail(l), d, j) = SumTo(l, d, j + 1) - d[Head(l)]
<1> DEFINE m == Tail(l)
           h == Head(l)
           n == Len(l) - 1
<1>1. n \in Nat /\ 1 \in 1 .. Len(l) /\ h = l[1] /\ h \in Timers OBVIOUS
<1>2. m \in Seq(Timers) /\ Len(m) = n /\ \A j \in 1 .. n : m[j] = l[j + 1] OBVIOUS
<1>3. Injective(m)
  <2> HIDE DEF m
  <2> SUFFICES ASSUME NEW i \in 1 .. n, NEW j \in 1 .. n, m[i] = m[j] PROVE i = j
    BY <1>2, SMTT(40) DEF Injective
  <2>1. i + 1 \in DOMAIN l /\ j + 1 \in DOMAIN l /\ l[i + 1] = l[j + 1]
    <3>1. m[i] = l[i + 1] /\ m[j] = l[j + 1] BY <1>2, Zenon
    <3>2. i + 1 \in DOMAIN l /\ j + 1 \in DOMAIN l OBVIOUS
    <3> QED BY <3>1, <3>2, Zenon
  <2>2. i + 1 = j + 1 BY <2>1 DEF Injective
  <2> QED BY <2>2
<1>4. \A j \in 1 .. n : m[j] # h
  <2> HIDE DEF m
  <2> TAKE j \in 1 .. n
  <2>1. j + 1 \in DOMAIN l /\ 1 \in DOMAIN l /\ j + 1 # 1 BY <1>1
  <2>2. l[j + 1] # l[1] BY <2>1 DEF Injective
  <2> QED BY <1>1, <1>2, <2>2
<1> HIDE DEF m, h
<1>5. d \in [Timers -> Int] /\ d[h] \in Nat BY <1>1
<1>6. SumTo(l, d, 0) = 0 /\ SumTo(m, d, 0) = 0 /\ SumTo(l, d, 1) = d[h]
  <2>1. SumTo(l, d, 0) = 0 /\ SumTo(m, d, 0) = 0 BY <1>2, <1>5, SumToStep
  <2>2. SumTo(l, d, 1) = SumTo(l, d, 1 - 1) + d[l[1]] BY <1>1, <1>5, SumToStep
  <2> QED BY <1>1, <1>5, <2>1, <2>2
<1>7. \A j \in 1 .. n : SumTo(m, d, j) = SumTo(l, d, j + 1) - d[h]
  <2> DEFINE c == 0 - d[h]
  <2>1. c \in Int /\ 0 \in Nat /\ 1 \in Nat /\ 1 + n <= Len(l) /\ 0 + n <= Len(m) BY <1>2, <1>5
  <2>2. SumTo(m, d, 0) = SumTo(l, d, 1) + c BY <1>5, <1>6
  <2>3. \A j \in 1 .. n : d[m[0 + j]] = d[l[1 + j]]
    <3> TAKE j \in 1 .. n
    <3>1. 0 + j = j /\ 1 + j = j + 1 OBVIOUS
    <3> QED BY <1>2, <3>1
  <2> HIDE DEF c, n
  <2>4. SameDelays(l, d, 1, m, d, 0, n, c)
    BY <1>1, <1>2, <1>5, <2>1, <2>2, <2>3, Zenon DEF SameDelays
  <2>5. \A j \in 0 .. n : SumTo(m, d, 0 + j) = SumTo(l, d, 1 + j) + c BY <2>4, SumsFrom
  <2> TAKE j \in 1 .. n
  <2>6. j \in 0 .. n /\ 0 + j = j /\ 1 + j = j + 1 /\ j + 1 \in 0 .. Len(l) BY <1>1 DEF n
  <2>7. SumTo(l, d, j + 1) \in Int BY <1>5, <2>6, SumToStep
  <2> QED BY <1>5, <2>5, <2>6, <2>7 DEF c
<1> QED BY <1>1, <1>2, <1>3, <1>4, <1>6, <1>7 DEF m, h

----------------------------------------------------------------------------
(* The queue of deadlines that a list of delays stands for. *)

QueueOf(l, d, b) == [i \in DOMAIN l |-> [timer |-> l[i], at |-> b + SumTo(l, d, i)]]
Entries == [timer : Timers, at : Int]
Due(t, a) == \E i \in 1 .. Len(list) : list[i] = t /\ Deadline(i) = a

(* What a step does to the list: no timer gets a new deadline, or only u.  *)
Arranged == list' \in Seq(Timers) /\ Injective(list') /\ delta' \in [Timers -> Nat]
Kept == \A t \in Timers, a \in Int : Due(t, a)' => Due(t, a)
Placed(u, at) ==
  \A t \in Timers, a \in Int : Due(t, a)' => (t = u /\ a = at) \/ (t # u /\ Due(t, a))
HeadKept ==
  /\ list # << >> /\ list' # << >> /\ Head(list') = Head(list)
  /\ delta'[Head(list)] = delta[Head(list)]

Listing == list \in Seq(Timers) /\ Injective(list) /\ delta \in [Timers -> Nat] /\ last \in Int

LEMMA QueueIs ==
  ASSUME NEW l \in Seq(Timers), NEW d \in [Timers -> Int], NEW b \in Int
  PROVE  /\ QueueOf(l, d, b) \in Seq(Entries) /\ Len(QueueOf(l, d, b)) = Len(l)
         /\ DOMAIN QueueOf(l, d, b) = 1 .. Len(l)
         /\ \A i \in 1 .. Len(l) :
              /\ QueueOf(l, d, b)[i] = [timer |-> l[i], at |-> b + SumTo(l, d, i)]
              /\ QueueOf(l, d, b)[i] \in Entries
              /\ QueueOf(l, d, b)[i].timer = l[i]
              /\ QueueOf(l, d, b)[i].at = b + SumTo(l, d, i)
<1> DEFINE q == QueueOf(l, d, b)
<1>1. DOMAIN l = 1 .. Len(l) /\ Len(l) \in Nat OBVIOUS
<1>2. DOMAIN q = 1 .. Len(l) BY <1>1 DEF QueueOf
<1>3. \A i \in 1 .. Len(l) : q[i] = [timer |-> l[i], at |-> b + SumTo(l, d, i)]
  BY <1>1 DEF QueueOf
<1>4. q = [i \in 1 .. Len(l) |-> q[i]] BY <1>1 DEF QueueOf
<1> HIDE DEF q
<1>5. \A i \in 1 .. Len(l) : q[i] \in Entries /\ q[i].timer = l[i] /\ q[i].at = b + SumTo(l, d, i)
  <2> TAKE i \in 1 .. Len(l)
  <2>1. i \in 0 .. Len(l) OBVIOUS
  <2>2. b + SumTo(l, d, i) \in Int
    <3>1. SumTo(l, d, i) \in Int BY <2>1, SumToStep
    <3> QED BY <3>1
  <2>3. q[i] = [timer |-> l[i], at |-> b + SumTo(l, d, i)] BY <1>3
  <2> QED BY <2>2, <2>3 DEF Entries
<1>6. q \in [1 .. Len(l) -> Entries]
  <2>1. [i \in 1 .. Len(l) |-> q[i]] \in [1 .. Len(l) -> Entries] BY <1>5
  <2> QED BY <1>4, <2>1
<1>7. q \in Seq(Entries) BY <1>1, <1>6
<1>8. Len(q) = Len(l) BY <1>1, <1>2, <1>7
<1> QED BY <1>2, <1>3, <1>5, <1>7, <1>8 DEF q

LEMMA SameSeq ==
  ASSUME NEW S, NEW s \in Seq(S), NEW t \in Seq(S), Len(s) = Len(t),
         \A i \in 1 .. Len(s) : s[i] = t[i]
  PROVE  s = t
OBVIOUS

LEMMA QueueInsert ==
  ASSUME NEW l \in Seq(Timers), NEW d \in [Timers -> Nat], NEW u \in Timers,
         NEW delay \in Nat, NEW b \in Int, NEW i \in 1 .. Len(l) + 1,
         InsertedAt(i, l, d, u, delay)
  PROVE  /\ QueueOf(list', delta', b)
              = InsertAt(QueueOf(l, d, b), i, [timer |-> u, at |-> b + delay])
         /\ i \in 1 .. Len(QueueOf(l, d, b)) + 1
         /\ \A j \in DOMAIN QueueOf(l, d, b) : j < i <=> QueueOf(l, d, b)[j].at <= b + delay
<1> DEFINE q == QueueOf(l, d, b)
           r == QueueOf(list', delta', b)
           e == [timer |-> u, at |-> b + delay]
<1>1. /\ list' \in Seq(Timers) /\ Len(list') = Len(l) + 1 /\ list'[i] = u
      /\ \A j \in 1 .. i - 1 : list'[j] = l[j]
      /\ \A j \in i .. Len(l) : list'[j + 1] = l[j]
      /\ delta' \in [Timers -> Int] /\ d \in [Timers -> Int]
      /\ \A j \in 1 .. i - 1 : SumTo(list', delta', j) = SumTo(l, d, j) /\ SumTo(l, d, j) <= delay
      /\ SumTo(list', delta', i) = delay
      /\ \A j \in i .. Len(l) : SumTo(list', delta', j + 1) = SumTo(l, d, j) /\ SumTo(l, d, j) > delay
  BY DEF InsertedAt
<1>2. /\ q \in Seq(Entries) /\ Len(q) = Len(l) /\ DOMAIN q = 1 .. Len(l)
      /\ \A j \in 1 .. Len(l) : q[j] = [timer |-> l[j], at |-> b + SumTo(l, d, j)]
      /\ \A j \in 1 .. Len(l) : q[j].at = b + SumTo(l, d, j)
  BY <1>1, QueueIs
<1>3. /\ r \in Seq(Entries) /\ Len(r) = Len(l) + 1
      /\ \A j \in 1 .. Len(l) + 1 : r[j] = [timer |-> list'[j], at |-> b + SumTo(list', delta', j)]
  <2>1. list' \in Seq(Timers) /\ delta' \in [Timers -> Int] /\ Len(list') = Len(l) + 1 BY <1>1
  <2>2. /\ r \in Seq(Entries) /\ Len(r) = Len(list')
        /\ \A j \in 1 .. Len(list') :
             r[j] = [timer |-> list'[j], at |-> b + SumTo(list', delta', j)]
    BY <2>1, QueueIs
  <2> HIDE DEF r
  <2> QED BY <2>1, <2>2, Zenon
<1>4. e \in Entries BY DEF Entries
<1> HIDE DEF q, r
<1>5. r = InsertAt(q, i, e)
  <2> HIDE DEF e
  <2> DEFINE s == InsertAt(q, i, e)
  <2>1. /\ s \in Seq(Entries) /\ Len(s) = Len(l) + 1 /\ s[i] = e
        /\ \A j \in 1 .. i - 1 : s[j] = q[j]
        /\ \A j \in i .. Len(l) : s[j + 1] = q[j]
    <3>1. q \in Seq(Entries) /\ i \in 1 .. Len(q) + 1 /\ Len(q) = Len(l) BY <1>2
    <3>2. ASSUME NEW p \in Seq(Entries), NEW f \in Entries, p = q, f = e
          PROVE  /\ s \in Seq(Entries) /\ Len(s) = Len(l) + 1 /\ s[i] = e
                 /\ \A j \in 1 .. i - 1 : s[j] = q[j]
                 /\ \A j \in i .. Len(l) : s[j + 1] = q[j]
      <4>1. i \in 1 .. Len(p) + 1 BY <3>1, <3>2
      <4>2. /\ InsertAt(p, i, f) \in Seq(Entries) /\ Len(InsertAt(p, i, f)) = Len(p) + 1
            /\ \A j \in 1 .. i - 1 : InsertAt(p, i, f)[j] = p[j]
            /\ InsertAt(p, i, f)[i] = f
            /\ \A j \in i .. Len(p) : InsertAt(p, i, f)[j + 1] = p[j]
        <5>1. PutIn(Entries, InsertAt(p, i, f), p, i, f) BY <4>1, InsertAtIs
        <5> QED BY <5>1 DEF PutIn
      <4> QED BY <3>1, <3>2, <4>2, Zenon
    <3> QED BY <1>4, <3>1, <3>2, Zenon
  <2> HIDE DEF s
  <2>2. ASSUME NEW j \in 1 .. Len(l) + 1 PROVE r[j] = s[j]
    <3>0. r[j] = [timer |-> list'[j], at |-> b + SumTo(list', delta', j)] BY <1>3
    <3>1. CASE j = i
      <4>1. r[j] = e BY <1>1, <3>0, <3>1 DEF e
      <4> QED BY <2>1, <3>1, <4>1
    <3>2. CASE j < i
      <4>1. j \in 1 .. i - 1 /\ j \in 1 .. Len(l) BY <3>2
      <4>2. list'[j] = l[j] /\ SumTo(list', delta', j) = SumTo(l, d, j) BY <1>1, <4>1
      <4>3. s[j] = q[j] /\ q[j] = [timer |-> l[j], at |-> b + SumTo(l, d, j)]
        BY <1>2, <2>1, <4>1
      <4> QED BY <3>0, <4>2, <4>3, Zenon
    <3>3. CASE j > i
      <4> DEFINE k == j - 1
      <4>1. k \in i .. Len(l) /\ k \in 1 .. Len(l) /\ k + 1 = j BY <3>3
      <4> HIDE DEF k
      <4>2. list'[j] = l[k] /\ SumTo(list', delta', j) = SumTo(l, d, k) BY <1>1, <4>1
      <4>3. s[j] = q[k] /\ q[k] = [timer |-> l[k], at |-> b + SumTo(l, d, k)]
        BY <1>2, <2>1, <4>1
      <4> QED BY <3>0, <4>2, <4>3, Zenon
    <3> QED BY <3>1, <3>2, <3>3
  <2>3. r = s BY <1>3, <2>1, <2>2, SameSeq
  <2> QED BY <2>3 DEF s
<1>6. \A j \in DOMAIN q : j < i <=> q[j].at <= b + delay
  <2> TAKE j \in DOMAIN q
  <2>1. j \in 1 .. Len(l) /\ j \in 0 .. Len(l) BY <1>2
  <2>2. q[j].at = b + SumTo(l, d, j) /\ SumTo(l, d, j) \in Int BY <1>1, <1>2, <2>1, SumToStep
  <2>3. j < i => SumTo(l, d, j) <= delay
    <3>1. j < i => j \in 1 .. i - 1 BY <2>1
    <3> QED BY <1>1, <3>1
  <2>4. ~ (j < i) => SumTo(l, d, j) > delay
    <3>1. ~ (j < i) => j \in i .. Len(l) BY <2>1
    <3> QED BY <1>1, <3>1
  <2> QED BY <2>2, <2>3, <2>4
<1> QED BY <1>2, <1>5, <1>6 DEF q, r

LEMMA QueueRemove ==
  ASSUME NEW l \in Seq(Timers), NEW d \in [Timers -> Nat], NEW b \in Int,
         NEW k \in 1 .. Len(l), DeletedAt(k, l, d)
  PROVE  QueueOf(list', delta', b) = RemoveAt(QueueOf(l, d, b), k)
<1> DEFINE q == QueueOf(l, d, b)
           r == QueueOf(list', delta', b)
           n == Len(l) - 1
<1>1. /\ list' \in Seq(Timers) /\ Len(list') = n
      /\ \A j \in 1 .. k - 1 : list'[j] = l[j]
      /\ \A j \in k .. n : list'[j] = l[j + 1]
      /\ delta' \in [Timers -> Int] /\ d \in [Timers -> Int]
      /\ \A j \in 1 .. k - 1 : SumTo(list', delta', j) = SumTo(l, d, j)
      /\ \A j \in k .. n : SumTo(list', delta', j) = SumTo(l, d, j + 1)
  BY DEF DeletedAt
<1>2. /\ q \in Seq(Entries) /\ Len(q) = Len(l)
      /\ \A j \in 1 .. Len(l) : q[j] = [timer |-> l[j], at |-> b + SumTo(l, d, j)]
  BY <1>1, QueueIs
<1>3. /\ r \in Seq(Entries) /\ Len(r) = n
      /\ \A j \in 1 .. n : r[j] = [timer |-> list'[j], at |-> b + SumTo(list', delta', j)]
  <2> HIDE DEF n
  <2> QED BY <1>1, QueueIs
<1> HIDE DEF q, r
<1> DEFINE s == RemoveAt(q, k)
<1>4. /\ s \in Seq(Entries) /\ Len(s) = n
      /\ \A j \in 1 .. k - 1 : s[j] = q[j]
      /\ \A j \in k .. n : s[j] = q[j + 1]
  BY <1>2, RemoveAtIs
<1> HIDE DEF s
<1>5. ASSUME NEW j \in 1 .. n PROVE r[j] = s[j]
  <2>0. r[j] = [timer |-> list'[j], at |-> b + SumTo(list', delta', j)] BY <1>3, Zenon
  <2>1. CASE j < k
    <3>1. j \in 1 .. k - 1 /\ j \in 1 .. Len(l) BY <2>1
    <3>2. list'[j] = l[j] /\ SumTo(list', delta', j) = SumTo(l, d, j) BY <1>1, <3>1, Zenon
    <3>3. s[j] = q[j] /\ q[j] = [timer |-> l[j], at |-> b + SumTo(l, d, j)]
      BY <1>2, <1>4, <3>1, Zenon
    <3> QED BY <2>0, <3>2, <3>3, Zenon
  <2>2. CASE j >= k
    <3>1. j \in k .. n /\ j + 1 \in 1 .. Len(l) BY <2>2
    <3>2. list'[j] = l[j + 1] /\ SumTo(list', delta', j) = SumTo(l, d, j + 1) BY <1>1, <3>1, Zenon
    <3>3. s[j] = q[j + 1] /\ q[j + 1] = [timer |-> l[j + 1], at |-> b + SumTo(l, d, j + 1)]
      BY <1>2, <1>4, <3>1, Zenon
    <3> QED BY <2>0, <3>2, <3>3, Zenon
  <2>3. j < k \/ j >= k OBVIOUS
  <2> QED BY <2>1, <2>2, <2>3
<1> HIDE DEF n
<1>6. r = s BY <1>3, <1>4, <1>5, SameSeq
<1> QED BY <1>6 DEF q, r, s

(* Placing an entry in the queue, as the abstract queue does. *)
LEMMA QueuePlace ==
  ASSUME NEW q \in Seq(Entries), NEW u \in Timers, NEW at \in Int, NEW i \in 1 .. Len(q) + 1,
         \A j \in DOMAIN q : j < i <=> q[j].at <= at,
         QueueOf(list', delta', last') = InsertAt(q, i, [timer |-> u, at |-> at])
  PROVE  Abstract!Place(q, u, at) /\ at \in Abstract!Given(u)
<1> DEFINE r == QueueOf(list', delta', last')
           e == [timer |-> u, at |-> at]
<1>1. r = Queue' BY DEF Queue, QueueOf, Deadline
<1>2. r = Abstract!InsertAt(q, i, Abstract!Entry(u, at))
  BY DEF Abstract!InsertAt, InsertAt, Abstract!Entry
<1>3. Abstract!Place(q, u, at)
  <2> HIDE DEF r
  <2> QED BY <1>1, <1>2, Zenon DEF Abstract!Place
<1>4. e \in Entries /\ e.timer = u /\ e.at = at BY DEF Entries
<1>5. i \in DOMAIN r /\ r[i] = e
  <2>1. r = InsertAt(q, i, e) OBVIOUS
  <2> HIDE DEF r, e
  <2>2. ASSUME NEW f \in Entries, f = e PROVE r \in Seq(Entries) /\ Len(r) = Len(q) + 1 /\ r[i] = e
    <3>1. /\ InsertAt(q, i, f) \in Seq(Entries) /\ Len(InsertAt(q, i, f)) = Len(q) + 1
          /\ InsertAt(q, i, f)[i] = f
      <4>1. PutIn(Entries, InsertAt(q, i, f), q, i, f) BY InsertAtIs
      <4> QED BY <4>1 DEF PutIn
    <3> QED BY <2>1, <2>2, <3>1, Zenon
  <2>3. r \in Seq(Entries) /\ Len(r) = Len(q) + 1 /\ r[i] = e BY <1>4, <2>2, Zenon
  <2>4. i \in DOMAIN r BY <2>3
  <2> QED BY <2>3, <2>4
<1>6. at \in Abstract!Given(u)
  <2> HIDE DEF r, e
  <2>1. r[i].timer = u /\ r[i].at = at BY <1>4, <1>5
  <2>2. Abstract!Given(u) = {r[n].at : n \in {m \in DOMAIN r : r[m].timer = u}}
    BY <1>1, Zenon DEF Abstract!Given
  <2>3. i \in {m \in DOMAIN r : r[m].timer = u} BY <1>5, <2>1
  <2> QED BY <2>1, <2>2, <2>3
<1> QED BY <1>3, <1>6

(* The deadlines after an insertion into l, whose sums are sums of list. *)
LEMMA PlacedIn ==
  ASSUME Listing, last' = last, NEW l \in Seq(Timers), NEW u \in Timers, NEW delay \in Nat,
         NEW i \in 1 .. Len(l) + 1, InsertedAt(i, l, delta, u, delay),
         \A j \in 1 .. Len(l) : /\ j \in 1 .. Len(list) /\ l[j] = list[j] /\ l[j] # u
                                /\ SumTo(l, delta, j) = SumTo(list, delta, j)
  PROVE  /\ Arranged /\ Placed(u, last + delay)
         /\ list' # << >> /\ (Head(list') = u \/ HeadKept)
<1>1. /\ list' \in Seq(Timers) /\ Injective(list') /\ Len(list') = Len(l) + 1 /\ list'[i] = u
      /\ \A j \in 1 .. i - 1 : list'[j] = l[j]
      /\ \A j \in i .. Len(l) : list'[j + 1] = l[j]
      /\ delta' \in [Timers -> Nat] /\ delta' \in [Timers -> Int]
      /\ \A t \in Timers : t # u /\ (i <= Len(l) => t # l[i]) => delta'[t] = delta[t]
      /\ \A j \in 1 .. i - 1 : SumTo(list', delta', j) = SumTo(l, delta, j)
      /\ SumTo(list', delta', i) = delay
      /\ \A j \in i .. Len(l) : SumTo(list', delta', j + 1) = SumTo(l, delta, j)
  BY DEF InsertedAt
<1>2. Arranged BY <1>1 DEF Arranged
<1>3. Placed(u, last + delay)
  <2> SUFFICES ASSUME NEW t \in Timers, NEW a \in Int, Due(t, a)'
               PROVE  (t = u /\ a = last + delay) \/ (t # u /\ Due(t, a))
    BY DEF Placed
  <2>1. PICK k \in 1 .. Len(l) + 1 : list'[k] = t /\ last + SumTo(list', delta', k) = a
    <3>1. \E k \in 1 .. Len(list') : list'[k] = t /\ last' + SumTo(list', delta', k) = a
      BY DEF Due, Deadline
    <3>2. 1 .. Len(list') = 1 .. Len(l) + 1 BY <1>1
    <3> QED BY <3>1, <3>2, Zenon
  <2>2. CASE k = i BY <1>1, <2>1, <2>2
  <2>3. ASSUME NEW j \in 1 .. Len(l), list'[k] = l[j],
               SumTo(list', delta', k) = SumTo(l, delta, j)
        PROVE  t # u /\ Due(t, a)
    <3>1. j \in 1 .. Len(list) /\ list[j] = t /\ t # u /\ last + SumTo(list, delta, j) = a
      BY <2>1, <2>3, Zenon
    <3> QED BY <3>1 DEF Due, Deadline
  <2>4. CASE k < i
    <3>1. k \in 1 .. i - 1 /\ k \in 1 .. Len(l) BY <2>4
    <3>2. list'[k] = l[k] /\ SumTo(list', delta', k) = SumTo(l, delta, k) BY <1>1, <3>1
    <3> QED BY <2>3, <3>1, <3>2
  <2>5. CASE k > i
    <3> DEFINE j == k - 1
    <3>1. j \in i .. Len(l) /\ j \in 1 .. Len(l) /\ j + 1 = k BY <2>5
    <3> HIDE DEF j
    <3>2. list'[k] = l[j] /\ SumTo(list', delta', k) = SumTo(l, delta, j) BY <1>1, <3>1
    <3> QED BY <2>3, <3>1, <3>2
  <2>6. k = i \/ k < i \/ k > i OBVIOUS
  <2> QED BY <2>2, <2>4, <2>5, <2>6
<1>4. list' # << >> BY <1>1
<1>5. CASE i = 1
  <2>1. Head(list') = u BY <1>1, <1>5
  <2> QED BY <1>2, <1>3, <1>4, <2>1
<1>6. CASE i # 1
  <2>1. 1 \in 1 .. i - 1 /\ 1 \in 1 .. Len(l) BY <1>6
  <2>2. /\ 1 \in 1 .. Len(list) /\ l[1] = list[1] /\ l[1] # u
        /\ SumTo(l, delta, 1) = SumTo(list, delta, 1)
    BY <2>1
  <2>3. list # << >> /\ Head(list) = list[1] /\ list[1] \in Timers BY <2>2 DEF Listing
  <2>4. Head(list') = list'[1] BY <1>1, <1>4
  <2>5. list'[1] = list[1] /\ SumTo(list', delta', 1) = SumTo(list, delta, 1)
    BY <1>1, <2>1, <2>2
  <2>6. delta'[list[1]] = delta[list[1]]
    <3>1. SumTo(list, delta, 1) = delta[Head(list)] BY <2>3, TailIs DEF Listing
    <3>2. SumTo(list', delta', 1) = delta'[Head(list')] BY <1>1, <1>4, TailIs
    <3> QED BY <2>3, <2>4, <2>5, <3>1, <3>2
  <2>7. HeadKept BY <1>4, <2>3, <2>4, <2>5, <2>6 DEF HeadKept
  <2> QED BY <1>2, <1>3, <1>4, <2>7
<1> QED BY <1>5, <1>6

LEMMA ListedIs ==
  ASSUME NEW u, list \in Seq(Timers)
  PROVE  u \in Listed <=> \E i \in 1 .. Len(list) : list[i] = u
BY DEF Listed, ToSet

LEMMA QueueNow == Queue = QueueOf(list, delta, last)
BY DEF Queue, QueueOf, Deadline

LEMMA StepInsert ==
  ASSUME Listing, last' = last, NEW u \in Timers, u \notin Listed, NEW delay \in Nat,
         Insert(list, delta, u, delay)
  PROVE  /\ Arranged /\ Placed(u, last + delay)
         /\ list' # << >> /\ (Head(list') = u \/ HeadKept)
         /\ Abstract!Next
<1>1. /\ list \in Seq(Timers) /\ Injective(list) /\ delta \in [Timers -> Nat] /\ last \in Int
      /\ delta \in [Timers -> Int] /\ DOMAIN list = 1 .. Len(list)
  BY DEF Listing
<1>2. \A i \in 1 .. Len(list) : list[i] # u BY <1>1, ListedIs
<1>3. PICK i \in 1 .. Len(list) + 1 : InsertedAt(i, list, delta, u, delay)
  <2>1. \A i \in DOMAIN list : list[i] # u BY <1>1, <1>2
  <2> QED BY <1>1, <2>1, InsertIs
<1>4. Arranged /\ Placed(u, last + delay) /\ list' # << >> /\ (Head(list') = u \/ HeadKept)
  BY <1>1, <1>2, <1>3, PlacedIn
<1> DEFINE q == QueueOf(list, delta, last)
           at == last + delay
<1>5. q \in Seq(Entries) /\ DOMAIN q = 1 .. Len(list) /\ \A j \in 1 .. Len(list) : q[j].timer = list[j]
  <2>1. list \in Seq(Timers) /\ delta \in [Timers -> Int] /\ last \in Int BY <1>1
  <2> HIDE DEF q
  <2>2. q \in Seq(Entries) BY <2>1, QueueIs DEF q
  <2>3. DOMAIN q = 1 .. Len(list) BY <2>1, QueueIs DEF q
  <2>4. \A j \in 1 .. Len(list) : QueueOf(list, delta, last)[j].timer = list[j]
    <3>1. ASSUME NEW j \in 1 .. Len(list) PROVE QueueOf(list, delta, last)[j].timer = list[j]
      BY <2>1, QueueIs
    <3> QED BY <3>1
  <2>5. \A j \in 1 .. Len(list) : q[j].timer = list[j] BY <2>4 DEF q
  <2> QED BY <2>2, <2>3, <2>5
<1>6. /\ QueueOf(list', delta', last) = InsertAt(q, i, [timer |-> u, at |-> at])
      /\ i \in 1 .. Len(q) + 1
      /\ \A j \in DOMAIN q : j < i <=> q[j].at <= at
  BY <1>1, <1>3, QueueInsert
<1>7. at \in Int BY <1>1
<1> HIDE DEF q, at
<1>8. PICK p \in Seq(Entries) : p = q BY <1>5
<1>9. PICK a \in Int : a = at BY <1>7
<1>10. Abstract!Place(p, u, a) /\ a \in Abstract!Given(u)
  <2>1. i \in 1 .. Len(p) + 1 /\ \A j \in DOMAIN p : j < i <=> p[j].at <= a
    BY <1>6, <1>8, <1>9, Zenon
  <2>2. QueueOf(list', delta', last') = InsertAt(p, i, [timer |-> u, at |-> a])
    BY <1>6, <1>8, <1>9
  <2> QED BY <2>1, <2>2, QueuePlace
<1>11. Abstract!Insert(u, a)
  <2>1. {j \in DOMAIN q : q[j].timer = u} = {} BY <1>2, <1>5
  <2>2. Queue = p
    BY <1>8, QueueNow DEF q
  <2> QED BY <1>8, <1>10, <2>1, <2>2, Zenon DEF Abstract!Insert, Abstract!Places, Abstract!Place
<1>12. Abstract!Next BY <1>10, <1>11 DEF Abstract!Next
<1> QED BY <1>4, <1>12 DEF at

(* The last timer gets a new place and a new deadline. *)
LEMMA StepMoveLast ==
  ASSUME Listing, last' = last, list # << >>, NEW u, u = Last(list), NEW delay \in Nat,
         Insert(RemoveFirst(list, u), delta, u, delay)
  PROVE  /\ Arranged /\ Placed(u, last + delay)
         /\ list' # << >> /\ (Head(list') = u \/ HeadKept)
         /\ u \in Timers /\ Abstract!Next
<1>1. /\ list \in Seq(Timers) /\ Injective(list) /\ delta \in [Timers -> Nat] /\ last \in Int
      /\ delta \in [Timers -> Int]
  BY DEF Listing
<1> DEFINE n == Len(list)
<1>2. n \in Nat /\ n > 0 /\ n \in 1 .. Len(list) /\ u = list[n] /\ u \in Timers BY <1>1 DEF Last
<1>3. PICK l \in Seq(Timers) :
        /\ l = RemoveAt(list, n) /\ RemoveFirst(list, u) = l /\ Len(l) = n - 1
        /\ \A j \in 1 .. n - 1 : l[j] = list[j] /\ list[j] # list[n]
        /\ \A j \in 1 .. n - 1 : SumTo(l, delta, j) = SumTo(list, delta, j)
  <2>1. u = Last(list) /\ n = Len(list) OBVIOUS
  <2> HIDE DEF n
  <2>2. LastDropped(list, delta, n) BY <1>1, <1>2, <2>1, DropLastIs
  <2>3. /\ RemoveFirst(list, Last(list)) = RemoveAt(list, n)
        /\ RemoveAt(list, n) \in Seq(Timers) /\ Len(RemoveAt(list, n)) = n - 1
        /\ \A j \in 1 .. n - 1 : RemoveAt(list, n)[j] = list[j] /\ list[j] # list[n]
        /\ \A j \in 1 .. n - 1 : SumTo(RemoveAt(list, n), delta, j) = SumTo(list, delta, j)
    BY <2>2 DEF LastDropped
  <2> QED BY <2>1, <2>3, Zenon
<1>4. \A j \in 1 .. Len(l) : /\ j \in 1 .. Len(list) /\ l[j] = list[j] /\ l[j] # u
                             /\ SumTo(l, delta, j) = SumTo(list, delta, j)
  <2> TAKE j \in 1 .. Len(l)
  <2>1. j \in 1 .. n - 1 /\ j \in 1 .. Len(list) BY <1>3
  <2> QED BY <1>2, <1>3, <2>1
<1>5. Injective(l)
  <2> SUFFICES ASSUME NEW i \in 1 .. Len(l), NEW j \in 1 .. Len(l), l[i] = l[j] PROVE i = j
    <3>1. DOMAIN l = 1 .. Len(l) BY <1>3
    <3> QED BY <3>1, Zenon DEF Injective
  <2>1. i \in DOMAIN list /\ j \in DOMAIN list /\ list[i] = list[j]
    <3>1. DOMAIN list = 1 .. Len(list) BY <1>1
    <3> QED BY <1>4, <3>1, Zenon
  <2> QED BY <1>1, <2>1, Zenon DEF Injective
<1>6. PICK i \in 1 .. Len(l) + 1 : InsertedAt(i, l, delta, u, delay)
  <2>1. \A i \in DOMAIN l : l[i] # u BY <1>3, <1>4
  <2>2. Insert(l, delta, u, delay) BY <1>3
  <2> QED BY <1>1, <1>2, <1>3, <1>5, <2>1, <2>2, InsertIs
<1>7. Arranged /\ Placed(u, last + delay) /\ list' # << >> /\ (Head(list') = u \/ HeadKept)
  BY <1>2, <1>3, <1>4, <1>6, PlacedIn
<1> DEFINE q == QueueOf(list, delta, last)
           r == QueueOf(l, delta, last)
<1>8. /\ q \in Seq(Entries) /\ Len(q) = n /\ DOMAIN q = 1 .. n
      /\ \A j \in 1 .. n : q[j] = [timer |-> list[j], at |-> last + SumTo(list, delta, j)]
      /\ \A j \in 1 .. n : q[j].timer = list[j]
  BY <1>1, QueueIs
<1>9. /\ r \in Seq(Entries) /\ Len(r) = n - 1
      /\ \A j \in 1 .. n - 1 : r[j] = [timer |-> l[j], at |-> last + SumTo(l, delta, j)]
  <2>1. /\ r \in Seq(Entries) /\ Len(r) = Len(l)
        /\ \A j \in 1 .. Len(l) : r[j] = [timer |-> l[j], at |-> last + SumTo(l, delta, j)]
    <3>1. PICK e \in [Timers -> Int], b \in Int : e = delta /\ b = last BY <1>1
    <3> DEFINE s == QueueOf(l, e, b)
    <3>2. /\ s \in Seq(Entries) /\ Len(s) = Len(l)
          /\ \A j \in 1 .. Len(l) : s[j] = [timer |-> l[j], at |-> b + SumTo(l, e, j)]
      BY QueueIs
    <3> QED BY <3>1, <3>2
  <2> QED BY <1>3, <2>1, Zenon
<1>10. /\ QueueOf(list', delta', last) = InsertAt(r, i, [timer |-> u, at |-> last + delay])
       /\ i \in 1 .. Len(r) + 1
       /\ \A j \in DOMAIN r : j < i <=> r[j].at <= last + delay
  BY <1>1, <1>2, <1>3, <1>6, QueueInsert
<1> HIDE DEF q, r
<1>11. r = RemoveAt(q, n)
  <2> DEFINE s == RemoveAt(q, n)
  <2>1. s \in Seq(Entries) /\ Len(s) = n - 1 /\ \A j \in 1 .. n - 1 : s[j] = q[j]
    <3>1. PICK p \in Seq(Entries) : p = q BY <1>8
    <3>2. Len(p) = n /\ n \in 1 .. Len(p) BY <1>2, <1>8, <3>1
    <3>3. /\ RemoveAt(p, n) \in Seq(Entries) /\ Len(RemoveAt(p, n)) = Len(p) - 1
          /\ \A j \in 1 .. n - 1 : RemoveAt(p, n)[j] = p[j]
      <4> HIDE DEF n
      <4> QED BY <3>2, RemoveAtIs
    <3> QED BY <3>1, <3>2, <3>3, Zenon
  <2> HIDE DEF s
  <2>2. \A j \in 1 .. n - 1 : r[j] = s[j]
    <3> TAKE j \in 1 .. n - 1
    <3>1. j \in 1 .. n BY <1>2
    <3>2. l[j] = list[j] /\ SumTo(l, delta, j) = SumTo(list, delta, j) BY <1>3
    <3> QED BY <1>8, <1>9, <2>1, <3>1, <3>2, Zenon
  <2> HIDE DEF n
  <2>3. r = s BY <1>9, <2>1, <2>2, SameSeq
  <2> QED BY <2>3 DEF s
<1> DEFINE at == last + delay
<1>12. PICK p \in Seq(Entries) : p = r BY <1>9
<1>13. PICK a \in Int : a = at
  <2>1. at \in Int BY <1>1
  <2> QED BY <2>1
<1>14. Abstract!Place(p, u, a) /\ a \in Abstract!Given(u)
  <2>1. i \in 1 .. Len(p) + 1 /\ \A j \in DOMAIN p : j < i <=> p[j].at <= a
    BY <1>10, <1>12, <1>13, Zenon
  <2>2. QueueOf(list', delta', last') = InsertAt(p, i, [timer |-> u, at |-> a])
    BY <1>10, <1>12, <1>13
  <2> QED BY <1>2, <2>1, <2>2, QueuePlace
<1>15. Abstract!Move(u, a)
  <2>1. n \in {j \in DOMAIN q : q[j].timer = u} BY <1>2, <1>8
  <2>2. Queue = q
    BY QueueNow DEF q
  <2>3. p = Abstract!RemoveAt(q, n) BY <1>11, <1>12 DEF Abstract!RemoveAt, RemoveAt
  <2> HIDE DEF n
  <2> QED BY <1>14, <2>1, <2>2, <2>3, Zenon DEF Abstract!Move, Abstract!Places, Abstract!Place
<1>16. Abstract!Next BY <1>2, <1>14, <1>15 DEF Abstract!Next
<1> QED BY <1>2, <1>7, <1>16

(* Whatever listed timer is rescheduled, the list stays a list. *)
LEMMA StepMove ==
  ASSUME Listing, NEW u \in Listed, NEW delay \in Nat,
         Insert(RemoveFirst(list, u), delta, u, delay)
  PROVE  Arranged /\ list' # << >> /\ \A t \in ToSet(list') : t \in Listed
<1>1. /\ list \in Seq(Timers) /\ Injective(list) /\ delta \in [Timers -> Nat]
      /\ DOMAIN list = 1 .. Len(list)
  BY DEF Listing
<1>2. PICK k \in 1 .. Len(list) : list[k] = u BY <1>1, ListedIs
<1> DEFINE n == Len(list) - 1
<1>3. PICK l \in Seq(Timers) :
        /\ l = RemoveAt(list, k) /\ Len(l) = Len(list) - 1
        /\ \A j \in 1 .. k - 1 : l[j] = list[j]
        /\ \A j \in k .. Len(list) - 1 : l[j] = list[j + 1]
  <2> DEFINE r == RemoveAt(list, k)
  <2>1. /\ r \in Seq(Timers) /\ Len(r) = Len(list) - 1
        /\ \A j \in 1 .. k - 1 : r[j] = list[j]
        /\ \A j \in k .. Len(list) - 1 : r[j] = list[j + 1]
    BY <1>1, RemoveAtIs
  <2> HIDE DEF r
  <2>2. PICK l \in Seq(Timers) : l = r BY <2>1
  <2> QED BY <2>1, <2>2 DEF r
<1>4. /\ Len(l) = n /\ n \in Nat /\ l = RemoveFirst(list, u)
      /\ \A j \in 1 .. k - 1 : l[j] = list[j]
      /\ \A j \in k .. n : l[j] = list[j + 1]
  <2>1. n \in Nat BY <1>1
  <2>2. RemoveAt(list, k) = RemoveFirst(list, u) BY <1>1, <1>2, RemoveFirstIs
  <2> QED BY <1>3, <2>1, <2>2
<1>5. ASSUME NEW j \in 1 .. n
      PROVE  \E x \in 1 .. Len(list) : x # k /\ l[j] = list[x] /\ ((j < k /\ x = j) \/ (j >= k /\ x = j + 1))
  <2>1. CASE j < k
    <3>1. j \in 1 .. k - 1 /\ j \in 1 .. Len(list) /\ j # k BY <2>1
    <3>2. l[j] = list[j] BY <1>4, <3>1
    <3> QED BY <2>1, <3>1, <3>2
  <2>2. CASE j >= k
    <3>1. j \in k .. n /\ j + 1 \in 1 .. Len(list) /\ j + 1 # k BY <2>2
    <3>2. l[j] = list[j + 1] BY <1>4, <3>1
    <3> QED BY <2>2, <3>1, <3>2
  <2>3. j < k \/ j >= k OBVIOUS
  <2> QED BY <2>1, <2>2, <2>3, Zenon
<1>6. Injective(l)
  <2> SUFFICES ASSUME NEW i \in 1 .. n, NEW j \in 1 .. n, l[i] = l[j] PROVE i = j
    <3>1. DOMAIN l = 1 .. n BY <1>4
    <3> QED BY <3>1, Zenon DEF Injective
  <2>1. PICK x \in 1 .. Len(list) : l[i] = list[x] /\ ((i < k /\ x = i) \/ (i >= k /\ x = i + 1))
    BY <1>5, Zenon
  <2>2. PICK y \in 1 .. Len(list) : l[j] = list[y] /\ ((j < k /\ y = j) \/ (j >= k /\ y = j + 1))
    BY <1>5, Zenon
  <2>3. x = y
    <3>1. x \in DOMAIN list /\ y \in DOMAIN list /\ list[x] = list[y] BY <1>1, <2>1, <2>2, Zenon
    <3> QED BY <1>1, <3>1, Zenon DEF Injective
  <2> QED BY <2>1, <2>2, <2>3
<1>7. \A j \in 1 .. n : l[j] # u /\ l[j] \in Listed
  <2> TAKE j \in 1 .. n
  <2>1. PICK x \in 1 .. Len(list) : x # k /\ l[j] = list[x] BY <1>5, Zenon
  <2>2. x \in DOMAIN list /\ k \in DOMAIN list BY <1>1
  <2>3. list[x] # list[k] BY <1>1, <2>1, <2>2, Zenon DEF Injective
  <2> QED BY <1>1, <1>2, <2>1, <2>3, ListedIs
<1>8. u \in Timers BY <1>1, <1>2
<1>9. PICK i \in 1 .. Len(l) + 1 : InsertedAt(i, l, delta, u, delay)
  <2>1. \A i \in DOMAIN l : l[i] # u BY <1>4, <1>7
  <2>2. Insert(l, delta, u, delay) BY <1>4
  <2> QED BY <1>1, <1>4, <1>6, <1>8, <2>1, <2>2, InsertIs
<1>10. /\ list' \in Seq(Timers) /\ Injective(list') /\ Len(list') = n + 1 /\ list'[i] = u
       /\ \A j \in 1 .. i - 1 : list'[j] = l[j]
       /\ \A j \in i .. n : list'[j + 1] = l[j]
       /\ delta' \in [Timers -> Nat] /\ i \in 1 .. n + 1
  BY <1>4, <1>9 DEF InsertedAt
<1>11. \A t \in ToSet(list') : t \in Listed
  <2> TAKE t \in ToSet(list')
  <2>1. PICK j \in 1 .. n + 1 : t = list'[j] BY <1>10 DEF ToSet
  <2>2. CASE j = i BY <1>10, <2>1, <2>2
  <2>3. CASE j < i
    <3>1. j \in 1 .. i - 1 /\ j \in 1 .. n BY <1>10, <2>3, SMTT(40)
    <3> QED BY <1>7, <1>10, <2>1, <3>1
  <2>4. CASE j > i
    <3> DEFINE m == j - 1
    <3>1. m \in i .. n /\ m \in 1 .. n /\ m + 1 = j BY <1>10, <2>4
    <3> HIDE DEF m
    <3> QED BY <1>7, <1>10, <2>1, <3>1
  <2>5. j = i \/ j < i \/ j > i BY <1>10
  <2> QED BY <2>2, <2>3, <2>4, <2>5
<1>12. list' # << >> BY <1>4, <1>10
<1> QED BY <1>10, <1>11, <1>12 DEF Arranged

LEMMA StepDelete ==
  ASSUME Listing, last' = last, NEW u \in Timers, u \in Listed, Delete(u)
  PROVE  Arranged /\ Kept /\ Abstract!Next
<1>1. /\ list \in Seq(Timers) /\ Injective(list) /\ delta \in [Timers -> Nat] /\ last \in Int
      /\ delta \in [Timers -> Int]
  BY DEF Listing
<1>2. PICK k \in 1 .. Len(list) : list[k] = u BY <1>1, ListedIs
<1>3. list' = RemoveAt(list, k) /\ DeletedAt(k, list, delta) BY <1>1, <1>2, DeleteIs
<1> DEFINE n == Len(list) - 1
<1>4. /\ list' \in Seq(Timers) /\ Injective(list') /\ Len(list') = n
      /\ \A j \in 1 .. k - 1 : list'[j] = list[j]
      /\ \A j \in k .. n : list'[j] = list[j + 1]
      /\ delta' \in [Timers -> Nat]
      /\ \A j \in 1 .. k - 1 : SumTo(list', delta', j) = SumTo(list, delta, j)
      /\ \A j \in k .. n : SumTo(list', delta', j) = SumTo(list, delta, j + 1)
  BY <1>3 DEF DeletedAt
<1>5. Kept
  <2> SUFFICES ASSUME NEW t \in Timers, NEW a \in Int, Due(t, a)' PROVE Due(t, a)
    BY DEF Kept
  <2>1. PICK j \in 1 .. n : list'[j] = t /\ last + SumTo(list', delta', j) = a
    <3>1. \E j \in 1 .. Len(list') : list'[j] = t /\ last' + SumTo(list', delta', j) = a
      BY DEF Due, Deadline
    <3> QED BY <1>4, <3>1, Zenon
  <2>2. \E x \in 1 .. Len(list) : list[x] = t /\ last + SumTo(list, delta, x) = a
    <3>1. CASE j < k
      <4>1. j \in 1 .. k - 1 /\ j \in 1 .. Len(list) BY <3>1
      <4>2. list'[j] = list[j] /\ SumTo(list', delta', j) = SumTo(list, delta, j) BY <1>4, <4>1
      <4> QED BY <2>1, <4>1, <4>2, Zenon
    <3>2. CASE j >= k
      <4>1. j \in k .. n /\ j + 1 \in 1 .. Len(list) BY <3>2
      <4>2. list'[j] = list[j + 1] /\ SumTo(list', delta', j) = SumTo(list, delta, j + 1)
        BY <1>4, <4>1
      <4> QED BY <2>1, <4>1, <4>2, Zenon
    <3>3. j < k \/ j >= k OBVIOUS
    <3> QED BY <3>1, <3>2, <3>3
  <2> QED BY <2>2, Zenon DEF Due, Deadline
<1> DEFINE q == QueueOf(list, delta, last)
<1>6. DOMAIN q = 1 .. Len(list) /\ q[k].timer = u BY <1>1, <1>2, QueueIs
<1>7. QueueOf(list', delta', last') = Abstract!RemoveAt(q, k)
  <2>1. QueueOf(list', delta', last) = RemoveAt(q, k) BY <1>1, <1>3, QueueRemove
  <2> HIDE DEF q
  <2>2. RemoveAt(q, k) = Abstract!RemoveAt(q, k) BY DEF Abstract!RemoveAt, RemoveAt
  <2> QED BY <2>1, <2>2
<1> HIDE DEF q
<1>8. Abstract!Cancel(u)
  <2>1. Queue = q BY QueueNow DEF q
  <2>2. Queue' = QueueOf(list', delta', last') BY DEF Queue, QueueOf, Deadline
  <2>3. k \in {j \in DOMAIN q : q[j].timer = u} BY <1>6
  <2> QED BY <1>7, <2>1, <2>2, <2>3, Zenon DEF Abstract!Cancel, Abstract!Places
<1>9. Abstract!Next BY <1>8 DEF Abstract!Next
<1> QED BY <1>4, <1>5, <1>9 DEF Arranged

LEMMA StepTake ==
  ASSUME Listing, list # << >>, list' = Tail(list), delta' = delta,
         last' = last + delta[Head(list)]
  PROVE  /\ Arranged /\ Kept /\ Abstract!Next
         /\ Head(list) \in Timers /\ Head(list) \notin ToSet(list')
         /\ Due(Head(list), last') /\ last' \in Int
<1>1. /\ list \in Seq(Timers) /\ Injective(list) /\ delta \in [Timers -> Nat] /\ last \in Int
      /\ delta \in [Timers -> Int]
  BY DEF Listing
<1> DEFINE n == Len(list) - 1
           h == Head(list)
<1>2. /\ list' \in Seq(Timers) /\ Injective(list') /\ Len(list') = n
      /\ \A j \in 1 .. n : list'[j] = list[j + 1]
      /\ \A j \in 1 .. n : list'[j] # h
      /\ h \in Timers /\ h = list[1] /\ SumTo(list, delta, 1) = delta[h]
      /\ \A j \in 1 .. n : SumTo(list', delta, j) = SumTo(list, delta, j + 1) - delta[h]
  BY <1>1, TailIs
<1>3. delta[h] \in Nat /\ last' \in Int BY <1>1, <1>2
<1> HIDE DEF h
<1>4. ASSUME NEW j \in 1 .. n
      PROVE  last' + SumTo(list', delta', j) = last + SumTo(list, delta, j + 1)
  <2>1. j + 1 \in 0 .. Len(list) BY <1>1
  <2>2. SumTo(list, delta, j + 1) \in Int BY <1>1, <2>1, SumToStep
  <2>3. SumTo(list', delta', j) = SumTo(list, delta, j + 1) - delta[h] BY <1>2
  <2>4. last' = last + delta[h] BY DEF h
  <2>5. PICK x \in Int, y \in Int : x = SumTo(list, delta, j + 1) /\ y = delta[h]
    BY <1>3, <2>2
  <2>6. last' + SumTo(list', delta', j) = (last + y) + (x - y) BY <2>3, <2>4, <2>5
  <2>7. (last + y) + (x - y) = last + x BY <1>1
  <2> QED BY <2>5, <2>6, <2>7
<1>5. Kept
  <2> SUFFICES ASSUME NEW t \in Timers, NEW a \in Int, Due(t, a)' PROVE Due(t, a)
    BY DEF Kept
  <2>1. PICK j \in 1 .. n : list'[j] = t /\ last' + SumTo(list', delta', j) = a
    <3>1. \E j \in 1 .. Len(list') : list'[j] = t /\ last' + SumTo(list', delta', j) = a
      BY DEF Due, Deadline
    <3> QED BY <1>2, <3>1, Zenon
  <2>2. j + 1 \in 1 .. Len(list) BY <1>1
  <2>3. list[j + 1] = t /\ last + SumTo(list, delta, j + 1) = a BY <1>2, <1>4, <2>1
  <2> QED BY <2>2, <2>3, Zenon DEF Due, Deadline
<1>6. Due(h, last')
  <2>1. 1 \in 1 .. Len(list) BY <1>1
  <2>2. list[1] = h /\ last + SumTo(list, delta, 1) = last' BY <1>2 DEF h
  <2> QED BY <2>1, <2>2, Zenon DEF Due, Deadline
<1>7. h \notin ToSet(list') BY <1>2 DEF ToSet
<1> DEFINE q == QueueOf(list, delta, last)
           r == QueueOf(list', delta', last')
<1>8. Abstract!Take
  <2>1. /\ q \in Seq(Entries) /\ Len(q) = Len(list)
        /\ \A j \in 1 .. Len(list) : q[j] = [timer |-> list[j], at |-> last + SumTo(list, delta, j)]
    BY <1>1, QueueIs
  <2>2. /\ r \in Seq(Entries) /\ Len(r) = Len(list')
        /\ \A j \in 1 .. Len(list') : r[j] = [timer |-> list'[j], at |-> last' + SumTo(list', delta', j)]
    <3>1. list' \in Seq(Timers) /\ delta' \in [Timers -> Int] /\ last' \in Int
      BY <1>1, <1>2, <1>3
    <3>2. PICK l \in Seq(Timers), e \in [Timers -> Int], b \in Int :
            l = list' /\ e = delta' /\ b = last'
      BY <3>1
    <3> DEFINE s == QueueOf(l, e, b)
    <3>3. /\ s \in Seq(Entries) /\ Len(s) = Len(l)
          /\ \A j \in 1 .. Len(l) : s[j] = [timer |-> l[j], at |-> b + SumTo(l, e, j)]
      BY QueueIs
    <3> QED BY <3>2, <3>3
  <2>3. q = Queue BY QueueNow
  <2>4. r = Queue' BY DEF Queue, QueueOf, Deadline
  <2> HIDE DEF q, r
  <2>5. q # << >> BY <1>1, <2>1
  <2>6. Tail(q) \in Seq(Entries) /\ Len(Tail(q)) = n /\ \A j \in 1 .. n : Tail(q)[j] = q[j + 1]
    BY <2>1, <2>5
  <2>7. \A j \in 1 .. n : r[j] = Tail(q)[j]
    <3> TAKE j \in 1 .. n
    <3>1. j \in 1 .. Len(list') /\ j + 1 \in 1 .. Len(list) BY <1>1, <1>2
    <3>2. r[j] = [timer |-> list'[j], at |-> last' + SumTo(list', delta', j)] BY <2>2, <3>1
    <3>3. Tail(q)[j] = [timer |-> list[j + 1], at |-> last + SumTo(list, delta, j + 1)]
      BY <2>1, <2>6, <3>1
    <3>4. list'[j] = list[j + 1] BY <1>2
    <3> QED BY <1>4, <3>2, <3>3, <3>4, Zenon
  <2> DEFINE s == Tail(q)
  <2>8. r = s
    <3>1. s \in Seq(Entries) /\ Len(s) = n /\ \A j \in 1 .. n : r[j] = s[j] BY <2>6, <2>7
    <3>2. Len(r) = n BY <1>2, <2>2
    <3> HIDE DEF s, n
    <3> QED BY <2>2, <3>1, <3>2, SameSeq
  <2> QED BY <2>3, <2>4, <2>5, <2>8, Zenon DEF Abstract!Take
<1>9. Abstract!Next BY <1>8 DEF Abstract!Next
<1> QED BY <1>1, <1>2, <1>3, <1>5, <1>6, <1>7, <1>9 DEF Arranged, h

(* Delays of timers that are not listed say nothing. *)
LEMMA StepSame ==
  ASSUME Listing, list' = list, last' = last, delta' \in [Timers -> Nat],
         \A t \in Listed : delta'[t] = delta[t]
  PROVE  /\ Arranged /\ Kept /\ (list # << >> => HeadKept)
         /\ Queue' = Queue
<1>1. /\ list \in Seq(Timers) /\ Injective(list) /\ delta \in [Timers -> Nat] /\ last \in Int
      /\ delta \in [Timers -> Int] /\ delta' \in [Timers -> Int] /\ DOMAIN list = 1 .. Len(list)
  BY DEF Listing
<1>2. Arranged BY <1>1 DEF Arranged
<1>3. \A i \in 1 .. Len(list) : delta'[list[i]] = delta[list[i]] BY <1>1, ListedIs
<1>4. \A i \in 1 .. Len(list) : SumTo(list, delta', i) = SumTo(list, delta, i)
  <2>1. \A i \in 0 .. Len(list) : SumTo(list, delta', i) = SumTo(list, delta, i)
    BY <1>1, <1>3, SumsKeep
  <2> QED BY <2>1
<1>5. \A i \in 1 .. Len(list) : Deadline(i)' = Deadline(i) BY <1>4 DEF Deadline
<1>6. Kept BY <1>5, Zenon DEF Kept, Due
<1>7. list # << >> => HeadKept
  <2>1. list # << >> => 1 \in 1 .. Len(list) /\ Head(list) = list[1] BY <1>1
  <2> QED BY <1>3, <2>1 DEF HeadKept
<1>8. Queue' = Queue BY <1>1, <1>5 DEF Queue
<1> QED BY <1>2, <1>6, <1>7, <1>8

----------------------------------------------------------------------------
(* The invariant of the list: it is a list of different timers that were   *)
(* added, the timer in the slot and the dispatched one are not in it, and  *)
(* no delay is negative.                                                   *)

TypeInv ==
  /\ now \in Nat /\ last \in Nat /\ tick \in Nat /\ nap \in Nat /\ bed \in Nat
  /\ list \in Seq(Timers) /\ delta \in [Timers -> Nat]
  /\ add \in Timers \cup {None} /\ del \in Timers \cup {None} /\ cur \in Timers \cup {None}
  /\ sem \in BOOLEAN /\ resched \in BOOLEAN
  /\ pc \in {"top", "asleep", "del", "loop", "fire", "callback", "nap", "doze"}
  /\ created \in SUBSET Timers /\ runs \in [Timers -> Nat]

Running == pc \in {"fire", "callback"}

ListInv ==
  /\ Injective(list)
  /\ \A u \in Listed : u \in created
  /\ add # None => add \in created /\ add \notin Listed
  /\ Running => cur \in created /\ cur \notin Listed /\ cur # add
  /\ At("asleep") => list = << >>
  /\ At("nap") => cur \in Timers

Inv == TypeInv /\ ListInv

(* The three things a step does to the list. *)
Inserts(u, delay) ==
  /\ Arranged /\ Placed(u, last + delay)
  /\ list' # << >> /\ (Head(list') = u \/ HeadKept)
  /\ Abstract!Next
QueueSame == Queue' = Queue
Keeps == Arranged /\ Kept /\ (Abstract!Next \/ QueueSame)
SameList == Keeps /\ QueueSame /\ list' = list /\ (list # << >> => HeadKept)

LEMMA InvListing == ASSUME Inv PROVE Listing /\ last \in Int
BY DEF Inv, TypeInv, ListInv, Listing

LEMMA SameStep ==
  ASSUME Inv, list' = list, last' = last, delta' \in [Timers -> Nat],
         \A t \in Listed : delta'[t] = delta[t]
  PROVE  SameList
BY InvListing, StepSame DEF SameList, Keeps, QueueSame

LEMMA UnchangedStep ==
  ASSUME Inv, UNCHANGED <<list, last, delta>>
  PROVE  SameList
<1>1. delta' \in [Timers -> Nat] BY DEF Inv, TypeInv
<1> QED BY <1>1, SameStep

LEMMA InsertStep ==
  ASSUME Inv, last' = last, NEW u \in Timers, u \notin Listed, NEW delay \in Nat,
         Insert(list, delta, u, delay)
  PROVE  Inserts(u, delay)
BY InvListing, StepInsert DEF Inserts

LEMMA DeleteStep ==
  ASSUME Inv, last' = last, NEW u \in Timers, Delete(u)
  PROVE  Keeps
<1>1. CASE u \in Listed BY <1>1, InvListing, StepDelete DEF Keeps
<1>2. CASE u \notin Listed
  <2>1. list' = list /\ delta' = delta BY <1>2 DEF Delete
  <2>2. SameList BY <2>1, UnchangedStep
  <2> QED BY <2>2 DEF SameList
<1> QED BY <1>1, <1>2

(* Who is listed after a step. *)
LEMMA ListedAfter ==
  ASSUME Inv, Arranged, last' \in Int, NEW t \in Listed'
  PROVE  /\ t \in Timers
         /\ \E a \in Int : Due(t, a)'
<1>1. list' \in Seq(Timers) /\ delta' \in [Timers -> Int] BY DEF Arranged
<1>2. PICK i \in 1 .. Len(list') : t = list'[i] BY <1>1 DEF Listed, ToSet
<1>3. SumTo(list', delta', i) \in Int
  <2>1. i \in 0 .. Len(list') BY <1>1
  <2> QED BY <1>1, <2>1, SumToStep
<1>4. last' + SumTo(list', delta', i) \in Int BY <1>3
<1>5. PICK a \in Int : a = last' + SumTo(list', delta', i) BY <1>4
<1>6. Due(t, a)' BY <1>2, <1>5, Zenon DEF Due, Deadline
<1> QED BY <1>1, <1>2, <1>6

LEMMA DueListed == ASSUME Inv, NEW t, NEW a, Due(t, a) PROVE t \in Listed
BY ListedIs DEF Due, Inv, TypeInv

LEMMA KeptListed ==
  ASSUME Inv, Arranged, Kept, last' \in Int, NEW t \in Listed'
  PROVE  t \in Listed
<1>1. t \in Timers /\ \E a \in Int : Due(t, a)' BY ListedAfter
<1>2. \E a \in Int : Due(t, a) BY <1>1 DEF Kept
<1> QED BY <1>2, DueListed

LEMMA PlacedListed ==
  ASSUME Inv, Arranged, NEW u, NEW at, Placed(u, at), last' \in Int, NEW t \in Listed'
  PROVE  t = u \/ t \in Listed
<1>1. t \in Timers /\ \E a \in Int : Due(t, a)' BY ListedAfter
<1>2. t = u \/ \E a \in Int : Due(t, a) BY <1>1 DEF Placed
<1> QED BY <1>2, DueListed

----------------------------------------------------------------------------
(* The effect of each action on the list. *)

LEMMA AddTimerEffect ==
  ASSUME Inv, NEW u \in Timers, AddTimer(u)
  PROVE  (At("callback") /\ Inserts(u, Start[u])) \/ (~ At("callback") /\ SameList)
<1>1. last' = last /\ u \notin created /\ u \notin Listed
  BY DEF AddTimer, clock, Inv, ListInv
<1>2. Start[u] \in Nat BY DelaysAssumption
<1>3. CASE At("callback") /\ Insert(list, delta, u, Start[u]) BY <1>1, <1>2, <1>3, InsertStep
<1>4. CASE ~ At("callback") /\ delta' = [delta EXCEPT ![u] = Start[u]] /\ list' = list
  <2>1. delta' \in [Timers -> Nat] /\ \A t \in Listed : delta'[t] = delta[t]
    BY <1>1, <1>2, <1>4 DEF Inv, TypeInv
  <2>2. SameList BY <1>1, <1>4, <2>1, SameStep
  <2> QED BY <1>4, <2>2
<1> QED BY <1>3, <1>4 DEF AddTimer

LEMMA TakeAddEffect ==
  ASSUME Inv, TakeAdd
  PROVE  (add # None /\ Inserts(add, delta[add])) \/ (add = None /\ SameList)
<1>1. last' = last BY DEF TakeAdd, clock
<1>2. CASE add # None
  <2>1. add \in Timers /\ add \notin Listed /\ delta[add] \in Nat
    BY <1>2 DEF Inv, TypeInv, ListInv
  <2>2. Insert(list, delta, add, delta[add]) BY <1>2 DEF TakeAdd
  <2> QED BY <1>1, <1>2, <2>1, <2>2, InsertStep
<1>3. CASE add = None
  <2>1. UNCHANGED <<list, last, delta>> BY <1>1, <1>3 DEF TakeAdd
  <2> QED BY <1>3, <2>1, UnchangedStep
<1> QED BY <1>2, <1>3

LEMMA RequeueEffect ==
  ASSUME Inv, Requeue
  PROVE  /\ cur \in Timers /\ cur \notin Listed /\ last' = last
         /\ \/ resched /\ delta[cur] \in Nat /\ Inserts(cur, delta[cur])
            \/ ~ resched /\ Frequency[cur] > 0 /\ NextDelay(cur) \in Nat
                 /\ Inserts(cur, NextDelay(cur))
            \/ ~ resched /\ Frequency[cur] = 0 /\ SameList
<1>1. last' = last BY DEF Requeue, clock
<1>2. cur \in Timers /\ cur \notin Listed /\ delta[cur] \in Nat /\ Frequency[cur] \in Nat
  BY DelaysAssumption DEF Requeue, At, Inv, TypeInv, ListInv, Running
<1>3. NextDelay(cur) \in Nat BY <1>2 DEF NextDelay, Inv, TypeInv
<1>4. CASE resched
  <2>1. Insert(list, delta, cur, delta[cur]) BY <1>4 DEF Requeue
  <2>2. Inserts(cur, delta[cur]) BY <1>1, <1>2, <2>1, InsertStep
  <2> QED BY <1>1, <1>2, <1>4, <2>2
<1>5. CASE ~ resched /\ Frequency[cur] > 0
  <2>1. Insert(list, delta, cur, NextDelay(cur)) BY <1>5 DEF Requeue
  <2>2. Inserts(cur, NextDelay(cur)) BY <1>1, <1>2, <1>3, <2>1, InsertStep
  <2> QED BY <1>1, <1>2, <1>3, <1>5, <2>2
<1>6. CASE ~ resched /\ Frequency[cur] = 0
  <2>1. UNCHANGED <<list, last, delta>> BY <1>1, <1>6 DEF Requeue
  <2>2. SameList BY <2>1, UnchangedStep
  <2> QED BY <1>1, <1>2, <1>6, <2>2
<1> QED BY <1>2, <1>4, <1>5, <1>6

LEMMA DispatchEffect ==
  ASSUME Inv, Dispatch
  PROVE  /\ Keeps /\ Head(list) \in Timers /\ Head(list) \in Listed /\ Head(list) \notin Listed'
         /\ Due(Head(list), last') /\ last' \in Nat /\ last' <= tick
<1>1. /\ list # << >> /\ list' = Tail(list) /\ delta' = delta /\ last' = last + delta[Head(list)]
      /\ tick - last >= delta[Head(list)]
  BY DEF Dispatch, HeadDue
<1>2. /\ Arranged /\ Kept /\ Abstract!Next /\ Head(list) \in Timers
      /\ Head(list) \notin ToSet(list') /\ Due(Head(list), last')
  BY <1>1, InvListing, StepTake
<1>3. delta[Head(list)] \in Nat BY <1>2 DEF Inv, TypeInv
<1>4. last' \in Nat /\ last' <= tick BY <1>1, <1>3, SMTT(40) DEF Inv, TypeInv
<1>5. Head(list) \in Listed
  <2>1. list \in Seq(Timers) BY DEF Inv, TypeInv
  <2>2. 1 \in 1 .. Len(list) /\ list[1] = Head(list) BY <1>1, <2>1
  <2> QED BY <2>1, <2>2, ListedIs
<1> QED BY <1>2, <1>4, <1>5 DEF Keeps, Listed

LEMMA RescheduleEffect ==
  ASSUME Inv, Reschedulable # "any", NEW u \in Timers, NEW d \in Delays, Reschedule(u, d)
  PROVE  Inserts(u, d) /\ d \in Nat /\ last' = last /\ u \in Listed /\ list # << >>
<1>1. /\ last' = last /\ list # << >> /\ u = Last(list) /\ u \in Listed
      /\ Insert(RemoveFirst(list, u), delta, u, d) /\ d \in Nat
  BY DelaysAssumption DEF Reschedule, RescheduleListed, clock
<1> QED BY <1>1, InvListing, StepMoveLast DEF Inserts

LEMMA RescheduleMoves ==
  ASSUME Inv, NEW u \in Timers, NEW d \in Delays, Reschedule(u, d)
  PROVE  Arranged /\ \A t \in Listed' : t \in Listed
<1>1. u \in Listed /\ Insert(RemoveFirst(list, u), delta, u, d) /\ d \in Nat
  BY DelaysAssumption DEF Reschedule, RescheduleListed
<1> QED BY <1>1, InvListing, StepMove DEF Listed

LEMMA RemoveEffect ==
  ASSUME Inv, TakeDel \/ \E u \in Timers : CallbackRemove(u)
  PROVE  Keeps /\ last' = last
<1>1. CASE TakeDel
  <2>1. last' = last BY <1>1 DEF TakeDel
  <2>2. CASE del # None
    <3>1. del \in Timers /\ Delete(del) BY <1>1, <2>2 DEF TakeDel, Inv, TypeInv
    <3> QED BY <2>1, <3>1, DeleteStep
  <2>3. CASE del = None
    <3>1. UNCHANGED <<list, last, delta>> BY <1>1, <2>1, <2>3 DEF TakeDel
    <3> QED BY <2>1, <3>1, UnchangedStep DEF SameList
  <2> QED BY <2>2, <2>3
<1>2. ASSUME NEW u \in Timers, CallbackRemove(u) PROVE Keeps /\ last' = last
  <2>1. last' = last /\ Delete(u) BY <1>2 DEF CallbackRemove, clock
  <2> QED BY <2>1, DeleteStep
<1> QED BY <1>1, <1>2

LEMMA RescheduleCurrentEffect ==
  ASSUME Inv, NEW d \in Delays, RescheduleCurrent(d)
  PROVE  SameList /\ last' = last
<1>1. /\ last' = last /\ list' = list /\ delta' = [delta EXCEPT ![cur] = d] /\ d \in Nat
      /\ cur \notin Listed
  BY DelaysAssumption DEF RescheduleCurrent, clock, Inv, ListInv, At, Running
<1>2. \A t \in Listed : t \in Timers /\ t # cur BY <1>1 DEF Inv, TypeInv, ListInv
<1>3. delta' \in [Timers -> Nat] /\ \A t \in Listed : delta'[t] = delta[t]
  BY <1>1, <1>2 DEF Inv, TypeInv
<1> QED BY <1>1, <1>3, SameStep

(* An empty list is empty at any time. *)
LEMMA WakeUpEffect ==
  ASSUME Inv, WakeUp
  PROVE  /\ list = << >> /\ list' = << >> /\ last' \in Nat /\ Arranged /\ QueueSame
         /\ \A t, a : ~ Due(t, a)'
<1>1. list = << >> /\ list' = list /\ delta' = delta /\ last' = now
  BY DEF WakeUp, At, Inv, ListInv
<1>2. Arranged /\ last' \in Nat BY <1>1 DEF Arranged, Inv, TypeInv, ListInv
<1>3. DOMAIN list = {} /\ Len(list) = 0 BY <1>1
<1>4. QueueSame BY <1>1, <1>3 DEF QueueSame, Queue
<1>5. \A t, a : ~ Due(t, a)' BY <1>1, <1>3 DEF Due
<1> QED BY <1>1, <1>2, <1>4, <1>5

----------------------------------------------------------------------------
(* The invariant is inductive, whatever clients reschedule. *)

LEMMA InitInv == ASSUME Init PROVE Inv
<1>1. ToSet(<< >>) = {} BY DEF ToSet
<1>2. TypeInv
  <2>1. << >> \in Seq(Timers) /\ [u \in Timers |-> 0] \in [Timers -> Nat] OBVIOUS
  <2>2. list \in Seq(Timers) /\ delta \in [Timers -> Nat] /\ runs \in [Timers -> Nat]
    BY <2>1, Zenon DEF Init
  <2> QED BY <2>2 DEF Init, TypeInv
<1>3. ListInv BY <1>1 DEF Init, ListInv, Injective, Listed, Running, At
<1> QED BY <1>2, <1>3 DEF Inv

(* Arranged, and new timers are not those in the slot or dispatched. *)
LEMMA InvAfter ==
  ASSUME Arranged, TypeInv',
         \A t \in Listed' : t \in created',
         add' # None => add' \in created' /\ add' \notin Listed',
         Running' => cur' \in created' /\ cur' \notin Listed' /\ cur' # add',
         At("asleep")' => list' = << >>,
         At("nap")' => cur' \in Timers
  PROVE  Inv'
BY DEF Inv, ListInv, Arranged

LEMMA ClientKeepsInv ==
  ASSUME Inv, ClientCall
  PROVE  Inv'
<1> USE DEF Inv, TypeInv, ListInv, Running, At
<1>1. ASSUME NEW u \in Timers, AddTimer(u) PROVE Inv'
  <2>1. Arranged
    BY <1>1, AddTimerEffect DEF Inserts, SameList, Keeps
  <2>2. last' \in Int /\ u \notin created BY <1>1 DEF AddTimer, clock
  <2>3. \A t \in Listed' : t = u \/ t \in Listed
    <3>1. CASE Inserts(u, Start[u]) BY <2>1, <2>2, <3>1, PlacedListed DEF Inserts
    <3>2. CASE SameList BY <3>2 DEF SameList, Listed
    <3> QED BY <1>1, <3>1, <3>2, AddTimerEffect
  <2>4. ~ At("callback") => \A t \in Listed' : t \in Listed
    BY <1>1, AddTimerEffect DEF SameList, Listed
  <2>5. TypeInv' BY <1>1, <2>1 DEF AddTimer, clock, Arranged
  <2> QED BY <1>1, <2>1, <2>2, <2>3, <2>4, <2>5, InvAfter DEF AddTimer, clock
<1>2. ASSUME NEW u \in Timers, RemoveTimer(u) PROVE Inv'
  BY <1>2 DEF RemoveTimer, clock, Listed
<1>3. ASSUME NEW u \in Timers, CallbackRemove(u) PROVE Inv'
  <2>1. Arranged /\ Kept BY <1>3, RemoveEffect DEF Keeps
  <2>2. last' \in Int BY <1>3 DEF CallbackRemove, clock
  <2>3. \A t \in Listed' : t \in Listed BY <2>1, <2>2, KeptListed
  <2>4. TypeInv' BY <1>3, <2>1 DEF CallbackRemove, clock, Arranged
  <2> QED BY <1>3, <2>1, <2>3, <2>4, InvAfter DEF CallbackRemove, clock
<1>4. ASSUME NEW u \in Timers, NEW d \in Delays, Reschedule(u, d) PROVE Inv'
  <2>1. Arranged /\ \A t \in Listed' : t \in Listed BY <1>4, RescheduleMoves
  <2>2. u \in Listed BY <1>4 DEF Reschedule, RescheduleListed
  <2>3. TypeInv' BY <1>4, <2>1 DEF Reschedule, RescheduleListed, clock, Arranged
  <2>4. list # << >> BY <2>2 DEF Listed, ToSet
  <2> QED BY <1>4, <2>1, <2>3, <2>4, InvAfter DEF Reschedule, RescheduleListed, clock
<1> QED BY <1>1, <1>2, <1>3, <1>4 DEF ClientCall

LEMMA TimerKeepsInv ==
  ASSUME Inv, TimerStep
  PROVE  Inv'
<1> USE DEF Inv, TypeInv, ListInv, Running, At
<1>1. CASE SleepForever BY <1>1 DEF SleepForever, clock, Listed
<1>2. CASE WakeUp BY <1>2 DEF WakeUp, Listed
<1>3. CASE TakeAdd
  <2>1. Arranged BY <1>3, TakeAddEffect DEF Inserts, SameList, Keeps
  <2>2. last' \in Int BY <1>3 DEF TakeAdd, clock
  <2>3. \A t \in Listed' : t \in Listed \/ (t = add /\ add # None)
    <3>1. CASE add # None /\ Inserts(add, delta[add])
      BY <2>1, <2>2, <3>1, PlacedListed DEF Inserts
    <3>2. CASE SameList BY <3>2 DEF SameList, Listed
    <3> QED BY <1>3, <3>1, <3>2, TakeAddEffect
  <2>4. TypeInv' BY <1>3, <2>1 DEF TakeAdd, clock, Arranged
  <2> QED BY <1>3, <2>1, <2>3, <2>4, InvAfter DEF TakeAdd, clock
<1>4. CASE TakeDel
  <2>1. Arranged /\ Kept BY <1>4, RemoveEffect DEF Keeps
  <2>2. last' \in Int BY <1>4 DEF TakeDel
  <2>3. \A t \in Listed' : t \in Listed BY <2>1, <2>2, KeptListed
  <2>4. TypeInv' BY <1>4, <2>1 DEF TakeDel, Arranged
  <2> QED BY <1>4, <2>1, <2>3, <2>4, InvAfter DEF TakeDel
<1>5. CASE Dispatch
  <2>1. /\ Arranged /\ Kept /\ Head(list) \in Timers /\ Head(list) \in Listed
        /\ Head(list) \notin Listed' /\ last' \in Nat
    BY <1>5, DispatchEffect DEF Keeps
  <2>2. \A t \in Listed' : t \in Listed BY <2>1, KeptListed
  <2>3. TypeInv'
    <3>1. runs[Head(list)] + 1 \in Nat BY <2>1
    <3> QED BY <1>5, <2>1, <3>1 DEF Dispatch, Arranged
  <2>4. /\ pc' = "fire" /\ cur' = Head(list) /\ UNCHANGED <<add, created>>
    BY <1>5 DEF Dispatch
  <2>5. Head(list) \in created /\ Head(list) # add /\ (add # None => add \notin Listed')
    BY <2>1, <2>2, DelaysAssumption
  <2>6. \A t \in Listed' : t \in created' BY <2>2, <2>4
  <2> QED BY <2>1, <2>3, <2>4, <2>5, <2>6, InvAfter
<1>6. CASE Callback BY <1>6 DEF Callback, clock, Listed
<1>7. CASE Requeue
  <2>1. Arranged BY <1>7, RequeueEffect DEF Inserts, SameList, Keeps
  <2>2. last' \in Int BY <1>7 DEF Requeue, clock
  <2>3. \A t \in Listed' : t \in Listed \/ t = cur
    <3>1. ASSUME NEW x, Inserts(cur, x) PROVE \A t \in Listed' : t \in Listed \/ t = cur
      BY <2>1, <2>2, <3>1, PlacedListed DEF Inserts
    <3>2. CASE SameList BY <3>2 DEF SameList, Listed
    <3> QED BY <1>7, <3>1, <3>2, RequeueEffect
  <2>4. TypeInv' BY <1>7, <2>1 DEF Requeue, clock, Arranged
  <2> QED BY <1>7, <2>1, <2>3, <2>4, InvAfter DEF Requeue, clock
<1>8. CASE LoopEnds
  <2>1. list # << >> => Head(list) \in Timers OBVIOUS
  <2> QED BY <1>8, <2>1 DEF LoopEnds, clock, Listed
<1>9. CASE Nap
  <2>1. delta[cur] \in Nat BY <1>9 DEF Nap
  <2>2. nap' \in Nat BY <1>9, <2>1 DEF Nap
  <2> QED BY <1>9, <2>2 DEF Nap, clock, Listed
<1>10. CASE Doze BY <1>10 DEF Doze, clock, Listed
<1>11. ASSUME NEW d \in Delays, RescheduleCurrent(d) PROVE Inv'
  <2>1. d \in Nat BY DelaysAssumption
  <2>2. Arranged /\ list' = list
    BY <1>11, RescheduleCurrentEffect DEF SameList, Keeps
  <2>3. cur \in Timers BY <1>11 DEF RescheduleCurrent
  <2>4. TypeInv' BY <1>11, <2>1, <2>2, <2>3 DEF RescheduleCurrent, clock, Arranged
  <2> QED BY <1>11, <2>2, <2>4, InvAfter DEF RescheduleCurrent, clock, Listed
<1> QED BY <1>1, <1>2, <1>3, <1>4, <1>5, <1>6, <1>7, <1>8, <1>9, <1>10, <1>11 DEF TimerStep

LEMMA InvNext ==
  ASSUME Inv, [Next]_vars
  PROVE  Inv'
<1>1. CASE Pass BY <1>1 DEF Pass, Inv, TypeInv, ListInv, Running, At, Listed
<1>2. CASE ClientCall BY <1>2, ClientKeepsInv
<1>3. CASE TimerStep BY <1>3, TimerKeepsInv
<1>4. CASE UNCHANGED vars BY <1>4 DEF vars, Inv, TypeInv, ListInv, Running, At, Listed
<1> QED BY <1>1, <1>2, <1>3, <1>4 DEF Next

LEMMA SpecInv == Spec => []Inv
BY InitInv, InvNext, PTL DEF Spec

----------------------------------------------------------------------------
(* The chain of delays is the queue of deadlines. *)

LEMMA UnchangedQueue ==
  ASSUME Inv, UNCHANGED <<list, last, delta>>
  PROVE  QueueSame
BY UnchangedStep DEF SameList

LEMMA QueueStep ==
  ASSUME Inv, Reschedulable # "any", [Next]_vars
  PROVE  Abstract!Next \/ QueueSame
<1>1. ASSUME NEW u \in Timers, AddTimer(u) PROVE Abstract!Next \/ QueueSame
  BY <1>1, AddTimerEffect DEF Inserts, SameList
<1>2. ASSUME NEW u \in Timers, RemoveTimer(u) PROVE QueueSame
  BY <1>2, UnchangedQueue DEF RemoveTimer, clock
<1>3. ASSUME NEW u \in Timers, CallbackRemove(u) PROVE Abstract!Next \/ QueueSame
  BY <1>3, RemoveEffect DEF Keeps
<1>4. ASSUME NEW u \in Timers, NEW d \in Delays, Reschedule(u, d)
      PROVE  Abstract!Next
  BY <1>4, RescheduleEffect DEF Inserts
<1>5. CASE SleepForever BY <1>5, UnchangedQueue DEF SleepForever, clock
<1>6. CASE WakeUp BY <1>6, WakeUpEffect
<1>7. CASE TakeAdd BY <1>7, TakeAddEffect DEF Inserts, SameList
<1>8. CASE TakeDel BY <1>8, RemoveEffect DEF Keeps
<1>9. CASE Dispatch BY <1>9, DispatchEffect DEF Keeps
<1>10. CASE Callback BY <1>10, UnchangedQueue DEF Callback, clock
<1>11. CASE Requeue BY <1>11, RequeueEffect DEF Inserts, SameList
<1>12. CASE LoopEnds BY <1>12, UnchangedQueue DEF LoopEnds, clock
<1>13. CASE Nap BY <1>13, UnchangedQueue DEF Nap, clock
<1>14. CASE Doze BY <1>14, UnchangedQueue DEF Doze, clock
<1>15. ASSUME NEW d \in Delays, RescheduleCurrent(d) PROVE QueueSame
  BY <1>15, RescheduleCurrentEffect DEF SameList
<1>16. CASE Pass BY <1>16, UnchangedQueue DEF Pass
<1>17. CASE UNCHANGED vars BY <1>17, UnchangedQueue DEF vars
<1>18. CASE ClientCall BY <1>1, <1>2, <1>3, <1>4, <1>18 DEF ClientCall
<1>19. CASE TimerStep
  BY <1>5, <1>6, <1>7, <1>8, <1>9, <1>10, <1>11, <1>12, <1>13, <1>14, <1>15, <1>19 DEF TimerStep
<1> QED BY <1>16, <1>17, <1>18, <1>19 DEF Next

(* Every behaviour of the timer list is one of the queue of deadlines, if  *)
(* clients reschedule no timer but the last one: inserting, removing and   *)
(* dispatching one timer leaves the deadlines of the others alone, in      *)
(* order, equal ones in the order of their arrival.                        *)
THEOREM KeepsDeadlines == Reschedulable # "any" => (Spec => ImplementsQueue)
<1> SUFFICES ASSUME Reschedulable # "any" PROVE Spec => ImplementsQueue OBVIOUS
<1>1. Init => Abstract!Init
  <2> SUFFICES ASSUME Init PROVE Abstract!Init OBVIOUS
  <2>1. list = << >> BY DEF Init
  <2> QED BY <2>1 DEF Abstract!Init, Queue
<1>2. Inv /\ [Next]_vars => [Abstract!Next]_Queue
  BY QueueStep DEF QueueSame
<1> QED BY <1>1, <1>2, SpecInv, PTL DEF Spec, ImplementsQueue, Abstract!Spec

----------------------------------------------------------------------------
(* The timer thread's sleep: the time of its sleep, while it computes it   *)
(* and while it sleeps, is the head's, or it is going to be woken.         *)

SleepInv ==
  /\ At("nap") /\ ~ sem => list # << >> /\ cur = Head(list) /\ tick - last < delta[cur]
  /\ At("doze") /\ ~ sem /\ list # << >> => tick + nap <= last + delta[Head(list)]

(* Nobody but the thread moves on, and who gets a new head wakes it. *)
LEMMA SleepStays ==
  ASSUME SleepInv, UNCHANGED <<last, tick, cur, nap, pc>>, sem' \/ ~ sem,
         sem' \/ (list' = list /\ delta' = delta) \/ HeadKept
                 \/ (~ At("nap") /\ ~ At("doze"))
  PROVE  SleepInv'
<1>1. CASE sem' BY <1>1 DEF SleepInv
<1>2. CASE ~ At("nap") /\ ~ At("doze") BY <1>2 DEF SleepInv, At
<1>3. CASE ~ sem' /\ list' = list /\ delta' = delta BY <1>3 DEF SleepInv, At
<1>4. CASE ~ sem' /\ HeadKept BY <1>4 DEF SleepInv, At, HeadKept
<1> QED BY <1>1, <1>2, <1>3, <1>4

LEMMA SleepStep ==
  ASSUME Inv, Reschedulable # "any", SleepInv, [Next]_vars
  PROVE  SleepInv'
<1>1. ASSUME NEW u \in Timers, AddTimer(u) PROVE SleepInv'
  <2>1. UNCHANGED <<last, tick, cur, nap, pc>> BY <1>1 DEF AddTimer, clock
  <2>2. CASE At("callback")
    <3>1. ~ At("nap") /\ ~ At("doze") BY <2>2 DEF At
    <3>2. ~ At("nap")' /\ ~ At("doze")' BY <2>1, <3>1 DEF At
    <3> QED BY <3>2 DEF SleepInv
  <2>3. CASE ~ At("callback")
    <3>1. sem' = TRUE BY <1>1, <2>3 DEF AddTimer
    <3> QED BY <3>1 DEF SleepInv
  <2> QED BY <2>2, <2>3
<1>2. ASSUME NEW u \in Timers, RemoveTimer(u) PROVE SleepInv'
  <2>1. UNCHANGED <<last, tick, cur, nap, pc, list, delta>> /\ sem \in BOOLEAN
    BY <1>2 DEF RemoveTimer, clock, Inv, TypeInv
  <2>2. sem' = sem \/ sem' = TRUE BY <1>2 DEF RemoveTimer
  <2> QED BY <2>1, <2>2, SleepStays
<1>3. ASSUME NEW u \in Timers, CallbackRemove(u) PROVE SleepInv'
  BY <1>3 DEF CallbackRemove, clock, SleepInv, At
<1>4. ASSUME NEW u \in Timers, NEW d \in Delays, Reschedule(u, d) PROVE SleepInv'
  <2>1. UNCHANGED <<last, tick, cur, nap, pc>> /\ sem' = (sem \/ Head(list') = u)
    BY <1>4 DEF Reschedule, RescheduleListed, clock
  <2>2. Head(list') = u \/ HeadKept BY <1>4, RescheduleEffect DEF Inserts
  <2> QED BY <2>1, <2>2, SleepStays
<1>5. CASE SleepForever BY <1>5 DEF SleepForever, SleepInv, At
<1>6. CASE WakeUp BY <1>6 DEF WakeUp, SleepInv, At
<1>7. CASE TakeAdd BY <1>7 DEF TakeAdd, SleepInv, At
<1>8. CASE TakeDel BY <1>8 DEF TakeDel, SleepInv, At
<1>9. CASE Dispatch BY <1>9 DEF Dispatch, SleepInv, At
<1>10. CASE Callback BY <1>10 DEF Callback, SleepInv, At
<1>11. CASE Requeue BY <1>11 DEF Requeue, SleepInv, At
<1>12. CASE LoopEnds
  <2>1. CASE list = << >> BY <1>12, <2>1 DEF LoopEnds, SleepInv, At
  <2>2. CASE list # << >>
    <3>1. /\ pc' = "nap" /\ cur' = Head(list) /\ UNCHANGED <<list, delta, tick, last>>
          /\ ~ (tick - last >= delta[Head(list)])
      BY <1>12, <2>2 DEF LoopEnds, HeadDue, clock
    <3>2. Head(list) \in Timers BY <2>2 DEF Inv, TypeInv
    <3>3. delta[Head(list)] \in Nat /\ tick \in Nat /\ last \in Nat BY <3>2 DEF Inv, TypeInv
    <3>4. tick - last < delta[Head(list)] BY <3>1, <3>3
    <3> QED BY <2>2, <3>1, <3>4 DEF SleepInv, At
  <2> QED BY <2>1, <2>2
<1>13. CASE Nap
  <2> SUFFICES ASSUME pc' = "doze", ~ sem', list' # << >>
               PROVE  tick' + nap' <= last' + delta'[Head(list')]
    BY <1>13 DEF Nap, SleepInv, At
  <2> DEFINE time == delta[cur] - (tick - last)
  <2>1. /\ UNCHANGED <<list, delta, tick, last, sem>> /\ At("nap")
        /\ nap' = IF time < 0 THEN 1 ELSE time
    BY <1>13 DEF Nap, clock
  <2>2. cur = Head(list) /\ tick - last < delta[cur] BY <2>1 DEF SleepInv
  <2>3. delta[cur] \in Nat /\ tick \in Nat /\ last \in Nat
    BY <2>1 DEF Inv, TypeInv, ListInv
  <2>4. PICK x \in Nat : x = delta[cur] BY <2>3
  <2>5. tick - last < x /\ nap' = IF x - (tick - last) < 0 THEN 1 ELSE x - (tick - last)
    BY <2>1, <2>2, <2>4
  <2>6. tick + nap' <= last + x BY <2>3, <2>5
  <2> QED BY <2>1, <2>2, <2>4, <2>6
<1>14. CASE Doze BY <1>14 DEF Doze, SleepInv, At
<1>15. ASSUME NEW d \in Delays, RescheduleCurrent(d) PROVE SleepInv'
  BY <1>15 DEF RescheduleCurrent, SleepInv, At
<1>16. CASE Pass BY <1>16 DEF Pass, SleepInv, At
<1>17. CASE UNCHANGED vars BY <1>17 DEF vars, SleepInv, At
<1>18. CASE ClientCall BY <1>1, <1>2, <1>3, <1>4, <1>18 DEF ClientCall
<1>19. CASE TimerStep
  BY <1>5, <1>6, <1>7, <1>8, <1>9, <1>10, <1>11, <1>12, <1>13, <1>14, <1>15, <1>19 DEF TimerStep
<1> QED BY <1>16, <1>17, <1>18, <1>19 DEF Next

(* The timer thread oversleeps the first deadline by no more than the time *)
(* that went by in the pass, unless it is going to be woken, if clients    *)
(* reschedule no timer but the last.                                       *)
THEOREM OversleepBounded == Reschedulable # "any" => (Spec => []OversleepBound)
<1> SUFFICES ASSUME Reschedulable # "any" PROVE Spec => []OversleepBound OBVIOUS
<1>1. Init => SleepInv BY DEF Init, SleepInv, At
<1>2. Inv /\ SleepInv /\ [Next]_vars => SleepInv' BY SleepStep
<1>3. Inv /\ SleepInv => OversleepBound
  <2> SUFFICES ASSUME Inv, SleepInv, At("doze"), ~ sem, list # << >>
               PROVE  Oversleep <= bed - tick
    BY DEF OversleepBound
  <2>1. SumTo(list, delta, 1) = delta[Head(list)] BY TailIs DEF Inv, TypeInv, ListInv
  <2>2. Deadline(1) = last + delta[Head(list)] BY <2>1 DEF Deadline
  <2>3. Head(list) \in Timers BY DEF Inv, TypeInv
  <2>4. delta[Head(list)] \in Nat BY <2>3 DEF Inv, TypeInv
  <2>5. PICK d \in Nat : d = last + delta[Head(list)] BY <2>4 DEF Inv, TypeInv
  <2>6. tick + nap <= d BY <2>5 DEF SleepInv
  <2>7. tick \in Nat /\ nap \in Nat /\ bed \in Nat BY DEF Inv, TypeInv
  <2>8. Oversleep = bed + nap - d BY <2>2, <2>5 DEF Oversleep
  <2> QED BY <2>6, <2>7, <2>8
<1> QED BY <1>1, <1>2, <1>3, SpecInv, PTL DEF Spec

----------------------------------------------------------------------------
(* One pass ends: what ran once waits for no time before the pass, and     *)
(* what ran twice for a later one.                                         *)

InTime(u, a) == (runs[u] = 1 => a >= tick) /\ (runs[u] = 2 => a > tick)

RunsInv ==
  /\ \A u \in Timers : runs[u] <= 2
  /\ \A u \in Timers, a \in Int : Due(u, a) => InTime(u, a)
  /\ Running /\ runs[cur] = 2 => last >= tick
  /\ Running /\ resched => runs[cur] = 0
  /\ \A u \in Timers : u \notin created => runs[u] = 0
  /\ add # None => runs[add] = 0

LEMMA RunsStay ==
  ASSUME RunsInv, Kept, UNCHANGED <<tick, runs, add, pc, cur, resched, last>>,
         created \subseteq created'
  PROVE  RunsInv'
<1>1. \A u \in Timers, a \in Int : Due(u, a)' => InTime(u, a)'
  BY DEF RunsInv, Kept, InTime
<1> QED BY <1>1 DEF RunsInv, Running

LEMMA RunsPlaced ==
  ASSUME RunsInv, NEW u \in Timers, NEW at \in Int, Placed(u, at), UNCHANGED <<tick, runs>>,
         InTime(u, at)
  PROVE  \A t \in Timers, a \in Int : Due(t, a)' => InTime(t, a)'
BY DEF RunsInv, Placed, InTime

LEMMA RunsStep ==
  ASSUME Inv, Reschedulable # "any", RunsInv, [Next]_vars
  PROVE  RunsInv'
<1>0. /\ Inv' /\ last \in Nat /\ tick \in Nat /\ runs \in [Timers -> Nat]
      /\ created \in SUBSET Timers
  BY InvNext DEF Inv, TypeInv
<1>1. ASSUME NEW u \in Timers, AddTimer(u) PROVE RunsInv'
  <2>1. /\ UNCHANGED <<last, tick, runs, cur, resched, pc>> /\ u \notin created
        /\ created' = created \cup {u} /\ (add' = add \/ add' = u) /\ Start[u] \in Nat
    BY <1>1, DelaysAssumption DEF AddTimer, clock
  <2>2. runs[u] = 0 BY <2>1 DEF RunsInv
  <2>3. \A t \in Timers, a \in Int : Due(t, a)' => InTime(t, a)'
    <3>1. CASE Inserts(u, Start[u])
      <4>1. PICK at \in Int : at = last + Start[u] BY <1>0, <2>1
      <4>2. Placed(u, at) BY <3>1, <4>1 DEF Inserts
      <4>3. InTime(u, at) BY <2>2 DEF InTime
      <4> QED BY <2>1, <4>2, <4>3, RunsPlaced
    <3>2. CASE SameList
      BY <2>1, <3>2 DEF SameList, Keeps, Kept, RunsInv, InTime
    <3> QED BY <1>1, <3>1, <3>2, AddTimerEffect
  <2> QED BY <2>1, <2>2, <2>3 DEF RunsInv, Running
<1>2. ASSUME NEW u \in Timers, RemoveTimer(u) PROVE RunsInv'
  <2>1. Kept BY <1>2, UnchangedStep DEF RemoveTimer, clock, SameList, Keeps
  <2> QED BY <1>2, <2>1, RunsStay DEF RemoveTimer, clock
<1>3. ASSUME NEW u \in Timers, CallbackRemove(u) PROVE RunsInv'
  <2>1. Kept BY <1>3, RemoveEffect DEF Keeps
  <2> QED BY <1>3, <2>1, RunsStay DEF CallbackRemove, clock
<1>4. ASSUME NEW u \in Timers, NEW d \in Delays, Reschedule(u, d) PROVE RunsInv'
  <2>1. /\ UNCHANGED <<last, tick, add, cur, resched, pc, created>>
        /\ runs' = [runs EXCEPT ![u] = 0]
    BY <1>4 DEF Reschedule, RescheduleListed, clock
  <2>2. Placed(u, last + d) /\ d \in Nat /\ u \in Listed BY <1>4, RescheduleEffect DEF Inserts
  <2>3. \A t \in Timers : runs'[t] = (IF t = u THEN 0 ELSE runs[t]) BY <1>0, <2>1
  <2>4. \A t \in Timers, a \in Int : Due(t, a)' => InTime(t, a)'
    <3> SUFFICES ASSUME NEW t \in Timers, NEW a \in Int, Due(t, a)' PROVE InTime(t, a)' OBVIOUS
    <3>1. CASE t = u BY <2>3, <3>1 DEF InTime
    <3>2. CASE t # u BY <2>1, <2>2, <2>3, <3>2 DEF Placed, RunsInv, InTime
    <3> QED BY <3>1, <3>2
  <2>5. Running => cur \in Timers /\ cur # u BY <1>0, <2>2 DEF Inv, ListInv
  <2>6. add # None => add \in Timers BY <1>0 DEF Inv, ListInv
  <2> QED BY <2>1, <2>3, <2>4, <2>5, <2>6 DEF RunsInv, Running
<1>5. CASE SleepForever
  <2>1. Kept BY <1>5, UnchangedStep DEF SleepForever, clock, SameList, Keeps
  <2> QED BY <1>5, <2>1 DEF SleepForever, clock, RunsInv, Running, Kept, InTime
<1>6. CASE WakeUp
  <2>1. \A t, a : ~ Due(t, a)' BY <1>6, WakeUpEffect
  <2> QED BY <1>6, <2>1 DEF WakeUp, RunsInv, Running
<1>7. CASE TakeAdd
  <2>1. /\ UNCHANGED <<last, tick, runs, cur, resched, created>> /\ pc' = "del" /\ add' = None
    BY <1>7 DEF TakeAdd, clock
  <2>2. \A t \in Timers, a \in Int : Due(t, a)' => InTime(t, a)'
    <3>1. CASE add # None /\ Inserts(add, delta[add])
      <4>1. add \in Timers /\ delta[add] \in Nat BY <3>1 DEF Inv, TypeInv
      <4>2. PICK at \in Int : at = last + delta[add] BY <1>0, <4>1
      <4>3. Placed(add, at) BY <3>1, <4>2 DEF Inserts
      <4>4. InTime(add, at) BY <3>1 DEF InTime, RunsInv
      <4> QED BY <2>1, <4>1, <4>3, <4>4, RunsPlaced
    <3>2. CASE SameList
      BY <2>1, <3>2 DEF SameList, Keeps, Kept, RunsInv, InTime
    <3> QED BY <1>7, <3>1, <3>2, TakeAddEffect
  <2> QED BY <2>1, <2>2 DEF RunsInv, Running
<1>8. CASE TakeDel
  <2>1. /\ runs' = [u \in Timers |-> 0] /\ add' = add /\ pc' = "loop" /\ created' = created
    BY <1>8 DEF TakeDel
  <2>2. add # None => add \in Timers BY <1>0 DEF Inv, ListInv
  <2> QED BY <2>1, <2>2 DEF RunsInv, Running, InTime
<1>9. CASE Dispatch
  <2> DEFINE h == Head(list)
  <2>1. /\ Kept /\ h \in Timers /\ h \in Listed /\ h \notin Listed' /\ Due(h, last')
        /\ last' \in Nat /\ last' <= tick
    BY <1>9, DispatchEffect DEF Keeps
  <2>2. /\ UNCHANGED <<tick, add, created>> /\ runs' = [runs EXCEPT ![h] = @ + 1] /\ cur' = h
        /\ resched' = FALSE
    BY <1>9 DEF Dispatch
  <2> HIDE DEF h
  <2>3. runs'[h] = runs[h] + 1 /\ \A t \in Timers : t # h => runs'[t] = runs[t]
    BY <1>0, <2>1, <2>2
  <2>4. runs[h] \in Nat /\ runs[h] <= 2 /\ InTime(h, last') BY <1>0, <2>1 DEF RunsInv
  <2>5. runs[h] # 2 /\ (runs[h] = 1 => last' >= tick) BY <1>0, <2>1, <2>4 DEF InTime
  <2>6. runs'[h] <= 2 /\ (runs'[h] = 2 => last' >= tick) BY <2>3, <2>4, <2>5
  <2>7. \A t \in Timers, a \in Int : Due(t, a)' => InTime(t, a)'
    <3> SUFFICES ASSUME NEW t \in Timers, NEW a \in Int, Due(t, a)' PROVE InTime(t, a)' OBVIOUS
    <3>1. t # h
      <4>1. list' \in Seq(Timers) BY <1>0 DEF Inv, TypeInv
      <4>2. PICK i \in 1 .. Len(list') : list'[i] = t BY DEF Due
      <4>3. t \in Listed' BY <4>1, <4>2 DEF Listed, ToSet
      <4> QED BY <2>1, <4>3
    <3>2. Due(t, a) BY <2>1 DEF Kept
    <3> QED BY <2>2, <2>3, <3>1, <3>2 DEF RunsInv, InTime
  <2>8. h \in created BY <2>1 DEF Inv, ListInv
  <2>9. add # None => add \in Timers /\ add # h BY <1>0, <2>1 DEF Inv, ListInv
  <2> QED BY <2>2, <2>3, <2>6, <2>7, <2>8, <2>9 DEF RunsInv, Running
<1>10. CASE Callback
  <2>1. Kept BY <1>10, UnchangedStep DEF Callback, clock, SameList, Keeps
  <2> QED BY <1>10, <2>1 DEF Callback, clock, RunsInv, Running, Kept, InTime, At
<1>11. CASE Requeue
  <2>1. /\ UNCHANGED <<tick, runs, add, created>> /\ pc' = "loop" /\ At("callback")
    BY <1>11 DEF Requeue, clock
  <2>2. cur \in Timers /\ Frequency[cur] \in Nat BY <1>11, RequeueEffect, DelaysAssumption
  <2>3. /\ runs[cur] \in Nat /\ runs[cur] <= 2 /\ (runs[cur] = 2 => last >= tick)
        /\ (resched => runs[cur] = 0)
    BY <1>0, <2>1, <2>2 DEF RunsInv, Running, At
  <2>4. \A t \in Timers, a \in Int : Due(t, a)' => InTime(t, a)'
    <3>1. ASSUME NEW x \in Nat, Inserts(cur, x),
                 NEW at \in Int, at = last + x, InTime(cur, at)
          PROVE  \A t \in Timers, a \in Int : Due(t, a)' => InTime(t, a)'
      <4>1. Placed(cur, at) BY <3>1 DEF Inserts
      <4> QED BY <2>1, <2>2, <3>1, <4>1, RunsPlaced
    <3>2. CASE resched /\ delta[cur] \in Nat /\ Inserts(cur, delta[cur])
      <4>1. PICK x \in Nat, at \in Int : x = delta[cur] /\ at = last + x BY <1>0, <3>2
      <4>2. InTime(cur, at) BY <2>3, <3>2 DEF InTime
      <4> QED BY <3>1, <3>2, <4>1, <4>2
    <3>3. CASE Frequency[cur] > 0 /\ NextDelay(cur) \in Nat /\ Inserts(cur, NextDelay(cur))
      <4>1. PICK x \in Nat, at \in Int : x = NextDelay(cur) /\ at = last + x BY <1>0, <3>3
      <4>2. PICK f \in Nat : f = Frequency[cur] BY <2>2
      <4>3. x = IF tick - last > f THEN tick - last + 1 ELSE f BY <4>1, <4>2 DEF NextDelay
      <4>4. at >= tick /\ (last >= tick => at > tick) BY <1>0, <3>3, <4>1, <4>2, <4>3
      <4>5. InTime(cur, at) BY <2>3, <4>4 DEF InTime
      <4> QED BY <3>1, <3>3, <4>1, <4>5
    <3>4. CASE SameList
      BY <2>1, <3>4 DEF SameList, Keeps, Kept, RunsInv, InTime
    <3> QED BY <1>11, <3>2, <3>3, <3>4, RequeueEffect
  <2> QED BY <2>1, <2>4 DEF RunsInv, Running
<1>12. CASE LoopEnds
  <2>1. Kept BY <1>12, UnchangedStep DEF LoopEnds, clock, SameList, Keeps
  <2> QED BY <1>12, <2>1 DEF LoopEnds, clock, RunsInv, Running, Kept, InTime
<1>13. CASE Nap
  <2>1. Kept BY <1>13, UnchangedStep DEF Nap, clock, SameList, Keeps
  <2> QED BY <1>13, <2>1 DEF Nap, clock, RunsInv, Running, Kept, InTime
<1>14. CASE Doze
  <2>1. Kept BY <1>14, UnchangedStep DEF Doze, clock, SameList, Keeps
  <2> QED BY <1>14, <2>1 DEF Doze, clock, RunsInv, Running, Kept, InTime
<1>15. ASSUME NEW d \in Delays, RescheduleCurrent(d) PROVE RunsInv'
  <2>1. Kept BY <1>15, RescheduleCurrentEffect DEF SameList, Keeps
  <2>2. /\ UNCHANGED <<last, tick, add, cur, pc, created>> /\ runs' = [runs EXCEPT ![cur] = 0]
        /\ At("callback")
    BY <1>15 DEF RescheduleCurrent, clock
  <2>3. cur \in Timers /\ cur # add BY <2>2 DEF Inv, TypeInv, ListInv, Running, At
  <2>4. runs'[cur] = 0 /\ \A t \in Timers : t # cur => runs'[t] = runs[t] BY <1>0, <2>2, <2>3
  <2>5. \A t \in Timers, a \in Int : Due(t, a)' => InTime(t, a)'
    <3> SUFFICES ASSUME NEW t \in Timers, NEW a \in Int, Due(t, a)' PROVE InTime(t, a)' OBVIOUS
    <3>1. CASE t = cur BY <2>4, <3>1 DEF InTime
    <3>2. CASE t # cur BY <2>1, <2>2, <2>4, <3>2 DEF Kept, RunsInv, InTime
    <3> QED BY <3>1, <3>2
  <2>6. add # None => add \in Timers BY <1>0 DEF Inv, ListInv
  <2> QED BY <2>2, <2>3, <2>4, <2>5, <2>6 DEF RunsInv, Running
<1>16. CASE Pass
  <2>1. Kept BY <1>16, UnchangedStep DEF Pass, SameList, Keeps
  <2> QED BY <1>16, <2>1, RunsStay DEF Pass
<1>17. CASE UNCHANGED vars
  <2>1. Kept BY <1>17, UnchangedStep DEF vars, SameList, Keeps
  <2> QED BY <1>17, <2>1, RunsStay DEF vars
<1>18. CASE ClientCall BY <1>1, <1>2, <1>3, <1>4, <1>18 DEF ClientCall
<1>19. CASE TimerStep
  BY <1>5, <1>6, <1>7, <1>8, <1>9, <1>10, <1>11, <1>12, <1>13, <1>14, <1>15, <1>19 DEF TimerStep
<1> QED BY <1>16, <1>17, <1>18, <1>19 DEF Next

(* A timer that nobody reschedules runs at most twice in a pass, and so    *)
(* the pass ends, if clients reschedule no timer but the last one.         *)
THEOREM EveryPassEnds == Reschedulable # "any" => (Spec => []PassEnds)
<1> SUFFICES ASSUME Reschedulable # "any" PROVE Spec => []PassEnds OBVIOUS
<1>1. Init => RunsInv
  <2> SUFFICES ASSUME Init PROVE RunsInv OBVIOUS
  <2>1. Len(list) = 0 /\ add = None /\ pc = "top" /\ runs = [u \in Timers |-> 0] BY DEF Init
  <2> QED BY <2>1 DEF RunsInv, Running, Due
<1>2. Inv /\ RunsInv /\ [Next]_vars => RunsInv' BY RunsStep
<1>3. RunsInv => PassEnds BY DEF RunsInv, PassEnds
<1> QED BY <1>1, <1>2, <1>3, SpecInv, PTL DEF Spec

(* A timer that is overdue by more than its frequency does not try to      *)
(* catch up, whatever clients reschedule.                                  *)
THEOREM NeverCatchesUp == Spec => NoCatchUp
<1> DEFINE A == At("callback") /\ pc' = "loop" /\ ~ resched /\ tick - last > Frequency[cur]
                  => \A i \in DOMAIN list' : list'[i] = cur => SumTo(list', delta', i) > tick - last
<1>1. Inv /\ [Next]_vars => [A]_vars
  <2> SUFFICES ASSUME Inv, Next, At("callback"), pc' = "loop", ~ resched,
                      tick - last > Frequency[cur], NEW i \in DOMAIN list', list'[i] = cur
               PROVE  SumTo(list', delta', i) > tick - last
    OBVIOUS
  <2>1. Requeue
    <3>1. ~ ClientCall /\ ~ Pass
      BY DEF ClientCall, AddTimer, RemoveTimer, CallbackRemove, Reschedule, RescheduleListed, Pass, At
    <3> QED
      BY <3>1 DEF Next, TimerStep, SleepForever, WakeUp, TakeAdd, TakeDel, Dispatch, Callback,
                  LoopEnds, Nap, Doze, RescheduleCurrent, At
  <2>2. Inv' BY InvNext
  <2>3. /\ list' \in Seq(Timers) /\ delta' \in [Timers -> Int] /\ i \in 1 .. Len(list')
        /\ i \in 0 .. Len(list')
    <3>1. list' \in Seq(Timers) /\ delta' \in [Timers -> Nat] BY <2>2 DEF Inv, TypeInv
    <3>2. i \in 1 .. Len(list') BY <3>1
    <3> QED BY <3>1, <3>2
  <2>4. cur \in Timers /\ cur \notin Listed /\ last' = last /\ last \in Nat /\ tick \in Nat
    BY <2>1, RequeueEffect DEF Inv, TypeInv
  <2>5. CASE Frequency[cur] > 0 /\ NextDelay(cur) \in Nat /\ Inserts(cur, NextDelay(cur))
    <3>1. SumTo(list', delta', i) \in Int BY <2>3, SumToStep
    <3>2. PICK s \in Int, a \in Int : s = SumTo(list', delta', i) /\ a = last + s
      BY <2>4, <3>1
    <3>3. PICK u \in Timers : u = cur BY <2>4
    <3>4. Due(u, a)' BY <2>3, <2>4, <3>2, <3>3 DEF Due, Deadline
    <3>5. Placed(u, last + NextDelay(u))
      <4>1. Placed(cur, last + NextDelay(cur)) BY <2>5 DEF Inserts
      <4> QED BY <3>3, <4>1 DEF Placed
    <3>6. u \notin Listed BY <2>4, <3>3
    <3>7. a = last + NextDelay(u) BY <3>4, <3>5, <3>6, DueListed DEF Placed
    <3>8. NextDelay(u) = tick - last + 1 BY <3>3 DEF NextDelay
    <3> QED BY <2>4, <3>2, <3>7, <3>8
  <2>6. CASE SameList
    <3>1. cur \in Listed BY <2>3, <2>6 DEF SameList, Listed, ToSet
    <3> QED BY <2>4, <3>1
  <2> QED BY <2>1, <2>5, <2>6, RequeueEffect
<1> QED BY <1>1, SpecInv, PTL DEF Spec, NoCatchUp
=============================================================================
