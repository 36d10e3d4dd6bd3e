------------------------- MODULE GenericSet_proofs -------------------------
(***************************************************************************)
(* Proofs about GenericSet for any blocks and any number of units in one:  *)
(* which steps make the set lose count of its units, that the counters     *)
(* count the bits and the set grows when it is full until then, and from   *)
(* which step on an index need not lead back to its unit.                  *)
(***************************************************************************)
EXTENDS GenericSet, FiniteSetTheorems, TLAPS

(* Two chains put together hold the blocks of both. *)
LEMMA ConcatElements ==
  ASSUME NEW S, NEW s \in Seq(S), NEW t \in Seq(S)
  PROVE  /\ s \o t \in Seq(S) /\ Len(s \o t) = Len(s) + Len(t)
         /\ \A i \in DOMAIN s : i \in DOMAIN (s \o t) /\ (s \o t)[i] = s[i]
         /\ \A i \in DOMAIN t : /\ Len(s) + i \in DOMAIN (s \o t)
                                /\ (s \o t)[Len(s) + i] = t[i]
<1> DEFINE u == s \o t
<1>1. u \in Seq(S) /\ Len(u) = Len(s) + Len(t) OBVIOUS
<1>2. DOMAIN s = 1 .. Len(s) /\ DOMAIN t = 1 .. Len(t) /\ DOMAIN u = 1 .. Len(u)
  BY <1>1
<1>3. \A i \in 1 .. Len(s) : u[i] = s[i] OBVIOUS
<1>4. \A i \in 1 .. Len(t) : u[Len(s) + i] = t[i] OBVIOUS
<1> QED BY <1>1, <1>2, <1>3, <1>4

(* A block outside of the chain has no unit in use: this is why the first  *)
(* unit of a new block is free.                                            *)
UnlinkedAreFree == \A b \in Blocks \ Linked : used[b] = {}

Counted == \A b \in Blocks : nUsed[b] = Cardinality(used[b])

(* The set as it is until one of the two steps breaks it.                  *)
Good == TypeOK /\ UsedAreHeld /\ Counted /\ UnlinkedAreFree

IInv == TypeOK /\ (UsedAreHeld => Counted /\ UnlinkedAreFree)

USE MaxAssumption, BlocksAssumption

LEMMA InitGood == Init => Good
<1> SUFFICES ASSUME Init PROVE Good
  OBVIOUS
<1>1. TypeOK BY DEF Init, TypeOK
<1>2. UsedAreHeld BY DEF Init, UsedAreHeld
<1>3. Counted BY FS_EmptySet DEF Init, Counted
<1>4. UnlinkedAreFree BY DEF Init, UnlinkedAreFree
<1> QED BY <1>1, <1>2, <1>3, <1>4 DEF Good

(* The units in use in a block are finitely many.                          *)
LEMMA UsedFinite ==
  ASSUME UsedAreHeld, NEW b \in Blocks
  PROVE  used[b] \subseteq Offsets /\ IsFiniteSet(used[b])
<1>1. used[b] \subseteq Offsets BY DEF UsedAreHeld
<1>2. IsFiniteSet(Offsets) BY FS_Interval DEF Offsets
<1> QED BY <1>1, <1>2, FS_Subset

LEMMA LinkedType == TypeOK => Linked \subseteq Blocks
BY DEF TypeOK, Linked

(* Marking a free unit, and freeing one in use, keep the counter right.    *)
LEMMA SetUsedCounts ==
  ASSUME Good, NEW b \in Blocks, NEW n \in Offsets \ used[b], SetUsed(b, n)
  PROVE  /\ Counted'
         /\ nUsed' \in [Blocks -> Nat] /\ used' \in [Blocks -> SUBSET Nat]
<1>1. Cardinality(used[b] \cup {n}) = Cardinality(used[b]) + 1
  BY UsedFinite, FS_AddElement DEF Good
<1>2. nUsed' \in [Blocks -> Nat] /\ used' \in [Blocks -> SUBSET Nat]
  BY DEF Good, TypeOK, SetUsed, Offsets
<1> QED BY <1>1, <1>2 DEF Good, TypeOK, Counted, SetUsed

LEMMA ClearUsedCounts ==
  ASSUME Good, NEW b \in Blocks, NEW n \in used[b], ClearUsed(b, n)
  PROVE  /\ Counted'
         /\ nUsed' \in [Blocks -> Nat] /\ used' \in [Blocks -> SUBSET Nat]
<1>1. /\ Cardinality(used[b] \ {n}) = Cardinality(used[b]) - 1
      /\ Cardinality(used[b] \ {n}) \in Nat
  BY UsedFinite, FS_RemoveElement, FS_CardinalityType DEF Good
<1>2. used' \in [Blocks -> SUBSET Nat]
  BY DEF Good, TypeOK, ClearUsed
<1>3. \A c \in Blocks : nUsed'[c] = Cardinality(used'[c])
  BY <1>1 DEF Good, TypeOK, Counted, ClearUsed
<1>4. nUsed' \in [Blocks -> Nat]
  BY <1>1 DEF Good, TypeOK, Counted, ClearUsed
<1> QED BY <1>2, <1>3, <1>4 DEF Counted

(* The number of the last block is a natural number.                       *)
LEMMA BaseType ==
  ASSUME TypeOK
  PROVE  (IF chain = << >> THEN 0 ELSE bias[Tail1] + Max) \in Nat
<1>1. CASE chain = << >> BY <1>1
<1>2. CASE chain # << >>
  <2>1. Len(chain) \in DOMAIN chain BY <1>2 DEF TypeOK
  <2>2. Tail1 \in Blocks BY <2>1 DEF TypeOK, Tail1
  <2> QED BY <1>2, <2>2 DEF TypeOK
<1> QED BY <1>1, <1>2

LEMMA GetFromBlockGood ==
  ASSUME Good, NEW i \in DOMAIN chain, NEW n \in Offsets, GetFromBlock(i, n)
  PROVE  Good'
<1> DEFINE b == chain[i]
<1>1. b \in Blocks /\ b \in Linked BY DEF Good, TypeOK, Linked
<1>2. n \in Offsets \ used[b] /\ SetUsed(b, n) BY DEF GetFromBlock
<1> HIDE DEF b
<1>3. Counted' /\ nUsed' \in [Blocks -> Nat] /\ used' \in [Blocks -> SUBSET Nat]
  BY <1>1, <1>2, SetUsedCounts
<1>4. held' = held \cup {<<b, n>>} /\ chain' = chain /\ bias' = bias
  BY DEF GetFromBlock, b
<1>5. TypeOK'
  <2>1. held' \subseteq Units BY <1>1, <1>4 DEF Good, TypeOK, Units
  <2> QED BY <1>3, <1>4, <2>1 DEF Good, TypeOK
<1>6. UsedAreHeld' BY <1>1, <1>2, <1>4 DEF Good, TypeOK, UsedAreHeld, SetUsed
<1>7. UnlinkedAreFree'
  BY <1>1, <1>2, <1>4 DEF Good, TypeOK, UnlinkedAreFree, SetUsed, Linked
<1> QED BY <1>3, <1>5, <1>6, <1>7 DEF Good

LEMMA GetFromNewBlockGood ==
  ASSUME Good, NEW b \in Blocks, GetFromNewBlock(b)
  PROVE  Good'
<1>1. used[b] = {} BY DEF GetFromNewBlock, Good, UnlinkedAreFree
<1>2. 0 \in Offsets BY DEF Offsets
<1>3. chain' \in Seq(Blocks) BY DEF GetFromNewBlock, Good, TypeOK
<1>4. bias' \in [Blocks -> Nat]
  BY BaseType DEF GetFromNewBlock, Good, TypeOK
<1>5. TypeOK' BY <1>2, <1>3, <1>4 DEF GetFromNewBlock, Good, TypeOK, Units
<1>6. UsedAreHeld'
  BY <1>1, <1>2 DEF GetFromNewBlock, Good, TypeOK, UsedAreHeld
<1>7. Counted'
  <2>1. Cardinality({0}) = 1 BY FS_Singleton
  <2> QED BY <2>1 DEF GetFromNewBlock, Good, TypeOK, Counted
<1>8. UnlinkedAreFree'
  <2>1. chain' = <<b>> \o chain BY DEF GetFromNewBlock
  <2>2. <<b>> \in Seq(Blocks) /\ chain \in Seq(Blocks) BY DEF Good, TypeOK
  <2>3. b \in Linked'
    <3>1. 1 \in DOMAIN <<b>> /\ <<b>>[1] = b OBVIOUS
    <3>2. 1 \in DOMAIN chain' /\ chain'[1] = b BY <2>1, <2>2, <3>1, ConcatElements
    <3> QED BY <3>2 DEF Linked
  <2>4. Linked \subseteq Linked'
    <3> SUFFICES ASSUME NEW i \in DOMAIN chain PROVE chain[i] \in Linked'
      BY DEF Linked
    <3>1. /\ Len(<<b>>) + i \in DOMAIN chain'
          /\ chain'[Len(<<b>>) + i] = chain[i]
      BY <2>1, <2>2, ConcatElements
    <3> QED BY <3>1 DEF Linked
  <2> QED BY <2>3, <2>4 DEF GetFromNewBlock, Good, TypeOK, UnlinkedAreFree
<1> QED BY <1>5, <1>6, <1>7, <1>8 DEF Good

LEMMA DeleteGood ==
  ASSUME Good, NEW u \in Units, u[2] \in used[u[1]], ClearUsed(u[1], u[2]),
         held' = held \ {u}, UNCHANGED <<chain, bias>>
  PROVE  Good'
<1>1. PICK b \in Blocks, n \in Offsets : u = <<b, n>> BY DEF Units
<1>2. n \in used[b] /\ ClearUsed(b, n) BY <1>1
<1>3. Counted' /\ nUsed' \in [Blocks -> Nat] /\ used' \in [Blocks -> SUBSET Nat]
  BY <1>2, ClearUsedCounts
<1>4. TypeOK' BY <1>3 DEF Good, TypeOK
<1>5. UsedAreHeld' BY <1>1, <1>2 DEF Good, TypeOK, UsedAreHeld, ClearUsed
<1>6. UnlinkedAreFree'
  <2>1. Linked' = Linked BY DEF Linked
  <2>2. \A c \in Blocks : used'[c] \subseteq used[c]
    BY <1>2 DEF Good, TypeOK, ClearUsed
  <2> QED BY <2>1, <2>2 DEF Good, UnlinkedAreFree
<1> QED BY <1>3, <1>4, <1>5, <1>6 DEF Good

(* GetSetMemberExx only appends blocks.                                    *)
LEMMA ExtendKeeps ==
  ASSUME TypeOK, NEW m \in Nat, NEW bs \in Appendable, Extend(m, bs)
  PROVE  /\ chain' \in Seq(Blocks) /\ Linked \subseteq Linked'
         /\ bias' \in [Blocks -> Nat]
         /\ bs \in Seq(Blocks)
<1>1. PICK k \in 0 .. Cardinality(Blocks) : bs \in [1 .. k -> Blocks \ Linked]
  BY DEF Appendable
<1>2. k \in Nat BY <1>1, FS_CardinalityType
<1>3. bs \in Seq(Blocks) /\ DOMAIN bs = 1 .. k BY <1>1, <1>2
<1>4. chain' = chain \o bs BY DEF Extend
<1>5. chain' \in Seq(Blocks) /\ Linked \subseteq Linked'
  BY <1>3, <1>4, ConcatElements DEF TypeOK, Linked
<1>6. bias' \in [Blocks -> Nat]
  <2> DEFINE base == IF chain = << >> THEN 0 ELSE bias[Tail1] + Max
             place(b) == CHOOSE j \in DOMAIN bs : bs[j] = b
  <2>1. base \in Nat BY BaseType
  <2>2. bias' = [b \in Blocks |-> IF \E j \in DOMAIN bs : bs[j] = b
                                  THEN base + Max * (place(b) - 1) ELSE bias[b]]
    BY DEF Extend
  <2>3. ASSUME NEW b \in Blocks, \E j \in DOMAIN bs : bs[j] = b
        PROVE  base + Max * (place(b) - 1) \in Nat
    <3>1. place(b) \in 1 .. k BY <2>3, <1>3
    <3> HIDE DEF base, place
    <3>2. Max * (place(b) - 1) \in Nat BY <1>2, <3>1
    <3> QED BY <2>1, <3>2
  <2> HIDE DEF base, place
  <2> QED BY <2>2, <2>3 DEF TypeOK
<1> QED BY <1>3, <1>5, <1>6

(* Blocks that were in the chain keep their places and their numbers.      *)
LEMMA ExtendOld ==
  ASSUME TypeOK, NEW m \in Nat, NEW bs \in Appendable, Extend(m, bs),
         NEW i \in DOMAIN chain
  PROVE  /\ i \in DOMAIN chain' /\ chain'[i] = chain[i] /\ chain[i] \in Blocks
         /\ bias'[chain[i]] = bias[chain[i]]
<1>1. PICK k \in 0 .. Cardinality(Blocks) : bs \in [1 .. k -> Blocks \ Linked]
  BY DEF Appendable
<1>2. k \in Nat BY <1>1, FS_CardinalityType
<1>3. bs \in Seq(Blocks) /\ DOMAIN bs = 1 .. k BY <1>1, <1>2
<1>4. chain' = chain \o bs BY DEF Extend
<1>5. i \in DOMAIN chain' /\ chain'[i] = chain[i] /\ chain[i] \in Blocks
  BY <1>3, <1>4, ConcatElements DEF TypeOK
<1>6. ~\E j \in DOMAIN bs : bs[j] = chain[i] BY <1>1, <1>3 DEF Linked
<1> DEFINE base == IF chain = << >> THEN 0 ELSE bias[Tail1] + Max
           place(b) == CHOOSE j \in DOMAIN bs : bs[j] = b
<1>7. bias' = [b \in Blocks |-> IF \E j \in DOMAIN bs : bs[j] = b
                                THEN base + Max * (place(b) - 1) ELSE bias[b]]
  BY DEF Extend
<1> HIDE DEF base, place
<1> QED BY <1>5, <1>6, <1>7

(* In a set whose first block is number 0, GetSetMemberExx finds the units *)
(* of that block in it; an empty set gets one.                             *)
LEMMA ExtendFirst ==
  ASSUME Good, NEW m \in 0 .. Max - 1, NEW bs \in Appendable, Extend(m, bs),
         chain = << >> \/ bias[chain[1]] = 0
  PROVE  /\ 1 \in DOMAIN chain' /\ chain'[1] \in Blocks /\ bias'[chain'[1]] = 0
         /\ chain # << >> => chain' = chain
<1>1. chain \in Seq(Blocks) /\ chain' = chain \o bs /\ bs \in Seq(Blocks)
  <2>1. m \in Nat OBVIOUS
  <2> QED BY <2>1, ExtendKeeps DEF Good, TypeOK, Extend
<1>2. CASE chain = << >>
  <2>1. bs # << >> BY <1>2 DEF Extend, Linked
  <2>2. chain' = bs /\ 1 \in DOMAIN bs /\ bs[1] \in Blocks BY <1>1, <1>2, <2>1
  <2>3. (CHOOSE j \in DOMAIN bs : bs[j] = bs[1]) = 1
    <3>1. \A i, j \in DOMAIN bs : i # j => bs[i] # bs[j]
      BY <1>1, <1>2, <2>2 DEF Extend
    <3> QED BY <2>2, <3>1
  <2>4. bias'[bs[1]] = 0 + Max * (1 - 1) BY <1>2, <2>2, <2>3 DEF Extend
  <2> QED BY <1>2, <2>2, <2>4
<1>3. CASE chain # << >>
  <2>1. 1 \in DOMAIN chain /\ chain[1] \in Linked /\ chain[1] \in Blocks
    BY <1>1, <1>3 DEF Linked
  <2>2. Covers(bias, chain[1], m) BY <1>3 DEF Covers
  <2>3. bs = << >> BY <2>1, <2>2 DEF Extend
  <2>4. chain' = chain BY <1>1, <2>3
  <2>5. bias'[chain[1]] = bias[chain[1]] BY <2>1, <2>3 DEF Extend
  <2> QED BY <1>3, <2>1, <2>4, <2>5
<1> QED BY <1>2, <1>3

LEMMA GetSetMemberGood ==
  ASSUME Good, NEW m \in Nat, GetSetMember(m), m < Max, bias'[chain'[1]] = 0
  PROVE  Good'
<1>2. PICK bs \in Appendable : Extend(m, bs) BY DEF GetSetMember
<1>1. m \in 0 .. Max - 1 /\ (chain = << >> \/ bias[chain[1]] = 0)
  <2>1. CASE chain # << >>
    <3>1. 1 \in DOMAIN chain BY <2>1 DEF Good, TypeOK
    <3>2. chain'[1] = chain[1] /\ bias'[chain[1]] = bias[chain[1]]
      BY <1>2, <3>1, ExtendOld DEF Good
    <3> QED BY <3>2
  <2> QED BY <2>1
<1>3. /\ chain' \in Seq(Blocks) /\ Linked \subseteq Linked'
      /\ bias' \in [Blocks -> Nat]
  BY <1>2, ExtendKeeps DEF Good
<1> DEFINE b == chain'[1]
<1>4. 1 \in DOMAIN chain' /\ b \in Blocks /\ bias'[b] = 0
  BY <1>1, <1>2, ExtendFirst
<1>5. b \in Linked' BY <1>4 DEF Linked
<1>6. /\ held' = held \cup {<<b, m>>}
      /\ IF m \in used[b] THEN UNCHANGED <<nUsed, used>> ELSE SetUsed(b, m)
  <2>1. PICK i \in DOMAIN chain' :
          /\ IsBlockOf(chain', bias', i, m)
          /\ held' = held \cup {<<chain'[i], m - bias'[chain'[i]]>>}
          /\ IF m - bias'[chain'[i]] \in used[chain'[i]]
             THEN UNCHANGED <<nUsed, used>> ELSE SetUsed(b, m)
    BY DEF GetSetMember
  <2>2. Covers(bias', chain'[1], m) BY <1>1, <1>4 DEF Covers
  <2>3. i \in Nat /\ i >= 1 BY <1>3, <2>1
  <2>4. i = 1
    <3>1. CASE i > 1
      <4>1. 1 \in 1 .. i - 1 BY <2>3, <3>1
      <4> QED BY <2>1, <2>2, <4>1 DEF IsBlockOf
    <3> QED BY <2>3, <3>1
  <2> HIDE DEF b
  <2>5. m - bias'[b] = m BY <1>4
  <2> QED BY <2>1, <2>4, <2>5 DEF b
<1>7. m \in Offsets BY <1>1 DEF Offsets
<1> HIDE DEF b
<1>8. Counted' /\ nUsed' \in [Blocks -> Nat] /\ used' \in [Blocks -> SUBSET Nat]
  <2>1. CASE m \in used[b] BY <1>6, <2>1 DEF Good, TypeOK, Counted
  <2>2. CASE m \notin used[b] BY <1>4, <1>6, <1>7, <2>2, SetUsedCounts
  <2> QED BY <2>1, <2>2
<1>9. used' = [used EXCEPT ![b] = @ \cup {m}]
  BY <1>4, <1>6 DEF Good, TypeOK, SetUsed
<1>10. TypeOK'
  <2>1. <<b, m>> \in Units BY <1>4, <1>7 DEF Units
  <2>2. held' \subseteq Units BY <1>6, <2>1 DEF Good, TypeOK
  <2> QED BY <1>3, <1>8, <2>2 DEF TypeOK, Units, Offsets
<1>11. UsedAreHeld' BY <1>4, <1>6, <1>7, <1>9 DEF Good, TypeOK, UsedAreHeld
<1>12. UnlinkedAreFree'
  BY <1>3, <1>4, <1>5, <1>9 DEF Good, TypeOK, UnlinkedAreFree
<1> QED BY <1>8, <1>10, <1>11, <1>12 DEF Good

LEMMA IndexIsNat == ASSUME NEW m \in Indices PROVE m \in Nat
<1> DEFINE last == Cardinality(Blocks) * Max - 1
<1>1. m \in 0 .. last BY DEF Indices
<1> HIDE DEF last
<1> QED BY <1>1

(* DeleteSetMember frees at most one unit, whose bit is set.               *)
LEMMA DeleteMemberCases ==
  ASSUME Good, NEW u \in Units, DeleteSetMember(u)
  PROVE  /\ u \in held /\ held' = held \ {u} /\ UNCHANGED <<chain, bias>>
         /\ \/ UNCHANGED <<nUsed, used>>
            \/ \E v \in DeletedAt(GetMemberIndex(u)) :
                 v \in Units /\ v[2] \in used[v[1]] /\ ClearUsed(v[1], v[2])
<1>1. DeletedAt(GetMemberIndex(u)) \subseteq Units
  BY DEF Good, TypeOK, DeletedAt, Units
<1> DEFINE found == {v \in DeletedAt(GetMemberIndex(u)) : v[2] \in used[v[1]]}
<1>2. IF found = {} THEN UNCHANGED <<nUsed, used>>
                    ELSE \E v \in found : ClearUsed(v[1], v[2])
  BY DEF DeleteSetMember
<1>3. CASE found = {} BY <1>2, <1>3 DEF DeleteSetMember
<1>4. CASE found # {}
  <2>1. PICK v \in found : ClearUsed(v[1], v[2]) BY <1>2, <1>4
  <2> QED BY <1>1, <2>1 DEF DeleteSetMember
<1> QED BY <1>3, <1>4

(* Two places Max apart or more hold different numbers.                    *)
LEMMA Apart ==
  ASSUME NEW i \in Int, NEW j \in Int, i < j
  PROVE  Max * i + Max <= Max * j
<1>1. j - i \in Nat \ {0} BY Z3
<1>2. Max * (j - i) >= Max BY <1>1, Z3
<1>3. Max * j = Max * i + Max * (j - i) BY Z3
<1>4. Max * i \in Int /\ Max * j \in Int /\ Max * (j - i) \in Int BY Z3
<1> QED BY <1>2, <1>3, <1>4

(* In a chain in order, the unit the code comes to is the caller's.        *)
LEMMA InOrderDeletes ==
  ASSUME Good, InOrder, NEW u \in held, NEW v \in DeletedAt(GetMemberIndex(u))
  PROVE  v = u
<1>1. PICK b \in Blocks, n \in Offsets : u = <<b, n>> BY DEF Good, TypeOK, Units
<1>2. b \in Linked BY <1>1 DEF Good, UsedAreHeld, UnlinkedAreFree
<1>3. PICK i \in DOMAIN chain : chain[i] = b BY <1>2 DEF Linked
<1>4. GetMemberIndex(u) = Max * (i - 1) + n BY <1>1, <1>3 DEF GetMemberIndex, InOrder
<1>5. PICK j \in DOMAIN chain :
         /\ GetMemberIndex(u) - Max * (j - 1) \in Offsets
         /\ v = <<chain[j], GetMemberIndex(u) - Max * (j - 1)>>
  BY DEF DeletedAt
<1>6. i \in Nat /\ j \in Nat BY DEF Good, TypeOK
<1>7. Max * (i - 1) \in Int /\ Max * (j - 1) \in Int BY <1>6
<1>8. n \in 0 .. Max - 1 /\ (Max * (i - 1) + n) - Max * (j - 1) \in 0 .. Max - 1
  BY <1>4, <1>5 DEF Offsets
<1>9. ~(i < j)
  <2> SUFFICES ASSUME i < j PROVE FALSE OBVIOUS
  <2>1. Max * (i - 1) + Max <= Max * (j - 1) BY <1>6, Apart
  <2> QED BY <1>7, <1>8, <2>1
<1>10. ~(j < i)
  <2> SUFFICES ASSUME j < i PROVE FALSE OBVIOUS
  <2>1. Max * (j - 1) + Max <= Max * (i - 1) BY <1>6, Apart
  <2> QED BY <1>7, <1>8, <2>1
<1>11. i = j BY <1>6, <1>9, <1>10
<1>12. (Max * (i - 1) + n) - Max * (i - 1) = n BY <1>7, <1>8
<1> QED BY <1>1, <1>3, <1>4, <1>5, <1>11, <1>12

LEMMA DeleteMemberGood ==
  ASSUME Good, InOrder, NEW u \in Units, DeleteSetMember(u)
  PROVE  Good'
<1>1. /\ u \in held /\ held' = held \ {u} /\ UNCHANGED <<chain, bias>>
  BY DeleteMemberCases
<1>2. PICK b \in Blocks, n \in Offsets : u = <<b, n>> BY DEF Units
<1>3. n \in used[b] BY <1>1, <1>2 DEF Good, UsedAreHeld
<1>4. u \in DeletedAt(GetMemberIndex(u))
  <2>1. b \in Linked BY <1>2, <1>3 DEF Good, UnlinkedAreFree
  <2>2. PICK i \in DOMAIN chain : chain[i] = b BY <2>1 DEF Linked
  <2>3. GetMemberIndex(u) = Max * (i - 1) + n
    BY <1>2, <2>2 DEF GetMemberIndex, InOrder
  <2>4. i \in Nat /\ n \in Nat BY <2>2 DEF Good, TypeOK, Offsets
  <2>5. Max * (i - 1) \in Int BY <2>4
  <2>6. GetMemberIndex(u) - Max * (i - 1) = n BY <2>3, <2>4, <2>5
  <2> QED BY <1>2, <2>2, <2>6 DEF DeletedAt
<1>5. DeletedAt(GetMemberIndex(u)) = {u} BY <1>1, <1>4, InOrderDeletes
<1>6. ClearUsed(u[1], u[2])
  <2>1. {v \in DeletedAt(GetMemberIndex(u)) : v[2] \in used[v[1]]} = {u}
    BY <1>2, <1>3, <1>5
  <2> QED BY <2>1 DEF DeleteSetMember
<1> QED BY <1>1, <1>2, <1>3, <1>6, DeleteGood

(* A step of a set that is right leaves it right, but for the two steps.   *)
LEMMA GoodStep ==
  ASSUME Good, Next, ~MarksPastFirst, ~DeletesOutOfOrder
  PROVE  Good'
<1>1. CASE GetFromSet
  BY <1>1, GetFromBlockGood, GetFromNewBlockGood DEF GetFromSet
<1>2. ASSUME NEW u \in Units, DeleteFromSet(u) PROVE Good'
  <2>1. u[2] \in used[u[1]]
    BY <1>2 DEF DeleteFromSet, Good, TypeOK, UsedAreHeld, Units
  <2> QED BY <1>2, <2>1, DeleteGood DEF DeleteFromSet
<1>3. CASE DeleteSet
  <2>1. TypeOK' /\ UsedAreHeld' /\ UnlinkedAreFree'
    BY <1>3 DEF DeleteSet, TypeOK, UsedAreHeld, UnlinkedAreFree
  <2>2. Counted' BY <1>3, FS_EmptySet DEF DeleteSet, Counted
  <2> QED BY <2>1, <2>2 DEF Good
<1>4. ASSUME NEW m \in Indices, GetUsedSetMember(m) PROVE Good'
  <2>1. m \in Nat BY IndexIsNat
  <2>2. PICK bs \in Appendable : Extend(m, bs) BY <1>4 DEF GetUsedSetMember
  <2>3. /\ chain' \in Seq(Blocks) /\ Linked \subseteq Linked'
        /\ bias' \in [Blocks -> Nat]
    BY <2>1, <2>2, ExtendKeeps DEF Good
  <2>4. UNCHANGED <<nUsed, used, held>> BY <1>4 DEF GetUsedSetMember
  <2>5. TypeOK' BY <2>3, <2>4 DEF Good, TypeOK
  <2>6. UsedAreHeld' /\ Counted' BY <2>4 DEF Good, UsedAreHeld, Counted
  <2>7. UnlinkedAreFree' BY <2>3, <2>4 DEF Good, UnlinkedAreFree
  <2> QED BY <2>5, <2>6, <2>7 DEF Good
<1>5. ASSUME NEW m \in Indices, GetSetMember(m) PROVE Good'
  <2>1. m \in Nat BY IndexIsNat
  <2>2. m < Max /\ bias'[chain'[1]] = 0 BY <1>5, <2>1 DEF MarksPastFirst
  <2> QED BY <1>5, <2>1, <2>2, GetSetMemberGood
<1>6. ASSUME NEW u \in Units, DeleteSetMember(u) PROVE Good'
  <2>1. InOrder BY <1>6 DEF DeletesOutOfOrder
  <2> QED BY <1>6, <2>1, DeleteMemberGood
<1> QED BY <1>1, <1>2, <1>3, <1>4, <1>5, <1>6 DEF Next

(* What the two steps leave: if the bits are right all the same, so are    *)
(* the counters.                                                           *)
LEMMA MarkStep ==
  ASSUME Good, NEW m \in Nat, GetSetMember(m)
  PROVE  IInv'
<1>1. PICK bs \in Appendable : Extend(m, bs) BY DEF GetSetMember
<1>2. /\ chain' \in Seq(Blocks) /\ Linked \subseteq Linked'
      /\ bias' \in [Blocks -> Nat]
  BY <1>1, ExtendKeeps DEF Good
<1>3. PICK i \in DOMAIN chain' :
         /\ IsBlockOf(chain', bias', i, m)
         /\ held' = held \cup {<<chain'[i], m - bias'[chain'[i]]>>}
         /\ IF m - bias'[chain'[i]] \in used[chain'[i]]
            THEN UNCHANGED <<nUsed, used>> ELSE SetUsed(chain'[1], m)
  BY DEF GetSetMember
<1> DEFINE b == chain'[i]
           n == m - bias'[b]
           f == chain'[1]
<1>4. b \in Blocks /\ n \in Offsets /\ f \in Blocks /\ f \in Linked'
  <2>1. b \in Blocks BY <1>2
  <2>2. bias'[b] \in Nat BY <1>2, <2>1
  <2>3. n \in Offsets BY <1>3, <2>2 DEF IsBlockOf, Covers, Offsets
  <2>4. 1 \in DOMAIN chain' BY <1>2
  <2> QED BY <1>2, <2>1, <2>3, <2>4 DEF Linked
<1>5. held' = held \cup {<<b, n>>} /\ (n \in used[b] => UNCHANGED <<nUsed, used>>)
      /\ (n \notin used[b] => SetUsed(f, m))
  BY <1>3
<1> HIDE DEF b, n, f
<1>6. TypeOK'
  <2>1. <<b, n>> \in Units BY <1>4 DEF Units
  <2>2. held' \subseteq Units BY <1>5, <2>1 DEF Good, TypeOK
  <2>3. nUsed' \in [Blocks -> Nat] /\ used' \in [Blocks -> SUBSET Nat]
    <3>1. CASE n \in used[b] BY <1>5, <3>1 DEF Good, TypeOK
    <3>2. CASE n \notin used[b]
      <4>1. SetUsed(f, m) BY <1>5, <3>2
      <4> QED BY <1>4, <4>1 DEF Good, TypeOK, SetUsed
    <3> QED BY <3>1, <3>2
  <2> QED BY <1>2, <2>2, <2>3 DEF TypeOK, Units, Offsets
<1>7. UnlinkedAreFree'
  BY <1>2, <1>4, <1>5 DEF Good, TypeOK, UnlinkedAreFree, SetUsed
<1>8. ASSUME UsedAreHeld' PROVE Counted'
  <2>1. CASE n \in used[b] BY <1>5, <2>1 DEF Good, TypeOK, Counted
  <2>2. CASE n \notin used[b]
    <3>1. n \in used'[b] BY <1>4, <1>5, <1>8 DEF UsedAreHeld
    <3>2. b = f /\ n = m
      BY <1>4, <1>5, <2>2, <3>1 DEF SetUsed, Good, TypeOK
    <3>3. m \in Offsets \ used[f] BY <1>4, <2>2, <3>2
    <3> QED BY <1>4, <1>5, <2>2, <3>3, SetUsedCounts
  <2> QED BY <2>1, <2>2
<1> QED BY <1>6, <1>7, <1>8 DEF IInv

LEMMA DeleteStep ==
  ASSUME Good, NEW u \in Units, DeleteSetMember(u)
  PROVE  IInv'
<1>1. /\ held' = held \ {u} /\ UNCHANGED <<chain, bias>>
      /\ \/ UNCHANGED <<nUsed, used>>
         \/ \E v \in DeletedAt(GetMemberIndex(u)) :
              v \in Units /\ v[2] \in used[v[1]] /\ ClearUsed(v[1], v[2])
  BY DeleteMemberCases
<1>2. Linked' = Linked BY <1>1 DEF Linked
<1>3. CASE UNCHANGED <<nUsed, used>>
  BY <1>1, <1>2, <1>3 DEF Good, IInv, TypeOK, Counted, UnlinkedAreFree
<1>4. ASSUME NEW v \in Units, v[2] \in used[v[1]], ClearUsed(v[1], v[2]) PROVE IInv'
  <2>1. PICK b \in Blocks, n \in Offsets : v = <<b, n>> BY DEF Units
  <2>2. n \in used[b] /\ ClearUsed(b, n) BY <1>4, <2>1
  <2>3. Counted' /\ nUsed' \in [Blocks -> Nat] /\ used' \in [Blocks -> SUBSET Nat]
    BY <2>2, ClearUsedCounts
  <2>4. TypeOK' BY <1>1, <2>3 DEF Good, TypeOK
  <2>5. \A c \in Blocks : used'[c] \subseteq used[c]
    BY <2>2 DEF Good, TypeOK, ClearUsed
  <2>6. UnlinkedAreFree' BY <1>2, <2>5 DEF Good, UnlinkedAreFree
  <2> QED BY <2>3, <2>4, <2>6 DEF IInv
<1> QED BY <1>1, <1>3, <1>4

LEMMA StepIInv ==
  ASSUME IInv, [Next]_vars
  PROVE  IInv'
<1>1. CASE UNCHANGED vars
  BY <1>1 DEF vars, IInv, TypeOK, UsedAreHeld, Counted, UnlinkedAreFree, Linked
<1>2. CASE Next
  <2>1. Good BY <1>2 DEF Next, IInv, Good
  <2>2. CASE MarksPastFirst BY <2>1, <2>2, MarkStep, IndexIsNat DEF MarksPastFirst
  <2>3. CASE DeletesOutOfOrder BY <2>1, <2>3, DeleteStep DEF DeletesOutOfOrder
  <2>4. CASE ~MarksPastFirst /\ ~DeletesOutOfOrder
    BY <1>2, <2>1, <2>4, GoodStep DEF Good, IInv
  <2> QED BY <2>2, <2>3, <2>4
<1> QED BY <1>1, <1>2

LEMMA InitIInv == Init => IInv
BY InitGood DEF Good, IInv

(* The bits that are set are those of the units callers hold, wherever     *)
(* they lie in the chain, after every step but the two named ones.         *)
THEOREM Pool == Spec => []TypeOK /\ UnitsKept
<1>1. IInv => TypeOK BY DEF IInv
<1>2. IInv /\ [Next]_vars => IInv' BY StepIInv
<1>3. IInv /\ [Next]_vars => [UsedAreHeld' \/ MarksPastFirst \/ DeletesOutOfOrder]_vars
  <2> SUFFICES ASSUME IInv, Next, ~MarksPastFirst, ~DeletesOutOfOrder
               PROVE  UsedAreHeld'
    OBVIOUS
  <2>1. Good BY DEF Next, IInv, Good
  <2> QED BY <2>1, GoodStep DEF Good
<1> QED BY <1>1, <1>2, <1>3, InitIInv, PTL DEF Spec, UnitsKept

(* nUsed, by which GetFromSet skips a block and decides to add one, is the *)
(* number of bits that are set for as long as the bits are right.          *)
THEOREM Counters == Spec => []CountsAgree
<1>1. IInv => CountsAgree BY DEF IInv, Counted, CountsAgree
<1>2. IInv /\ [Next]_vars => IInv' BY StepIInv
<1> QED BY <1>1, <1>2, InitIInv, PTL DEF Spec

(* A block whose counter says full has all its units in callers' hands.    *)
LEMMA FullIsHeld ==
  ASSUME Good, NEW b \in Blocks, Full(b)
  PROVE  {b} \X Offsets \subseteq held
<1>1. Cardinality(Offsets) = Max /\ IsFiniteSet(Offsets)
  BY FS_Interval DEF Offsets
<1>2. Cardinality(used[b]) = Cardinality(Offsets)
  BY <1>1 DEF Good, Counted, Full
<1>3. used[b] = Offsets BY <1>1, <1>2, UsedFinite, FS_Subset DEF Good
<1> QED BY <1>3 DEF Good, UsedAreHeld

(* A set gets a new block at its head only when all its units are held.    *)
THEOREM Growth == Spec => GrowsWhenFull
<1> DEFINE Grows == (chain # << >> /\ chain' # << >> /\ chain'[1] # chain[1])
                      => Linked \X Offsets \subseteq held
<1>1. ASSUME IInv, [Next]_vars PROVE [Grows]_vars
  <2> SUFFICES ASSUME chain # << >>, chain' # << >>, chain'[1] # chain[1], Next
               PROVE  Linked \X Offsets \subseteq held
    BY <1>1
  <2>1. Good BY <1>1 DEF Next, IInv, Good
  <2>2. 1 \in DOMAIN chain BY DEF IInv, TypeOK
  <2>3. ~\E m \in Indices : GetUsedSetMember(m) \/ GetSetMember(m)
    <3> SUFFICES ASSUME NEW m \in Indices, GetUsedSetMember(m) \/ GetSetMember(m)
                 PROVE  FALSE
      OBVIOUS
    <3>1. PICK bs \in Appendable : Extend(m, bs) BY DEF GetUsedSetMember, GetSetMember
    <3>2. m \in Nat BY IndexIsNat
    <3>3. chain'[1] = chain[1] BY <2>1, <2>2, <3>1, <3>2, ExtendOld DEF Good
    <3> QED BY <3>3
  <2>4. PICK b \in Blocks : GetFromNewBlock(b)
    BY <2>3 DEF Next, GetFromSet, GetFromBlock, DeleteFromSet, DeleteSet, DeleteSetMember
  <2>5. \A c \in Linked : Full(c) BY <2>4 DEF GetFromNewBlock
  <2>6. Linked \subseteq Blocks BY <2>1, LinkedType DEF Good
  <2> QED BY <2>1, <2>5, <2>6, FullIsHeld
<1>2. IInv /\ [Next]_vars => IInv' BY StepIInv
<1>3. IInv /\ [Next]_vars => [Grows]_vars BY <1>1
<1> QED BY <1>2, <1>3, InitIInv, PTL DEF Spec, GrowsWhenFull

----------------------------------------------------------------------------
(* Indices.                                                                *)

(* The blocks of the chain differ, their numbers are multiples of Max, and *)
(* the units held lie in them.                                             *)
Numbered ==
  /\ \A i, j \in DOMAIN chain : i # j => chain[i] # chain[j]
  /\ \A i \in DOMAIN chain : \E k \in Nat : bias[chain[i]] = Max * k
  /\ \A u \in held : u[1] \in Linked

LEMMA BaseNumber ==
  ASSUME TypeOK, Numbered
  PROVE  \E k \in Nat : (IF chain = << >> THEN 0 ELSE bias[Tail1] + Max) = Max * k
<1>1. CASE chain = << >>
  <2>1. Max * 0 = 0 OBVIOUS
  <2> QED BY <1>1, <2>1
<1>2. CASE chain # << >>
  <2>1. Len(chain) \in DOMAIN chain BY <1>2 DEF TypeOK
  <2>2. PICK k \in Nat : bias[Tail1] = Max * k BY <2>1 DEF Numbered, Tail1
  <2>3. Max * (k + 1) = Max * k + Max BY Z3
  <2>4. k + 1 \in Nat OBVIOUS
  <2> QED BY <1>2, <2>2, <2>3, <2>4
<1> QED BY <1>1, <1>2

(* What GetSetMemberExx does to the chain, place by place: the old blocks  *)
(* stay, the new ones are numbered upwards from the last one's number.     *)
LEMMA ExtendNew ==
  ASSUME TypeOK, NEW m \in Nat, NEW bs \in Appendable, Extend(m, bs)
  PROVE  /\ chain' \in Seq(Blocks) /\ Len(chain') = Len(chain) + Len(bs)
         /\ Len(bs) \in Nat
         /\ \A i, j \in DOMAIN chain' : i # j => chain'[i] # chain'[j]
         /\ \A j \in 1 .. Len(bs) :
              bias'[chain'[Len(chain) + j]]
                = (IF chain = << >> THEN 0 ELSE bias[Tail1] + Max) + Max * (j - 1)
<1> DEFINE base == IF chain = << >> THEN 0 ELSE bias[Tail1] + Max
           place(b) == CHOOSE j \in DOMAIN bs : bs[j] = b
<1>1. PICK k \in 0 .. Cardinality(Blocks) : bs \in [1 .. k -> Blocks \ Linked]
  BY DEF Appendable
<1>2. k \in Nat BY <1>1, FS_CardinalityType
<1>3. bs \in Seq(Blocks) /\ DOMAIN bs = 1 .. k /\ Len(bs) = k BY <1>1, <1>2
<1>4. /\ chain \in Seq(Blocks) /\ chain' = chain \o bs
      /\ \A i, j \in DOMAIN chain' : i # j => chain'[i] # chain'[j]
      /\ bias' = [b \in Blocks |-> IF \E j \in DOMAIN bs : bs[j] = b
                                   THEN base + Max * (place(b) - 1) ELSE bias[b]]
  BY DEF TypeOK, Extend
<1>5. /\ chain' \in Seq(Blocks) /\ Len(chain') = Len(chain) + k
      /\ \A i \in 1 .. k : Len(chain) + i \in DOMAIN chain' /\ chain'[Len(chain) + i] = bs[i]
  <2>0. chain \in Seq(Blocks) /\ bs \in Seq(Blocks) /\ chain' = chain \o bs /\ Len(bs) = k
    BY <1>3, <1>4
  <2>1. chain' \in Seq(Blocks) /\ Len(chain') = Len(chain) + Len(bs)
    BY <2>0, ConcatElements
  <2>2. \A i \in DOMAIN bs : /\ Len(chain) + i \in DOMAIN chain'
                            /\ chain'[Len(chain) + i] = bs[i]
    BY <2>0, ConcatElements
  <2> QED BY <1>3, <2>1, <2>2
<1>6. \A j \in 1 .. k : place(bs[j]) = j
  <2> SUFFICES ASSUME NEW j \in 1 .. k, NEW i \in 1 .. k, bs[i] = bs[j] PROVE i = j
    BY <1>3
  <2>1. Len(chain) \in Nat BY <1>4
  <2>2. chain'[Len(chain) + i] = chain'[Len(chain) + j] BY <1>5
  <2>3. Len(chain) + i = Len(chain) + j BY <1>4, <1>5, <2>2
  <2> QED BY <2>1, <2>3
<1>7. \A j \in 1 .. k : bias'[bs[j]] = base + Max * (j - 1)
  <2> HIDE DEF base, place
  <2> QED BY <1>1, <1>3, <1>4, <1>6
<1> HIDE DEF base, place
<1> QED BY <1>2, <1>3, <1>4, <1>5, <1>7 DEF base

(* Every place of the longer chain is an old one or a new one.             *)
LEMMA Places ==
  ASSUME NEW l \in Nat, NEW k \in Nat, NEW i \in 1 .. l + k
  PROVE  i \in 1 .. l \/ \E j \in 1 .. k : i = l + j
<1>1. CASE i > l
  <2>1. i - l \in 1 .. k /\ i = l + (i - l) BY <1>1
  <2> QED BY <2>1
<1> QED BY <1>1

LEMMA ExtendNumbered ==
  ASSUME TypeOK, Numbered, NEW m \in Nat, NEW bs \in Appendable, Extend(m, bs)
  PROVE  /\ \A i, j \in DOMAIN chain' : i # j => chain'[i] # chain'[j]
         /\ \A i \in DOMAIN chain' : \E k \in Nat : bias'[chain'[i]] = Max * k
<1>1. PICK kb \in Nat : (IF chain = << >> THEN 0 ELSE bias[Tail1] + Max) = Max * kb
  BY BaseNumber
<1>2. /\ chain' \in Seq(Blocks) /\ Len(chain') = Len(chain) + Len(bs) /\ Len(bs) \in Nat
      /\ \A i, j \in DOMAIN chain' : i # j => chain'[i] # chain'[j]
      /\ \A j \in 1 .. Len(bs) :
           bias'[chain'[Len(chain) + j]] = Max * kb + Max * (j - 1)
  BY <1>1, ExtendNew
<1>3. ASSUME NEW i \in DOMAIN chain' PROVE \E k \in Nat : bias'[chain'[i]] = Max * k
  <2>1. i \in 1 .. Len(chain) + Len(bs) /\ Len(chain) \in Nat BY <1>2 DEF TypeOK
  <2>2. CASE i \in 1 .. Len(chain)
    <3>1. i \in DOMAIN chain BY <2>2 DEF TypeOK
    <3> QED BY <3>1, ExtendOld DEF Numbered
  <2>3. ASSUME NEW j \in 1 .. Len(bs), i = Len(chain) + j
        PROVE  \E k \in Nat : bias'[chain'[i]] = Max * k
    <3>1. j - 1 \in Nat /\ kb + (j - 1) \in Nat BY <1>2
    <3>2. Max * kb + Max * (j - 1) = Max * (kb + (j - 1)) BY <3>1, Z3
    <3>3. bias'[chain'[i]] = Max * kb + Max * (j - 1) BY <1>2, <2>3
    <3>4. bias'[chain'[i]] = Max * (kb + (j - 1)) BY <3>2, <3>3
    <3> DEFINE p == kb + (j - 1)
    <3>5. p \in Nat /\ bias'[chain'[i]] = Max * p BY <3>1, <3>4
    <3> HIDE DEF p
    <3> QED BY <3>5
  <2>4. Len(chain) \in Nat /\ Len(bs) \in Nat BY <1>2, <2>1
  <2>5. i \in 1 .. Len(chain) \/ \E j \in 1 .. Len(bs) : i = Len(chain) + j
    BY <2>1, <2>4, Places
  <2> QED BY <2>2, <2>3, <2>5
<1> QED BY <1>2, <1>3

(* The chain with a block b at its head.                                   *)
LEMMA NewBlockPlaces ==
  ASSUME TypeOK, NEW b \in Blocks, GetFromNewBlock(b)
  PROVE  /\ chain' \in Seq(Blocks) /\ Len(chain') = Len(chain) + 1 /\ chain'[1] = b
         /\ \A i \in DOMAIN chain' :
              i # 1 => /\ i - 1 \in DOMAIN chain /\ chain'[i] = chain[i - 1]
                       /\ chain'[i] \in Linked /\ chain'[i] # b
                       /\ bias'[chain'[i]] = bias[chain[i - 1]]
         /\ bias'[b] = IF chain = << >> THEN 0 ELSE bias[Tail1] + Max
<1>1. /\ chain \in Seq(Blocks) /\ bias \in [Blocks -> Nat] /\ b \notin Linked
      /\ chain' = <<b>> \o chain
      /\ bias' = [bias EXCEPT ![b] = IF chain = << >> THEN 0 ELSE bias[Tail1] + Max]
  BY DEF TypeOK, GetFromNewBlock
<1>2. <<b>> \in Seq(Blocks) /\ Len(<<b>>) = 1 /\ <<b>>[1] = b /\ DOMAIN <<b>> = {1} OBVIOUS
<1>3. chain' \in Seq(Blocks) /\ Len(chain') = Len(chain) + 1 BY <1>1, <1>2
<1>4. chain'[1] = b BY <1>1, <1>2, ConcatElements
<1>5. ASSUME NEW i \in DOMAIN chain', i # 1
      PROVE  /\ i - 1 \in DOMAIN chain /\ chain'[i] = chain[i - 1]
             /\ chain'[i] \in Linked /\ chain'[i] # b
             /\ bias'[chain'[i]] = bias[chain[i - 1]]
  <2>1. i \in 1 .. Len(chain) + 1 /\ Len(chain) \in Nat BY <1>1, <1>3
  <2>2. i - 1 \in DOMAIN chain /\ 1 + (i - 1) = i BY <1>1, <1>5, <2>1
  <2>3. chain'[i] = chain[i - 1] BY <1>1, <1>2, <2>2, ConcatElements
  <2>4. chain[i - 1] \in Linked /\ chain[i - 1] \in Blocks BY <1>1, <2>2 DEF Linked
  <2> QED BY <1>1, <2>2, <2>3, <2>4
<1> QED BY <1>1, <1>3, <1>4, <1>5

LEMMA NewBlockNumbered ==
  ASSUME TypeOK, Numbered, NEW b \in Blocks, GetFromNewBlock(b)
  PROVE  Numbered'
<1>1. /\ chain' \in Seq(Blocks) /\ Len(chain') = Len(chain) + 1 /\ chain'[1] = b
      /\ \A i \in DOMAIN chain' :
           i # 1 => /\ i - 1 \in DOMAIN chain /\ chain'[i] = chain[i - 1]
                    /\ chain'[i] \in Linked /\ chain'[i] # b
                    /\ bias'[chain'[i]] = bias[chain[i - 1]]
  BY NewBlockPlaces
<1>2. \E k \in Nat : bias'[b] = Max * k BY BaseNumber, NewBlockPlaces
<1>3. ASSUME NEW i \in DOMAIN chain', NEW j \in DOMAIN chain', i # j
      PROVE  chain'[i] # chain'[j]
  <2>1. CASE i = 1 BY <1>1, <1>3, <2>1
  <2>2. CASE j = 1 BY <1>1, <1>3, <2>2
  <2>3. CASE i # 1 /\ j # 1
    <3>1. i - 1 # j - 1 BY <1>1, <1>3
    <3> QED BY <1>1, <2>3, <3>1 DEF Numbered
  <2> QED BY <2>1, <2>2, <2>3
<1>4. \A i \in DOMAIN chain' : \E k \in Nat : bias'[chain'[i]] = Max * k
  <2> SUFFICES ASSUME NEW i \in DOMAIN chain', i # 1
               PROVE  \E k \in Nat : bias'[chain'[i]] = Max * k
    BY <1>1, <1>2
  <2>1. i - 1 \in DOMAIN chain /\ bias'[chain'[i]] = bias[chain[i - 1]] BY <1>1
  <2>2. PICK k \in Nat : bias[chain[i - 1]] = Max * k BY <2>1 DEF Numbered
  <2> QED BY <2>1, <2>2
<1>5. \A u \in held' : u[1] \in Linked'
  <2>1. held' = held \cup {<<b, 0>>} BY DEF GetFromNewBlock
  <2>2. b \in Linked'
    <3>1. 1 \in DOMAIN chain' BY <1>1 DEF TypeOK
    <3> QED BY <1>1, <3>1 DEF Linked
  <2>3. Linked \subseteq Linked'
    <3> SUFFICES ASSUME NEW i \in DOMAIN chain PROVE chain[i] \in Linked'
      BY DEF Linked
    <3>1. <<b>> \in Seq(Blocks) /\ Len(<<b>>) = 1 /\ chain \in Seq(Blocks)
      BY DEF TypeOK
    <3>2. chain' = <<b>> \o chain BY DEF GetFromNewBlock
    <3>3. 1 + i \in DOMAIN chain' /\ chain'[1 + i] = chain[i]
      BY <3>1, <3>2, ConcatElements
    <3> QED BY <3>3 DEF Linked
  <2> QED BY <2>1, <2>2, <2>3 DEF Numbered
<1> QED BY <1>3, <1>4, <1>5 DEF Numbered

LEMMA StepNumbered ==
  ASSUME IInv, Numbered, [Next]_vars
  PROVE  Numbered'
<1>1. CASE UNCHANGED <<chain, bias>> /\ held' \subseteq held
  BY <1>1 DEF Numbered, Linked
<1>2. ASSUME NEW i \in DOMAIN chain, NEW n \in Offsets, GetFromBlock(i, n) PROVE Numbered'
  <2>1. held' = held \cup {<<chain[i], n>>} /\ UNCHANGED <<chain, bias>>
    BY <1>2 DEF GetFromBlock
  <2>2. chain[i] \in Linked BY DEF Linked
  <2> QED BY <2>1, <2>2 DEF Numbered, Linked
<1>3. ASSUME NEW b \in Blocks, GetFromNewBlock(b) PROVE Numbered'
  BY <1>3, NewBlockNumbered DEF IInv
<1>4. CASE DeleteSet BY <1>4 DEF DeleteSet, Numbered
<1>5. ASSUME NEW m \in Indices, GetUsedSetMember(m) PROVE Numbered'
  <2>1. PICK bs \in Appendable : Extend(m, bs) BY <1>5 DEF GetUsedSetMember
  <2>2. m \in Nat BY IndexIsNat
  <2>3. Linked \subseteq Linked' /\ held' = held
    <3>1. TypeOK BY DEF IInv
    <3>2. held' = held BY <1>5 DEF GetUsedSetMember
    <3> QED BY <2>1, <2>2, <3>1, <3>2, ExtendKeeps
  <2> QED BY <2>1, <2>2, <2>3, ExtendNumbered DEF IInv, Numbered
<1>6. ASSUME NEW m \in Indices, GetSetMember(m) PROVE Numbered'
  <2>1. PICK bs \in Appendable : Extend(m, bs) BY <1>6 DEF GetSetMember
  <2>2. m \in Nat BY IndexIsNat
  <2>3. Linked \subseteq Linked'
    <3>1. TypeOK BY DEF IInv
    <3> QED BY <2>1, <2>2, <3>1, ExtendKeeps
  <2>4. PICK i \in DOMAIN chain' : held' = held \cup {<<chain'[i], m - bias'[chain'[i]]>>}
    BY <1>6 DEF GetSetMember
  <2>5. chain'[i] \in Linked' BY DEF Linked
  <2>6. \A u \in held' : u[1] \in Linked' BY <2>3, <2>4, <2>5 DEF Numbered
  <2> QED BY <2>1, <2>2, <2>6, ExtendNumbered DEF IInv, Numbered
<1>7. ASSUME NEW u \in Units, DeleteFromSet(u) \/ DeleteSetMember(u)
      PROVE  UNCHANGED <<chain, bias>> /\ held' \subseteq held
  BY <1>7 DEF DeleteFromSet, DeleteSetMember
<1>8. CASE UNCHANGED vars BY <1>1, <1>8 DEF vars
<1> QED BY <1>1, <1>2, <1>3, <1>4, <1>5, <1>6, <1>7, <1>8 DEF Next, GetFromSet

(* No two blocks of one number are Max apart, so that an index lies in one *)
(* of them only.                                                           *)
LEMMA NumbersFind == TypeOK /\ Numbered /\ ~NumberedTwice => IndexFinds
<1> SUFFICES ASSUME TypeOK, Numbered, ~NumberedTwice, NEW u \in held
             PROVE  MemberAt(GetMemberIndex(u)) = {u}
  BY DEF IndexFinds
<1>1. PICK b \in Blocks, n \in Offsets : u = <<b, n>> BY DEF TypeOK, Units
<1>2. b \in Linked BY <1>1 DEF Numbered
<1>3. PICK i \in DOMAIN chain : chain[i] = b BY <1>2 DEF Linked
<1> DEFINE m == bias[b] + n
<1>4. GetMemberIndex(u) = m BY <1>1 DEF GetMemberIndex
<1>5. bias[b] \in Nat /\ n \in 0 .. Max - 1 /\ m - bias[b] = n BY DEF TypeOK, Offsets
<1>6. Covers(bias, chain[i], m) BY <1>3, <1>5 DEF Covers
<1>7. ASSUME NEW j \in DOMAIN chain, j # i PROVE ~Covers(bias, chain[j], m)
  <2>1. bias[chain[j]] # bias[b] BY <1>3, <1>7 DEF NumberedTwice
  <2>2. PICK k \in Nat : bias[b] = Max * k BY <1>3 DEF Numbered
  <2>3. PICK l \in Nat : bias[chain[j]] = Max * l BY DEF Numbered
  <2>4. k # l BY <2>1, <2>2, <2>3
  <2>5. bias[chain[j]] + Max <= bias[b] \/ bias[b] + Max <= bias[chain[j]]
    BY <2>2, <2>3, <2>4, Apart
  <2>6. bias[chain[j]] \in Nat BY DEF TypeOK
  <2> QED BY <1>5, <2>5, <2>6 DEF Covers
<1> HIDE DEF m
<1>8. {j \in DOMAIN chain : IsBlockOf(chain, bias, j, m)} = {i}
  <2>1. chain \in Seq(Blocks) BY DEF TypeOK
  <2>2. \A j \in 1 .. i - 1 : j \in DOMAIN chain /\ j # i BY <2>1
  <2>3. IsBlockOf(chain, bias, i, m) BY <1>6, <1>7, <2>2 DEF IsBlockOf
  <2> QED BY <1>7, <2>3 DEF IsBlockOf
<1>9. MemberAt(m) = {<<chain[i], m - bias[chain[i]]>>} BY <1>8 DEF MemberAt
<1> QED BY <1>1, <1>3, <1>4, <1>5, <1>9

(* A block linked while the last one has the highest number gets one of    *)
(* its own.                                                                *)
LEMMA StepTwice ==
  ASSUME TypeOK, Numbered, ~NumberedTwice, [Next]_vars, ~LinksOutOfOrder
  PROVE  ~NumberedTwice'
<1>1. CASE UNCHANGED <<chain, bias>> BY <1>1 DEF NumberedTwice
<1>2. ASSUME NEW b \in Blocks, GetFromNewBlock(b) PROVE ~NumberedTwice'
  <2>1. /\ chain' \in Seq(Blocks) /\ Len(chain') = Len(chain) + 1 /\ chain'[1] = b
        /\ \A i \in DOMAIN chain' :
             i # 1 => /\ i - 1 \in DOMAIN chain /\ chain'[i] = chain[i - 1]
                      /\ bias'[chain'[i]] = bias[chain[i - 1]]
        /\ bias'[b] = IF chain = << >> THEN 0 ELSE bias[Tail1] + Max
    BY <1>2, NewBlockPlaces
  <2>2. \A i \in DOMAIN chain : ~(bias[chain[i]] > bias[Tail1])
    <3>1. Len(chain) \in Nat BY DEF TypeOK
    <3>2. Len(chain') > Len(chain) BY <2>1, <3>1
    <3> QED BY <3>2 DEF LinksOutOfOrder
  <2>3. ASSUME NEW i \in DOMAIN chain', i # 1 PROVE bias'[chain'[i]] # bias'[chain'[1]]
    <3>1. i - 1 \in DOMAIN chain /\ bias'[chain'[i]] = bias[chain[i - 1]] BY <2>1, <2>3
    <3>2. chain # << >> BY <3>1
    <3>3. Len(chain) \in DOMAIN chain BY <3>2 DEF TypeOK
    <3>4. bias[chain[i - 1]] \in Nat /\ bias[Tail1] \in Nat
      BY <3>1, <3>3 DEF TypeOK, Tail1
    <3>5. bias'[chain'[1]] = bias[Tail1] + Max BY <2>1, <3>2
    <3> QED BY <2>2, <3>1, <3>4, <3>5
  <2>4. ASSUME NEW i \in DOMAIN chain', NEW j \in DOMAIN chain', i # 1, j # 1, i # j
        PROVE  bias'[chain'[i]] # bias'[chain'[j]]
    <3>1. i - 1 # j - 1 BY <2>1, <2>4
    <3>2. i - 1 \in DOMAIN chain /\ bias'[chain'[i]] = bias[chain[i - 1]] BY <2>1, <2>4
    <3>3. j - 1 \in DOMAIN chain /\ bias'[chain'[j]] = bias[chain[j - 1]] BY <2>1, <2>4
    <3> QED BY <3>1, <3>2, <3>3 DEF NumberedTwice
  <2> QED BY <2>3, <2>4 DEF NumberedTwice
<1>3. ASSUME NEW m \in Nat, NEW bs \in Appendable, Extend(m, bs) PROVE ~NumberedTwice'
  <2> DEFINE base == IF chain = << >> THEN 0 ELSE bias[Tail1] + Max
             l == Len(chain)
             k == Len(bs)
  <2>1. /\ chain' \in Seq(Blocks) /\ Len(chain') = l + k /\ k \in Nat /\ l \in Nat
        /\ \A j \in 1 .. k : bias'[chain'[l + j]] = base + Max * (j - 1)
    BY <1>3, ExtendNew DEF TypeOK
  <2>2. DOMAIN chain' = 1 .. l + k /\ DOMAIN chain = 1 .. l BY <2>1 DEF TypeOK
  <2>3. \A i \in 1 .. l : bias'[chain'[i]] = bias[chain[i]] /\ bias[chain[i]] \in Nat
    <3> SUFFICES ASSUME NEW i \in 1 .. l
                 PROVE  bias'[chain'[i]] = bias[chain[i]] /\ bias[chain[i]] \in Nat
      OBVIOUS
    <3>1. i \in DOMAIN chain BY <2>2
    <3> QED BY <1>3, <3>1, ExtendOld DEF TypeOK
  <2>4. base \in Nat BY BaseType
  <2>5. ASSUME NEW j \in 1 .. k PROVE \A i \in 1 .. l : bias[chain[i]] < base
    <3> SUFFICES ASSUME NEW i \in 1 .. l PROVE bias[chain[i]] < base
      OBVIOUS
    <3>1. Len(chain') > Len(chain) BY <2>1
    <3>2. ~(bias[chain[i]] > bias[Tail1]) BY <2>2, <3>1 DEF LinksOutOfOrder
    <3>3. chain # << >> BY <2>2
    <3>4. l \in DOMAIN chain BY <2>1, <2>2
    <3>5. bias[Tail1] \in Nat BY <3>4 DEF TypeOK, Tail1
    <3>6. base = bias[Tail1] + Max BY <3>3
    <3> HIDE DEF base
    <3> QED BY <2>3, <3>2, <3>5, <3>6
  <2> HIDE DEF base, l, k
  <2>6. \A j \in 1 .. k : Max * (j - 1) \in Nat
    <3> SUFFICES ASSUME NEW j \in 1 .. k PROVE Max * (j - 1) \in Nat
      OBVIOUS
    <3>1. j - 1 \in Nat BY <2>1
    <3> QED BY <3>1, Z3
  <2>7. ASSUME NEW i \in 1 .. l, NEW j \in 1 .. k
        PROVE  bias'[chain'[i]] # bias'[chain'[l + j]]
    <3>1. bias'[chain'[i]] = bias[chain[i]] /\ bias[chain[i]] \in Nat BY <2>3
    <3>2. bias[chain[i]] < base BY <2>5
    <3>3. bias'[chain'[l + j]] = base + Max * (j - 1) BY <2>1
    <3>4. Max * (j - 1) \in Nat BY <2>6
    <3>5. ASSUME NEW x \in Nat, NEW y \in Nat, x < base PROVE x # base + y
      BY <2>4, <3>5
    <3> QED BY <3>1, <3>2, <3>3, <3>4, <3>5
  <2>8. ASSUME NEW i \in 1 .. k, NEW j \in 1 .. k, i < j
        PROVE  bias'[chain'[l + i]] # bias'[chain'[l + j]]
    <3>1. i - 1 \in Int /\ j - 1 \in Int /\ i - 1 < j - 1 BY <2>1, <2>8
    <3>2. Max * (i - 1) + Max <= Max * (j - 1) BY <3>1, Apart
    <3>3. Max * (i - 1) \in Nat /\ Max * (j - 1) \in Nat BY <2>6
    <3>4. /\ bias'[chain'[l + i]] = base + Max * (i - 1)
          /\ bias'[chain'[l + j]] = base + Max * (j - 1)
      BY <2>1
    <3>5. ASSUME NEW x \in Nat, NEW y \in Nat, x + Max <= y PROVE base + x # base + y
      BY <2>4, <3>5
    <3> QED BY <3>2, <3>3, <3>4, <3>5
  <2>9. ASSUME NEW i \in DOMAIN chain', NEW j \in DOMAIN chain', i # j
        PROVE  bias'[chain'[i]] # bias'[chain'[j]]
    <3>0. l \in Nat /\ k \in Nat /\ i \in 1 .. l + k /\ j \in 1 .. l + k BY <2>1, <2>2
    <3>1. i \in 1 .. l \/ \E p \in 1 .. k : i = l + p BY <3>0, Places
    <3>2. j \in 1 .. l \/ \E p \in 1 .. k : j = l + p BY <3>0, Places
    <3>3. CASE i \in 1 .. l /\ j \in 1 .. l
      BY <2>2, <2>3, <2>9, <3>3 DEF NumberedTwice
    <3>4. CASE i \in 1 .. l /\ \E p \in 1 .. k : j = l + p BY <2>7, <3>4
    <3>5. CASE j \in 1 .. l /\ \E p \in 1 .. k : i = l + p BY <2>7, <3>5
    <3>6. ASSUME NEW p \in 1 .. k, NEW q \in 1 .. k, i = l + p, j = l + q
          PROVE  bias'[chain'[i]] # bias'[chain'[j]]
      <4>1. p < q \/ q < p BY <2>1, <2>9, <3>6
      <4> QED BY <2>8, <3>6, <4>1
    <3> QED BY <3>1, <3>2, <3>3, <3>4, <3>5, <3>6
  <2> QED BY <2>9 DEF NumberedTwice
<1>4. CASE DeleteSet BY <1>4 DEF DeleteSet, NumberedTwice
<1>5. CASE UNCHANGED vars BY <1>1, <1>5 DEF vars
<1> QED BY <1>1, <1>2, <1>3, <1>4, <1>5, IndexIsNat DEF Next, GetFromSet, GetFromBlock,
     DeleteFromSet, DeleteSetMember, GetUsedSetMember, GetSetMember

(* In a set of any number of blocks of any size, an index leads back to    *)
(* its unit until a block is linked while the last of the chain is not the *)
(* one with the highest number.                                            *)
THEOREM IndexBack == Spec => IndexKept
<1> DEFINE XInv == IInv /\ Numbered
<1>1. XInv /\ [Next]_vars => XInv' BY StepIInv, StepNumbered
<1>2. Init => XInv BY InitIInv DEF Init, Numbered
<1>3. XInv /\ [Next]_vars => [~NumberedTwice' \/ NumberedTwice \/ LinksOutOfOrder]_vars
  BY StepTwice DEF IInv
<1>4. XInv /\ ~NumberedTwice => IndexFinds BY NumbersFind DEF IInv
<1> HIDE DEF XInv
<1> QED BY <1>1, <1>2, <1>3, <1>4, PTL DEF Spec, IndexKept
=============================================================================
