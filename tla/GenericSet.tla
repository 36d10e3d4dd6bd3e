---------------------------- MODULE GenericSet ----------------------------
(***************************************************************************)
(* The generic sets of typelib/sets.c: pools of equal units, in a chain of *)
(* blocks of Max units with a bit per unit.  Timers, threads, events,      *)
(* network clients and many others are allocated from such sets.           *)
(*                                                                         *)
(* A unit is a block and an offset.  Callers give back only what they hold *)
(* (a second DeleteFromSet would count nUsed down again), by the unit or   *)
(* by its index.  Two operations reached by index touch the bit of another *)
(* unit; the set has then lost count and the model stops.  Abstracted: the *)
(* test of 32 bits at a time, and the blocks' own memory: a block is a     *)
(* member of Blocks, taken in any order.  GetFromSetPoolEx with a set of   *)
(* sets, which takes its blocks out of another set, is the same code.      *)
(***************************************************************************)
EXTENDS Integers, Sequences, FiniteSets

CONSTANTS
  Blocks,  \* the blocks there is memory for (bounds the chain)
  Max      \* MAX<name>SPERSET: the units in a block

ASSUME MaxAssumption == Max \in Nat \ {0}
ASSUME BlocksAssumption == IsFiniteSet(Blocks)

VARIABLES
  chain,   \* the blocks of the set, in the order of their next pointers
  bias,    \* nBias of every block
  nUsed,   \* nUsed of every block
  used,    \* bUsed of every block: the offsets whose bit is set
  held     \* history: the units callers hold

vars == <<chain, bias, nUsed, used, held>>

Offsets == 0 .. Max - 1
Units == Blocks \X Offsets
Linked == {chain[i] : i \in DOMAIN chain}

Init ==
  /\ chain = << >>
  /\ bias = [b \in Blocks |-> 0]
  /\ nUsed = [b \in Blocks |-> 0]
  /\ used = [b \in Blocks |-> {}]
  /\ held = {}

(* Mutant: the bit is set but not counted. *)
SetUsed_NoCount(b, n) ==
  /\ used' = [used EXCEPT ![b] = @ \cup {n}]
  /\ UNCHANGED nUsed

SetUsed(b, n) ==
  /\ used' = [used EXCEPT ![b] = @ \cup {n}]
  /\ nUsed' = [nUsed EXCEPT ![b] = @ + 1]

ClearUsed(b, n) ==
  /\ used' = [used EXCEPT ![b] = @ \ {n}]
  /\ nUsed' = [nUsed EXCEPT ![b] = @ - 1]

(***************************************************************************)
(* GetFromSet.                                                             *)
(***************************************************************************)

Tail1 == chain[Len(chain)]
(* Mutant: the last unit of a block is never used. *)
Full_OneShort(b) == nUsed[b] >= Max - 1

Full(b) == nUsed[b] = Max

(* A block with room: the unit is its first free one. *)
GetFromBlock(i, n) ==
  /\ ~Full(chain[i]) /\ \A j \in 1 .. i - 1 : Full(chain[j])
  /\ n \in Offsets \ used[chain[i]] /\ \A k \in Offsets : k < n => k \in used[chain[i]]
  /\ SetUsed(chain[i], n)
  /\ held' = held \cup {<<chain[i], n>>}
  /\ UNCHANGED <<chain, bias>>

(* Mutant: a new block is not numbered. *)
GetFromNewBlock_NoBias(b) ==
  /\ b \notin Linked /\ \A c \in Linked : Full(c)
  /\ chain' = <<b>> \o chain
  /\ used' = [used EXCEPT ![b] = {0}]
  /\ nUsed' = [nUsed EXCEPT ![b] = 1]
  /\ held' = held \cup {<<b, 0>>}
  /\ UNCHANGED bias

(* All full: a new block at the head, numbered after the last one. *)
GetFromNewBlock(b) ==
  /\ b \notin Linked /\ \A c \in Linked : Full(c)
  /\ chain' = <<b>> \o chain
  /\ bias' = [bias EXCEPT ![b] = IF chain = << >> THEN 0 ELSE bias[Tail1] + Max]
  /\ used' = [used EXCEPT ![b] = {0}]
  /\ nUsed' = [nUsed EXCEPT ![b] = 1]
  /\ held' = held \cup {<<b, 0>>}

GetFromSet ==
  \/ \E i \in DOMAIN chain, n \in Offsets : GetFromBlock(i, n)
  \/ \E b \in Blocks : GetFromNewBlock(b)

(* Mutant: the bit cleared is that of the unit's index in the set. *)
DeleteFromSet_ByIndex(u) ==
  /\ u \in held
  /\ ClearUsed(u[1], bias[u[1]] + u[2])
  /\ held' = held \ {u}
  /\ UNCHANGED <<chain, bias>>

(* DeleteFromSet: the block is the one the unit lies in. *)
DeleteFromSet(u) ==
  /\ u \in held
  /\ ClearUsed(u[1], u[2])
  /\ held' = held \ {u}
  /\ UNCHANGED <<chain, bias>>

(* DeleteSet gives all blocks back. *)
DeleteSet ==
  /\ chain # << >>
  /\ chain' = << >>
  /\ bias' = [b \in Blocks |-> 0]
  /\ nUsed' = [b \in Blocks |-> 0]
  /\ used' = [b \in Blocks |-> {}]
  /\ held' = {}

(***************************************************************************)
(* Access by index.                                                        *)
(***************************************************************************)

Covers(bi, b, m) == m \in bi[b] .. bi[b] + Max - 1

(* The first block of chain c that covers index m. *)
IsBlockOf(c, bi, i, m) ==
  /\ i \in DOMAIN c /\ Covers(bi, c[i], m)
  /\ \A j \in 1 .. i - 1 : ~Covers(bi, c[j], m)

(* GetSetMemberExx appends blocks, here bs, until one covers the index. *)
Extend(m, bs) ==
  LET all  == chain \o bs
      base == IF chain = << >> THEN 0 ELSE bias[Tail1] + Max
  IN /\ \A i, j \in DOMAIN all : i # j => all[i] # all[j]
     /\ chain' = all
     /\ bias' = [b \in Blocks |->
                   IF \E j \in DOMAIN bs : bs[j] = b
                   THEN base + Max * ((CHOOSE j \in DOMAIN bs : bs[j] = b) - 1)
                   ELSE bias[b]]
     /\ bs # << >> => \A c \in Linked : ~Covers(bias, c, m)
     /\ \A j \in DOMAIN bs : Covers(bias', bs[j], m) <=> j = Len(bs)
     /\ bs = << >> => \E c \in Linked : Covers(bias, c, m)

Appendable == UNION {[1 .. k -> Blocks \ Linked] : k \in 0 .. Cardinality(Blocks)}

GetUsedSetMember(m) ==
  /\ \E bs \in Appendable : Extend(m, bs)
  /\ UNCHANGED <<nUsed, used, held>>

(* GetSetMember sets the bit of the index in the first block, whichever    *)
(* block the unit lies in.                                                 *)
GetSetMember(m) ==
  /\ \E bs \in Appendable : Extend(m, bs)
  /\ \E i \in DOMAIN chain' :
       LET b == chain'[i]
           n == m - bias'[b]
       IN /\ IsBlockOf(chain', bias', i, m)
          /\ held' = held \cup {<<b, n>>}
          /\ IF n \in used[b] THEN UNCHANGED <<nUsed, used>> ELSE SetUsed(chain'[1], m)

GetMemberIndex(u) == bias[u[1]] + u[2]

(* What GetUsedSetMember finds at an index. *)
MemberAt(m) ==
  LET found == {i \in DOMAIN chain : IsBlockOf(chain, bias, i, m)}
  IN {<<chain[i], m - bias[chain[i]]>> : i \in found}

(* DeleteSetMemberEx takes Max off the index for every block it passes,    *)
(* from the head of the chain on.                                          *)
DeletedAt(m) ==
  {<<chain[i], m - Max * (i - 1)>> :
     i \in {j \in DOMAIN chain : m - Max * (j - 1) \in Offsets}}

(* The holder of u gives it back by its index.  The code frees the unit it *)
(* comes to, if there is one and its bit is set: u or another.             *)
DeleteSetMember(u) ==
  /\ u \in held
  /\ held' = held \ {u}
  /\ LET found == {v \in DeletedAt(GetMemberIndex(u)) : v[2] \in used[v[1]]}
     IN IF found = {} THEN UNCHANGED <<nUsed, used>>
                      ELSE \E v \in found : ClearUsed(v[1], v[2])
  /\ UNCHANGED <<chain, bias>>

Indices == 0 .. Cardinality(Blocks) * Max - 1

(* The bits that are set are those of the units callers hold: no unit is   *)
(* handed out twice, none is lost.                                         *)
UsedAreHeld == \A b \in Blocks : used[b] = {n \in Offsets : <<b, n>> \in held}

Next ==
  /\ UsedAreHeld
  /\ \/ GetFromSet
     \/ \E u \in Units : DeleteFromSet(u) \/ DeleteSetMember(u)
     \/ DeleteSet
     \/ \E m \in Indices : GetUsedSetMember(m) \/ GetSetMember(m)

Spec == Init /\ [][Next]_vars

(***************************************************************************)
(* Properties.                                                             *)
(***************************************************************************)

TypeOK ==
  /\ chain \in Seq(Blocks)
  /\ bias \in [Blocks -> Nat]
  /\ nUsed \in [Blocks -> Nat]
  /\ used \in [Blocks -> SUBSET Nat]
  /\ held \subseteq Units

(* The blocks lie in the order of their numbers.                           *)
InOrder == \A i \in DOMAIN chain : bias[chain[i]] = Max * (i - 1)

(* GetSetMember of a unit that is not in a first block with the number 0:  *)
(* sets.c:238 marks the bit in the first block all the same.               *)
MarksPastFirst ==
  \E m \in Indices : GetSetMember(m) /\ (m >= Max \/ bias'[chain'[1]] # 0)

(* DeleteSetMember in a chain that GetFromSet has grown at its head:       *)
(* sets.c:357-365 counts blocks, whatever their numbers are.               *)
DeletesOutOfOrder == ~InOrder /\ \E u \in Units : DeleteSetMember(u)

(* However units are taken, given back and reached, in whatever order the  *)
(* blocks were added, only these two steps can make the bits differ from   *)
(* the units in callers' hands, so that one is handed out twice or lost.   *)
UnitsKept == [][UsedAreHeld' \/ MarksPastFirst \/ DeletesOutOfOrder]_vars

(* nUsed, by which a block is passed over as full, counts the bits for as  *)
(* long as the bits are right.                                             *)
CountsAgree ==
  UsedAreHeld => \A b \in Blocks : nUsed[b] = Cardinality(used[b])

(* GetFromSet puts a block at the head of a chain only when all the units  *)
(* of its blocks are held.                                                 *)
GrowsWhenFull ==
  [][(chain # << >> /\ chain' # << >> /\ chain'[1] # chain[1])
       => Linked \X Offsets \subseteq held]_vars

(* An index leads back to its unit: sets.c:555 calls GetMemberIndex "the   *)
(* actual index of the member".                                            *)
IndexFinds == \A u \in held : MemberAt(GetMemberIndex(u)) = {u}

NumberedTwice ==
  \E i, j \in DOMAIN chain : i # j /\ bias[chain[i]] = bias[chain[j]]

(* A block is linked while the last of the chain, after which the new one  *)
(* is numbered (sets.c:104, 111, 195), is not the one with the highest     *)
(* number: from the third block of GetFromSet on.                          *)
LinksOutOfOrder ==
  /\ Len(chain') > Len(chain)
  /\ \E i \in DOMAIN chain : bias[chain[i]] > bias[Tail1]

(* The index of every held unit leads back to it until such a block is     *)
(* linked, which takes the number of another.                              *)
IndexKept == [][IndexFinds' \/ NumberedTwice \/ LinksOutOfOrder]_vars
=============================================================================
