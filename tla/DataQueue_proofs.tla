-------------------------- MODULE DataQueue_proofs --------------------------
(***************************************************************************)
(* Proofs about DataQueue for any items, any sizes and any growth, none    *)
(* included: the cursors stay inside the ring, and the ring is a sequence, *)
(* in every step but a put into a full ring that does not expand.          *)
(***************************************************************************)
EXTENDS DataQueue, SequenceTheorems, TLAPS

(* The ring as it is before each call. *)
Good == TypeOK /\ InBounds /\ HoldsItems

IInv == TypeOK /\ HoldsItems

(* The item i places behind the next one to leave. *)
At(i) == data[Wrap(bottom + i)]

USE ItemsAssumption, SizesAssumption

LEMMA InitGood == Init => Good
<1> SUFFICES ASSUME Init PROVE Good
  OBVIOUS
<1>1. TypeOK
  <2>1. Slots = 0 .. 1 /\ data \in [0 .. 1 -> Items \cup {NoItem}]
    BY DEF Init, Slots
  <2>2. seen \in Positions \X (Items \cup {NoItem}) BY DEF Init
  <2>3. data \in [Slots -> Items \cup {NoItem}] BY <2>1
  <2>4. made \in BOOLEAN /\ cnt = 2 /\ bottom = 0 /\ top = 0
        /\ expandBy = DefaultExpand /\ out = NoItem
    BY DEF Init
  <2> QED BY <2>2, <2>3, <2>4 DEF TypeOK
<1>2. InBounds BY DEF Init, InBounds
<1>3. HoldsItems BY DEF Init, HoldsItems, Length
<1> QED BY <1>1, <1>2, <1>3 DEF Good

(* Length counts the slots from Bottom to Top around the ring.             *)
LEMMA LengthFacts ==
  ASSUME Good
  PROVE  /\ Length \in 0 .. cnt - 1
         /\ Length = 0 <=> bottom = top
         /\ Wrap(bottom + Length) = top
         /\ Full <=> Length = cnt - 1
         /\ Before = top <=> Length = cnt - 1
         /\ Length = NewTop
BY DEF Good, TypeOK, InBounds, Length, Wrap, Full, Before, NewTop

LEMMA AtIsItem ==
  ASSUME Good, NEW i \in 0 .. Length - 1
  PROVE  At(i) \in Items
BY DEF Good, HoldsItems, At

(* A new ring has the items in their order, from its first slot on.        *)
LEMMA ExpandedHolds ==
  ASSUME Good
  PROVE  /\ cnt + expandBy \in Nat
         /\ Expanded \in [0 .. cnt + expandBy - 1 -> Items \cup {NoItem}]
         /\ \A i \in 0 .. Length - 1 : Expanded[i] = At(i)
<1>1. Length \in 0 .. cnt - 1 /\ Length = NewTop BY LengthFacts
<1>2. expandBy \in Nat BY DEF Good, TypeOK
<1>3. \A i \in 0 .. Length - 1 : Moved(i) = At(i) /\ Moved(i) \in Items
  <2> SUFFICES ASSUME NEW i \in 0 .. Length - 1
               PROVE  Moved(i) = At(i) /\ Moved(i) \in Items
    OBVIOUS
  <2>1. Moved(i) = At(i)
    BY <1>1 DEF Good, TypeOK, InBounds, Moved, At, Wrap
  <2> QED BY <2>1, AtIsItem
<1>4. cnt \in Nat BY DEF Good, TypeOK
<1> QED BY <1>1, <1>2, <1>3, <1>4 DEF Expanded

(* An item added at the back is the last one, and no other moves.          *)
LEMMA EnqueStep ==
  ASSUME Good, Full => expandBy # 0, NEW x \in Items, EnqueData(x)
  PROVE  /\ TypeOK' /\ InBounds'
         /\ Length' = Length + 1
         /\ \A i \in 0 .. Length : At(i)' = IF i = Length THEN x ELSE At(i)
<1>1. CASE EnqueInPlace(x)
  <2>1. Length < cnt - 1 /\ Length \in Nat /\ Wrap(bottom + Length) = top
    BY <1>1, LengthFacts DEF EnqueInPlace, Good, TypeOK
  <2>2. data' = [data EXCEPT ![top] = x] /\ top' = Wrap(top + 1)
        /\ cnt' = cnt /\ bottom' = bottom
    BY <1>1 DEF EnqueInPlace
  <2>3. TypeOK' BY <2>2 DEF EnqueData, Good, TypeOK, InBounds, Slots, Wrap
  <2>4. InBounds' BY <2>2 DEF Good, TypeOK, InBounds, Wrap
  <2>5. Length' = Length + 1
    BY <2>1, <2>2 DEF Good, TypeOK, InBounds, Length, Wrap
  <2>6. ASSUME NEW i \in Nat, i = Length PROVE At(i)' = x
    <3>1. Wrap(bottom + i)' = top BY <2>1, <2>2, <2>6 DEF Wrap
    <3>2. top \in Slots BY DEF Good, TypeOK, InBounds, Slots
    <3> QED BY <2>2, <3>1, <3>2 DEF Good, TypeOK, At
  <2>7. ASSUME NEW i \in 0 .. Length - 1 PROVE At(i)' = At(i)
    <3>1. Wrap(bottom + i) # top /\ Wrap(bottom + i) \in Slots
      <4>1. cnt \in Nat /\ bottom \in Nat /\ bottom < cnt
        BY DEF Good, TypeOK, InBounds
      <4>2. i \in Nat /\ i < Length /\ Length < cnt BY <2>1, <4>1
      <4> QED BY <2>1, <4>1, <4>2 DEF Wrap, Slots
    <3>2. Wrap(bottom + i)' = Wrap(bottom + i) BY <2>2 DEF Wrap
    <3> QED BY <2>2, <3>1, <3>2 DEF Good, TypeOK, At
  <2> QED BY <2>1, <2>3, <2>4, <2>5, <2>6, <2>7
<1>2. CASE EnqueExpanded(x)
  <2>1. expandBy > 0 /\ expandBy \in Nat /\ cnt \in Nat
    BY <1>2, LengthFacts DEF EnqueExpanded, PrequeExpanded, Good, TypeOK
  <2>2. Length \in Nat /\ Length = cnt - 1 /\ Length = NewTop
    BY <1>2, LengthFacts DEF EnqueExpanded, Good, TypeOK
  <2>3. data' = [Expanded EXCEPT ![Length] = x] /\ top' = Length + 1
        /\ cnt' = cnt + expandBy /\ bottom' = 0
    BY <1>2, <2>2 DEF EnqueExpanded
  <2>4. TypeOK'
    <3>1. data' \in [Slots' -> Items \cup {NoItem}]
      BY <2>1, <2>2, <2>3, ExpandedHolds DEF Slots
    <3>2. UNCHANGED <<made, expandBy, out, seen>> BY DEF EnqueData
    <3> QED BY <2>1, <2>2, <2>3, <3>1, <3>2 DEF Good, TypeOK
  <2>5. InBounds' BY <2>1, <2>2, <2>3 DEF InBounds
  <2>6. Length' = Length + 1 BY <2>1, <2>2, <2>3 DEF Length
  <2>7. ASSUME NEW i \in 0 .. Length PROVE At(i)' = data'[i]
    BY <2>1, <2>2, <2>3 DEF At, Wrap
  <2>8. \A i \in 0 .. Length : data'[i] = IF i = Length THEN x ELSE At(i)
    <3>1. DOMAIN Expanded = 0 .. cnt + expandBy - 1
          /\ \A i \in 0 .. Length - 1 : Expanded[i] = At(i)
      BY <2>1, ExpandedHolds
    <3> SUFFICES ASSUME NEW i \in 0 .. Length
                 PROVE  data'[i] = IF i = Length THEN x ELSE At(i)
      OBVIOUS
    <3>2. i \in 0 .. cnt + expandBy - 1 BY <2>1, <2>2
    <3>3. data'[i] = IF i = Length THEN x ELSE Expanded[i] BY <2>3, <3>1, <3>2
    <3>4. i = Length \/ i \in 0 .. Length - 1 BY <2>2
    <3> QED BY <3>1, <3>3, <3>4
  <2> QED BY <2>4, <2>5, <2>6, <2>7, <2>8
<1> QED BY <1>1, <1>2 DEF EnqueData

(* An item added at the front is the next one to leave, and the others     *)
(* move up by one.                                                         *)
LEMMA PrequeStep ==
  ASSUME Good, Full => expandBy # 0, NEW x \in Items, PrequeData(x)
  PROVE  /\ TypeOK' /\ InBounds'
         /\ Length' = Length + 1
         /\ \A i \in 1 .. Length : At(i)' = At(i - 1)
         /\ At(0)' = x
<1>1. CASE PrequeInPlace(x)
  <2>1. Length < cnt - 1 /\ Length \in Nat
    BY <1>1, LengthFacts DEF PrequeInPlace, Good, TypeOK
  <2>2. data' = [data EXCEPT ![Before] = x] /\ bottom' = Before
        /\ cnt' = cnt /\ top' = top
    BY <1>1 DEF PrequeInPlace
  <2>3. Before \in Slots BY DEF Good, TypeOK, InBounds, Before, Slots
  <2>4. TypeOK' BY <2>2, <2>3 DEF PrequeData, Good, TypeOK, Slots
  <2>5. InBounds' BY <2>2, <2>3 DEF Good, TypeOK, InBounds, Slots
  <2>6. Length' = Length + 1
    BY <2>1, <2>2 DEF Good, TypeOK, InBounds, Length, Before
  <2>7. At(0)' = x
    BY <2>2, <2>3 DEF Good, TypeOK, At, Wrap, Slots
  <2>8. ASSUME NEW i \in 1 .. Length PROVE At(i)' = At(i - 1)
    <3>1. /\ Wrap(bottom + (i - 1)) # Before
          /\ Wrap(bottom + (i - 1)) \in Slots
          /\ Wrap(bottom + i)' = Wrap(bottom + (i - 1))
      BY <2>1, <2>2 DEF Good, TypeOK, InBounds, Wrap, Before, Slots
    <3> QED BY <2>2, <3>1 DEF Good, TypeOK, At
  <2> QED BY <2>4, <2>5, <2>6, <2>7, <2>8
<1>2. CASE PrequeExpanded(x)
  <2>1. expandBy > 0 /\ expandBy \in Nat /\ cnt \in Nat
    BY <1>2, LengthFacts DEF EnqueExpanded, PrequeExpanded, Good, TypeOK
  <2>2. Length \in Nat /\ Length = cnt - 1 /\ Length = NewTop
    BY <1>2, LengthFacts DEF PrequeExpanded, Good, TypeOK
  <2>3. data' = [Expanded EXCEPT ![cnt' - 1] = x] /\ top' = Length
        /\ cnt' = cnt + expandBy /\ bottom' = cnt' - 1
    BY <1>2, <2>2 DEF PrequeExpanded
  <2>4. TypeOK'
    <3>1. data' \in [Slots' -> Items \cup {NoItem}]
      BY <2>1, <2>2, <2>3, ExpandedHolds DEF Slots
    <3>2. UNCHANGED <<made, expandBy, out, seen>> BY DEF PrequeData
    <3> QED BY <2>1, <2>2, <2>3, <3>1, <3>2 DEF Good, TypeOK
  <2>5. InBounds' BY <2>1, <2>2, <2>3 DEF InBounds
  <2>6. Length' = Length + 1 BY <2>1, <2>2, <2>3 DEF Length
  <2>7. At(0)' = x BY <2>1, <2>2, <2>3, ExpandedHolds DEF At, Wrap
  <2>8. ASSUME NEW i \in 1 .. Length PROVE At(i)' = At(i - 1)
    <3>1. At(i)' = data'[i - 1] BY <2>1, <2>2, <2>3 DEF At, Wrap
    <3>2. i - 1 \in 0 .. Length - 1 /\ i - 1 # cnt' - 1
      BY <2>1, <2>2, <2>3
    <3> QED BY <2>1, <2>2, <2>3, <3>1, <3>2, ExpandedHolds
  <2> QED BY <2>4, <2>5, <2>6, <2>7, <2>8
<1> QED BY <1>1, <1>2 DEF PrequeData

(* The first item leaves, and the others move down by one.                 *)
LEMMA DequeStep ==
  ASSUME Good, DequeData
  PROVE  /\ TypeOK' /\ InBounds'
         /\ Length > 0 /\ Length' = Length - 1
         /\ \A i \in 0 .. Length' - 1 : At(i)' = At(i + 1)
         /\ out' = At(0)
<1>1. Length > 0 /\ Length < cnt BY LengthFacts DEF DequeData, Good, TypeOK
<1>2. out' = At(0)
  BY DEF DequeData, At, Wrap, Good, TypeOK, InBounds
<1>3. out' \in Items BY <1>1, <1>2, AtIsItem DEF Good, TypeOK, Length
<1>4. TypeOK' BY <1>3 DEF DequeData, Good, TypeOK, Slots, InBounds, Wrap
<1>5. InBounds' BY DEF DequeData, Good, TypeOK, InBounds, Wrap
<1>6. Length' = Length - 1
  BY <1>1 DEF DequeData, Good, TypeOK, InBounds, Length, Wrap
<1>7. ASSUME NEW i \in 0 .. Length' - 1 PROVE At(i)' = At(i + 1)
  <2>1. Wrap(bottom + i)' = Wrap(bottom + (i + 1))
    BY <1>1, <1>6 DEF DequeData, Good, TypeOK, InBounds, Length, Wrap
  <2> QED BY <2>1 DEF DequeData, At
<1> QED BY <1>1, <1>2, <1>4, <1>5, <1>6, <1>7

(* The last item leaves, and no other moves.                               *)
LEMMA UnqueStep ==
  ASSUME Good, UnqueData
  PROVE  /\ TypeOK' /\ InBounds'
         /\ Length > 0 /\ Length' = Length - 1
         /\ \A i \in 0 .. Length' - 1 : At(i)' = At(i)
         /\ out' = At(Length - 1)
<1>1. Length > 0 /\ Length < cnt /\ Length \in Nat
  BY LengthFacts DEF UnqueData, Good, TypeOK
<1>2. Wrap(bottom + (Length - 1)) = LastSlot
  BY <1>1 DEF Good, TypeOK, InBounds, Length, Wrap, LastSlot
<1>3. out' = At(Length - 1) BY <1>2 DEF UnqueData, At
<1>4. out' \in Items BY <1>1, <1>3, AtIsItem
<1>5. TypeOK' BY <1>4 DEF UnqueData, Good, TypeOK, Slots, InBounds, LastSlot
<1>6. InBounds' BY DEF UnqueData, Good, TypeOK, InBounds, LastSlot
<1>7. Length' = Length - 1
  BY <1>1 DEF UnqueData, Good, TypeOK, InBounds, Length, LastSlot
<1>8. ASSUME NEW i \in 0 .. Length' - 1 PROVE At(i)' = At(i)
  BY DEF UnqueData, At, Wrap
<1> QED BY <1>1, <1>3, <1>5, <1>6, <1>7, <1>8

(* A look gets as far as there are items.                                  *)
LEMMA PeekFacts ==
  ASSUME Good, NEW i \in Nat
  PROVE  Reached(i) <=> i < Length
<1>1. Length \in 0 .. cnt - 1 /\ Wrap(bottom + Length) = top
  BY LengthFacts
<1>2. CASE i < Length
  <2>1. \A k \in 0 .. i : Wrap(bottom + k) # top
    BY <1>1, <1>2 DEF Good, TypeOK, InBounds, Length, Wrap
  <2> QED BY <1>2, <2>1 DEF Reached
<1>3. CASE i >= Length
  <2>1. Length \in 0 .. i BY <1>1, <1>3
  <2> QED BY <1>1, <1>3, <2>1 DEF Reached
<1>4. i < Length \/ i >= Length BY <1>1 DEF Good, TypeOK
<1> QED BY <1>2, <1>3, <1>4

LEMMA PeekStep ==
  ASSUME Good, NEW i \in Positions, PeekDataQueue(i)
  PROVE  /\ Good' /\ UNCHANGED <<ring, out>>
         /\ seen' = <<i, IF made /\ i < Length THEN At(i) ELSE NoItem>>
<1>1. i \in Nat OBVIOUS
<1>2. seen' = <<i, IF made /\ i < Length THEN At(i) ELSE NoItem>>
  BY <1>1, PeekFacts DEF PeekDataQueue, At
<1>3. (IF made /\ i < Length THEN At(i) ELSE NoItem) \in Items \cup {NoItem}
  <2>1. CASE made /\ i < Length BY <1>1, <2>1, AtIsItem, LengthFacts DEF Good, TypeOK
  <2>2. CASE ~ (made /\ i < Length) BY <2>2
  <2> QED BY <2>1, <2>2
<1>4. seen' \in Positions \X (Items \cup {NoItem}) BY <1>2, <1>3
<1>5. UNCHANGED <<ring, out>> BY DEF PeekDataQueue
<1>6. TypeOK' BY <1>4, <1>5 DEF Good, TypeOK, ring, Slots
<1>7. InBounds' BY <1>5 DEF Good, InBounds, ring
<1>8. HoldsItems' BY <1>5 DEF Good, HoldsItems, ring, Length, Wrap
<1> QED BY <1>2, <1>5, <1>6, <1>7, <1>8 DEF Good

LEMMA CreateStep ==
  ASSUME Good, NEW size \in Nat, size >= 2,
         NEW expand \in LargeExpands \cup {DefaultExpand}, CreateSized(size, expand)
  PROVE  Good' /\ Length' = 0
<1>1. data' \in [0 .. size - 1 -> Items \cup {NoItem}] BY DEF CreateSized
<1>2. Slots' = 0 .. size - 1 BY DEF CreateSized, Slots
<1>3. TypeOK' BY <1>1, <1>2 DEF CreateSized, Good, TypeOK
<1>4. InBounds' BY DEF CreateSized, InBounds
<1>5. Length' = 0 BY DEF CreateSized, Length
<1>6. HoldsItems' BY <1>5 DEF HoldsItems
<1> QED BY <1>3, <1>4, <1>5, <1>6 DEF Good

(* Every step but that put leaves the ring right.                          *)
LEMMA GoodStep ==
  ASSUME Good, [Next]_vars, ~Overfills
  PROVE  Good'
<1>1. CASE UNCHANGED vars
  BY <1>1 DEF vars, ring, Good, TypeOK, InBounds, HoldsItems, Slots, Length, Wrap
<1>2. ASSUME CreateDataQueue PROVE Good'
  BY <1>2, CreateStep DEF CreateDataQueue
<1>3. ASSUME CreateLargeDataQueue PROVE Good'
  <2>1. 2 + Entries \in Nat /\ 2 + Entries >= 2 OBVIOUS
  <2> QED BY <1>3, <2>1, CreateStep DEF CreateLargeDataQueue
<1>4. ASSUME DeleteDataQueue PROVE Good'
  BY <1>4 DEF DeleteDataQueue, Good, TypeOK, InBounds, HoldsItems, Slots,
     Length, Wrap
<1>5. ASSUME NEW x \in Items, EnqueData(x) PROVE Good'
  <2>0. Full => expandBy # 0 BY <1>5 DEF Overfills
  <2>1. \A i \in 0 .. Length' - 1 : At(i)' \in Items
    BY <1>5, <2>0, EnqueStep, AtIsItem, LengthFacts DEF Good, TypeOK
  <2> QED BY <1>5, <2>0, <2>1, EnqueStep DEF Good, HoldsItems, At
<1>6. ASSUME NEW x \in Items, PrequeData(x) PROVE Good'
  <2>0. Full => expandBy # 0 BY <1>6 DEF Overfills
  <2>1. \A i \in 0 .. Length' - 1 : At(i)' \in Items
    BY <1>6, <2>0, PrequeStep, AtIsItem, LengthFacts DEF Good, TypeOK
  <2> QED BY <1>6, <2>0, <2>1, PrequeStep DEF Good, HoldsItems, At
<1>7. ASSUME DequeData PROVE Good'
  <2>1. \A i \in 0 .. Length' - 1 : At(i)' \in Items
    BY <1>7, DequeStep, AtIsItem, LengthFacts DEF Good, TypeOK
  <2> QED BY <1>7, <2>1, DequeStep DEF Good, HoldsItems, At
<1>8. ASSUME UnqueData PROVE Good'
  <2>1. \A i \in 0 .. Length' - 1 : At(i)' \in Items
    BY <1>8, UnqueStep, AtIsItem, LengthFacts DEF Good, TypeOK
  <2> QED BY <1>8, <2>1, UnqueStep DEF Good, HoldsItems, At
<1>9. ASSUME TakeNothing PROVE Good'
  BY <1>9 DEF TakeNothing, ring, Good, TypeOK, InBounds, HoldsItems, Slots,
     Length, Wrap
<1>10. ASSUME NEW i \in Positions, PeekDataQueue(i) PROVE Good'
  BY <1>10, PeekStep
<1>11. ASSUME EmptyDataQueue PROVE Good'
  <2>1. TypeOK' BY <1>11 DEF EmptyDataQueue, Good, TypeOK, Slots
  <2>2. InBounds' BY <1>11 DEF EmptyDataQueue, Good, TypeOK, InBounds
  <2>3. HoldsItems' BY <1>11 DEF EmptyDataQueue, HoldsItems, Length
  <2> QED BY <2>1, <2>2, <2>3 DEF Good
<1> QED
  BY <1>1, <1>2, <1>3, <1>4, <1>5, <1>6, <1>7, <1>8, <1>9, <1>10, <1>11
  DEF Next

(* That put leaves Top behind the ring's last slot, or a ring that looks   *)
(* empty.                                                                  *)
LEMMA OverfillStep ==
  ASSUME Good, Overfills
  PROVE  IInv'
<1>1. PICK x \in Items : EnqueData(x) \/ PrequeData(x) BY DEF Overfills
<1>2. /\ Full /\ expandBy = 0 /\ cnt \in Nat /\ cnt >= 2
      /\ Length = cnt - 1 /\ Length = NewTop /\ Before = top
  BY LengthFacts DEF Overfills, Good, TypeOK
<1>3. /\ Expanded \in [0 .. cnt - 1 -> Items \cup {NoItem}]
  <2>1. cnt + expandBy - 1 = cnt - 1 BY <1>2
  <2> QED BY <2>1, ExpandedHolds
<1>4. CASE EnqueData(x)
  <2>1. /\ cnt' = cnt /\ bottom' = 0 /\ top' = cnt
        /\ data' = [Expanded EXCEPT ![cnt - 1] = x]
        /\ UNCHANGED <<made, expandBy, out, seen>>
    BY <1>2, <1>4 DEF EnqueData, EnqueInPlace, EnqueExpanded
  <2>2. data' \in [Slots' -> Items \cup {NoItem}] BY <1>2, <1>3, <2>1 DEF Slots
  <2>3. TypeOK' BY <1>2, <2>1, <2>2 DEF Good, TypeOK
  <2>4. ~InBounds' BY <2>1, <1>2 DEF InBounds
  <2> QED BY <2>3, <2>4 DEF IInv, HoldsItems
<1>5. CASE PrequeData(x)
  <2>1. /\ cnt' = cnt /\ bottom' = cnt - 1 /\ top' = cnt - 1
        /\ data' = [Expanded EXCEPT ![cnt - 1] = x]
        /\ UNCHANGED <<made, expandBy, out, seen>>
    BY <1>2, <1>5 DEF PrequeData, PrequeInPlace, PrequeExpanded
  <2>2. data' \in [Slots' -> Items \cup {NoItem}] BY <1>2, <1>3, <2>1 DEF Slots
  <2>3. TypeOK' BY <1>2, <2>1, <2>2 DEF Good, TypeOK
  <2>4. Length' = 0 BY <1>2, <2>1 DEF Length
  <2> QED BY <2>3, <2>4 DEF IInv, HoldsItems
<1> QED BY <1>1, <1>4, <1>5

LEMMA GoodBefore == IInv /\ Next => Good
BY DEF IInv, Next, Good

LEMMA StepIInv == ASSUME IInv, [Next]_vars PROVE IInv'
<1>1. CASE UNCHANGED vars
  BY <1>1 DEF vars, ring, IInv, TypeOK, InBounds, HoldsItems, Slots, Length, Wrap
<1>2. CASE Next /\ Overfills BY <1>2, GoodBefore, OverfillStep
<1>3. CASE Next /\ ~Overfills
  <2>1. Good' BY <1>3, GoodBefore, GoodStep
  <2> QED BY <2>1 DEF Good, IInv
<1> QED BY <1>1, <1>2, <1>3

THEOREM InvariantHolds == Spec => []IInv
<1>0. Init => IInv BY InitGood DEF Good, IInv
<1>1. IInv /\ [Next]_vars => IInv' BY StepIInv
<1> QED BY <1>0, <1>1, PTL DEF Spec

(* The cursors never leave the ring but by a put into a full ring that     *)
(* does not expand.                                                        *)
THEOREM Bounds == Spec => []TypeOK /\ StaysInBounds
<1>1. IInv => TypeOK BY DEF IInv
<1>2. IInv /\ [Next]_vars => [InBounds' \/ Overfills]_vars
  BY GoodBefore, GoodStep DEF Good
<1> QED BY <1>1, <1>2, InvariantHolds, PTL DEF Spec, StaysInBounds

(* While the cursors are in the ring, the slots from Bottom to Top hold    *)
(* items, never fresh memory.                                              *)
THEOREM Holding == Spec => []HoldsItems
<1>1. IInv => HoldsItems BY DEF IInv
<1> QED BY <1>1, InvariantHolds, PTL

(* A ring is replaced by one of another size only when all its slots but   *)
(* one are taken.                                                          *)
THEOREM Growth == Spec => GrowsWhenFull
<1> DEFINE Grows == made /\ made' /\ cnt' # cnt => Length = cnt - 1
<1>1. ASSUME IInv, [Next]_vars PROVE [Grows]_vars
  <2> SUFFICES ASSUME Next, made, made', cnt' # cnt PROVE Length = cnt - 1
    BY <1>1
  <2>1. Full \/ Before = top
    BY DEF Next, CreateDataQueue, CreateLargeDataQueue, CreateSized,
       DeleteDataQueue, EnqueData, EnqueInPlace, EnqueExpanded, PrequeData,
       PrequeInPlace, PrequeExpanded, DequeData, UnqueData, TakeNothing,
       PeekDataQueue, EmptyDataQueue, ring
  <2> QED BY <1>1, <2>1, GoodBefore, LengthFacts
<1>2. IInv /\ [Next]_vars => [Grows]_vars BY <1>1
<1> QED BY <1>2, InvariantHolds, PTL DEF Spec, GrowsWhenFull

----------------------------------------------------------------------------
(* The refinement.                                                          *)

(* A function on 1 .. n is a sequence.                                     *)
LEMMA Listing ==
  ASSUME NEW n \in Nat, NEW s \in [1 .. n -> Items]
  PROVE  s \in Seq(Items) /\ Len(s) = n
OBVIOUS

LEMMA ContentsFacts ==
  ASSUME Good, made
  PROVE  /\ Contents \in Seq(Items)
         /\ Len(Contents) = Length
         /\ \A i \in 1 .. Length : Contents[i] = At(i - 1)
<1>1. Length \in Nat BY LengthFacts DEF Good, TypeOK
<1>2. \A i \in 1 .. Length : bottom + (i - 1) = bottom + i - 1
  BY <1>1 DEF Good, TypeOK
<1>3. Contents = [i \in 1 .. Length |-> At(i - 1)]
  BY <1>2 DEF Contents, At
<1>4. \A i \in 1 .. Length : At(i - 1) \in Items
  BY <1>1, AtIsItem
<1>5. Contents \in [1 .. Length -> Items] BY <1>3, <1>4
<1> QED BY <1>1, <1>3, <1>5, Listing

(* The number of slots from b up to t around a ring of c.                  *)
LEMMA DistanceInNat ==
  ASSUME NEW c \in Nat, NEW b \in Nat, NEW t \in Nat, b < c, t < c
  PROVE  (t - b) + (IF t < b THEN c ELSE 0) \in Nat
OBVIOUS

LEMMA ContentsFactsNext ==
  ASSUME Good'
  PROVE  made' => /\ Contents' \in Seq(Items)
                  /\ Len(Contents') = Length' /\ Length' \in Nat
                  /\ \A i \in 1 .. Length' : Contents'[i] = At(i - 1)'
<1>1. PICK n \in Nat : n = Length'
  <2>1. /\ cnt' \in Nat /\ top' \in Nat /\ bottom' \in Nat
        /\ top' < cnt' /\ bottom' < cnt'
    BY DEF Good, TypeOK, InBounds
  <2>2. (top' - bottom') + (IF top' < bottom' THEN cnt' ELSE 0) \in Nat
    BY <2>1, DistanceInNat
  <2> QED BY <2>2 DEF Length
<1>2. \A i \in 1 .. n : bottom' + (i - 1) = bottom' + i - 1
  BY <1>1 DEF Good, TypeOK
<1>3. made' => Contents' = [i \in 1 .. n |-> At(i - 1)']
  BY <1>1, <1>2 DEF Contents, At
<1>4. ASSUME NEW i \in 1 .. n PROVE At(i - 1)' \in Items
  <2>1. i - 1 \in 0 .. n - 1 OBVIOUS
  <2>2. \A k \in 0 .. n - 1 : data'[Wrap(bottom + k)'] \in Items
    BY <1>1 DEF Good, HoldsItems
  <2> QED BY <2>1, <2>2 DEF At
<1>5. made' => Contents' \in [1 .. n -> Items] BY <1>3, <1>4
<1> QED BY <1>1, <1>3, <1>5, Listing

LEMMA EnqueImplements ==
  ASSUME Good, Good', Full => expandBy # 0, NEW x \in Items, EnqueData(x)
  PROVE  Abstract!PutBack(x)
<1>1. made /\ made' /\ UNCHANGED <<out, seen>> BY DEF EnqueData
<1>2. Contents' = Append(Contents, x)
  <2>1. Append(Contents, x) \in Seq(Items)
        /\ Len(Append(Contents, x)) = Length + 1
        /\ \A i \in 1 .. Length + 1 :
              Append(Contents, x)[i] = IF i = Length + 1 THEN x ELSE At(i - 1)
    BY <1>1, ContentsFacts, AppendProperties
  <2>2. Length' = Length + 1 BY EnqueStep
  <2>3. \A i \in 1 .. Length + 1 :
          At(i - 1)' = IF i = Length + 1 THEN x ELSE At(i - 1)
    BY EnqueStep, LengthFacts DEF Good, TypeOK
  <2>4. \A i \in 1 .. Length + 1 : Contents'[i] = Append(Contents, x)[i]
    BY <1>1, <2>1, <2>2, <2>3, ContentsFactsNext
  <2> QED BY <1>1, <2>1, <2>2, <2>4, ContentsFactsNext, SeqEqual
<1> QED BY <1>1, <1>2 DEF Abstract!PutBack

LEMMA PrequeImplements ==
  ASSUME Good, Good', Full => expandBy # 0, NEW x \in Items, PrequeData(x)
  PROVE  Abstract!PutFront(x)
<1>1. made /\ made' /\ UNCHANGED <<out, seen>> BY DEF PrequeData
<1>2. Contents' = <<x>> \o Contents
  <2> DEFINE t == <<x>> \o Contents
  <2>1. <<x>> \in Seq(Items) /\ Len(<<x>>) = 1 /\ <<x>>[1] = x OBVIOUS
  <2>2. /\ t \in Seq(Items) /\ Len(t) = Length + 1
        /\ \A i \in 1 .. Length + 1 :
              t[i] = IF i = 1 THEN x ELSE Contents[i - 1]
    BY <1>1, <2>1, ContentsFacts, ConcatProperties, LengthFacts, SMTT(30)
    DEF Good, TypeOK
  <2>3. Length' = Length + 1 BY PrequeStep
  <2>4. ASSUME NEW i \in 1 .. Length + 1 PROVE Contents'[i] = t[i]
    <3>1. Contents'[i] = At(i - 1)' BY <1>1, <2>3, ContentsFactsNext
    <3>2. CASE i = 1 BY <2>2, <3>1, <3>2, PrequeStep
    <3>3. CASE i # 1
      <4>1. i - 1 \in 1 .. Length /\ (i - 1) - 1 = i - 2
        BY <3>3, LengthFacts DEF Good, TypeOK
      <4>2. At(i - 1)' = At((i - 1) - 1) BY <4>1, PrequeStep
      <4>3. Contents[i - 1] = At((i - 1) - 1) BY <1>1, <4>1, ContentsFacts
      <4> QED BY <2>2, <3>1, <3>3, <4>2, <4>3
    <3> QED BY <3>2, <3>3
  <2> QED BY <1>1, <2>2, <2>3, <2>4, ContentsFactsNext, SeqEqual
<1> QED BY <1>1, <1>2 DEF Abstract!PutFront

LEMMA DequeImplements ==
  ASSUME Good, Good', DequeData
  PROVE  Abstract!TakeFront
<1>1. made /\ made' /\ UNCHANGED seen BY DEF DequeData
<1>2. Length > 0 /\ Length \in Nat /\ Length' = Length - 1
  BY DequeStep, LengthFacts DEF Good, TypeOK
<1>3. Contents # << >> /\ out' = Contents[1]
  BY <1>1, <1>2, ContentsFacts, DequeStep
<1>4. Contents' = Tail(Contents)
  <2>1. /\ Tail(Contents) \in Seq(Items) /\ Len(Tail(Contents)) = Length - 1
        /\ \A i \in 1 .. Length - 1 : Tail(Contents)[i] = Contents[i + 1]
    BY <1>1, <1>3, ContentsFacts, HeadTailProperties
  <2>2. ASSUME NEW i \in 1 .. Length - 1
        PROVE  Contents'[i] = Tail(Contents)[i]
    <3>1. i - 1 \in 0 .. Length' - 1 /\ (i - 1) + 1 = (i + 1) - 1
      BY <1>2
    <3>2. At(i - 1)' = At((i - 1) + 1) BY <3>1, DequeStep
    <3>3. Contents[i + 1] = At((i + 1) - 1) BY <1>1, <1>2, ContentsFacts
    <3>4. Contents'[i] = At(i - 1)' BY <1>1, <1>2, ContentsFactsNext
    <3> QED BY <2>1, <3>1, <3>2, <3>3, <3>4
  <2> QED BY <1>1, <1>2, <2>1, <2>2, ContentsFactsNext, SeqEqual
<1> QED BY <1>1, <1>3, <1>4 DEF Abstract!TakeFront

LEMMA UnqueImplements ==
  ASSUME Good, Good', UnqueData
  PROVE  Abstract!TakeBack
<1>1. made /\ made' /\ UNCHANGED seen BY DEF UnqueData
<1>2. Length > 0 /\ Length \in Nat /\ Length' = Length - 1
  BY UnqueStep, LengthFacts DEF Good, TypeOK
<1>3. Contents # << >> /\ Len(Contents) = Length
      /\ out' = Contents[Len(Contents)]
  BY <1>1, <1>2, ContentsFacts, UnqueStep
<1>4. Contents' = SubSeq(Contents, 1, Len(Contents) - 1)
  <2> DEFINE t == SubSeq(Contents, 1, Length - 1)
  <2>1. \A i \in 1 .. Length - 1 : Contents[i] \in Items
    BY <1>1, <1>2, <1>3, ContentsFacts, ElementOfSeq
  <2>2. /\ t \in Seq(Items) /\ Len(t) = Length - 1
        /\ \A i \in 1 .. Length - 1 : t[i] = Contents[i]
    BY <1>2, <2>1, SubSeqProperties
  <2>3. ASSUME NEW i \in 1 .. Length - 1 PROVE Contents'[i] = Contents[i]
    <3>1. i - 1 \in 0 .. Length' - 1 /\ i \in 1 .. Length /\ i \in 1 .. Length'
      BY <1>2
    <3>2. At(i - 1)' = At(i - 1) BY <3>1, UnqueStep
    <3>3. Contents[i] = At(i - 1) BY <1>1, <3>1, ContentsFacts
    <3>4. Contents'[i] = At(i - 1)' BY <1>1, <3>1, ContentsFactsNext
    <3> QED BY <3>2, <3>3, <3>4
  <2>4. Contents' = t
    BY <1>1, <1>2, <2>2, <2>3, ContentsFactsNext, SeqEqual
  <2> QED BY <1>3, <2>4
<1> QED BY <1>1, <1>3, <1>4 DEF Abstract!TakeBack

LEMMA PeekImplements ==
  ASSUME Good, NEW i \in Positions, PeekDataQueue(i)
  PROVE  Abstract!Look(i)
<1>1. UNCHANGED <<Contents, out>>
  BY DEF PeekDataQueue, ring, Contents, Length, Wrap
<1>2. i \in Nat /\ Length \in Nat BY LengthFacts DEF Good, TypeOK
<1>3. seen' = <<i, IF i < Len(Contents) THEN Contents[i + 1] ELSE NoItem>>
  <2>1. CASE made
    <3>1. Len(Contents) = Length BY <2>1, ContentsFacts
    <3>2. CASE i < Length
      <4>1. i + 1 \in 1 .. Length /\ (i + 1) - 1 = i BY <1>2, <3>2
      <4>2. Contents[i + 1] = At(i) BY <2>1, <4>1, ContentsFacts
      <4> QED BY <2>1, <3>1, <3>2, <4>2, PeekStep
    <3>3. CASE ~ (i < Length) BY <2>1, <3>1, <3>3, PeekStep
    <3> QED BY <3>2, <3>3
  <2>2. CASE ~ made
    <3>1. Len(Contents) = 0 BY <2>2 DEF Contents
    <3> QED BY <1>2, <2>2, <3>1, PeekStep
  <2> QED BY <2>1, <2>2
<1> QED BY <1>1, <1>3 DEF Abstract!Look

(* Every step of the ring is a step of the sequence, or none.              *)
LEMMA StepOfQueue ==
  ASSUME Good, Good', [Next]_vars, ~Overfills
  PROVE  [Abstract!Next]_<<Contents, out, seen>>
<1>1. CASE UNCHANGED vars
  BY <1>1 DEF vars, ring, Contents, Length, Wrap
<1>2. CASE CreateDataQueue \/ CreateLargeDataQueue
  <2>1. PICK size \in Nat, expand \in LargeExpands \cup {DefaultExpand} :
          size >= 2 /\ CreateSized(size, expand)
    BY <1>2 DEF CreateDataQueue, CreateLargeDataQueue
  <2>2. Length' = 0 BY <2>1, CreateStep
  <2>3. ~ made /\ made' /\ UNCHANGED <<out, seen>>
    BY <2>1 DEF CreateSized
  <2>4. Contents = << >> /\ Contents' = << >>
    BY <2>2, <2>3 DEF Contents
  <2> QED BY <2>3, <2>4
<1>3. CASE DeleteDataQueue
  <2>1. Contents' = << >> /\ UNCHANGED <<out, seen>>
    BY <1>3 DEF DeleteDataQueue, Contents
  <2> QED BY <2>1 DEF Abstract!Next, Abstract!Clear
<1>4. ASSUME NEW x \in Items, EnqueData(x) PROVE Abstract!Next
  <2>1. Full => expandBy # 0 BY <1>4 DEF Overfills
  <2> QED BY <1>4, <2>1, EnqueImplements DEF Abstract!Next
<1>5. ASSUME NEW x \in Items, PrequeData(x) PROVE Abstract!Next
  <2>1. Full => expandBy # 0 BY <1>5 DEF Overfills
  <2> QED BY <1>5, <2>1, PrequeImplements DEF Abstract!Next
<1>6. CASE DequeData
  BY <1>6, DequeImplements DEF Abstract!Next
<1>7. CASE UnqueData
  BY <1>7, UnqueImplements DEF Abstract!Next
<1>8. CASE TakeNothing
  <2>1. Contents = << >>
    <3>1. CASE made
      <4>1. Length = 0 BY <1>8, <3>1, LengthFacts DEF TakeNothing
      <4> QED BY <4>1 DEF Contents
    <3>2. CASE ~ made BY <3>2 DEF Contents
    <3> QED BY <3>1, <3>2
  <2>2. UNCHANGED <<Contents, seen>> /\ out' = NoItem
    BY <1>8 DEF TakeNothing, ring, Contents, Length, Wrap
  <2> QED BY <2>1, <2>2 DEF Abstract!Next, Abstract!TakeNothing
<1>9. ASSUME NEW i \in Positions, PeekDataQueue(i) PROVE Abstract!Next
  BY <1>9, PeekImplements DEF Abstract!Next
<1>10. CASE EmptyDataQueue
  <2>1. Length' = 0 /\ UNCHANGED <<out, seen>>
    BY <1>10 DEF EmptyDataQueue, Length
  <2>2. Contents' = << >> BY <2>1 DEF Contents
  <2> QED BY <2>1, <2>2 DEF Abstract!Next, Abstract!Clear
<1> QED
  BY <1>1, <1>2, <1>3, <1>4, <1>5, <1>6, <1>7, <1>8, <1>9, <1>10 DEF Next

(* The ring is a sequence with two ends: nothing is lost, doubled or       *)
(* reordered, wherever the ring wraps and whenever it grows, but for a put *)
(* into a full ring that does not expand.                                  *)
THEOREM Implementation == Spec => ImplementsQueue
<1>1. Init => Abstract!Init
  BY DEF Init, Abstract!Init, Contents
<1>2. IInv /\ [Next]_vars
        => [Abstract!Next \/ Overfills]_<<Contents, out, seen>>
  <2>1. ASSUME IInv, Next, ~Overfills
        PROVE  [Abstract!Next]_<<Contents, out, seen>>
    BY <2>1, GoodBefore, GoodStep, StepOfQueue
  <2>2. UNCHANGED vars => UNCHANGED <<Contents, out, seen>>
    BY DEF vars, ring, Contents, Length, Wrap
  <2> QED BY <2>1, <2>2
<1> QED
  BY <1>1, <1>2, InvariantHolds, PTL DEF Spec, ImplementsQueue
=============================================================================
