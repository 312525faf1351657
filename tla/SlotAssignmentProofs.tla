------------------------- MODULE SlotAssignmentProofs -------------------------
(***************************************************************************)
(* For any number of nodes and slots: the default table gives every slot   *)
(* to exactly one row, and installing the nodes, in any order, hands every *)
(* slot to the node whose row marks it.                                    *)
(***************************************************************************)
EXTENDS SlotAssignment, TLAPS

(* Division by the number of rows, as far as the table needs it *)
LEMMA Quotient ==
  /\ ContinuousSlots \in Nat
  /\ RemainingSlots \in 0..(NumRows - 1)
  /\ NumSlots = ContinuousSlots * NumRows + RemainingSlots
BY SizeAssumption DEF ContinuousSlots, RemainingSlots

(* A multiple of the run length grows by at least a run from one row to a later one. *)
LEMMA LaterRun ==
  ASSUME NEW q \in Nat, NEW i \in Nat, NEW k \in Nat, i < k
  PROVE  q * i + q <= q * k
<1>1. q * i + q = q * (i + 1)
  BY SMT
<1>2. PICK d \in Nat : k = (i + 1) + d
  <2>1. k - (i + 1) \in Nat
    OBVIOUS
  <2> QED  BY <2>1
<1>3. q * k = q * (i + 1) + q * d
  BY <1>2, SMT
<1>4. q * d \in Nat /\ q * (i + 1) \in Nat
  BY SMT
<1> QED  BY <1>1, <1>3, <1>4

(* Where a run lies: after those of the rows before, before what is left over. *)
LEMMA RunPlace ==
  ASSUME NEW i \in Rows, NEW c \in Run(i)
  PROVE  /\ c \in Columns
         /\ ContinuousSlots * i < c /\ c <= ContinuousSlots * i + ContinuousSlots
         /\ c <= ContinuousSlots * NumRows
<1>q. ContinuousSlots \in Nat /\ NumRows \in Nat /\ NumSlots \in Nat /\ i \in Nat /\ i < NumRows
  BY Quotient, SizeAssumption DEF Rows
<1>1. PICK tmp \in 1..ContinuousSlots : c = ContinuousSlots * i + tmp
  BY DEF Run
<1>2. ContinuousSlots * i + ContinuousSlots <= ContinuousSlots * NumRows
  BY <1>q, LaterRun
<1>3. ContinuousSlots * i \in Nat /\ ContinuousSlots * NumRows \in Nat
  BY <1>q, SMT
<1>4. ContinuousSlots * NumRows <= NumSlots
  BY <1>q, <1>3, Quotient
<1> QED  BY <1>q, <1>1, <1>2, <1>3, <1>4 DEF Columns

(* The columns of a row in the default table *)
LEMMA DefaultRow ==
  ASSUME NEW i \in Rows, NEW c
  PROVE  c \in SetDefaultSlots[i] <=>
           \/ c \in Run(i)
           \/ i < RemainingSlots /\ c = ContinuousSlots * NumRows + i + 1
BY DEF SetDefaultSlots

(* The default table holds no column outside of the frame. *)
LEMMA DefaultColumns == SetDefaultSlots \in [Rows -> SUBSET Columns]
<1>q. /\ ContinuousSlots \in Nat /\ RemainingSlots \in Nat /\ NumRows \in Nat
      /\ NumSlots = ContinuousSlots * NumRows + RemainingSlots
  BY Quotient, SizeAssumption
<1>0. ContinuousSlots * NumRows \in Nat
  BY <1>q, SMT
<1>1. ASSUME NEW i \in Rows, NEW c \in SetDefaultSlots[i]
      PROVE  c \in Columns
  <2>1. CASE c \in Run(i)
    BY <2>1, RunPlace
  <2>2. CASE i < RemainingSlots /\ c = ContinuousSlots * NumRows + i + 1
    BY <2>2, <1>q, <1>0, SizeAssumption DEF Rows, Columns
  <2> QED  BY <1>1, <2>1, <2>2, DefaultRow
<1> QED  BY <1>1 DEF SetDefaultSlots

(* No column belongs to two rows of the default table. *)
LEMMA DefaultExclusive ==
  ASSUME NEW i \in Rows, NEW k \in Rows, i # k
  PROVE  SetDefaultSlots[k] \cap SetDefaultSlots[i] = {}
<1>q. /\ ContinuousSlots \in Nat /\ NumRows \in Nat /\ RemainingSlots \in Nat
      /\ ContinuousSlots * NumRows \in Nat
  BY Quotient, SizeAssumption, SMT
<1>1. ASSUME NEW a \in Rows, NEW b \in Rows, a < b, NEW c, c \in SetDefaultSlots[a],
             c \in SetDefaultSlots[b]
      PROVE  FALSE
  <2>1. CASE c \in Run(a) /\ c \in Run(b)
    <3>1. a \in Nat /\ b \in Nat /\ c \in Int
      BY <2>1, RunPlace, SizeAssumption DEF Rows, Columns
    <3>2. /\ c <= ContinuousSlots * a + ContinuousSlots
          /\ ContinuousSlots * b < c
      BY <2>1, RunPlace
    <3>3. ContinuousSlots * a + ContinuousSlots <= ContinuousSlots * b
      BY <3>1, <1>1, <1>q, LaterRun
    <3>4. ContinuousSlots * a \in Nat /\ ContinuousSlots * b \in Nat
      BY <3>1, <1>q, SMT
    <3> QED  BY <3>1, <3>2, <3>3, <3>4, <1>q
  <2>2. CASE c \in Run(a) /\ c = ContinuousSlots * NumRows + b + 1
    BY <2>2, RunPlace, <1>q DEF Rows, Columns
  <2>3. CASE c = ContinuousSlots * NumRows + a + 1 /\ c \in Run(b)
    BY <2>3, RunPlace, <1>q DEF Rows, Columns
  <2>4. CASE c = ContinuousSlots * NumRows + a + 1 /\ c = ContinuousSlots * NumRows + b + 1
    BY <2>4, <1>1, <1>q DEF Rows
  <2> QED  BY <1>1, <2>1, <2>2, <2>3, <2>4, DefaultRow
<1>2. i < k \/ k < i
  BY SizeAssumption DEF Rows
<1> QED  BY <1>1, <1>2

(* Every column of the frame belongs to a row of the default table. *)
LEMMA DefaultCovers ==
  ASSUME NEW c \in Columns
  PROVE  \E i \in Rows : c \in SetDefaultSlots[i]
<1>q. /\ ContinuousSlots \in Nat /\ NumRows \in Nat \ {0} /\ RemainingSlots \in 0..(NumRows - 1)
      /\ ContinuousSlots * NumRows \in Nat /\ NumSlots \in Nat
      /\ NumSlots = ContinuousSlots * NumRows + RemainingSlots
  BY Quotient, SizeAssumption, SMT
<1>1. CASE c <= ContinuousSlots * NumRows
  <2>0. ContinuousSlots > 0
    <3>1. SUFFICES ASSUME ContinuousSlots = 0
                   PROVE  FALSE
      BY <1>q
    <3> QED  BY <3>1, <1>1, <1>q, SMT DEF Columns
  <2> DEFINE i == (c - 1) \div ContinuousSlots
             tmp == ((c - 1) % ContinuousSlots) + 1
  <2>1. /\ i \in Nat /\ tmp \in 1..ContinuousSlots
        /\ c = ContinuousSlots * i + tmp
    BY <2>0, <1>q DEF Columns
  <2> HIDE DEF i, tmp
  <2>2. i < NumRows
    <3>1. SUFFICES ASSUME NumRows <= i
                   PROVE  FALSE
      BY <2>1, <1>q
    <3>2. CASE i = NumRows
      BY <3>2, <2>1, <1>1, <1>q
    <3>3. CASE NumRows < i
      <4>1. ContinuousSlots * NumRows + ContinuousSlots <= ContinuousSlots * i
        BY <3>3, <2>1, <1>q, LaterRun
      <4>2. ContinuousSlots * i \in Nat
        BY <2>1, <1>q, SMT
      <4> QED  BY <4>1, <4>2, <2>1, <1>1, <1>q
    <3> QED  BY <3>1, <3>2, <3>3, <2>1, <1>q
  <2>3. i \in Rows
    BY <2>1, <2>2, <1>q DEF Rows
  <2>4. c \in Run(i)
    <3>1. c <= NumSlots + 1
      BY <1>q DEF Columns
    <3> QED  BY <3>1, <2>1, Zenon DEF Run
  <2> QED  BY <2>3, <2>4, DefaultRow
<1>2. CASE c > ContinuousSlots * NumRows
  <2> DEFINE i == c - ContinuousSlots * NumRows - 1
  <2>1. i \in Rows /\ i < RemainingSlots /\ c = ContinuousSlots * NumRows + i + 1
    BY <1>2, <1>q DEF Rows, Columns
  <2> QED  BY <2>1, DefaultRow
<1> QED  BY <1>1, <1>2, <1>q DEF Columns

-----------------------------------------------------------------------------
(* While SetSlots has not been called the table is the default one. *)
DefaultOK ==
  byDefault => ~stopped /\ array = Allotment(SetDefaultSlots, [i \in Rows |-> i])

(* A slot has a node only if that node is installed and a row of it marks the slot. *)
PtrsOK ==
  \A s \in 0..(NumSlots - 1) : slotPtrs[s] # Nobody =>
    /\ slotPtrs[s] \in installed
    /\ \E i \in Rows : array[i].node = slotPtrs[s] /\ s + 1 \in array[i].slots

IInv == TypeOK /\ DefaultOK /\ PtrsOK /\ SlotsAsAllotted

(* In the default table row i is node i's, with the columns of SetDefaultSlots. *)
LEMMA DefaultArray ==
  ASSUME array = Allotment(SetDefaultSlots, [i \in Rows |-> i]), NEW i \in Rows
  PROVE  array[i].node = i /\ array[i].slots = SetDefaultSlots[i]
BY DEF Allotment

(* No node but the natural numbers: Nobody is none of them. *)
LEMMA NodesAreSomebody == Nobody \notin NodeIds
BY SizeAssumption DEF NodeIds, Rows

(* The constructor leaves the invariant true. *)
LEMMA InitInvariant == Init => IInv
<1> SUFFICES ASSUME Init
             PROVE  IInv
  OBVIOUS
<1>1. array \in [Rows -> [node : NodeIds, slots : SUBSET Columns]]
  BY DefaultColumns DEF Init, Allotment, NodeIds
<1>2. TypeOK
  BY <1>1 DEF Init, TypeOK
<1>3. DefaultOK /\ PtrsOK /\ SlotsAsAllotted
  BY DEF Init, DefaultOK, PtrsOK, SlotsAsAllotted
<1> QED  BY <1>2, <1>3 DEF IInv

(* SetSlots replaces the table before any slot is handed out. *)
LEMMA SetSlotsInvariant == IInv /\ SetSlots => IInv'
<1> SUFFICES ASSUME IInv, SetSlots
             PROVE  IInv'
  OBVIOUS
<1> USE DEF IInv
<1>1. PICK slots \in [Rows -> SUBSET Columns], ids \in [Rows -> NodeIds] :
        array' = Allotment(slots, ids)
  BY DEF SetSlots
<1>2. array' \in [Rows -> [node : NodeIds, slots : SUBSET Columns]]
  BY <1>1 DEF Allotment
<1>3. TypeOK'
  BY <1>2 DEF SetSlots, TypeOK
<1>4. \A s \in 0..(NumSlots - 1) : slotPtrs[s] = Nobody
  BY DEF SetSlots, PtrsOK
<1>5. DefaultOK' /\ PtrsOK'
  BY <1>4 DEF SetSlots, DefaultOK, PtrsOK
<1>6. SlotsAsAllotted'
  BY DEF SetSlots, SlotsAsAllotted
<1> QED  BY <1>3, <1>5, <1>6

(* An installation hands out slots that nobody had, or stops a program whose table was *)
(* not the default one.                                                                *)
LEMMA InstallInvariant ==
  ASSUME IInv, NEW n \in NodeIds, Install(n)
  PROVE  IInv'
<1> USE DEF IInv
<1> DEFINE mine == {i \in Rows : array[i].node = n}
           owned == UNION {array[i].slots : i \in mine}
<1>0. array' = array /\ byDefault' = byDefault
  BY DEF Install
<1>1. CASE /\ \A i \in mine : Exclusive(i)
           /\ slotPtrs' = AddTdmaSlot(owned, n)
           /\ installed' = installed \cup {n}
           /\ stopped' = stopped
  <2>1. \A s \in 0..(NumSlots - 1) :
          slotPtrs'[s] = IF s + 1 \in owned /\ slotPtrs[s] = Nobody THEN n ELSE slotPtrs[s]
    BY <1>1 DEF AddTdmaSlot
  <2>2. TypeOK'
    <3>1. slotPtrs' \in [0..(NumSlots - 1) -> NodeIds \cup {Nobody}]
      BY <1>1 DEF AddTdmaSlot, TypeOK
    <3> QED  BY <3>1, <1>0, <1>1 DEF TypeOK
  <2>3. DefaultOK'
    BY <1>0, <1>1 DEF DefaultOK
  <2>4. PtrsOK'
    <3> SUFFICES ASSUME NEW s \in 0..(NumSlots - 1), slotPtrs'[s] # Nobody
                 PROVE  /\ slotPtrs'[s] \in installed'
                        /\ \E i \in Rows : /\ array[i].node = slotPtrs'[s]
                                           /\ s + 1 \in array[i].slots
      BY <1>0 DEF PtrsOK
    <3>1. CASE s + 1 \in owned /\ slotPtrs[s] = Nobody
      BY <3>1, <2>1, <1>1
    <3>2. CASE ~(s + 1 \in owned /\ slotPtrs[s] = Nobody)
      BY <3>2, <2>1, <1>1 DEF PtrsOK
    <3> QED  BY <3>1, <3>2
  <2>5. SlotsAsAllotted'
    <3> SUFFICES ASSUME NEW i \in Rows, array[i].node \in installed \cup {n},
                        NEW c \in array[i].slots
                 PROVE  slotPtrs'[c - 1] = array[i].node
      BY <1>0, <1>1 DEF SlotsAsAllotted
    <3>0. c \in Columns /\ c - 1 \in 0..(NumSlots - 1) /\ (c - 1) + 1 = c
      BY SizeAssumption DEF TypeOK, Columns
    <3>1. CASE array[i].node \in installed
      <4>1. slotPtrs[c - 1] = array[i].node /\ array[i].node \in NodeIds
        BY <3>1 DEF SlotsAsAllotted, TypeOK
      <4> QED  BY <4>1, <3>0, <2>1, NodesAreSomebody
    <3>2. CASE array[i].node = n
      <4>1. i \in mine /\ c \in owned
        BY <3>2
      <4>2. slotPtrs[c - 1] = Nobody
        <5>1. SUFFICES ASSUME slotPtrs[c - 1] # Nobody
                       PROVE  FALSE
          OBVIOUS
        <5>2. PICK k \in Rows : array[k].node = slotPtrs[c - 1] /\ c \in array[k].slots
          BY <5>1, <3>0 DEF PtrsOK
        <5>3. array[k].node \in installed /\ n \notin installed
          BY <5>1, <5>2, <3>0 DEF PtrsOK, Install
        <5>4. k # i
          BY <5>3, <3>2
        <5> QED  BY <5>2, <5>4, <4>1, <1>1 DEF Exclusive
      <4> QED  BY <4>1, <4>2, <3>0, <3>2, <2>1
    <3> QED  BY <3>1, <3>2
  <2> QED  BY <2>2, <2>3, <2>4, <2>5
<1>2. CASE /\ \E i \in mine : ~Exclusive(i)
           /\ stopped' = TRUE
           /\ installed' = installed /\ slotPtrs' = slotPtrs
  <2>1. ~byDefault
    <3>1. SUFFICES ASSUME byDefault
                   PROVE  FALSE
      OBVIOUS
    <3>2. PICK i \in Rows : ~Exclusive(i)
      BY <1>2
    <3>3. PICK k \in Rows \ {i} : array[k].slots \cap array[i].slots # {}
      BY <3>2 DEF Exclusive
    <3>4. /\ array[k].slots = SetDefaultSlots[k]
          /\ array[i].slots = SetDefaultSlots[i]
      BY <3>1, DefaultArray DEF DefaultOK
    <3> QED  BY <3>3, <3>4, DefaultExclusive
  <2> QED  BY <2>1, <1>0, <1>2 DEF TypeOK, DefaultOK, PtrsOK, SlotsAsAllotted
<1> QED  BY <1>1, <1>2 DEF Install

(* The invariant holds in every state. *)
THEOREM Invariance == Spec => []IInv
<1>1. IInv /\ [Next]_vars => IInv'
  <2> SUFFICES ASSUME IInv, [Next]_vars
               PROVE  IInv'
    OBVIOUS
  <2>1. CASE SetSlots
    BY <2>1, SetSlotsInvariant
  <2>2. ASSUME NEW n \in NodeIds, Install(n)
        PROVE  IInv'
    BY <2>2, InstallInvariant
  <2>3. CASE UNCHANGED vars
    BY <2>3 DEF IInv, TypeOK, DefaultOK, PtrsOK, SlotsAsAllotted, vars
  <2> QED  BY <2>1, <2>2, <2>3 DEF Next
<1> QED  BY <1>1, InitInvariant, PTL DEF Spec

(* The table and m_slotPtrs keep their types, for any number of nodes and slots. *)
THEOREM TypeCorrect == Spec => []TypeOK
BY Invariance, PTL DEF IInv

(* AddTdmaSlot never refuses a slot that a row of an installed node marks. *)
THEOREM InstalledAsAllotted == Spec => []SlotsAsAllotted
BY Invariance, PTL DEF IInv

(* With the default table nothing stops, and once all nodes are installed every slot has *)
(* a node, for any number of nodes and slots, also fewer slots than nodes.               *)
THEOREM DefaultFrameComplete == Spec => []NoHoleByDefault
<1>1. IInv => NoHoleByDefault
  <2> SUFFICES ASSUME IInv, byDefault, installed = NodeIds, NEW s \in 0..(NumSlots - 1)
               PROVE  slotPtrs[s] # Nobody
    BY DEF NoHoleByDefault, IInv, DefaultOK
  <2>1. s + 1 \in Columns /\ (s + 1) - 1 = s
    BY SizeAssumption DEF Columns
  <2>2. PICK i \in Rows : s + 1 \in SetDefaultSlots[i]
    BY <2>1, DefaultCovers
  <2>3. array[i].node = i /\ array[i].slots = SetDefaultSlots[i]
    BY DefaultArray DEF IInv, DefaultOK
  <2>4. slotPtrs[(s + 1) - 1] = i
    BY <2>2, <2>3 DEF IInv, SlotsAsAllotted, NodeIds
  <2> QED  BY <2>1, <2>4, NodesAreSomebody DEF NodeIds
<1> QED  BY <1>1, Invariance, PTL
=============================================================================
