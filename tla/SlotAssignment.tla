---------------------------- MODULE SlotAssignment ----------------------------
(***************************************************************************)
(* How TdmaHelper gives the slots of a frame to the nodes: the table with  *)
(* one row per node and one column per slot, filled by SetDefaultSlots in  *)
(* the constructor and perhaps overwritten by SetSlots, and the insertion  *)
(* of the slots in the controller's m_slotPtrs when a node is installed.   *)
(* What Tdma assumes, that every slot has one MAC, is what is shown here.  *)
(***************************************************************************)
EXTENDS Integers, FiniteSets

CONSTANTS
  NumRows,       \* m_numRows, the nodes of the network
  NumSlots,      \* m_numCols - 1
  Nobody         \* no entry in m_slotPtrs

ASSUME SizeAssumption == NumRows \in Nat \ {0} /\ NumSlots \in Nat \ {0} /\ Nobody \notin Nat

Rows    == 0..(NumRows - 1)
Columns == 1..NumSlots
NodeIds == Rows                  \* GetId () of the nodes, in the order of their creation

VARIABLES
  array,         \* m_slotAllotmentArray: the node of each row and the columns that hold a 1
  byDefault,     \* SetSlots has not been called
  installed,     \* nodes that have a device
  slotPtrs,      \* m_slotPtrs of the controller, a node for its MAC
  stopped        \* an assertion has failed

vars == <<array, byDefault, installed, slotPtrs, stopped>>

-----------------------------------------------------------------------------
ContinuousSlots == NumSlots \div NumRows
RemainingSlots  == NumSlots - ContinuousSlots * NumRows

(* The run of slots of row i.  The loop's own bound, m_numCols, is never reached. *)
Run(i) == {c \in {ContinuousSlots * i + tmp : tmp \in 1..ContinuousSlots} : c <= NumSlots + 1}

SetDefaultSlots_OneShort ==
  [i \in Rows |-> Run(i) \cup (IF i + 1 < RemainingSlots
                               THEN {ContinuousSlots * NumRows + i + 1} ELSE {})]

SetDefaultSlots_OneMore ==
  [i \in Rows |-> Run(i) \cup (IF i <= RemainingSlots
                               THEN {ContinuousSlots * NumRows + i + 1} ELSE {})]

(* A run of slots for each row and, from the first row on, one of those that are left *)
SetDefaultSlots ==
  [i \in Rows |-> Run(i) \cup (IF i < RemainingSlots
                               THEN {ContinuousSlots * NumRows + i + 1} ELSE {})]

Allotment(slots, ids) == [i \in Rows |-> [node |-> ids[i], slots |-> slots[i]]]

(* A 1 in the same column of another row fails the assertion of AssignTdmaSlots. *)
Exclusive(i) == \A k \in Rows \ {i} : array[k].slots \cap array[i].slots = {}

(* insert leaves a slot that has a MAC alone. *)
AddTdmaSlot(owned, n) ==
  [s \in 0..(NumSlots - 1) |-> IF s + 1 \in owned /\ slotPtrs[s] = Nobody THEN n ELSE slotPtrs[s]]

(* Install of one node, with AssignTdmaSlots; what it added before its assertion fails    *)
(* does not matter any more.                                                             *)
Install_Unchecked(n) ==
  LET mine == {i \in Rows : array[i].node = n}
  IN  /\ n \notin installed /\ ~stopped
      /\ slotPtrs' = AddTdmaSlot(UNION {array[i].slots : i \in mine}, n)
      /\ installed' = installed \cup {n}
      /\ UNCHANGED <<array, byDefault, stopped>>

Install(n) ==
  LET mine == {i \in Rows : array[i].node = n}
  IN  /\ n \notin installed /\ ~stopped
      /\ \/ /\ \A i \in mine : Exclusive(i)
            /\ slotPtrs' = AddTdmaSlot(UNION {array[i].slots : i \in mine}, n)
            /\ installed' = installed \cup {n}
            /\ UNCHANGED stopped
         \/ /\ \E i \in mine : ~Exclusive(i)
            /\ stopped' = TRUE
            /\ UNCHANGED <<installed, slotPtrs>>
      /\ UNCHANGED <<array, byDefault>>

(* SetSlots, of the caller's numbers or of a file's *)
SetSlots ==
  /\ byDefault /\ installed = {}
  /\ \E slots \in [Rows -> SUBSET Columns], ids \in [Rows -> NodeIds] :
       array' = Allotment(slots, ids)
  /\ byDefault' = FALSE
  /\ UNCHANGED <<installed, slotPtrs, stopped>>

(* The constructor: Allocate2D and SetDefaultSlots *)
Init ==
  /\ array = Allotment(SetDefaultSlots, [i \in Rows |-> i])
  /\ byDefault = TRUE /\ installed = {} /\ stopped = FALSE
  /\ slotPtrs = [s \in 0..(NumSlots - 1) |-> Nobody]

Next ==
  \/ SetSlots
  \/ \E n \in NodeIds : Install(n)

Spec == Init /\ [][Next]_vars

-----------------------------------------------------------------------------
TypeOK ==
  /\ array \in [Rows -> [node : NodeIds, slots : SUBSET Columns]]
  /\ byDefault \in BOOLEAN /\ stopped \in BOOLEAN /\ installed \subseteq NodeIds
  /\ slotPtrs \in [0..(NumSlots - 1) -> NodeIds \cup {Nobody}]

(* An installed node got every slot its rows mark: the assertion of AssignTdmaSlots makes *)
(* sure that AddTdmaSlot never has to refuse one, in whatever order nodes are installed   *)
(* and whatever table SetSlots was given.                                                 *)
SlotsAsAllotted ==
  \A i \in Rows : array[i].node \in installed =>
    \A c \in array[i].slots : slotPtrs[c - 1] = array[i].node

(* The default table never stops the program, and when all nodes are installed every slot *)
(* has a MAC: the frame has no hole that ScheduleTdmaSession would fall into.             *)
NoHoleByDefault ==
  byDefault => ~stopped /\ (installed = NodeIds => \A s \in 0..(NumSlots - 1) : slotPtrs[s] # Nobody)
=============================================================================
