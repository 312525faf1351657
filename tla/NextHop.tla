------------------------------- MODULE NextHop -------------------------------
(***************************************************************************)
(* The search loop of NeighborTable::BestNeighbor, one state per           *)
(* iteration, over a neighbour table whose entries are numbered in the     *)
(* order of their addresses.  An entry is known by its time to intercept   *)
(* the destination, computed by CalculateTimeToIntercept from the distance *)
(* dd and the approach speed dv.  TTIs are doubles: they are scaled        *)
(* integers here, with the infinities and NaN that a speed of zero gives.  *)
(***************************************************************************)
EXTENDS Integers

CONSTANTS
  Distances, Speeds,  \* values of dd and dv
  MaxRange, Margin,   \* m_range, and the 3000 m inside it
  Scale, Infinity, NaN,
  MaxNeighbors        \* bound: entries in the table

ASSUME NextHopAssumption ==
  /\ Distances \subseteq Nat /\ Speeds \subseteq Int /\ MaxRange \in Nat /\ Margin \in Nat
  /\ Scale \in Nat \ {0} /\ Infinity \in Nat \ {0} /\ NaN \notin Int /\ MaxNeighbors \in Nat

Zero == 0

Quotient(a, b) == IF b > 0 THEN (a * Scale) \div b ELSE ((-a) * Scale) \div (-b)

(* All results for a distance and a speed; the sign of a zero speed (a double zero has   *)
(* one) is not determined by the speed's value.                                          *)
CalculateTimeToIntercept(dd, dv) ==
  IF dv < 0 /\ dd >= MaxRange THEN {0}
  ELSE IF dv = 0 THEN IF dd = MaxRange THEN {NaN} ELSE {Infinity, -Infinity}
  ELSE IF dd < MaxRange - Margin /\ dv < 0 THEN {-Quotient(dd - MaxRange, dv)}
  ELSE {Quotient(dd - MaxRange, dv)}

TTIs == UNION {CalculateTimeToIntercept(dd, dv) : dd \in Distances, dv \in Speeds}

VARIABLES
  tti,           \* TTI of each entry of m_table, in map order
  initialTTI,    \* the node's own TTI
  pc,
  i,             \* the loop's iterator
  bestFoundID, bestFoundTTI,
  result         \* the address returned

vars == <<tti, initialTTI, pc, i, bestFoundID, bestFoundTTI, result>>

Entries == DOMAIN tti

(* a > b on doubles *)
Greater(a, b) == a # NaN /\ b # NaN /\ a > b

Init ==
  /\ \E n \in 0..MaxNeighbors : tti \in [1..n -> TTIs]
  /\ initialTTI \in TTIs
  /\ pc = "start" /\ i = 0 /\ bestFoundID = Zero /\ bestFoundTTI = 0 /\ result = Zero

Begin ==
  /\ pc = "start"
  /\ \/ /\ Entries = {}
        /\ pc' = "done" /\ result' = Zero
        /\ UNCHANGED <<i, bestFoundID, bestFoundTTI>>
     \/ /\ Entries # {}
        /\ pc' = "loop" /\ i' = 1
        /\ bestFoundID' = 1 /\ bestFoundTTI' = initialTTI
        /\ UNCHANGED result
  /\ UNCHANGED <<tti, initialTTI>>

Improves_OrEqual(best, current) ==
  \/ current # 0 /\ (Greater(best, current) \/ best = current)
  \/ best = 0 /\ current # 0

Improves(best, current) ==
  \/ Greater(best, current) /\ current # 0
  \/ best = 0 /\ current # 0

Visit ==
  /\ pc = "loop" /\ i \in Entries
  /\ IF Improves(bestFoundTTI, tti[i])
     THEN bestFoundID' = i /\ bestFoundTTI' = tti[i]
     ELSE UNCHANGED <<bestFoundID, bestFoundTTI>>
  /\ i' = i + 1
  /\ UNCHANGED <<tti, initialTTI, pc, result>>

Decide ==
  /\ pc = "loop" /\ i \notin Entries
  /\ pc' = "done"
  /\ result' = IF \/ Greater(initialTTI, bestFoundTTI)
                  \/ initialTTI = 0 /\ bestFoundTTI # 0
               THEN bestFoundID ELSE Zero
  /\ UNCHANGED <<tti, initialTTI, i, bestFoundID, bestFoundTTI>>

Next == Begin \/ Visit \/ Decide

Spec == Init /\ [][Next]_vars

-----------------------------------------------------------------------------
(* The entries that would carry the packet better than the node itself: a TTI of 0 is    *)
(* "never", which any other TTI beats.                                                   *)
Better(set) ==
  {n \in set : tti[n] \notin {0, NaN} /\ (initialTTI = 0 \/ Greater(initialTTI, tti[n]))}

Precedes(n, m) == Greater(tti[m], tti[n]) \/ (tti[n] = tti[m] /\ n <= m)

(* BestNeighbor returns "the lowest TTI": the first of the entries with the least TTI    *)
(* among those better than the node itself, and the zero address if there is none.       *)
LowestTTI ==
  pc = "done" =>
    \/ result = Zero /\ Better(Entries) = {}
    \/ result \in Better(Entries) /\ \A m \in Better(Entries) : Precedes(result, m)
=============================================================================
