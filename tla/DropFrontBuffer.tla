--------------------------- MODULE DropFrontBuffer ---------------------------
(***************************************************************************)
(* What the deferral of packets promises, whatever decides the routes: a   *)
(* line of bounded length in which packets wait in the order they came.    *)
(* Only the front of the line is ever dropped, a packet that is offered    *)
(* again keeps its place, any packet of the line may be sent, and a packet *)
(* that was dropped never comes back.                                      *)
(***************************************************************************)
EXTENDS Integers, FiniteSets

CONSTANTS
  Packets,
  Capacity   \* how many packets may wait

VARIABLES
  fate,      \* what has become of each packet
  turn       \* its place in the order of arrival, 0 if it does not wait

Outcomes == {"forwarded", "dropped", "noroute", "delivered"}

Waiting == {p \in Packets : fate[p] = "waiting"}

(* Nobody who stays was there before somebody in out. *)
FrontOfLine(out) == \A x \in out, y \in Waiting \ out : turn[x] < turn[y]

(* The packets in gone leave the line, the others keep their turn. *)
LeaveLine(gone, ps) == \A x \in ps : turn'[x] = IF x \in gone THEN 0 ELSE turn[x]

Init ==
  /\ fate = [p \in Packets |-> "open"]
  /\ turn = [p \in Packets |-> 0]

(* A packet that does not wait is routed, or given up. *)
Route(p) ==
  /\ fate[p] \in {"open", "forwarded"}
  /\ \E w \in Outcomes : fate' = [fate EXCEPT ![p] = w]
  /\ UNCHANGED turn

(* A packet joins the line, once: it goes to the end unless it is waiting already. *)
Park(p) ==
  /\ fate[p] \in {"open", "forwarded", "waiting"}
  /\ \E out \in SUBSET Waiting :
       /\ FrontOfLine(out)
       /\ fate' = [x \in Packets |-> IF x = p THEN "waiting"
                                     ELSE IF x \in out THEN "dropped" ELSE fate[x]]
       /\ LeaveLine(out, Packets \ {p})
       /\ IF p \in Waiting \ out
          THEN turn'[p] = turn[p]
          ELSE \A x \in Packets \ {p} : turn'[x] < turn'[p]
  /\ Cardinality(Waiting') <= Capacity

(* Some packets of the line are sent; the front of it may be dropped. *)
Release ==
  \E out \in SUBSET Waiting : \E sent \in SUBSET (Waiting \ out) :
    /\ FrontOfLine(out)
    /\ fate' = [x \in Packets |-> IF x \in sent THEN "forwarded"
                                  ELSE IF x \in out THEN "dropped" ELSE fate[x]]
    /\ LeaveLine(out \cup sent, Packets)

Next == Release \/ \E p \in Packets : Route(p) \/ Park(p)

Spec == Init /\ [][Next]_<<fate, turn>>
=============================================================================
