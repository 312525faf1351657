------------------------------ MODULE Membership ------------------------------
(***************************************************************************)
(* What the handshake promises, whatever the messages, certificates and    *)
(* times: every node applies for membership once, its application is       *)
(* answered before it is admitted, a member stays one, and only members    *)
(* come to know each other.  An application fails only where messages may  *)
(* get lost or come late.                                                  *)
(***************************************************************************)

CONSTANTS
  Nodes,
  Founder    \* the member from the beginning, who answers

VARIABLES
  stage,     \* how far each node has come
  known,     \* the nodes that each member knows
  safe       \* nothing is lost, nothing is late

Stages == {"outside", "applied", "answered", "member", "failed"}

Member(n) == n = Founder \/ stage[n] = "member"

Init ==
  /\ stage = [n \in Nodes |-> "outside"]
  /\ known = [n \in Nodes \cup {Founder} |-> {}]

Advance(n, from, to) ==
  /\ stage[n] = from
  /\ stage' = [stage EXCEPT ![n] = to]
  /\ UNCHANGED <<known, safe>>

Apply(n)  == Advance(n, "outside", "applied")
Answer(n) == Advance(n, "applied", "answered")
Admit(n)  == Advance(n, "answered", "member")

Fail(n) ==
  /\ ~safe
  /\ Advance(n, "applied", "failed") \/ Advance(n, "answered", "failed")

(* A member hears of another one. *)
Meet(n, s) ==
  /\ Member(n) /\ Member(s)
  /\ known' = [known EXCEPT ![n] = @ \cup {s}]
  /\ UNCHANGED <<stage, safe>>

Next ==
  \/ \E n \in Nodes : Apply(n) \/ Answer(n) \/ Admit(n) \/ Fail(n)
  \/ \E n \in Nodes \cup {Founder}, s \in Nodes : Meet(n, s)

Spec == Init /\ [][Next]_<<stage, known, safe>>
=============================================================================
