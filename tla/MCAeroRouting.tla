---------------------------- MODULE MCAeroRouting ----------------------------
(* Small instances of AeroRouting.  Two other nodes, 2 and 3; the motions "ahead"    *)
(* and "aside" rank differently for a destination at "far" and for one at "origin", *)
(* and "aside" never reaches a destination at the invalid position.                 *)
EXTENDS AeroRouting

mcMotions == {"ahead", "aside"}
mcTTI ==
  [invalid |-> [ahead |-> 2, aside |-> 0],
   origin  |-> [ahead |-> 2, aside |-> -1],
   far     |-> [ahead |-> 1, aside |-> 3]]

mcDst1 == [p \in {"a"} |-> 2]
mcDstQueue == [p \in {"a", "b", "c"} |-> IF p = "b" THEN 9 ELSE 2]
mcDstSelf == [p \in {"a", "b", "c"} |-> CASE p = "a" -> 2 [] p = "b" -> 9 [] p = "c" -> 1]
=============================================================================
