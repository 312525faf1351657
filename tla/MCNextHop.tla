------------------------------ MODULE MCNextHop ------------------------------
(* Distances around a range of 10 with a margin of 3; in mcSpeeds a node also stands *)
(* still or flies away.                                                              *)
EXTENDS NextHop

mcSpeeds == {-2, 0, 1, 2}
=============================================================================
