----------------------------- MODULE MCHelloCodec -----------------------------
(* Speeds in halves of a metre per second, of both signs, whole and not. *)
EXTENDS HelloCodec

mcSpeeds == {-3, -1, 2}
=============================================================================
