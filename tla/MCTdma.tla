-------------------------------- MODULE MCTdma --------------------------------
(***************************************************************************)
(* Instances of Tdma: a ground station and an aircraft in a frame of three *)
(* slots, the first two of them the aircraft's.  The unit of time is half  *)
(* a microsecond.                                                          *)
(***************************************************************************)
EXTENDS Tdma

CONSTANTS gs, an, p1, p2, p3, p4

TwoSlotsThenOne == [k \in 0..2 |-> IF k < 2 THEN an ELSE gs]

(* p3 is the ground station's, the others share a queue. *)
MCDevice == [p \in Packets |-> IF p = p3 THEN gs ELSE an]

(* p2 is longer than any slot; what a transmission leaves of a slot is not always a whole *)
(* microsecond.                                                                          *)
MCTxTime == [p \in Packets |-> IF p = p2 THEN 4 ELSE 1]

EqualRange == [m \in Macs |-> 2]

(* The ground station reaches about five guard times further, as in aero-test-final.cc.  *)
GroundRange == [m \in Macs |-> IF m = gs THEN 10 ELSE 2]
=============================================================================
