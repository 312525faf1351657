------------------------------ MODULE HelloCodec ------------------------------
(***************************************************************************)
(* What a HELLO says of its sender's motion and what the receiver makes of *)
(* it.  The header holds unsigned 32-bit integers: SendHello drops the     *)
(* fraction of every number and the sign of the velocity's components,     *)
(* which go in a code of their own, and RecvAERORP puts them back, in two  *)
(* places, one for plain HELLOs and one for decrypted ones.                *)
(***************************************************************************)
EXTENDS Integers

CONSTANTS
  Scale,         \* units in a metre, or in a metre per second
  Coordinates,   \* components of positions, in units
  Speeds,        \* components of velocities, in units
  MaxU32         \* the largest uint32_t

Axis == {"x", "y", "z"}

ASSUME CodecAssumption ==
  /\ Scale \in Nat \ {0} /\ MaxU32 \in Nat
  /\ \A p \in Coordinates : p \in Nat /\ p < (MaxU32 + 1) * Scale
  /\ \A v \in Speeds : /\ v \in Int
                       /\ v < (MaxU32 + 1) * Scale /\ -v < (MaxU32 + 1) * Scale

VARIABLES
  position, velocity,  \* the sender's
  packet,              \* the HELLO under way: at most one
  said,                \* position and velocity when it was sent
  neighbor,            \* the sender's entry in the receiver's m_neighbors, if it has one
  heard                \* what the HELLO said that made this entry

vars == <<position, velocity, packet, said, neighbor, heard>>

Motion(pos, vel) == [pos |-> pos, vel |-> vel]
Motions == [pos : [Axis -> Coordinates], vel : [Axis -> Speeds]]

-----------------------------------------------------------------------------
(* (uint32_t) of a double that is in range and not negative *)
Truncate(a) == a \div Scale

(* The axes on which a sender with this VelocitySign moves backwards *)
Backwards(code) ==
  CASE code = 0 -> {}         [] code = 1 -> Axis
    [] code = 2 -> {"x", "y"} [] code = 3 -> {"x", "z"} [] code = 4 -> {"y", "z"}
    [] code = 5 -> {"x"}      [] code = 6 -> {"y"}      [] code = 7 -> {"z"}

VelocitySign(vel) == CHOOSE sign \in 0..7 : Backwards(sign) = {a \in Axis : vel[a] < 0}

Header_SignAsStored(type, pos, vel) ==
  [type |-> type, sign |-> VelocitySign(vel), pos |-> [a \in Axis |-> Truncate(pos[a])],
   vel |-> [a \in Axis |-> Truncate(vel[a])]]

Header(type, pos, vel) ==
  [type |-> type, sign |-> VelocitySign(vel), pos |-> [a \in Axis |-> Truncate(pos[a])],
   vel |-> [a \in Axis |-> Truncate(IF vel[a] < 0 THEN -vel[a] ELSE vel[a])]]

(* SendHello; in secure mode RouteOutput makes a SECURE_HELLO of the packet. *)
SendHello(type) ==
  /\ packet = {}
  /\ packet' = {Header(type, position, velocity)}
  /\ said' = Motion(position, velocity)
  /\ UNCHANGED <<position, velocity, neighbor, heard>>

(* The codes for which the receiver negates a component *)
Negated_Swapped == [x |-> {1, 2, 3, 6}, y |-> {1, 2, 4, 5}, z |-> {1, 3, 4, 7}]

Negated == [x |-> {1, 2, 3, 5}, y |-> {1, 2, 4, 6}, z |-> {1, 3, 4, 7}]

Decoded(p) ==
  Motion(p.pos, [a \in Axis |-> IF p.sign \in Negated[a] THEN -p.vel[a] ELSE p.vel[a]])

RecvHello ==
  /\ \E p \in packet : p.type = "HELLO" /\ neighbor' = {Decoded(p)}
  /\ packet' = {} /\ heard' = said
  /\ UNCHANGED <<position, velocity, said>>

RecvSecureHello ==
  /\ \E p \in packet : p.type = "SECURE_HELLO" /\ neighbor' = {Decoded(p)}
  /\ packet' = {} /\ heard' = said
  /\ UNCHANGED <<position, velocity, said>>

(* The HELLO does not arrive, or the receiver refuses it. *)
Lose ==
  /\ packet # {} /\ packet' = {}
  /\ UNCHANGED <<position, velocity, said, neighbor, heard>>

(* The mobility model moves the sender, also while a HELLO is under way. *)
Move ==
  /\ position' \in [Axis -> Coordinates] /\ velocity' \in [Axis -> Speeds]
  /\ UNCHANGED <<packet, said, neighbor, heard>>

Init ==
  /\ position \in [Axis -> Coordinates] /\ velocity \in [Axis -> Speeds]
  /\ said = Motion(position, velocity) /\ packet = {}
  /\ heard = said /\ neighbor = {}

Next ==
  \/ \E type \in {"HELLO", "SECURE_HELLO"} : SendHello(type)
  \/ RecvHello \/ RecvSecureHello \/ Lose \/ Move

Spec == Init /\ [][Next]_vars

-----------------------------------------------------------------------------
(* Types: every number of a header fits its field. *)
TypeOK ==
  /\ position \in [Axis -> Coordinates] /\ velocity \in [Axis -> Speeds]
  /\ said \in Motions /\ heard \in Motions
  /\ packet \subseteq [type : {"HELLO", "SECURE_HELLO"}, sign : 0..7,
                       pos : [Axis -> 0..MaxU32], vel : [Axis -> 0..MaxU32]]
  /\ neighbor \subseteq [pos : [Axis -> 0..MaxU32], vel : [Axis -> -MaxU32..MaxU32]]

(* k is v without its fraction. *)
WholePart(k, v) ==
  IF v >= 0 THEN k * Scale <= v /\ v < (k + 1) * Scale
            ELSE v <= k * Scale /\ (k - 1) * Scale < v

(* The entry of m_neighbors is the motion the sender had when it sent the HELLO that made *)
(* it, cut to whole metres and metres per second: the tables of signs of SendHello and    *)
(* RecvAERORP agree in all eight octants, no component changes its direction, and neither *)
(* a later movement nor a lost HELLO changes the entry.                                   *)
MotionAsSaid ==
  \A entry \in neighbor, a \in Axis : /\ WholePart(entry.pos[a], heard.pos[a])
                                      /\ WholePart(entry.vel[a], heard.vel[a])
=============================================================================
