--------------------------- MODULE HelloCodecProofs ---------------------------
(***************************************************************************)
(* For all positions and velocities whose whole parts fit 32 bits, and any *)
(* scale: a HELLO carries the motion of its sender without the fractions   *)
(* and with the directions.  The inductive invariant says that the packet  *)
(* under way is the header of what the sender said.                        *)
(***************************************************************************)
EXTENDS HelloCodec, TLAPS

(* Dropping the fraction of a number that fits leaves a number that fits. *)
LEMMA TruncateCorrect ==
  ASSUME NEW a \in Nat, a < (MaxU32 + 1) * Scale
  PROVE  /\ Truncate(a) \in 0..MaxU32
         /\ Truncate(a) * Scale <= a /\ a < (Truncate(a) + 1) * Scale
<1> DEFINE q == Truncate(a)
<1>s. Scale \in Nat \ {0} /\ MaxU32 \in Nat
  BY CodecAssumption
<1>1. q \in Nat /\ q * Scale <= a /\ a < q * Scale + Scale
  BY <1>s DEF Truncate
<1> HIDE DEF q
<1>2. (q + 1) * Scale = q * Scale + Scale
  BY <1>1, <1>s, SMT
<1>3. q <= MaxU32
  <2>1. SUFFICES ASSUME MaxU32 + 1 <= q
                 PROVE  FALSE
    BY <1>1, <1>s
  <2>2. PICK d \in Nat : q = (MaxU32 + 1) + d
    <3>1. q - (MaxU32 + 1) \in Nat
      BY <2>1, <1>1, <1>s
    <3> QED  BY <3>1, <1>1, <1>s
  <2>3. q * Scale = (MaxU32 + 1) * Scale + d * Scale
    BY <2>2, <1>s, SMT
  <2>4. d * Scale \in Nat /\ (MaxU32 + 1) * Scale \in Nat
    BY <1>s, SMT
  <2> QED  BY <2>3, <2>4, <1>1
<1>4. q \in 0..MaxU32 /\ q * Scale <= a /\ a < (q + 1) * Scale
  BY <1>1, <1>2, <1>3, <1>s
<1> QED  BY <1>4 DEF q

(* Every set of axes has its code. *)
LEMMA EveryOctant == \A neg \in SUBSET Axis : \E code \in 0..7 : Backwards(code) = neg
<1> SUFFICES ASSUME NEW neg \in SUBSET Axis
             PROVE  \E code \in 0..7 : Backwards(code) = neg
  OBVIOUS
<1>1. \/ neg = Backwards(0) \/ neg = Backwards(1) \/ neg = Backwards(2) \/ neg = Backwards(3)
      \/ neg = Backwards(4) \/ neg = Backwards(5) \/ neg = Backwards(6) \/ neg = Backwards(7)
  BY DEF Backwards, Axis
<1> QED  BY <1>1

(* The code that SendHello finds for a velocity *)
LEMMA SignCode ==
  ASSUME NEW vel
  PROVE  /\ VelocitySign(vel) \in 0..7
         /\ Backwards(VelocitySign(vel)) = {a \in Axis : vel[a] < 0}
<1>1. \E code \in 0..7 : Backwards(code) = {a \in Axis : vel[a] < 0}
  BY EveryOctant
<1> QED  BY <1>1 DEF VelocitySign

(* The sender's table and the receiver's agree. *)
LEMMA TablesAgree ==
  \A code \in 0..7, a \in Axis : code \in Negated[a] <=> a \in Backwards(code)
BY DEF Negated, Backwards, Axis

-----------------------------------------------------------------------------
(* The fields of a header, and what becomes of them *)
LEMMA HeaderFields ==
  ASSUME NEW type \in {"HELLO", "SECURE_HELLO"}, NEW m \in Motions,
         NEW p, p = Header(type, m.pos, m.vel)
  PROVE  /\ p \in [type : {"HELLO", "SECURE_HELLO"}, sign : 0..7,
                   pos : [Axis -> 0..MaxU32], vel : [Axis -> 0..MaxU32]]
         /\ Decoded(p) \in [pos : [Axis -> 0..MaxU32], vel : [Axis -> -MaxU32..MaxU32]]
         /\ \A a \in Axis : /\ WholePart(Decoded(p).pos[a], m.pos[a])
                            /\ WholePart(Decoded(p).vel[a], m.vel[a])
<1> DEFINE size(a) == IF m.vel[a] < 0 THEN -m.vel[a] ELSE m.vel[a]
<1>s. Scale \in Nat \ {0} /\ MaxU32 \in Nat
  BY CodecAssumption
<1>m. /\ m.pos \in [Axis -> Coordinates] /\ m.vel \in [Axis -> Speeds]
  BY DEF Motions
<1>1. \A a \in Axis : m.pos[a] \in Nat /\ m.pos[a] < (MaxU32 + 1) * Scale
  BY <1>m, CodecAssumption
<1>2. \A a \in Axis : m.vel[a] \in Int /\ size(a) \in Nat /\ size(a) < (MaxU32 + 1) * Scale
  <2> SUFFICES ASSUME NEW a \in Axis
               PROVE  /\ m.vel[a] \in Int
                      /\ size(a) \in Nat /\ size(a) < (MaxU32 + 1) * Scale
    OBVIOUS
  <2>1. /\ m.vel[a] \in Int
        /\ m.vel[a] < (MaxU32 + 1) * Scale /\ -m.vel[a] < (MaxU32 + 1) * Scale
    BY <1>m, CodecAssumption
  <2> QED  BY <2>1
<1>3. /\ p.type = type /\ p.sign = VelocitySign(m.vel)
      /\ p.pos = [a \in Axis |-> Truncate(m.pos[a])]
      /\ p.vel = [a \in Axis |-> Truncate(size(a))]
  BY DEF Header
<1>4. \A a \in Axis : /\ p.pos[a] \in 0..MaxU32
                      /\ p.pos[a] * Scale <= m.pos[a] /\ m.pos[a] < (p.pos[a] + 1) * Scale
  BY <1>1, <1>3, TruncateCorrect
<1>5. \A a \in Axis : /\ p.vel[a] \in 0..MaxU32
                      /\ p.vel[a] * Scale <= size(a) /\ size(a) < (p.vel[a] + 1) * Scale
  BY <1>2, <1>3, TruncateCorrect
<1>6. p \in [type : {"HELLO", "SECURE_HELLO"}, sign : 0..7,
             pos : [Axis -> 0..MaxU32], vel : [Axis -> 0..MaxU32]]
  <2>1. /\ p.sign \in 0..7
        /\ p.pos \in [Axis -> 0..MaxU32] /\ p.vel \in [Axis -> 0..MaxU32]
    BY <1>3, <1>4, <1>5, SignCode
  <2>2. p = [type |-> type, sign |-> p.sign, pos |-> p.pos, vel |-> p.vel]
    BY DEF Header
  <2> QED  BY <2>1, <2>2
<1>7. \A a \in Axis : p.sign \in Negated[a] <=> m.vel[a] < 0
  BY <1>3, SignCode, TablesAgree
<1>8. /\ Decoded(p).pos = p.pos
      /\ Decoded(p).vel = [a \in Axis |-> IF p.sign \in Negated[a] THEN -p.vel[a] ELSE p.vel[a]]
      /\ Decoded(p) = [pos |-> Decoded(p).pos, vel |-> Decoded(p).vel]
  BY DEF Decoded, Motion
<1> DEFINE d == Decoded(p)
<1>9. \A a \in Axis : d.vel[a] \in -MaxU32..MaxU32 /\ WholePart(d.vel[a], m.vel[a])
  <2> SUFFICES ASSUME NEW a \in Axis
               PROVE  d.vel[a] \in -MaxU32..MaxU32 /\ WholePart(d.vel[a], m.vel[a])
    OBVIOUS
  <2> DEFINE k == p.vel[a]
  <2>1. k \in 0..MaxU32 /\ k * Scale <= size(a) /\ size(a) < (k + 1) * Scale
    BY <1>5
  <2>2. CASE m.vel[a] < 0
    <3>1. d.vel[a] = -k
      BY <2>2, <1>7, <1>8
    <3>2. (-k) * Scale = -(k * Scale) /\ (-k - 1) * Scale = -((k + 1) * Scale)
      BY <2>1, <1>s, SMT
    <3>3. k * Scale \in Int /\ (k + 1) * Scale \in Int
      BY <2>1, <1>s, SMT
    <3>4. m.vel[a] <= (-k) * Scale /\ (-k - 1) * Scale < m.vel[a]
      BY <2>1, <2>2, <3>2, <3>3, <1>2
    <3> QED  BY <2>1, <2>2, <3>1, <3>4, <1>2, <1>s DEF WholePart
  <2>3. CASE ~(m.vel[a] < 0)
    <3>1. d.vel[a] = k
      BY <2>3, <1>7, <1>8
    <3> QED  BY <2>1, <2>3, <3>1, <1>2, <1>s DEF WholePart
  <2> QED  BY <2>2, <2>3
<1>10. \A a \in Axis : WholePart(d.pos[a], m.pos[a])
  BY <1>1, <1>4, <1>8 DEF WholePart
<1>11. d \in [pos : [Axis -> 0..MaxU32], vel : [Axis -> -MaxU32..MaxU32]]
  <2>1. d.pos \in [Axis -> 0..MaxU32] /\ d.vel \in [Axis -> -MaxU32..MaxU32]
    BY <1>6, <1>8, <1>9
  <2> QED  BY <2>1, <1>8
<1> QED  BY <1>6, <1>9, <1>10, <1>11

-----------------------------------------------------------------------------
(* The packet under way is the header of what was said last. *)
PacketOK ==
  \A p \in packet : \E type \in {"HELLO", "SECURE_HELLO"} : p = Header(type, said.pos, said.vel)

IInv == TypeOK /\ PacketOK /\ MotionAsSaid

(* The receiver's entry is what was said, whichever handler made it. *)
LEMMA RecvInvariant ==
  ASSUME IInv, NEW p \in packet, neighbor' = {Decoded(p)}, packet' = {}, heard' = said,
         UNCHANGED <<position, velocity, said>>
  PROVE  IInv'
<1>1. PICK type \in {"HELLO", "SECURE_HELLO"} : p = Header(type, said.pos, said.vel)
  BY DEF IInv, PacketOK
<1>2. /\ Decoded(p) \in [pos : [Axis -> 0..MaxU32], vel : [Axis -> -MaxU32..MaxU32]]
      /\ \A a \in Axis : /\ WholePart(Decoded(p).pos[a], said.pos[a])
                         /\ WholePart(Decoded(p).vel[a], said.vel[a])
  BY <1>1, HeaderFields DEF IInv, TypeOK
<1>3. TypeOK'
  BY <1>2 DEF IInv, TypeOK
<1>4. PacketOK'
  BY DEF PacketOK
<1>5. MotionAsSaid'
  BY <1>2, Zenon DEF MotionAsSaid, WholePart
<1> QED  BY <1>3, <1>4, <1>5 DEF IInv

(* The invariant holds in every state. *)
THEOREM Invariance == Spec => []IInv
<1>1. Init => IInv
  BY DEF Init, IInv, TypeOK, PacketOK, MotionAsSaid, Motion, Motions
<1>2. IInv /\ [Next]_vars => IInv'
  <2> SUFFICES ASSUME IInv, [Next]_vars
               PROVE  IInv'
    OBVIOUS
  <2>1. ASSUME NEW type \in {"HELLO", "SECURE_HELLO"}, SendHello(type)
        PROVE  IInv'
    <3>1. said' \in Motions /\ said'.pos = position /\ said'.vel = velocity
      BY <2>1 DEF SendHello, Motion, Motions, IInv, TypeOK
    <3>2. packet' = {Header(type, said'.pos, said'.vel)}
      BY <2>1, <3>1 DEF SendHello
    <3>3. Header(type, said'.pos, said'.vel) \in
            [type : {"HELLO", "SECURE_HELLO"}, sign : 0..7, pos : [Axis -> 0..MaxU32],
             vel : [Axis -> 0..MaxU32]]
      BY <3>1, HeaderFields
    <3>4. TypeOK'
      BY <2>1, <3>1, <3>2, <3>3 DEF SendHello, IInv, TypeOK
    <3>5. PacketOK'
      BY <3>2 DEF PacketOK
    <3>6. MotionAsSaid'
      BY <2>1 DEF SendHello, IInv, MotionAsSaid
    <3> QED  BY <3>4, <3>5, <3>6 DEF IInv
  <2>2. CASE RecvHello
    BY <2>2, RecvInvariant DEF RecvHello
  <2>3. CASE RecvSecureHello
    BY <2>3, RecvInvariant DEF RecvSecureHello
  <2>4. CASE Move
    BY <2>4 DEF Move, IInv, TypeOK, PacketOK, MotionAsSaid
  <2>6. CASE Lose
    BY <2>6 DEF Lose, IInv, TypeOK, PacketOK, MotionAsSaid
  <2>5. CASE UNCHANGED vars
    BY <2>5 DEF vars, IInv, TypeOK, PacketOK, MotionAsSaid
  <2> QED  BY <2>1, <2>2, <2>3, <2>4, <2>5, <2>6 DEF Next
<1> QED  BY <1>1, <1>2, PTL DEF Spec

(* Every field of every header fits, for all motions that the assumption admits. *)
THEOREM TypeCorrect == Spec => []TypeOK
BY Invariance, PTL DEF IInv

(* The receiver's entry is the sender's motion without the fractions. *)
THEOREM HeardAsSaid == Spec => []MotionAsSaid
BY Invariance, PTL DEF IInv
=============================================================================
