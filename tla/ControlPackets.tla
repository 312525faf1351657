---------------------------- MODULE ControlPackets ----------------------------
(***************************************************************************)
(* Packets between an airborne node An, the ground station Gs and a        *)
(* receiver Me, from the program that writes them through RouteOutput,     *)
(* which encrypts them in secure mode, to RouteInput and the socket        *)
(* callback of Me, which opens and reads them: HELLOs of An, the ground    *)
(* station's positions of all nodes, the handshake of Me, and data.        *)
(*                                                                         *)
(* RouteInput keeps the addresses of the packet it is given in a member    *)
(* and RecvAERORP decrypts with them; the stack may run it in an event of  *)
(* its own, so that another packet comes in between.                       *)
(***************************************************************************)
EXTENDS PacketHeaders, FiniteSets

CONSTANTS
  An, Gs, Me, Broadcast,   \* addresses
  Elsewhere,               \* the two addresses of a packet that is not for Me
  SharedKey, NoKey,
  Scale, Coordinates, Speeds, MaxU32,    \* as in HelloCodec
  Flights,                 \* positions and velocities of An
  Parked,                  \* positions of Gs and Me
  Undefined,               \* what casts of numbers out of range may yield, for each axis
  DataSizes,               \* bytes of the application's packets
  MaxUp,                   \* bound: packets handed up to a socket and not read
  MaxMessages,             \* bound: packets under way
  Told                     \* bound: the nodes of NodeList, all three, of which a round tells

Nodes == {An, Gs, Me}

VARIABLES
  secure,      \* m_SecurityState, the same on all nodes
  flight,      \* position and velocity of An
  authTimer,   \* AuthenticationTimer of Me is scheduled
  status,      \* m_authenticationStatus of Me
  key,         \* m_sharedKey of Me
  net,         \* packets under way
  up,          \* packets for Me between RouteInput and the socket callback
  aad,         \* GCMAADTOBECHECKED of Me
  said,        \* flight when the last HELLO was sent
  neighbor,    \* An's entry in m_neighbors of Me, if it has one
  heard,       \* what the HELLO said that made this entry
  table        \* m_nodesPosition of Me: node, position, and what Gs said

vars == <<secure, flight, authTimer, status, key, net, up, aad, said, neighbor, heard, table>>

Messages == net \cup {up[i] : i \in DOMAIN up}

HelloOf(h, type) ==
  [type |-> type, sign |-> h.velsign,
   pos |-> [x |-> h.posx, y |-> h.posy, z |-> h.posz],
   vel |-> [x |-> h.velx, y |-> h.vely, z |-> h.velz]]

(* The bytes of the HELLO in p, opened if p is a secure one *)
HelloBytes(p) ==
  LET body == RemoveTypeHeader(p).bytes
  IN  IF TypeOf(p) = MessageType.AERORPTYPE_SECURE_HELLO
      THEN Deserialize(SecureHelloReads, body).cipher.text ELSE body

(* What the HELLOs under way would be read as *)
HellosUnderWay ==
  LET buffers == {HelloBytes(p) : p \in {q \in Messages : q.kind = "HELLO"}}
  IN  {HelloOf(h, IF secure THEN "SECURE_HELLO" ELSE "HELLO") :
         h \in {Deserialize(HelloReads, bytes) : bytes \in buffers}}

Codec == INSTANCE HelloCodec
         WITH position <- flight.pos, velocity <- flight.vel, packet <- HellosUnderWay

(* What HelloCodec assumes of scale, positions and speeds *)
ASSUME MotionsAssumption ==
  /\ Scale \in Nat \ {0} /\ MaxU32 \in Nat
  /\ \A p \in Coordinates : p \in Nat /\ p < (MaxU32 + 1) * Scale
  /\ \A v \in Speeds : /\ v \in Int
                       /\ v < (MaxU32 + 1) * Scale /\ -v < (MaxU32 + 1) * Scale

(* The receiver is not the ground station. *)
ASSUME NodesAssumption == Gs # Me /\ MaxUp \in Nat

ASSUME FlightsAssumption ==
  /\ Flights \subseteq Codec!Motions
  /\ Parked \in [{Gs, Me} -> [Codec!Axis -> Coordinates]]
  /\ Told \subseteq Nodes /\ Undefined \subseteq [Codec!Axis -> 0..MaxU32]

(* RouteOutput takes a packet of 26 bytes for a HELLO and one of 45 for a position; the  *)
(* scenario's application sends 1000.                                                    *)
ASSUME DataAssumption == DataSizes \subseteq Nat \ {26, 45}

-----------------------------------------------------------------------------
(* GCMConverter: a ciphertext opens, and its tag verifies, with the key, the IV and the *)
(* additional data it was made with.                                                    *)

Encryption(text, add, k, iv) ==
  [cipher |-> [text |-> text, key |-> k, iv |-> iv],
   tag |-> [text |-> text, aad |-> add, key |-> k, iv |-> iv]]

Dencryption(h, add, k, iv) ==
  IF h = Encryption(h.cipher.text, add, k, iv) THEN {h.cipher.text} ELSE {}

-----------------------------------------------------------------------------
(* RouteOutput in secure mode *)

PACKET_DATA_LEN_BEFORE_ENCRYPTON == 1000
PACKET_DATA_LEN_AFTER_ENCRYPTON == 1016

(* The senders, An and Gs, have the key. *)
Sealed(p, text) == Encryption(text, <<p.src, p.dst>>, SharedKey, p.uid)

SecureHello_NewPacket(p) ==
  LET plain == RemoveTypeHeader(p)
      sealed == Sealed(p, plain.bytes)
  IN  [AddTypeHeader(
         AddHeader(RemoveHeader(plain, HelloSize, HelloReads),
                   SecureHelloSize, SecureHelloWrites,
                   SecureHelloHeader(sealed.cipher, sealed.tag)),
         "AERORPTYPE_SECURE_HELLO") EXCEPT !.uid = "secureHelloPacket"]

SecureHello(p) ==
  LET plain == RemoveTypeHeader(p)
      sealed == Sealed(p, plain.bytes)
  IN  AddTypeHeader(
        AddHeader(RemoveHeader(plain, HelloSize, HelloReads),
                  SecureHelloSize, SecureHelloWrites,
                  SecureHelloHeader(sealed.cipher, sealed.tag)),
        "AERORPTYPE_SECURE_HELLO")

SecureGSGeoLocation(p) ==
  LET plain == RemoveTypeHeader(p)
      sealed == Sealed(p, plain.bytes)
  IN  AddTypeHeader(
        AddHeader(RemoveHeader(plain, GSGeoLocationSize, GSGeoLocationReads),
                  SecureGSGeoLocationSize, SecureGSGeoLocationWrites,
                  SecureGSGeoLocationHeader(sealed.cipher, sealed.tag)),
        "AERORPTYPE_SECURE_GSGEOLOCATION")

(* A packet of its own, with an identifier of its own *)
SecureData(p) ==
  LET sealed == Sealed(p, p.bytes)
  IN  [p EXCEPT !.uid = "secureDataPacket", !.size = PACKET_DATA_LEN_AFTER_ENCRYPTON,
         !.bytes = << [width |-> PACKET_DATA_LEN_BEFORE_ENCRYPTON, value |-> sealed.cipher],
                      [width |-> TAG_SIZE, value |-> sealed.tag] >>]

RouteOutput(p) ==
  LET hello == IF p.size = HELLO_PACKET_SIZE + 1 THEN SecureHello(p) ELSE p
      position == IF hello.size = GS_PACKET_SIZE + 1 THEN SecureGSGeoLocation(hello) ELSE hello
      data == IF position.size = PACKET_DATA_LEN_BEFORE_ENCRYPTON
              THEN SecureData(position) ELSE position
  IN  IF secure THEN data ELSE p

-----------------------------------------------------------------------------
(* Senders *)

Create(kind, uid, src, dst, about) ==
  [kind |-> kind, uid |-> uid, src |-> src, dst |-> dst, about |-> about, size |-> 0, bytes |-> <<>>]

(* Bounds: one HELLO, one round of positions and one data packet under way, and few in all *)
Room(kind, n) ==
  /\ \A p \in Messages : p.kind # kind
  /\ Cardinality(Messages) + n <= MaxMessages

SendHello ==
  /\ Room("HELLO", 1)
  /\ LET h == Codec!Header("HELLO", flight.pos, flight.vel)
         p == AddTypeHeader(AddHeader(Create("HELLO", "hello", An, Broadcast, An),
                                      HelloSize, HelloWrites,
                                      HelloHeader(h.pos.x, h.pos.y, h.pos.z, h.sign,
                                                  h.vel.x, h.vel.y, h.vel.z)),
                            "AERORPTYPE_HELLO")
     IN  net' = net \cup {RouteOutput(p)}
  /\ said' = flight
  /\ UNCHANGED <<secure, flight, authTimer, status, key, up, aad, neighbor, heard, table>>

(* The attack that falsifies what the ground station says is switched off. *)
PositionOf(n) == IF n = An THEN flight.pos ELSE Parked[n]
VelocityOf(n) == IF n = An THEN flight.vel ELSE [a \in Codec!Axis |-> 0]

(* (uint32_t) v: undefined, any number, for a double of -1 or less *)
Cast(v, any) == IF v <= -Scale THEN any ELSE IF v < 0 THEN 0 ELSE Codec!Truncate(v)

GeoLocation(n, any) ==
  LET pos == [a \in Codec!Axis |-> Codec!Truncate(PositionOf(n)[a])]
      vel == [a \in Codec!Axis |-> Cast(VelocityOf(n)[a], any[a])]
  IN  GSGeoLocationHeader(n, pos.x, pos.y, pos.z, vel.x, vel.y, vel.z, 0, 0)

SendGroundStationPackets ==
  /\ Room("GSGEOLOCATION", Cardinality(Told))
  /\ \E any \in Undefined :
       net' = net \cup
         {RouteOutput(
            AddTypeHeader(AddHeader(Create("GSGEOLOCATION", <<"position", n>>, Gs, Broadcast, <<n, PositionOf(n)>>),
                                    GSGeoLocationSize, GSGeoLocationWrites,
                                    GeoLocation(n, any)),
                          "AERORPTYPE_GSGEOLOCATION")) : n \in Told}
  /\ UNCHANGED <<secure, flight, authTimer, status, key, up, aad, said, neighbor, heard, table>>

(* AuthenticationTimerExpire, SendAuthenticationRequestPacket; the identification of the *)
(* ground station is 0, random numbers and time are the sender's.                        *)
SendAuthenticationRequest ==
  LET data == <<0, Me, 0>>
      header == AuthenticationRequestHeader(Me, 0, Me, 0, [by |-> Me, data |-> data])
      p == AddTypeHeader(AddHeader(Create("REQUEST", "request", Me, Gs, Me),
                                   AuthenticationRequestSize, AuthenticationRequestWrites, header),
                         "AERORPTYPE_AUTHENTICATIONREQUEST")
  IN  /\ secure /\ authTimer /\ Room("REQUEST", 1)
      /\ authTimer' = FALSE
      /\ net' = net \cup {RouteOutput(p)}
      /\ UNCHANGED <<secure, flight, status, key, up, aad, said, neighbor, heard, table>>

(* RecvAERORP on Gs, SendAuthenticationReplyPacket *)
RecvAuthenticationRequest(p) ==
  LET h == Deserialize(AuthenticationRequestReads, RemoveTypeHeader(p).bytes)
      ek == [for |-> h.cert, key |-> SharedKey]
      header == AuthenticationReplyHeader(Gs, 0, Gs, h.randomNo, p.src, ek,
                                          [by |-> Gs, data |-> <<0, Gs, h.randomNo, p.src, ek>>])
      reply == AddTypeHeader(AddHeader(Create("REPLY", "reply", Gs, p.src, p.src),
                                       AuthenticationReplySize, AuthenticationReplyWrites, header),
                             "AERORPTYPE_AUTHENTICATIONREPLY")
  IN  /\ p \in net /\ p.dst = Gs /\ TypeOf(p) = MessageType.AERORPTYPE_AUTHENTICATIONREQUEST
      /\ net' = (net \ {p}) \cup
           (IF h.identification = 0
               /\ h.sign = [by |-> h.cert, data |-> <<h.timeStamp, h.randomNo, h.identification>>]
            THEN {RouteOutput(reply)} ELSE {})
      /\ UNCHANGED <<secure, flight, authTimer, status, key, up, aad, said, neighbor, heard, table>>

(* An application of An *)
SendData(size) ==
  LET p == [Create("DATA", "data", An, Me, size) EXCEPT
              !.size = size, !.bytes = << [width |-> size, value |-> "payload"] >>]
  IN  /\ Room("DATA", 1)
      /\ net' = net \cup {RouteOutput(p)}
      /\ UNCHANGED <<secure, flight, authTimer, status, key, up, aad, said, neighbor, heard, table>>

-----------------------------------------------------------------------------
(* Me *)

(* The branch that decrypts data is never taken, the 8 bytes of the UDP header make the *)
(* packet larger than the 1016 it asks for, and would change nothing.                   *)
RouteInput(p) ==
  /\ p \in net /\ p.dst \in {Me, Broadcast} /\ Len(up) < MaxUp
  /\ net' = net \ {p} /\ up' = Append(up, p)
  /\ aad' = <<p.src, p.dst>>
  /\ UNCHANGED <<secure, flight, authTimer, status, key, said, neighbor, heard, table>>

(* A packet of Me's own that comes back through the loopback device, or one to forward *)
RouteInputElsewhere ==
  /\ aad' = Elsewhere
  /\ UNCHANGED <<secure, flight, authTimer, status, key, net, up, said, neighbor, heard, table>>

(* The types that RecvAERORP ignores on a node that is not authenticated *)
Gated == {"AERORPTYPE_HELLO", "AERORPTYPE_GSGEOLOCATION", "AERORPTYPE_SECURE_HELLO",
          "AERORPTYPE_SECURE_GSGEOLOCATION"}

(* The packet that the socket callback is given *)
Arrives(p, type) ==
  /\ up # <<>> /\ p = Head(up) /\ p.kind # "DATA"
  /\ TypeOf(p) = MessageType[type]
  /\ status = "UNAUTH" /\ secure => type \notin Gated
  /\ up' = Tail(up)

Ignored(type) ==
  IsValid(type) => status = "UNAUTH" /\ secure /\ type \in {MessageType[t] : t \in Gated}

RecvIgnored ==
  /\ up # <<>> /\ Head(up).kind # "DATA" /\ Ignored(TypeOf(Head(up)))
  /\ up' = Tail(up)
  /\ UNCHANGED <<secure, flight, authTimer, status, key, net, aad, said, neighbor, heard, table>>

(* The HELLO in these bytes becomes the sender's entry. *)
UpdateRouteToNeighbor(bytes) ==
  /\ neighbor' = {Codec!Decoded(HelloOf(Deserialize(HelloReads, bytes), "HELLO"))}
  /\ heard' = said

RecvHello(p) ==
  /\ Arrives(p, "AERORPTYPE_HELLO")
  /\ UpdateRouteToNeighbor(RemoveTypeHeader(p).bytes)
  /\ UNCHANGED <<secure, flight, authTimer, status, key, net, aad, said, table>>

Opened(p, layout) ==
  Dencryption(Deserialize(layout, RemoveTypeHeader(p).bytes), aad, key, p.uid)

RecvSecureHello(p) ==
  /\ Arrives(p, "AERORPTYPE_SECURE_HELLO")
  /\ \/ \E bytes \in Opened(p, SecureHelloReads) : UpdateRouteToNeighbor(bytes)
     \/ Opened(p, SecureHelloReads) = {} /\ UNCHANGED <<neighbor, heard>>
  /\ UNCHANGED <<secure, flight, authTimer, status, key, net, aad, said, table>>

(* NodesPositionTable::AddEntry: the position of a node, the velocity is not kept. *)
UpdateRouteToNodes(bytes, about) ==
  LET h == Deserialize(GSGeoLocationReads, bytes)
  IN  table' = {e \in table : e.node # h.node} \cup
                 {[node |-> h.node, pos |-> [x |-> h.posx, y |-> h.posy, z |-> h.posz], about |-> about]}

RecvGSGeoLocation(p) ==
  /\ Arrives(p, "AERORPTYPE_GSGEOLOCATION")
  /\ UpdateRouteToNodes(RemoveTypeHeader(p).bytes, p.about)
  /\ UNCHANGED <<secure, flight, authTimer, status, key, net, aad, said, neighbor, heard>>

RecvSecureGSGeoLocation(p) ==
  /\ Arrives(p, "AERORPTYPE_SECURE_GSGEOLOCATION")
  /\ \/ \E bytes \in Opened(p, SecureGSGeoLocationReads) : UpdateRouteToNodes(bytes, p.about)
     \/ Opened(p, SecureGSGeoLocationReads) = {} /\ UNCHANGED table
  /\ UNCHANGED <<secure, flight, authTimer, status, key, net, aad, said, neighbor, heard>>

RecvAuthenticationReply_KeyAsSent(p) ==
  LET h == Deserialize(AuthenticationReplyReads, RemoveTypeHeader(p).bytes)
      valid == /\ h.identification = Me /\ h.oldRandomNo = Me
               /\ h.sign = [by |-> h.cert, data |-> <<h.timeStamp, h.randomNo, h.oldRandomNo,
                                                     h.identification, h.sharedKey>>]
  IN  /\ Arrives(p, "AERORPTYPE_AUTHENTICATIONREPLY")
      /\ status' = IF valid THEN "AUTH" ELSE "UNAUTH"
      /\ key' = IF valid THEN h.sharedKey ELSE key
      /\ UNCHANGED <<secure, flight, authTimer, net, aad, said, neighbor, heard, table>>

(* A reply is checked against its signature and the number that was sent; what the times *)
(* in it are for is in Authentication.                                                   *)
RecvAuthenticationReply(p) ==
  LET h == Deserialize(AuthenticationReplyReads, RemoveTypeHeader(p).bytes)
      valid == /\ h.identification = Me /\ h.oldRandomNo = Me
               /\ h.sign = [by |-> h.cert, data |-> <<h.timeStamp, h.randomNo, h.oldRandomNo,
                                                     h.identification, h.sharedKey>>]
  IN  /\ Arrives(p, "AERORPTYPE_AUTHENTICATIONREPLY")
      /\ status' = IF valid THEN "AUTH" ELSE "UNAUTH"
      /\ key' = IF valid THEN h.sharedKey.key ELSE key
      /\ UNCHANGED <<secure, flight, authTimer, net, aad, said, neighbor, heard, table>>

RecvData(p) ==
  /\ up # <<>> /\ p = Head(up) /\ p.kind = "DATA"
  /\ up' = Tail(up)
  /\ UNCHANGED <<secure, flight, authTimer, status, key, net, aad, said, neighbor, heard, table>>

-----------------------------------------------------------------------------
Lose(p) ==
  /\ p \in net /\ net' = net \ {p}
  /\ UNCHANGED <<secure, flight, authTimer, status, key, up, aad, said, neighbor, heard, table>>

(* The mobility model of An *)
Move(f) ==
  /\ flight' = f
  /\ UNCHANGED <<secure, authTimer, status, key, net, up, aad, said, neighbor, heard, table>>

Init ==
  /\ secure \in BOOLEAN /\ flight \in Flights
  /\ authTimer = secure /\ status = "UNAUTH" /\ key = NoKey
  /\ net = {} /\ up = <<>> /\ aad = Elsewhere
  /\ said = flight /\ heard = flight /\ neighbor = {} /\ table = {}

Next ==
  \/ SendHello \/ SendGroundStationPackets \/ SendAuthenticationRequest
  \/ \E p \in net : RecvAuthenticationRequest(p) \/ RouteInput(p) \/ Lose(p)
  \/ \E size \in DataSizes : SendData(size)
  \/ RouteInputElsewhere \/ RecvIgnored
  \/ \E p \in {up[i] : i \in 1..Len(up)} :
       \/ RecvHello(p) \/ RecvSecureHello(p) \/ RecvGSGeoLocation(p) \/ RecvSecureGSGeoLocation(p)
       \/ RecvAuthenticationReply(p) \/ RecvData(p)
  \/ \E f \in Flights : Move(f)

Spec == Init /\ [][Next]_vars

-----------------------------------------------------------------------------
TypeOK ==
  /\ secure \in BOOLEAN /\ authTimer \in BOOLEAN /\ flight \in Flights
  /\ status \in {"AUTH", "UNAUTH"} /\ key \in {SharedKey, NoKey}
  /\ Len(up) <= MaxUp /\ aad \in (Nodes \X {Me, Broadcast}) \cup {Elsewhere}
  /\ said \in Flights /\ heard \in Flights
  /\ \A p \in Messages : p.src \in Nodes /\ p.dst \in {Gs, Me, Broadcast}
                         /\ p.kind \in {"HELLO", "GSGEOLOCATION", "REQUEST", "REPLY", "DATA"}
  /\ table \subseteq [node : Nodes, pos : [Codec!Axis -> 0..MaxU32],
                      about : Nodes \X [Codec!Axis -> Coordinates]]

Bytes(fields) ==
  LET upTo[i \in 0..Len(fields)] == IF i = 0 THEN 0 ELSE upTo[i - 1] + fields[i].width
  IN  upTo[Len(fields)]

TypeMeant(p) ==
  CASE p.kind = "HELLO"         -> IF secure THEN "AERORPTYPE_SECURE_HELLO" ELSE "AERORPTYPE_HELLO"
    [] p.kind = "GSGEOLOCATION" -> IF secure THEN "AERORPTYPE_SECURE_GSGEOLOCATION"
                                   ELSE "AERORPTYPE_GSGEOLOCATION"
    [] p.kind = "REQUEST"       -> "AERORPTYPE_AUTHENTICATIONREQUEST"
    [] p.kind = "REPLY"         -> "AERORPTYPE_AUTHENTICATIONREPLY"

(* RouteOutput knows a packet by its size alone, the receiver by the number in its first  *)
(* byte: every packet of the program has as many bytes as its headers claim, a HELLO and  *)
(* a position leave in their secure form exactly in secure mode, the packets of the       *)
(* handshake leave as they are, and so do data packets of any size but 1000.              *)
TakenForWhatItIs ==
  \A p \in Messages :
    /\ p.size = Bytes(p.bytes)
    /\ IF p.kind = "DATA"
       THEN p.size = IF secure /\ p.about = PACKET_DATA_LEN_BEFORE_ENCRYPTON
                     THEN PACKET_DATA_LEN_AFTER_ENCRYPTON ELSE p.about
       ELSE TypeOf(p) = MessageType[TypeMeant(p)]

(* A HELLO or position that left in secure form opens for every node that has the key,   *)
(* with the addresses and the identifier that the receiver takes from the packet itself:  *)
(* they are those it was encrypted with, although its headers were exchanged since.       *)
SecuredOpens ==
  \A p \in Messages :
    /\ secure /\ status = "AUTH" /\ p.kind \in {"HELLO", "GSGEOLOCATION"}
    => LET layout == IF p.kind = "HELLO" THEN SecureHelloReads ELSE SecureGSGeoLocationReads
       IN  Dencryption(Deserialize(layout, RemoveTypeHeader(p).bytes), <<p.src, p.dst>>, key, p.uid)
             # {}

(* The positions in m_nodesPosition are those the ground station said of these nodes, in  *)
(* whole metres, whatever the cast of a velocity yields in the same packet.               *)
PositionsAsTold ==
  \A e \in table : /\ e.node = e.about[1]
                   /\ \A a \in Codec!Axis : Codec!WholePart(e.pos[a], e.about[2][a])

(* Through its header, and through encryption in secure mode, a HELLO does what HelloCodec *)
(* says: the entry at the receiver is the motion that was sent, and a HELLO that the       *)
(* receiver ignores, or cannot open, leaves no trace.                                      *)
CodecSpec == Codec!Spec
=============================================================================
