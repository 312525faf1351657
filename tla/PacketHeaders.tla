---------------------------- MODULE PacketHeaders ----------------------------
(***************************************************************************)
(* The headers of AeroRP's control packets (aerorp-packet) as they stand   *)
(* in a packet: a sequence of fields of a number of bytes each.  A header  *)
(* has a Serialize and a Deserialize, each with its own order of fields,   *)
(* and a GetSerializedSize by which Packet::AddHeader makes room for it    *)
(* and Packet::RemoveHeader takes it off.                                  *)
(***************************************************************************)
EXTENDS Integers, Sequences

CONSTANT Unknown    \* what a read across the border of two fields yields

(* Bytes of a uint8_t, a uint32_t, an Ipv4Address, a uint64_t *)
U8 == 1
U32 == 4
IPv4 == 4
U64 == 8

CERT_SIZE == 727
RSA_KEY_SIZE == 256
TAG_SIZE == 16
HELLO_PACKET_SIZE == 25
GS_PACKET_SIZE == 44

MessageType ==
  [AERORPTYPE_HELLO |-> 1, AERORPTYPE_GSGEOLOCATION |-> 2, AERORPTYPE_GSTOPOLGY |-> 3,
   AERORPTYPE_AUTHENTICATIONREQUEST |-> 4, AERORPTYPE_AUTHENTICATIONREPLY |-> 5,
   AERORPTYPE_SECURE_HELLO |-> 6, AERORPTYPE_SECURE_GSGEOLOCATION |-> 7]

-----------------------------------------------------------------------------
(* Layouts: the fields in the order in which they are written or read. *)

TypeSize == 1
TypeWrites == << <<"type", U8>> >>
TypeReads == << <<"type", U8>> >>

IsValid(type) == \E t \in DOMAIN MessageType : MessageType[t] = type

HelloSize == 6 * U32 + U8

HelloWrites ==
  << <<"posx", U32>>, <<"posy", U32>>, <<"posz", U32>>, <<"velsign", U8>>,
     <<"velx", U32>>, <<"vely", U32>>, <<"velz", U32>> >>

HelloReads_YZ ==
  << <<"posx", U32>>, <<"posz", U32>>, <<"posy", U32>>, <<"velsign", U8>>,
     <<"velx", U32>>, <<"vely", U32>>, <<"velz", U32>> >>

HelloReads ==
  << <<"posx", U32>>, <<"posy", U32>>, <<"posz", U32>>, <<"velsign", U8>>,
     <<"velx", U32>>, <<"vely", U32>>, <<"velz", U32>> >>

GSGeoLocationSize_NoTimes == IPv4 + 6 * U32

GSGeoLocationSize == IPv4 + 6 * U32 + 2 * U64

GSGeoLocationWrites ==
  << <<"node", IPv4>>, <<"posx", U32>>, <<"posy", U32>>, <<"posz", U32>>,
     <<"velx", U32>>, <<"vely", U32>>, <<"velz", U32>>,
     <<"startTime", U64>>, <<"endTime", U64>> >>

GSGeoLocationReads_NodeLast ==
  << <<"posx", U32>>, <<"posy", U32>>, <<"posz", U32>>,
     <<"velx", U32>>, <<"vely", U32>>, <<"velz", U32>>, <<"node", IPv4>>,
     <<"startTime", U64>>, <<"endTime", U64>> >>

GSGeoLocationReads ==
  << <<"node", IPv4>>, <<"posx", U32>>, <<"posy", U32>>, <<"posz", U32>>,
     <<"velx", U32>>, <<"vely", U32>>, <<"velz", U32>>,
     <<"startTime", U64>>, <<"endTime", U64>> >>

AuthenticationRequestSize == CERT_SIZE + U64 + U32 + U8 + RSA_KEY_SIZE

AuthenticationRequestWrites ==
  << <<"cert", CERT_SIZE>>, <<"timeStamp", U64>>, <<"randomNo", U32>>,
     <<"identification", U8>>, <<"sign", RSA_KEY_SIZE>> >>

AuthenticationRequestReads ==
  << <<"cert", CERT_SIZE>>, <<"timeStamp", U64>>, <<"randomNo", U32>>,
     <<"identification", U8>>, <<"sign", RSA_KEY_SIZE>> >>

AuthenticationReplySize ==
  CERT_SIZE + U64 + 2 * U32 + U8 + RSA_KEY_SIZE + RSA_KEY_SIZE

AuthenticationReplyWrites ==
  << <<"cert", CERT_SIZE>>, <<"timeStamp", U64>>, <<"randomNo", U32>>, <<"oldRandomNo", U32>>,
     <<"identification", U8>>, <<"sharedKey", RSA_KEY_SIZE>>, <<"sign", RSA_KEY_SIZE>> >>

AuthenticationReplyReads ==
  << <<"cert", CERT_SIZE>>, <<"timeStamp", U64>>, <<"randomNo", U32>>, <<"oldRandomNo", U32>>,
     <<"identification", U8>>, <<"sharedKey", RSA_KEY_SIZE>>, <<"sign", RSA_KEY_SIZE>> >>

SecureHelloSize == HELLO_PACKET_SIZE + TAG_SIZE
SecureHelloWrites == << <<"cipher", HELLO_PACKET_SIZE>>, <<"tag", TAG_SIZE>> >>
SecureHelloReads == << <<"cipher", HELLO_PACKET_SIZE>>, <<"tag", TAG_SIZE>> >>

SecureGSGeoLocationSize == GS_PACKET_SIZE + TAG_SIZE
SecureGSGeoLocationWrites == << <<"cipher", GS_PACKET_SIZE>>, <<"tag", TAG_SIZE>> >>
SecureGSGeoLocationReads == << <<"cipher", GS_PACKET_SIZE>>, <<"tag", TAG_SIZE>> >>

-----------------------------------------------------------------------------
(* Headers, as their constructors make them *)

HelloHeader(posx, posy, posz, velsign, velx, vely, velz) ==
  [posx |-> posx, posy |-> posy, posz |-> posz, velsign |-> velsign,
   velx |-> velx, vely |-> vely, velz |-> velz]

GSGeoLocationHeader(node, posx, posy, posz, velx, vely, velz, startTime, endTime) ==
  [node |-> node, posx |-> posx, posy |-> posy, posz |-> posz,
   velx |-> velx, vely |-> vely, velz |-> velz, startTime |-> startTime, endTime |-> endTime]

AuthenticationRequestHeader(cert, timeStamp, randomNo, identification, sign) ==
  [cert |-> cert, timeStamp |-> timeStamp, randomNo |-> randomNo,
   identification |-> identification, sign |-> sign]

AuthenticationReplyHeader(cert, timeStamp, randomNo, oldRandomNo, identification, sharedKey, sign) ==
  [cert |-> cert, timeStamp |-> timeStamp, randomNo |-> randomNo, oldRandomNo |-> oldRandomNo,
   identification |-> identification, sharedKey |-> sharedKey, sign |-> sign]

SecureHelloHeader(cipher, tag) == [cipher |-> cipher, tag |-> tag]
SecureGSGeoLocationHeader(cipher, tag) == [cipher |-> cipher, tag |-> tag]

-----------------------------------------------------------------------------
(* Packets: the fields in buffer order, and the number of bytes *)

Serialize(layout, header) ==
  [i \in DOMAIN layout |-> [width |-> layout[i][2], value |-> header[layout[i][1]]]]

(* The fields that are read have the widths of those that were written. *)
Aligned(layout, bytes) ==
  \A i \in DOMAIN layout : i \in DOMAIN bytes /\ bytes[i].width = layout[i][2]

Deserialize(layout, bytes) ==
  [name \in {layout[i][1] : i \in DOMAIN layout} |->
     IF Aligned(layout, bytes)
     THEN bytes[CHOOSE i \in DOMAIN layout : layout[i][1] = name].value ELSE Unknown]

AddHeader(p, size, layout, header) ==
  [p EXCEPT !.size = @ + size, !.bytes = Serialize(layout, header) \o @]

RemoveHeader(p, size, layout) ==
  [p EXCEPT !.size = @ - size, !.bytes = SubSeq(@, Len(layout) + 1, Len(@))]

AddTypeHeader(p, name) ==
  AddHeader(p, TypeSize, TypeWrites, [type |-> MessageType[name]])

RemoveTypeHeader(p) == RemoveHeader(p, TypeSize, TypeReads)

TypeOf(p) == Deserialize(TypeReads, p.bytes).type
=============================================================================
