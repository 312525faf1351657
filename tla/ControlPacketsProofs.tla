------------------------- MODULE ControlPacketsProofs -------------------------
(***************************************************************************)
(* What PacketHeaders and ControlPackets promise for every value of the    *)
(* constants: a header is read as it was written, a packet that left in    *)
(* secure form opens with the key, the position table says what the ground *)
(* station knew, and headers, encryption, socket and gate together         *)
(* implement HelloCodec. The invariant under all of it is PacketInv: every *)
(* packet under way is one of the five the handlers make, byte for byte.   *)
(***************************************************************************)
EXTENDS ControlPackets, SequenceTheorems, WellFoundedInduction, TLAPS

-----------------------------------------------------------------------------
(* Packets as data: fields of any kind, and bytes that are a sequence *)

Packet(p) ==
  \E S : p \in [kind : S, uid : S, src : S, dst : S, about : S, size : Int, bytes : Seq(S)]

(* A layout: fields of a width, no two of one name *)
Layout(L) ==
  /\ \E S : L \in Seq(S)
  /\ \A i, j \in DOMAIN L : L[i][1] = L[j][1] => i = j

SameEnvelope(p, q) ==
  p.kind = q.kind /\ p.uid = q.uid /\ p.src = q.src /\ p.dst = q.dst /\ p.about = q.about

(* A packet over S is one over every larger set. *)
LEMMA LargerSet ==
  ASSUME NEW S, NEW T, S \subseteq T,
         NEW p \in [kind : S, uid : S, src : S, dst : S, about : S, size : Int, bytes : Seq(S)]
  PROVE  p \in [kind : T, uid : T, src : T, dst : T, about : T, size : Int, bytes : Seq(T)]
<1>1. p.bytes \in Seq(T)
  <2>1. p.bytes \in Seq(S)
    OBVIOUS
  <2> QED  BY <2>1, SeqMonotonic
<1> QED  BY <1>1

(* The elements of a concatenation, by their place. *)
LEMMA Concatenated ==
  ASSUME NEW S, NEW s \in Seq(S), NEW t \in Seq(S), NEW n \in Nat, Len(s) = n
  PROVE  /\ s \o t \in Seq(S) /\ Len(t) \in Nat
         /\ Len(s \o t) = n + Len(t)
         /\ DOMAIN (s \o t) = 1..(n + Len(t))
         /\ \A i \in 1..n : (s \o t)[i] = s[i]
         /\ \A i \in 1..Len(t) : (s \o t)[n + i] = t[i]
<1>1. /\ s \o t \in Seq(S)
      /\ Len(s \o t) = n + Len(t) /\ Len(t) \in Nat
      /\ \A i \in 1..(n + Len(t)) : (s \o t)[i] = IF i <= n THEN s[i] ELSE t[i - n]
  BY ConcatProperties, LenProperties
<1>2. DOMAIN (s \o t) = 1..(n + Len(t))
  BY <1>1, LenProperties
<1>3. \A i \in 1..n : (s \o t)[i] = s[i]
  <2> TAKE i \in 1..n
  <2>1. i \in 1..(n + Len(t)) /\ i <= n
    BY <1>1
  <2> QED  BY <1>1, <2>1
<1>4. \A i \in 1..Len(t) : (s \o t)[n + i] = t[i]
  <2> TAKE i \in 1..Len(t)
  <2>1. n + i \in 1..(n + Len(t)) /\ ~(n + i <= n) /\ n + i - n = i
    BY <1>1
  <2> QED  BY <1>1, <2>1
<1> QED  BY <1>1, <1>2, <1>3, <1>4

(* A header in bytes is a sequence with a field for every field of its layout. *)
LEMMA SerializeSequence ==
  ASSUME NEW L, Layout(L), NEW h
  PROVE  /\ Len(L) \in Nat /\ DOMAIN L = 1..Len(L)
         /\ \E S : Serialize(L, h) \in Seq(S)
         /\ Len(Serialize(L, h)) = Len(L)
         /\ \A i \in 1..Len(L) : Serialize(L, h)[i] = [width |-> L[i][2], value |-> h[L[i][1]]]
<1>1. PICK S : L \in Seq(S)
  BY DEF Layout
<1>2. Len(L) \in Nat /\ DOMAIN L = 1..Len(L)
  BY <1>1, LenProperties
<1> DEFINE T == {[width |-> L[i][2], value |-> h[L[i][1]]] : i \in 1..Len(L)}
<1>3. Serialize(L, h) \in [1..Len(L) -> T]
  BY <1>2 DEF Serialize
<1>4. Serialize(L, h) \in Seq(T)
  BY <1>2, <1>3, SeqDef
<1>5. Len(Serialize(L, h)) = Len(L)
  BY <1>2, <1>3, <1>4, LenProperties
<1> QED  BY <1>2, <1>4, <1>5 DEF Serialize

(* AddHeader puts the header's fields in front of the packet's and leaves the rest. *)
LEMMA HeaderAdded ==
  ASSUME NEW p, Packet(p), NEW size \in Int, NEW L, Layout(L), NEW h,
         NEW q, q = AddHeader(p, size, L, h)
  PROVE  /\ Packet(q) /\ SameEnvelope(p, q)
         /\ q.size = p.size + size
         /\ Len(q.bytes) = Len(L) + Len(p.bytes) /\ Len(p.bytes) \in Nat
         /\ DOMAIN q.bytes = 1..(Len(L) + Len(p.bytes))
         /\ \A i \in 1..Len(L) :
              q.bytes[i] = [width |-> L[i][2], value |-> h[L[i][1]]]
         /\ \A i \in 1..Len(p.bytes) : q.bytes[Len(L) + i] = p.bytes[i]
<1> DEFINE fields == Serialize(L, h)
<1>1. PICK S : p \in [kind : S, uid : S, src : S, dst : S, about : S, size : Int, bytes : Seq(S)]
  BY DEF Packet
<1>2. /\ Len(L) \in Nat
      /\ Len(fields) = Len(L)
      /\ \A i \in 1..Len(L) : fields[i] = [width |-> L[i][2], value |-> h[L[i][1]]]
  BY SerializeSequence
<1>3. PICK R : fields \in Seq(R)
  BY SerializeSequence
<1>4. q = [p EXCEPT !.size = p.size + size, !.bytes = fields \o p.bytes]
  BY DEF AddHeader
<1> HIDE DEF fields
<1> DEFINE T == S \cup R
<1>5. p \in [kind : T, uid : T, src : T, dst : T, about : T, size : Int, bytes : Seq(T)]
  BY <1>1, LargerSet
<1>6. fields \in Seq(T)
  BY <1>3, SeqMonotonic
<1> HIDE DEF T
<1>7. p.bytes \in Seq(T) /\ p.size + size \in Int
  BY <1>5
<1>8. /\ fields \o p.bytes \in Seq(T) /\ Len(p.bytes) \in Nat
      /\ Len(fields \o p.bytes) = Len(L) + Len(p.bytes)
      /\ DOMAIN (fields \o p.bytes) = 1..(Len(L) + Len(p.bytes))
      /\ \A i \in 1..Len(L) : (fields \o p.bytes)[i] = fields[i]
      /\ \A i \in 1..Len(p.bytes) : (fields \o p.bytes)[Len(L) + i] = p.bytes[i]
  <2> DEFINE n == Len(L)
             t == p.bytes
  <2>1. n \in Nat /\ Len(fields) = n /\ fields \in Seq(T) /\ t \in Seq(T)
    BY <1>2, <1>6, <1>7
  <2> HIDE DEF n, t
  <2>2. /\ fields \o t \in Seq(T) /\ Len(t) \in Nat
        /\ Len(fields \o t) = n + Len(t)
        /\ DOMAIN (fields \o t) = 1..(n + Len(t))
        /\ \A i \in 1..n : (fields \o t)[i] = fields[i]
        /\ \A i \in 1..Len(t) : (fields \o t)[n + i] = t[i]
    BY <2>1, Concatenated
  <2> QED  BY <2>2 DEF n, t
<1>9. /\ Packet(q) /\ SameEnvelope(p, q)
      /\ q.size = p.size + size /\ q.bytes = fields \o p.bytes
  <2> DEFINE n == p.size + size
             s == fields \o p.bytes
  <2>1. q = [p EXCEPT !.size = n, !.bytes = s] /\ n \in Int /\ s \in Seq(T)
    BY <1>4, <1>7, <1>8
  <2> HIDE DEF n, s
  <2>2. q \in [kind : T, uid : T, src : T, dst : T, about : T, size : Int, bytes : Seq(T)]
    BY <1>5, <2>1
  <2>3. Packet(q)
    BY <2>2 DEF Packet
  <2>4. SameEnvelope(p, q)
    BY <1>5, <2>1 DEF SameEnvelope
  <2>5. q.size = n /\ q.bytes = s
    BY <1>5, <2>1
  <2> QED  BY <2>3, <2>4, <2>5 DEF n, s
<1> QED  BY <1>2, <1>8, <1>9

(* A header is read as it was written, whatever follows it in the packet. *)
LEMMA ReadsBack ==
  ASSUME NEW p, Packet(p), NEW size \in Int, NEW L, Layout(L), NEW h
  PROVE  Deserialize(L, AddHeader(p, size, L, h).bytes)
           = [name \in {L[i][1] : i \in DOMAIN L} |-> h[name]]
<1> DEFINE q == AddHeader(p, size, L, h)
           bytes == q.bytes
<1>1. /\ DOMAIN L = 1..Len(L) /\ Len(L) \in Nat
  BY SerializeSequence
<1>2. /\ DOMAIN bytes = 1..(Len(L) + Len(p.bytes)) /\ Len(p.bytes) \in Nat
      /\ \A i \in 1..Len(L) : bytes[i] = [width |-> L[i][2], value |-> h[L[i][1]]]
  BY HeaderAdded
<1> HIDE DEF q
<1>3. ASSUME NEW i \in DOMAIN L
      PROVE  /\ i \in DOMAIN bytes
             /\ bytes[i].width = L[i][2] /\ bytes[i].value = h[L[i][1]]
  <2>1. i \in DOMAIN bytes
    BY <1>1, <1>2
  <2>2. bytes[i] = [width |-> L[i][2], value |-> h[L[i][1]]]
    BY <1>1, <1>2
  <2> QED  BY <2>1, <2>2
<1> HIDE DEF bytes
<1>5. Aligned(L, bytes)
  BY <1>3 DEF Aligned
<1>6. ASSUME NEW name \in {L[i][1] : i \in DOMAIN L}
      PROVE  bytes[CHOOSE i \in DOMAIN L : L[i][1] = name].value = h[name]
  <2> DEFINE k == CHOOSE i \in DOMAIN L : L[i][1] = name
  <2>1. k \in DOMAIN L /\ L[k][1] = name
    BY <1>6
  <2> HIDE DEF k
  <2>2. bytes[k].value = h[L[k][1]]
    BY <1>3, <2>1
  <2> QED  BY <2>1, <2>2 DEF k
<1> QED  BY <1>5, <1>6 DEF Deserialize, bytes, q

(* What AddHeader puts in front, RemoveHeader takes off, the sizes apart. *)
LEMMA HeaderRemoved ==
  ASSUME NEW p, Packet(p), NEW size \in Int, NEW taken \in Int, NEW L, Layout(L), NEW h,
         NEW M, Len(M) = Len(L),
         NEW q, q = AddHeader(p, size, L, h),
         NEW r, r = RemoveHeader(q, taken, M)
  PROVE  /\ Packet(r) /\ SameEnvelope(p, r)
         /\ r.size = p.size + size - taken
         /\ r.bytes = p.bytes
<1>1. /\ Packet(q) /\ SameEnvelope(p, q) /\ q.size = p.size + size
      /\ Len(q.bytes) = Len(L) + Len(p.bytes)
      /\ \A i \in 1..Len(p.bytes) : q.bytes[Len(L) + i] = p.bytes[i]
  BY HeaderAdded
<1>2. Len(L) \in Nat
  BY SerializeSequence
<1>3. PICK S : p \in [kind : S, uid : S, src : S, dst : S, about : S, size : Int, bytes : Seq(S)]
  BY DEF Packet
<1>4. PICK T : q \in [kind : T, uid : T, src : T, dst : T, about : T, size : Int, bytes : Seq(T)]
  BY <1>1 DEF Packet
<1>5. p.bytes \in Seq(S) /\ Len(p.bytes) \in Nat
  BY <1>3, LenProperties
<1> DEFINE s == SubSeq(q.bytes, Len(M) + 1, Len(q.bytes))
<1>6. \A i \in (Len(L) + 1)..(Len(L) + Len(p.bytes)) : q.bytes[i] \in S
  <2> TAKE i \in (Len(L) + 1)..(Len(L) + Len(p.bytes))
  <2>1. i - Len(L) \in 1..Len(p.bytes) /\ Len(L) + (i - Len(L)) = i
    BY <1>2, <1>5
  <2>2. q.bytes[Len(L) + (i - Len(L))] = p.bytes[i - Len(L)]
    BY <1>1, <2>1
  <2> QED  BY <1>5, <2>1, <2>2, ElementOfSeq
<1>7. /\ s \in Seq(S)
      /\ Len(s) = IF Len(L) + 1 <= Len(L) + Len(p.bytes)
                  THEN Len(L) + Len(p.bytes) - (Len(L) + 1) + 1 ELSE 0
      /\ \A i \in 1..(Len(L) + Len(p.bytes) - (Len(L) + 1) + 1) : s[i] = q.bytes[Len(L) + 1 + i - 1]
  <2>1. s = SubSeq(q.bytes, Len(L) + 1, Len(L) + Len(p.bytes))
    BY <1>1
  <2>2. Len(L) + 1 \in Int /\ Len(L) + Len(p.bytes) \in Int
    BY <1>2, <1>5
  <2> HIDE DEF s
  <2> QED  BY <1>6, <2>1, <2>2, SubSeqProperties
<1> HIDE DEF s
<1>8. Len(s) = Len(p.bytes)
  BY <1>2, <1>5, <1>7
<1>9. \A i \in 1..Len(s) : s[i] = p.bytes[i]
  <2> TAKE i \in 1..Len(s)
  <2>1. /\ i \in 1..(Len(L) + Len(p.bytes) - (Len(L) + 1) + 1)
        /\ Len(L) + 1 + i - 1 = Len(L) + i /\ i \in 1..Len(p.bytes)
    BY <1>2, <1>5, <1>8
  <2> QED  BY <1>1, <1>7, <2>1
<1>10. s = p.bytes
  BY <1>5, <1>7, <1>8, <1>9, SeqEqual
<1>11. r = [q EXCEPT !.size = q.size - taken, !.bytes = p.bytes]
  BY <1>10 DEF RemoveHeader, s
<1> DEFINE U == S \cup T
<1>12. p.bytes \in Seq(U)
  BY <1>5, SeqMonotonic
<1>13. q \in [kind : U, uid : U, src : U, dst : U, about : U, size : Int, bytes : Seq(U)]
  BY <1>4, LargerSet
<1> HIDE DEF U
<1>14. q.size - taken \in Int
  BY <1>4
<1>15. /\ Packet(r) /\ SameEnvelope(q, r)
       /\ r.size = q.size - taken /\ r.bytes = p.bytes
  <2> DEFINE n == q.size - taken
  <2>1. r = [q EXCEPT !.size = n, !.bytes = p.bytes] /\ n \in Int
    BY <1>11, <1>14
  <2> HIDE DEF n
  <2>2. r \in [kind : U, uid : U, src : U, dst : U, about : U, size : Int, bytes : Seq(U)]
    BY <1>12, <1>13, <2>1
  <2>3. Packet(r)
    BY <2>2 DEF Packet
  <2>4. SameEnvelope(q, r)
    BY <1>13, <2>1 DEF SameEnvelope
  <2>5. r.size = n /\ r.bytes = p.bytes
    BY <1>13, <2>1
  <2> QED  BY <2>3, <2>4, <2>5 DEF n
<1>16. SameEnvelope(p, r)
  BY <1>1, <1>15 DEF SameEnvelope
<1>17. p.size \in Int
  BY <1>3
<1> QED  BY <1>1, <1>15, <1>16, <1>17

-----------------------------------------------------------------------------
(* The headers of the protocol *)

Headers ==
  { [size |-> TypeSize, writes |-> TypeWrites, reads |-> TypeReads],
    [size |-> HelloSize, writes |-> HelloWrites, reads |-> HelloReads],
    [size |-> GSGeoLocationSize, writes |-> GSGeoLocationWrites, reads |-> GSGeoLocationReads],
    [size |-> AuthenticationRequestSize, writes |-> AuthenticationRequestWrites,
     reads |-> AuthenticationRequestReads],
    [size |-> AuthenticationReplySize, writes |-> AuthenticationReplyWrites,
     reads |-> AuthenticationReplyReads],
    [size |-> SecureHelloSize, writes |-> SecureHelloWrites, reads |-> SecureHelloReads],
    [size |-> SecureGSGeoLocationSize, writes |-> SecureGSGeoLocationWrites,
     reads |-> SecureGSGeoLocationReads] }

(* What has to be shown of a layout, for sequences of pairs. *)
LEMMA LayoutOf ==
  ASSUME NEW S, NEW L \in Seq(S), NEW n \in Nat, Len(L) = n,
         \A i, j \in 1..n : L[i][1] = L[j][1] => i = j
  PROVE  Layout(L)
<1>1. DOMAIN L = 1..n
  BY LenProperties
<1> QED  BY <1>1 DEF Layout

(* Every header is read in the layout it is written in, and the layouts are layouts. *)
LEMMA Layouts ==
  /\ Layout(TypeWrites) /\ TypeReads = TypeWrites
  /\ Layout(HelloWrites) /\ HelloReads = HelloWrites
  /\ Layout(GSGeoLocationWrites) /\ GSGeoLocationReads = GSGeoLocationWrites
  /\ Layout(AuthenticationRequestWrites) /\ AuthenticationRequestReads = AuthenticationRequestWrites
  /\ Layout(AuthenticationReplyWrites) /\ AuthenticationReplyReads = AuthenticationReplyWrites
  /\ Layout(SecureHelloWrites) /\ SecureHelloReads = SecureHelloWrites
  /\ Layout(SecureGSGeoLocationWrites) /\ SecureGSGeoLocationReads = SecureGSGeoLocationWrites
<1>1. Layout(TypeWrites) /\ TypeReads = TypeWrites
  <2> DEFINE S == {TypeWrites[i] : i \in 1..1}
  <2>1. TypeWrites \in Seq(S) /\ Len(TypeWrites) = 1
    BY DEF TypeWrites
  <2> HIDE DEF S
  <2>2. \A i, j \in 1..1 : TypeWrites[i][1] = TypeWrites[j][1] => i = j
    BY DEF TypeWrites
  <2>3. Layout(TypeWrites)
    BY <2>1, <2>2, LayoutOf
  <2> QED  BY <2>3 DEF TypeWrites, TypeReads
<1>2. Layout(HelloWrites) /\ HelloReads = HelloWrites
  <2> DEFINE S == {HelloWrites[i] : i \in 1..7}
  <2>1. HelloWrites \in Seq(S) /\ Len(HelloWrites) = 7
    BY DEF HelloWrites
  <2> HIDE DEF S
  <2>2. \A i, j \in 1..7 : HelloWrites[i][1] = HelloWrites[j][1] => i = j
    BY DEF HelloWrites
  <2>3. Layout(HelloWrites)
    BY <2>1, <2>2, LayoutOf
  <2> QED  BY <2>3 DEF HelloWrites, HelloReads
<1>3. Layout(GSGeoLocationWrites) /\ GSGeoLocationReads = GSGeoLocationWrites
  <2> DEFINE S == {GSGeoLocationWrites[i] : i \in 1..9}
  <2>1. GSGeoLocationWrites \in Seq(S) /\ Len(GSGeoLocationWrites) = 9
    BY DEF GSGeoLocationWrites
  <2> HIDE DEF S
  <2>2. \A i, j \in 1..9 : GSGeoLocationWrites[i][1] = GSGeoLocationWrites[j][1] => i = j
    BY DEF GSGeoLocationWrites
  <2>3. Layout(GSGeoLocationWrites)
    BY <2>1, <2>2, LayoutOf
  <2> QED  BY <2>3 DEF GSGeoLocationWrites, GSGeoLocationReads
<1>4. Layout(AuthenticationRequestWrites) /\ AuthenticationRequestReads = AuthenticationRequestWrites
  <2> DEFINE S == {AuthenticationRequestWrites[i] : i \in 1..5}
  <2>1. AuthenticationRequestWrites \in Seq(S) /\ Len(AuthenticationRequestWrites) = 5
    BY DEF AuthenticationRequestWrites
  <2> HIDE DEF S
  <2>2. \A i, j \in 1..5 : AuthenticationRequestWrites[i][1] = AuthenticationRequestWrites[j][1] => i = j
    BY DEF AuthenticationRequestWrites
  <2>3. Layout(AuthenticationRequestWrites)
    BY <2>1, <2>2, LayoutOf
  <2> QED  BY <2>3 DEF AuthenticationRequestWrites, AuthenticationRequestReads
<1>5. Layout(AuthenticationReplyWrites) /\ AuthenticationReplyReads = AuthenticationReplyWrites
  <2> DEFINE S == {AuthenticationReplyWrites[i] : i \in 1..7}
  <2>1. AuthenticationReplyWrites \in Seq(S) /\ Len(AuthenticationReplyWrites) = 7
    BY DEF AuthenticationReplyWrites
  <2> HIDE DEF S
  <2>2. \A i, j \in 1..7 : AuthenticationReplyWrites[i][1] = AuthenticationReplyWrites[j][1] => i = j
    BY DEF AuthenticationReplyWrites
  <2>3. Layout(AuthenticationReplyWrites)
    BY <2>1, <2>2, LayoutOf
  <2> QED  BY <2>3 DEF AuthenticationReplyWrites, AuthenticationReplyReads
<1>6. Layout(SecureHelloWrites) /\ SecureHelloReads = SecureHelloWrites
  <2> DEFINE S == {SecureHelloWrites[i] : i \in 1..2}
  <2>1. SecureHelloWrites \in Seq(S) /\ Len(SecureHelloWrites) = 2
    BY DEF SecureHelloWrites
  <2> HIDE DEF S
  <2>2. \A i, j \in 1..2 : SecureHelloWrites[i][1] = SecureHelloWrites[j][1] => i = j
    BY DEF SecureHelloWrites
  <2>3. Layout(SecureHelloWrites)
    BY <2>1, <2>2, LayoutOf
  <2> QED  BY <2>3 DEF SecureHelloWrites, SecureHelloReads
<1>7. Layout(SecureGSGeoLocationWrites) /\ SecureGSGeoLocationReads = SecureGSGeoLocationWrites
  <2> DEFINE S == {SecureGSGeoLocationWrites[i] : i \in 1..2}
  <2>1. SecureGSGeoLocationWrites \in Seq(S) /\ Len(SecureGSGeoLocationWrites) = 2
    BY DEF SecureGSGeoLocationWrites
  <2> HIDE DEF S
  <2>2. \A i, j \in 1..2 : SecureGSGeoLocationWrites[i][1] = SecureGSGeoLocationWrites[j][1] => i = j
    BY DEF SecureGSGeoLocationWrites
  <2>3. Layout(SecureGSGeoLocationWrites)
    BY <2>1, <2>2, LayoutOf
  <2> QED  BY <2>3 DEF SecureGSGeoLocationWrites, SecureGSGeoLocationReads
<1> QED  BY <1>1, <1>2, <1>3, <1>4, <1>5, <1>6, <1>7

(* The sizes the headers claim, as numbers. *)
LEMMA Sizes ==
  /\ TypeSize = 1 /\ HelloSize = 25 /\ GSGeoLocationSize = 44
  /\ AuthenticationRequestSize = 996 /\ AuthenticationReplySize = 1256
  /\ SecureHelloSize = 41 /\ SecureGSGeoLocationSize = 60
BY DEF TypeSize, HelloSize, GSGeoLocationSize, AuthenticationRequestSize, AuthenticationReplySize,
       SecureHelloSize, SecureGSGeoLocationSize, U8, U32, U64, IPv4, CERT_SIZE, RSA_KEY_SIZE,
       HELLO_PACKET_SIZE, GS_PACKET_SIZE, TAG_SIZE

(* Whatever a header is put in front of, it is read as it was written, and taking it off *)
(* gives back what it was put in front of, with its size.                                *)
THEOREM ReadAsWritten ==
  ASSUME NEW H \in Headers, NEW p, Packet(p), NEW h
  PROVE  LET q == AddHeader(p, H.size, H.writes, h)
             r == RemoveHeader(q, H.size, H.reads)
         IN  /\ Deserialize(H.reads, q.bytes)
                  = [name \in {H.writes[i][1] : i \in DOMAIN H.writes} |-> h[name]]
             /\ r.bytes = p.bytes /\ r.size = p.size
<1>1. Layout(H.writes) /\ H.reads = H.writes /\ H.size \in Int
  BY Layouts, Sizes DEF Headers
<1> DEFINE q == AddHeader(p, H.size, H.writes, h)
           r == RemoveHeader(q, H.size, H.reads)
<1>2. Deserialize(H.reads, q.bytes) = [name \in {H.writes[i][1] : i \in DOMAIN H.writes} |-> h[name]]
  BY <1>1, ReadsBack
<1>3. r.size = p.size + H.size - H.size /\ r.bytes = p.bytes
  BY <1>1, HeaderRemoved
<1>4. p.size \in Int
  <2>1. PICK S : p \in [kind : S, uid : S, src : S, dst : S, about : S, size : Int, bytes : Seq(S)]
    BY DEF Packet
  <2> QED  BY <2>1
<1>5. r.size = p.size
  BY <1>1, <1>3, <1>4
<1> QED  BY <1>2, <1>3, <1>5

(* Two packets over one set of fields that agree in every field are equal. *)
LEMMA SamePacket ==
  ASSUME NEW p, Packet(p), NEW q, Packet(q), SameEnvelope(p, q),
         p.size = q.size, p.bytes = q.bytes
  PROVE  p = q
<1>1. PICK S : p \in [kind : S, uid : S, src : S, dst : S, about : S, size : Int, bytes : Seq(S)]
  BY DEF Packet
<1>2. PICK T : q \in [kind : T, uid : T, src : T, dst : T, about : T, size : Int, bytes : Seq(T)]
  BY DEF Packet
<1> QED  BY <1>1, <1>2 DEF SameEnvelope

(* A packet's size is an integer. *)
LEMMA PacketSize ==
  ASSUME NEW p, Packet(p)
  PROVE  p.size \in Int
<1>1. PICK S : p \in [kind : S, uid : S, src : S, dst : S, about : S, size : Int, bytes : Seq(S)]
  BY DEF Packet
<1> QED  BY <1>1

(* RemoveHeader undoes AddHeader. *)
LEMMA RemoveUndoes ==
  ASSUME NEW p, Packet(p), NEW size \in Int, NEW L, Layout(L), NEW h
  PROVE  RemoveHeader(AddHeader(p, size, L, h), size, L) = p
<1> DEFINE r == RemoveHeader(AddHeader(p, size, L, h), size, L)
<1>1. Packet(r) /\ SameEnvelope(p, r) /\ r.size = p.size + size - size /\ r.bytes = p.bytes
  BY HeaderRemoved
<1>2. r.size = p.size
  BY <1>1, PacketSize
<1> HIDE DEF r
<1>3. p = r
  BY <1>1, <1>2, SamePacket
<1> QED  BY <1>3 DEF r

(* The number in the first byte is the one the sender gave. *)
LEMMA Typed ==
  ASSUME NEW p, Packet(p), NEW type, NEW q, q = AddTypeHeader(p, type)
  PROVE  /\ Packet(q) /\ SameEnvelope(p, q) /\ q.size = p.size + 1
         /\ TypeOf(q) = MessageType[type]
         /\ RemoveTypeHeader(q) = p
<1> DEFINE h == [type |-> MessageType[type]]
<1>1. q = AddHeader(p, 1, TypeWrites, h)
  BY Sizes DEF AddTypeHeader
<1>2. Layout(TypeWrites) /\ TypeReads = TypeWrites
  BY Layouts
<1>3. Packet(q) /\ SameEnvelope(p, q) /\ q.size = p.size + 1
  BY <1>1, <1>2, HeaderAdded
<1>4. RemoveTypeHeader(q) = p
  <2>1. RemoveTypeHeader(q) = RemoveHeader(q, 1, TypeWrites)
    BY <1>2, Sizes DEF RemoveTypeHeader
  <2> HIDE DEF h
  <2> QED  BY <1>1, <1>2, <2>1, RemoveUndoes
<1>5. TypeOf(q) = MessageType[type]
  <2>1. Deserialize(TypeReads, q.bytes) = [name \in {TypeWrites[i][1] : i \in DOMAIN TypeWrites} |-> h[name]]
    BY <1>1, <1>2, ReadsBack
  <2>2. {TypeWrites[i][1] : i \in DOMAIN TypeWrites} = {"type"}
    BY DEF TypeWrites
  <2> QED  BY <2>1, <2>2 DEF TypeOf
<1> QED  BY <1>3, <1>4, <1>5

-----------------------------------------------------------------------------
(* Induction, and the bytes of a packet *)

(* Every nonempty set of naturals has a least element. *)
LEMMA LeastOne ==
  ASSUME NEW T \in SUBSET Nat, T # {}
  PROVE  \E x \in T : \A y \in T : x <= y
<1> DEFINE R == OpToRel(<, Nat)
<1>1. IsWellFoundedOn(R, Nat)
  BY NatLessThanWellFounded
<1>2. \A x, y \in Nat : y < x => <<y, x>> \in R
  BY DEF OpToRel
<1> HIDE DEF R
<1>3. \E x \in T : \A y \in T : ~ (<<y, x>> \in R)
  BY <1>1, WFMin
<1>4. PICK x \in T : \A y \in T : ~ (<<y, x>> \in R)
  BY <1>3
<1>5. \A y \in T : ~(y < x)
  BY <1>2, <1>4
<1> QED  BY <1>4, <1>5

(* Induction, with a set in place of a predicate *)
LEMMA SetInduction ==
  ASSUME NEW I \in SUBSET Nat, 0 \in I, \A n \in I : n + 1 \in I
  PROVE  I = Nat
<1> DEFINE T == Nat \ I
<1>1. SUFFICES ASSUME T # {} PROVE FALSE
  OBVIOUS
<1>2. PICK x \in T : \A y \in T : x <= y
  BY <1>1, LeastOne
<1>3. x # 0 /\ x - 1 \in Nat /\ x - 1 \notin T
  BY <1>2
<1> QED  BY <1>2, <1>3

(* The sum that Bytes takes the last term of *)
Sums(f, n, s) == f = [i \in 0..n |-> IF i = 0 THEN 0 ELSE f[i - 1] + s[i].width]

(* Fields of a number of bytes *)
Widths(s) == \A i \in DOMAIN s : s[i].width \in Int

(* It is defined for every sequence: the recursion in Bytes always ends. *)
LEMMA SumsExist ==
  ASSUME NEW s, NEW n \in Nat
  PROVE  \E f : Sums(f, n, s)
<1> DEFINE I == {m \in Nat : \E f : Sums(f, m, s)}
<1>1. 0 \in I
  <2> DEFINE f == [i \in 0..0 |-> 0]
  <2>1. Sums(f, 0, s)
    BY DEF Sums
  <2> QED  BY <2>1
<1>2. ASSUME NEW m \in I PROVE m + 1 \in I
  <2>1. PICK f : Sums(f, m, s)
    OBVIOUS
  <2> DEFINE g == [i \in 0..(m + 1) |-> IF i = m + 1 THEN f[m] + s[m + 1].width ELSE f[i]]
  <2>2. g = [i \in 0..(m + 1) |-> IF i = 0 THEN 0 ELSE g[i - 1] + s[i].width]
    <3>1. \A i \in 0..m : f[i] = IF i = 0 THEN 0 ELSE f[i - 1] + s[i].width
      BY <2>1 DEF Sums
    <3>2. ASSUME NEW i \in 0..(m + 1)
          PROVE  g[i] = IF i = 0 THEN 0 ELSE g[i - 1] + s[i].width
      <4>1. CASE i = m + 1
        BY <4>1
      <4>2. CASE i \in 0..m /\ i # 0
        <5>1. i - 1 \in 0..m /\ i - 1 # m + 1 /\ i # m + 1
          BY <4>2
        <5> QED  BY <3>1, <4>2, <5>1
      <4>3. CASE i = 0
        BY <3>1, <4>3
      <4> QED  BY <4>1, <4>2, <4>3
    <3> QED  BY <3>2
  <2>3. Sums(g, m + 1, s)
    BY <2>2 DEF Sums
  <2> HIDE DEF g
  <2> QED  BY <2>3
<1> HIDE DEF I
<1>3. I = Nat
  <2>1. I \in SUBSET Nat
    BY DEF I
  <2> QED  BY <1>1, <1>2, <2>1, SetInduction
<1> QED  BY <1>3 DEF I

(* Bytes adds one width after the other. *)
LEMMA BytesSum ==
  ASSUME NEW s, NEW n \in Nat, Len(s) = n
  PROVE  \E f : /\ Bytes(s) = f[n] /\ f[0] = 0
                /\ \A i \in 1..n : f[i] = f[i - 1] + s[i].width
<1> DEFINE f == CHOOSE g : Sums(g, n, s)
<1>1. Sums(f, n, s)
  BY SumsExist
<1>2. Bytes(s) = f[n]
  BY DEF Bytes, Sums
<1> HIDE DEF f
<1>3. f[0] = 0 /\ \A i \in 1..n : f[i] = f[i - 1] + s[i].width
  BY <1>1 DEF Sums
<1> QED  BY <1>2, <1>3

(* What follows in a packet adds its bytes. *)
LEMMA BytesJoined ==
  ASSUME NEW S, NEW s \in Seq(S), NEW t \in Seq(S), Widths(s), Widths(t)
  PROVE  /\ Bytes(s) \in Int /\ Bytes(t) \in Int
         /\ Bytes(s \o t) = Bytes(s) + Bytes(t)
         /\ Widths(s \o t)
<1> DEFINE u == s \o t
           m == Len(s)
           n == Len(t)
<1>1. /\ m \in Nat /\ n \in Nat /\ Len(u) = m + n
      /\ DOMAIN s = 1..m /\ DOMAIN t = 1..n /\ DOMAIN u = 1..(m + n)
      /\ \A i \in 1..m : u[i] = s[i]
      /\ \A i \in 1..n : u[m + i] = t[i]
  BY Concatenated, LenProperties
<1> HIDE DEF u, m, n
<1>2. PICK f : Bytes(s) = f[m] /\ f[0] = 0 /\ \A i \in 1..m : f[i] = f[i - 1] + s[i].width
  BY <1>1, BytesSum DEF m
<1>3. PICK g : Bytes(t) = g[n] /\ g[0] = 0 /\ \A i \in 1..n : g[i] = g[i - 1] + t[i].width
  BY <1>1, BytesSum DEF n
<1>4. PICK h : /\ Bytes(u) = h[m + n] /\ h[0] = 0
               /\ \A i \in 1..(m + n) : h[i] = h[i - 1] + u[i].width
  <2>1. m + n \in Nat
    BY <1>1
  <2> QED  BY <1>1, <2>1, BytesSum
<1>5. \A i \in 0..m : f[i] \in Int /\ h[i] = f[i]
  <2> DEFINE I == {i \in Nat : i <= m => f[i] \in Int /\ h[i] = f[i]}
  <2>1. 0 \in I
    BY <1>2, <1>4
  <2>2. ASSUME NEW i \in I PROVE i + 1 \in I
    <3> SUFFICES ASSUME i + 1 <= m PROVE f[i + 1] \in Int /\ h[i + 1] = f[i + 1]
      OBVIOUS
    <3>1. i \in Nat /\ i + 1 \in 1..m /\ i + 1 \in 1..(m + n) /\ i + 1 - 1 = i
      BY <1>1
    <3>2. f[i] \in Int /\ h[i] = f[i]
      BY <1>1, <3>1
    <3>3. s[i + 1].width \in Int /\ u[i + 1] = s[i + 1]
      BY <1>1, <3>1 DEF Widths
    <3> QED  BY <1>2, <1>4, <3>1, <3>2, <3>3
  <2>3. I = Nat
    <3>1. I \in SUBSET Nat
      OBVIOUS
    <3> HIDE DEF I
    <3> QED  BY <2>1, <2>2, <3>1, SetInduction
  <2> QED  BY <1>1, <2>3
<1>6. \A i \in 0..n : g[i] \in Int /\ h[m + i] = f[m] + g[i]
  <2> DEFINE I == {i \in Nat : i <= n => g[i] \in Int /\ h[m + i] = f[m] + g[i]}
  <2>0. f[m] \in Int /\ h[m] = f[m]
    BY <1>1, <1>5
  <2>1. 0 \in I
    BY <1>1, <1>3, <2>0
  <2>2. ASSUME NEW i \in I PROVE i + 1 \in I
    <3> SUFFICES ASSUME i + 1 <= n PROVE g[i + 1] \in Int /\ h[m + (i + 1)] = f[m] + g[i + 1]
      OBVIOUS
    <3>1. /\ i \in Nat /\ i + 1 \in 1..n /\ m + (i + 1) \in 1..(m + n)
          /\ i + 1 - 1 = i /\ m + (i + 1) - 1 = m + i
      BY <1>1
    <3>2. g[i] \in Int /\ h[m + i] = f[m] + g[i]
      BY <1>1, <3>1
    <3>3. t[i + 1].width \in Int /\ u[m + (i + 1)] = t[i + 1]
      BY <1>1, <3>1 DEF Widths
    <3>4. h[m + (i + 1)] = h[m + i] + t[i + 1].width
      <4> DEFINE k == m + (i + 1)
      <4>1. k \in 1..(m + n) /\ k = m + (i + 1) /\ k - 1 = m + i
        BY <1>1, <3>1
      <4> HIDE DEF k
      <4>2. h[k] = h[k - 1] + u[k].width
        BY <1>4, <4>1
      <4> QED  BY <3>3, <4>1, <4>2
    <3>5. g[i + 1] = g[i] + t[i + 1].width
      BY <1>3, <3>1
    <3> QED  BY <2>0, <3>2, <3>3, <3>4, <3>5
  <2>3. I = Nat
    <3>1. I \in SUBSET Nat
      OBVIOUS
    <3> HIDE DEF I
    <3> QED  BY <2>1, <2>2, <3>1, SetInduction
  <2> QED  BY <1>1, <2>3
<1>7. Bytes(s) \in Int /\ Bytes(t) \in Int /\ Bytes(u) = Bytes(s) + Bytes(t)
  BY <1>1, <1>2, <1>3, <1>4, <1>5, <1>6
<1>8. Widths(u)
  <2> SUFFICES ASSUME NEW i \in 1..(m + n) PROVE u[i].width \in Int
    BY <1>1 DEF Widths
  <2>1. CASE i \in 1..m
    BY <1>1, <2>1 DEF Widths
  <2>2. CASE i \notin 1..m
    <3>1. i - m \in 1..n /\ m + (i - m) = i
      BY <1>1, <2>2
    <3> QED  BY <1>1, <3>1 DEF Widths
  <2> QED  BY <2>1, <2>2
<1> QED  BY <1>7, <1>8 DEF u

(* An empty packet has no bytes. *)
LEMMA BytesOfNone == Bytes(<<>>) = 0 /\ Widths(<<>>)
<1>1. Len(<<>>) = 0 /\ DOMAIN <<>> = {}
  OBVIOUS
<1> QED  BY <1>1, BytesSum DEF Widths

(* A header in bytes is as long as its layout says, and every layout as its size. *)
LEMMA BytesOfHeader ==
  ASSUME NEW L, Layout(L), NEW n \in {1, 2, 5, 7, 9}, Len(L) = n, NEW w,
         \A i \in 1..n : w[i] \in Int /\ L[i][2] = w[i],
         NEW h
  PROVE  /\ Widths(Serialize(L, h))
         /\ n = 1 => Bytes(Serialize(L, h)) = w[1]
         /\ n = 2 => Bytes(Serialize(L, h)) = w[1] + w[2]
         /\ n = 5 => Bytes(Serialize(L, h)) = w[1] + w[2] + w[3] + w[4] + w[5]
         /\ n = 7 => Bytes(Serialize(L, h)) = w[1] + w[2] + w[3] + w[4] + w[5] + w[6] + w[7]
         /\ n = 9 => Bytes(Serialize(L, h))
                       = w[1] + w[2] + w[3] + w[4] + w[5] + w[6] + w[7] + w[8] + w[9]
<1> DEFINE s == Serialize(L, h)
<1>1. /\ Len(s) = n /\ \E S : s \in Seq(S)
      /\ \A i \in 1..n : s[i] = [width |-> L[i][2], value |-> h[L[i][1]]]
  BY SerializeSequence
<1> HIDE DEF s
<1>2. ASSUME NEW i \in 1..n PROVE w[i] \in Int /\ s[i].width = w[i]
  <2>1. s[i] = [width |-> L[i][2], value |-> h[L[i][1]]]
    BY <1>1
  <2>2. s[i].width = L[i][2]
    BY <2>1
  <2> QED  BY <2>2
<1>3. Widths(s)
  <2>1. DOMAIN s = 1..n
    BY <1>1, LenProperties
  <2> QED  BY <1>2, <2>1 DEF Widths
<1>4. /\ n = 1 => Bytes(s) = w[1]
      /\ n = 2 => Bytes(s) = w[1] + w[2]
      /\ n = 5 => Bytes(s) = w[1] + w[2] + w[3] + w[4] + w[5]
      /\ n = 7 => Bytes(s) = w[1] + w[2] + w[3] + w[4] + w[5] + w[6] + w[7]
      /\ n = 9 => Bytes(s) = w[1] + w[2] + w[3] + w[4] + w[5] + w[6] + w[7] + w[8] + w[9]
  <2>1. n \in Nat /\ Len(s) = n
    BY <1>1
  <2>2. PICK f : Bytes(s) = f[n] /\ f[0] = 0 /\ \A i \in 1..n : f[i] = f[i - 1] + s[i].width
    BY <2>1, BytesSum
  <2>3. \A i \in 1..n : f[i] = f[i - 1] + w[i]
    BY <1>2, <2>2
  <2>4. f[1] = w[1]
    BY <2>2, <2>3
  <2>5. n >= 2 => f[2] = w[1] + w[2]
    BY <2>3, <2>4
  <2>6. n >= 5 => f[5] = w[1] + w[2] + w[3] + w[4] + w[5]
    BY <2>3, <2>5
  <2>7. n >= 7 => f[7] = w[1] + w[2] + w[3] + w[4] + w[5] + w[6] + w[7]
    BY <2>3, <2>6
  <2>8. n >= 9 => f[9] = w[1] + w[2] + w[3] + w[4] + w[5] + w[6] + w[7] + w[8] + w[9]
    BY <2>3, <2>7
  <2> QED  BY <2>2, <2>4, <2>5, <2>6, <2>7, <2>8
<1> QED  BY <1>3, <1>4 DEF s

(* GetSerializedSize is what Serialize writes, whatever is in the header. *)
Fits(L, size) ==
  \A h : Widths(Serialize(L, h)) /\ Bytes(Serialize(L, h)) = size

(* So it is for every header of the protocol. *)
LEMMA LayoutsFit ==
  /\ Fits(TypeWrites, TypeSize)
  /\ Fits(HelloWrites, HelloSize)
  /\ Fits(GSGeoLocationWrites, GSGeoLocationSize)
  /\ Fits(AuthenticationRequestWrites, AuthenticationRequestSize)
  /\ Fits(AuthenticationReplyWrites, AuthenticationReplySize)
  /\ Fits(SecureHelloWrites, SecureHelloSize)
  /\ Fits(SecureGSGeoLocationWrites, SecureGSGeoLocationSize)
<1>1. Fits(TypeWrites, TypeSize)
  <2> DEFINE L == TypeWrites
             n == 1
             w == <<1>>
  <2>1. Len(L) = n /\ n \in {1, 2, 5, 7, 9}
    BY DEF TypeWrites
  <2>2. \A i \in 1..n : w[i] \in Int /\ L[i][2] = w[i]
    BY DEF TypeWrites, U8, U32, U64, IPv4, CERT_SIZE, RSA_KEY_SIZE, TAG_SIZE,
           HELLO_PACKET_SIZE, GS_PACKET_SIZE
  <2>3. Layout(L)
    BY Layouts
  <2>4. n = 1 /\ w[1] = 1 /\ TypeSize = 1
    BY Sizes
  <2> HIDE DEF L, n, w
  <2>5. ASSUME NEW h PROVE Widths(Serialize(L, h)) /\ Bytes(Serialize(L, h)) = TypeSize
    BY <2>1, <2>2, <2>3, <2>4, BytesOfHeader
  <2> QED  BY <2>5 DEF Fits, L
<1>2. Fits(HelloWrites, HelloSize)
  <2> DEFINE L == HelloWrites
             n == 7
             w == <<4, 4, 4, 1, 4, 4, 4>>
  <2>1. Len(L) = n /\ n \in {1, 2, 5, 7, 9}
    BY DEF HelloWrites
  <2>2. \A i \in 1..n : w[i] \in Int /\ L[i][2] = w[i]
    BY DEF HelloWrites, U8, U32, U64, IPv4, CERT_SIZE, RSA_KEY_SIZE, TAG_SIZE,
           HELLO_PACKET_SIZE, GS_PACKET_SIZE
  <2>3. Layout(L)
    BY Layouts
  <2>4. n = 7 /\ w[1] + w[2] + w[3] + w[4] + w[5] + w[6] + w[7] = 25 /\ HelloSize = 25
    BY Sizes
  <2> HIDE DEF L, n, w
  <2>5. ASSUME NEW h PROVE Widths(Serialize(L, h)) /\ Bytes(Serialize(L, h)) = HelloSize
    BY <2>1, <2>2, <2>3, <2>4, BytesOfHeader
  <2> QED  BY <2>5 DEF Fits, L
<1>3. Fits(GSGeoLocationWrites, GSGeoLocationSize)
  <2> DEFINE L == GSGeoLocationWrites
             n == 9
             w == <<4, 4, 4, 4, 4, 4, 4, 8, 8>>
  <2>1. Len(L) = n /\ n \in {1, 2, 5, 7, 9}
    BY DEF GSGeoLocationWrites
  <2>2. \A i \in 1..n : w[i] \in Int /\ L[i][2] = w[i]
    BY DEF GSGeoLocationWrites, U8, U32, U64, IPv4, CERT_SIZE, RSA_KEY_SIZE, TAG_SIZE,
           HELLO_PACKET_SIZE, GS_PACKET_SIZE
  <2>3. Layout(L)
    BY Layouts
  <2>4. n = 9 /\ w[1] + w[2] + w[3] + w[4] + w[5] + w[6] + w[7] + w[8] + w[9] = 44 /\ GSGeoLocationSize = 44
    BY Sizes
  <2> HIDE DEF L, n, w
  <2>5. ASSUME NEW h PROVE Widths(Serialize(L, h)) /\ Bytes(Serialize(L, h)) = GSGeoLocationSize
    BY <2>1, <2>2, <2>3, <2>4, BytesOfHeader
  <2> QED  BY <2>5 DEF Fits, L
<1>4. Fits(AuthenticationRequestWrites, AuthenticationRequestSize)
  <2> DEFINE L == AuthenticationRequestWrites
             n == 5
             w == <<727, 8, 4, 1, 256>>
  <2>1. Len(L) = n /\ n \in {1, 2, 5, 7, 9}
    BY DEF AuthenticationRequestWrites
  <2>2. \A i \in 1..n : w[i] \in Int /\ L[i][2] = w[i]
    BY DEF AuthenticationRequestWrites, U8, U32, U64, IPv4, CERT_SIZE, RSA_KEY_SIZE, TAG_SIZE,
           HELLO_PACKET_SIZE, GS_PACKET_SIZE
  <2>3. Layout(L)
    BY Layouts
  <2>4. n = 5 /\ w[1] + w[2] + w[3] + w[4] + w[5] = 996 /\ AuthenticationRequestSize = 996
    BY Sizes
  <2> HIDE DEF L, n, w
  <2>5. ASSUME NEW h PROVE Widths(Serialize(L, h)) /\ Bytes(Serialize(L, h)) = AuthenticationRequestSize
    BY <2>1, <2>2, <2>3, <2>4, BytesOfHeader
  <2> QED  BY <2>5 DEF Fits, L
<1>5. Fits(AuthenticationReplyWrites, AuthenticationReplySize)
  <2> DEFINE L == AuthenticationReplyWrites
             n == 7
             w == <<727, 8, 4, 4, 1, 256, 256>>
  <2>1. Len(L) = n /\ n \in {1, 2, 5, 7, 9}
    BY DEF AuthenticationReplyWrites
  <2>2. \A i \in 1..n : w[i] \in Int /\ L[i][2] = w[i]
    BY DEF AuthenticationReplyWrites, U8, U32, U64, IPv4, CERT_SIZE, RSA_KEY_SIZE, TAG_SIZE,
           HELLO_PACKET_SIZE, GS_PACKET_SIZE
  <2>3. Layout(L)
    BY Layouts
  <2>4. n = 7 /\ w[1] + w[2] + w[3] + w[4] + w[5] + w[6] + w[7] = 1256 /\ AuthenticationReplySize = 1256
    BY Sizes
  <2> HIDE DEF L, n, w
  <2>5. ASSUME NEW h PROVE Widths(Serialize(L, h)) /\ Bytes(Serialize(L, h)) = AuthenticationReplySize
    BY <2>1, <2>2, <2>3, <2>4, BytesOfHeader
  <2> QED  BY <2>5 DEF Fits, L
<1>6. Fits(SecureHelloWrites, SecureHelloSize)
  <2> DEFINE L == SecureHelloWrites
             n == 2
             w == <<25, 16>>
  <2>1. Len(L) = n /\ n \in {1, 2, 5, 7, 9}
    BY DEF SecureHelloWrites
  <2>2. \A i \in 1..n : w[i] \in Int /\ L[i][2] = w[i]
    BY DEF SecureHelloWrites, U8, U32, U64, IPv4, CERT_SIZE, RSA_KEY_SIZE, TAG_SIZE,
           HELLO_PACKET_SIZE, GS_PACKET_SIZE
  <2>3. Layout(L)
    BY Layouts
  <2>4. n = 2 /\ w[1] + w[2] = 41 /\ SecureHelloSize = 41
    BY Sizes
  <2> HIDE DEF L, n, w
  <2>5. ASSUME NEW h PROVE Widths(Serialize(L, h)) /\ Bytes(Serialize(L, h)) = SecureHelloSize
    BY <2>1, <2>2, <2>3, <2>4, BytesOfHeader
  <2> QED  BY <2>5 DEF Fits, L
<1>7. Fits(SecureGSGeoLocationWrites, SecureGSGeoLocationSize)
  <2> DEFINE L == SecureGSGeoLocationWrites
             n == 2
             w == <<44, 16>>
  <2>1. Len(L) = n /\ n \in {1, 2, 5, 7, 9}
    BY DEF SecureGSGeoLocationWrites
  <2>2. \A i \in 1..n : w[i] \in Int /\ L[i][2] = w[i]
    BY DEF SecureGSGeoLocationWrites, U8, U32, U64, IPv4, CERT_SIZE, RSA_KEY_SIZE, TAG_SIZE,
           HELLO_PACKET_SIZE, GS_PACKET_SIZE
  <2>3. Layout(L)
    BY Layouts
  <2>4. n = 2 /\ w[1] + w[2] = 60 /\ SecureGSGeoLocationSize = 60
    BY Sizes
  <2> HIDE DEF L, n, w
  <2>5. ASSUME NEW h PROVE Widths(Serialize(L, h)) /\ Bytes(Serialize(L, h)) = SecureGSGeoLocationSize
    BY <2>1, <2>2, <2>3, <2>4, BytesOfHeader
  <2> QED  BY <2>5 DEF Fits, L
<1> QED  BY <1>1, <1>2, <1>3, <1>4, <1>5, <1>6, <1>7

(* A packet is as long as its fields. *)
Honest(p) == Widths(p.bytes) /\ p.size = Bytes(p.bytes)

(* AddHeader keeps it so, when the size it is given is that of what it writes. *)
LEMMA HonestAdded ==
  ASSUME NEW c, Packet(c), Honest(c), NEW size \in Int, NEW L, Layout(L), Fits(L, size), NEW h,
         NEW d, d = AddHeader(c, size, L, h)
  PROVE  Honest(d)
<1> DEFINE s == Serialize(L, h)
           t == c.bytes
<1>1. PICK S : t \in Seq(S)
  BY DEF Packet
<1>2. PICK T : s \in Seq(T)
  BY SerializeSequence
<1>3. Widths(s) /\ Bytes(s) = size /\ Widths(t) /\ Bytes(t) = c.size
  BY DEF Fits, Honest
<1>4. d.size = c.size + size /\ d.bytes = s \o t
  BY DEF AddHeader, Packet
<1> HIDE DEF s, t
<1>5. s \in Seq(S \cup T) /\ t \in Seq(S \cup T)
  BY <1>1, <1>2, SeqMonotonic
<1>6. /\ Bytes(s) \in Int /\ Bytes(t) \in Int
      /\ Bytes(s \o t) = Bytes(s) + Bytes(t) /\ Widths(s \o t)
  BY <1>3, <1>5, BytesJoined
<1> QED  BY <1>3, <1>4, <1>6 DEF Honest

(* So does its type. *)
LEMMA HonestTyped ==
  ASSUME NEW d, Packet(d), Honest(d), NEW type, NEW p, p = AddTypeHeader(d, type)
  PROVE  Honest(p)
<1> DEFINE h == [type |-> MessageType[type]]
<1>1. p = AddHeader(d, TypeSize, TypeWrites, h)
  BY DEF AddTypeHeader
<1>2. Layout(TypeWrites) /\ Fits(TypeWrites, TypeSize) /\ TypeSize \in Int
  BY Layouts, LayoutsFit, Sizes
<1> HIDE DEF h
<1> QED  BY <1>1, <1>2, HonestAdded

-----------------------------------------------------------------------------
(* RouteOutput *)

(* The header of p, read with this layout, is the text sealed with the key and the packet's *)
(* own addresses and identifier.                                                             *)
Seals(p, layout, text) ==
  Deserialize(layout, RemoveTypeHeader(p).bytes)
    = Encryption(text, <<p.src, p.dst>>, SharedKey, p.uid)

(* A header that seals a text with the data of a packet: what is sent opens with its own. *)
LEMMA SealedHeader ==
  ASSUME NEW c, Packet(c), NEW p, SameEnvelope(c, p), NEW text, NEW size \in Int, NEW type,
         NEW L, L \in {SecureHelloWrites, SecureGSGeoLocationWrites},
         NEW s, s = Sealed(p, text), NEW h, h.cipher = s.cipher, h.tag = s.tag,
         NEW d, d = AddHeader(c, size, L, h),
         NEW q, q = AddTypeHeader(d, type)
  PROVE  /\ SameEnvelope(c, q) /\ q.size = c.size + size + 1
         /\ TypeOf(q) = MessageType[type]
         /\ Seals(q, L, text)
<1>1. Layout(L)
  BY Layouts
<1>2. Packet(d) /\ SameEnvelope(c, d) /\ d.size = c.size + size
  BY <1>1, HeaderAdded
<1>3. Deserialize(L, d.bytes) = [name \in {L[i][1] : i \in DOMAIN L} |-> h[name]]
  <2>1. Deserialize(L, AddHeader(c, size, L, h).bytes) = [name \in {L[i][1] : i \in DOMAIN L} |-> h[name]]
    BY <1>1, ReadsBack
  <2> QED  BY <2>1
<1>5. /\ SameEnvelope(d, q) /\ q.size = d.size + 1
      /\ TypeOf(q) = MessageType[type] /\ RemoveTypeHeader(q) = d
  BY <1>2, Typed
<1>6. {L[i][1] : i \in DOMAIN L} = {"cipher", "tag"}
  BY DEF SecureHelloWrites, SecureGSGeoLocationWrites
<1>7. s = Encryption(text, <<p.src, p.dst>>, SharedKey, p.uid)
  BY DEF Sealed
<1>8. Deserialize(L, d.bytes) = [cipher |-> s.cipher, tag |-> s.tag]
  <2>1. Deserialize(L, d.bytes) = [name \in {"cipher", "tag"} |-> h[name]]
    BY <1>3, <1>6
  <2> QED  BY <2>1
<1>9. Deserialize(L, d.bytes) = Encryption(text, <<q.src, q.dst>>, SharedKey, q.uid)
  <2>1. q.src = p.src /\ q.dst = p.dst /\ q.uid = p.uid
    BY <1>2, <1>5 DEF SameEnvelope
  <2>2. s = [cipher |-> s.cipher, tag |-> s.tag]
    BY <1>7 DEF Encryption
  <2> QED  BY <1>7, <1>8, <2>1, <2>2
<1>10. Seals(q, L, text)
  BY <1>5, <1>9 DEF Seals
<1>11. SameEnvelope(c, q)
  BY <1>2, <1>5 DEF SameEnvelope
<1>12. q.size = c.size + size + 1
  BY <1>2, <1>5
<1> QED  BY <1>5, <1>10, <1>11, <1>12

(* A HELLO leaves in secure form exactly in secure mode. *)
LEMMA HelloOut ==
  ASSUME NEW c, Packet(c), c.size = 0, Honest(c), NEW h,
         NEW d, d = AddHeader(c, HelloSize, HelloWrites, h),
         NEW p, p = AddTypeHeader(d, "AERORPTYPE_HELLO")
  PROVE  /\ SameEnvelope(c, RouteOutput(p))
         /\ secure => /\ TypeOf(RouteOutput(p)) = 6
                      /\ Seals(RouteOutput(p), SecureHelloReads, d.bytes)
         /\ ~secure => TypeOf(RouteOutput(p)) = 1 /\ RemoveTypeHeader(RouteOutput(p)) = d
         /\ Honest(RouteOutput(p))
<1>1. /\ Layout(HelloWrites) /\ HelloReads = HelloWrites /\ SecureHelloReads = SecureHelloWrites
      /\ HelloSize = 25 /\ SecureHelloSize = 41
  BY Layouts, Sizes
<1>2. Packet(d) /\ SameEnvelope(c, d) /\ d.size = 25
  <2>1. Packet(d) /\ SameEnvelope(c, d) /\ d.size = c.size + HelloSize
    BY <1>1, HeaderAdded
  <2> QED  BY <1>1, <2>1
<1>3. RemoveHeader(d, HelloSize, HelloReads) = c
  BY <1>1, RemoveUndoes
<1>4. p = AddTypeHeader(d, "AERORPTYPE_HELLO")
  OBVIOUS
<1>5. /\ SameEnvelope(d, p) /\ p.size = 26
      /\ TypeOf(p) = MessageType["AERORPTYPE_HELLO"] /\ RemoveTypeHeader(p) = d
  <2>1. /\ SameEnvelope(d, p) /\ p.size = d.size + 1
        /\ TypeOf(p) = MessageType["AERORPTYPE_HELLO"] /\ RemoveTypeHeader(p) = d
    BY <1>2, <1>4, Typed
  <2> QED  BY <1>2, <2>1
<1>6. SameEnvelope(c, p)
  BY <1>2, <1>5 DEF SameEnvelope
<1>7. Honest(p)
  <2>1. Honest(d)
    BY <1>1, LayoutsFit, HonestAdded
  <2> QED  BY <1>2, <2>1, HonestTyped
<1>8. CASE ~secure
  <2>1. RouteOutput(p) = p
    BY <1>8 DEF RouteOutput
  <2> QED  BY <1>5, <1>6, <1>8, <1>7, <2>1 DEF MessageType
<1>9. CASE secure
  <2> DEFINE s == Sealed(p, d.bytes)
             g == [cipher |-> s.cipher, tag |-> s.tag]
             q == AddTypeHeader(AddHeader(c, 41, SecureHelloWrites, g), "AERORPTYPE_SECURE_HELLO")
  <2>1. SecureHello(p) = q
    BY <1>1, <1>3, <1>5 DEF SecureHello, SecureHelloHeader
  <2> HIDE DEF q, g
  <2>2. /\ SameEnvelope(c, q) /\ q.size = c.size + 41 + 1
        /\ TypeOf(q) = MessageType["AERORPTYPE_SECURE_HELLO"]
        /\ Seals(q, SecureHelloWrites, d.bytes) /\ Honest(q)
    <3> DEFINE L == SecureHelloWrites
               text == d.bytes
               size == 41
               e == AddHeader(c, size, L, g)
               type == "AERORPTYPE_SECURE_HELLO"
    <3>1. /\ size \in Int /\ L \in {SecureHelloWrites, SecureGSGeoLocationWrites}
          /\ e = AddHeader(c, size, L, g) /\ q = AddTypeHeader(e, type)
          /\ s = Sealed(p, text) /\ g.cipher = s.cipher /\ g.tag = s.tag
      BY DEF q, g
    <3>2. Layout(L) /\ Fits(L, size)
      BY <1>1, Layouts, LayoutsFit
    <3> HIDE DEF e, size, L, text, type, s
    <3>3. /\ SameEnvelope(c, q) /\ q.size = c.size + size + 1
          /\ TypeOf(q) = MessageType[type] /\ Seals(q, L, text)
      BY <1>6, <3>1, SealedHeader
    <3>4. Packet(e) /\ Honest(e)
      BY <3>1, <3>2, HeaderAdded, HonestAdded
    <3>5. Honest(q)
      BY <3>1, <3>4, HonestTyped
    <3> QED  BY <3>3, <3>5 DEF size, L, text, type
  <2>3. q.size = 42
    BY <2>2
  <2>4. RouteOutput(p) = q
    BY <1>5, <1>9, <2>1, <2>3 DEF RouteOutput, HELLO_PACKET_SIZE, GS_PACKET_SIZE,
                                PACKET_DATA_LEN_BEFORE_ENCRYPTON
  <2> QED  BY <1>1, <1>9, <2>2, <2>4 DEF MessageType
<1> QED  BY <1>8, <1>9

(* So does a position. *)
LEMMA PositionOut ==
  ASSUME NEW c, Packet(c), c.size = 0, Honest(c), NEW h,
         NEW d, d = AddHeader(c, GSGeoLocationSize, GSGeoLocationWrites, h),
         NEW p, p = AddTypeHeader(d, "AERORPTYPE_GSGEOLOCATION")
  PROVE  /\ SameEnvelope(c, RouteOutput(p))
         /\ secure => /\ TypeOf(RouteOutput(p)) = 7
                      /\ Seals(RouteOutput(p), SecureGSGeoLocationReads, d.bytes)
         /\ ~secure => TypeOf(RouteOutput(p)) = 2 /\ RemoveTypeHeader(RouteOutput(p)) = d
         /\ Honest(RouteOutput(p))
<1>1. /\ Layout(GSGeoLocationWrites) /\ GSGeoLocationReads = GSGeoLocationWrites
      /\ SecureGSGeoLocationReads = SecureGSGeoLocationWrites
      /\ GSGeoLocationSize = 44 /\ SecureGSGeoLocationSize = 60
  BY Layouts, Sizes
<1>2. Packet(d) /\ SameEnvelope(c, d) /\ d.size = 44
  <2>1. Packet(d) /\ SameEnvelope(c, d) /\ d.size = c.size + GSGeoLocationSize
    BY <1>1, HeaderAdded
  <2> QED  BY <1>1, <2>1
<1>3. RemoveHeader(d, GSGeoLocationSize, GSGeoLocationReads) = c
  BY <1>1, RemoveUndoes
<1>4. p = AddTypeHeader(d, "AERORPTYPE_GSGEOLOCATION")
  OBVIOUS
<1>5. /\ SameEnvelope(d, p) /\ p.size = 45
      /\ TypeOf(p) = MessageType["AERORPTYPE_GSGEOLOCATION"] /\ RemoveTypeHeader(p) = d
  <2>1. /\ SameEnvelope(d, p) /\ p.size = d.size + 1
        /\ TypeOf(p) = MessageType["AERORPTYPE_GSGEOLOCATION"] /\ RemoveTypeHeader(p) = d
    BY <1>2, <1>4, Typed
  <2> QED  BY <1>2, <2>1
<1>6. SameEnvelope(c, p)
  BY <1>2, <1>5 DEF SameEnvelope
<1>7. Honest(p)
  <2>1. Honest(d)
    BY <1>1, LayoutsFit, HonestAdded
  <2> QED  BY <1>2, <2>1, HonestTyped
<1>8. CASE ~secure
  <2>1. RouteOutput(p) = p
    BY <1>8 DEF RouteOutput
  <2> QED  BY <1>5, <1>6, <1>8, <1>7, <2>1 DEF MessageType
<1>9. CASE secure
  <2> DEFINE s == Sealed(p, d.bytes)
             g == [cipher |-> s.cipher, tag |-> s.tag]
             q == AddTypeHeader(AddHeader(c, 60, SecureGSGeoLocationWrites, g),
                                "AERORPTYPE_SECURE_GSGEOLOCATION")
  <2>1. SecureGSGeoLocation(p) = q
    BY <1>1, <1>3, <1>5 DEF SecureGSGeoLocation, SecureGSGeoLocationHeader
  <2> HIDE DEF q, g
  <2>2. /\ SameEnvelope(c, q) /\ q.size = c.size + 60 + 1
        /\ TypeOf(q) = MessageType["AERORPTYPE_SECURE_GSGEOLOCATION"]
        /\ Seals(q, SecureGSGeoLocationWrites, d.bytes) /\ Honest(q)
    <3> DEFINE L == SecureGSGeoLocationWrites
               text == d.bytes
               size == 60
               e == AddHeader(c, size, L, g)
               type == "AERORPTYPE_SECURE_GSGEOLOCATION"
    <3>1. /\ size \in Int /\ L \in {SecureHelloWrites, SecureGSGeoLocationWrites}
          /\ e = AddHeader(c, size, L, g) /\ q = AddTypeHeader(e, type)
          /\ s = Sealed(p, text) /\ g.cipher = s.cipher /\ g.tag = s.tag
      BY DEF q, g
    <3>2. Layout(L) /\ Fits(L, size)
      BY <1>1, Layouts, LayoutsFit
    <3> HIDE DEF e, size, L, text, type, s
    <3>3. /\ SameEnvelope(c, q) /\ q.size = c.size + size + 1
          /\ TypeOf(q) = MessageType[type] /\ Seals(q, L, text)
      BY <1>6, <3>1, SealedHeader
    <3>4. Packet(e) /\ Honest(e)
      BY <3>1, <3>2, HeaderAdded, HonestAdded
    <3>5. Honest(q)
      BY <3>1, <3>4, HonestTyped
    <3> QED  BY <3>3, <3>5 DEF size, L, text, type
  <2>3. q.size = 61
    BY <2>2
  <2>4. RouteOutput(p) = q
    BY <1>5, <1>9, <2>1, <2>3 DEF RouteOutput, HELLO_PACKET_SIZE, GS_PACKET_SIZE,
                                PACKET_DATA_LEN_BEFORE_ENCRYPTON
  <2> QED  BY <1>1, <1>9, <2>2, <2>4 DEF MessageType
<1> QED  BY <1>8, <1>9

(* Packets of the handshake leave as they are. *)
LEMMA HandshakeOut ==
  ASSUME NEW c, Packet(c), c.size = 0, Honest(c), NEW h, NEW L, Layout(L), NEW type,
         NEW size \in {AuthenticationRequestSize, AuthenticationReplySize}, Fits(L, size),
         NEW p, p = AddTypeHeader(AddHeader(c, size, L, h), type)
  PROVE  /\ SameEnvelope(c, RouteOutput(p))
         /\ TypeOf(RouteOutput(p)) = MessageType[type]
         /\ Deserialize(L, RemoveTypeHeader(RouteOutput(p)).bytes)
              = [name \in {L[i][1] : i \in DOMAIN L} |-> h[name]]
         /\ Honest(RouteOutput(p))
<1> DEFINE d == AddHeader(c, size, L, h)
<1>1. size \in {996, 1256}
  BY Sizes
<1>2. Packet(d) /\ SameEnvelope(c, d) /\ d.size = size
  <2>1. Packet(d) /\ SameEnvelope(c, d) /\ d.size = c.size + size
    BY <1>1, HeaderAdded
  <2> QED  BY <1>1, <2>1
<1>3. Deserialize(L, d.bytes) = [name \in {L[i][1] : i \in DOMAIN L} |-> h[name]]
  BY <1>1, ReadsBack
<1>4. p = AddTypeHeader(d, type) /\ d = AddHeader(c, size, L, h)
  OBVIOUS
<1> HIDE DEF d
<1>5. Honest(p)
  <2>1. Honest(d)
    BY <1>1, <1>4, HonestAdded
  <2> QED  BY <1>2, <1>4, <2>1, HonestTyped
<1>6. /\ SameEnvelope(d, p) /\ p.size = d.size + 1
      /\ TypeOf(p) = MessageType[type] /\ RemoveTypeHeader(p) = d
  BY <1>2, <1>4, Typed
<1>7. p.size \in {997, 1257}
  BY <1>1, <1>2, <1>6
<1>8. RouteOutput(p) = p
  BY <1>7 DEF RouteOutput, HELLO_PACKET_SIZE, GS_PACKET_SIZE, PACKET_DATA_LEN_BEFORE_ENCRYPTON
<1> QED  BY <1>2, <1>3, <1>6, <1>8, <1>5 DEF SameEnvelope

-----------------------------------------------------------------------------
(* The invariant *)

Kinds == {"HELLO", "GSGEOLOCATION", "REQUEST", "REPLY", "DATA"}

KeyIn(p) == Deserialize(AuthenticationReplyReads, RemoveTypeHeader(p).bytes).sharedKey.key

(* The number of the type that a control packet leaves with *)
NumberOf(kind, sec) ==
  CASE kind = "HELLO"         -> IF sec THEN 6 ELSE 1
    [] kind = "GSGEOLOCATION" -> IF sec THEN 7 ELSE 2
    [] kind = "REQUEST"       -> 4
    [] kind = "REPLY"         -> 5

(* After the type, p holds this text, sealed in secure mode. *)
Carries(p, sec, layout, text) ==
  /\ sec => Seals(p, layout, text)
  /\ ~sec => RemoveTypeHeader(p).bytes = text

Place(bytes) ==
  LET h == Deserialize(GSGeoLocationReads, bytes)
  IN  [x |-> h.posx, y |-> h.posy, z |-> h.posz]

(* The position in these bytes is the one that was told, in whole metres. *)
Tells(bytes, about) ==
  /\ about \in Nodes \X [Codec!Axis -> Coordinates]
  /\ Deserialize(GSGeoLocationReads, bytes).node = about[1]
  /\ Place(bytes) \in [Codec!Axis -> 0..MaxU32]
  /\ \A a \in Codec!Axis : Codec!WholePart(Place(bytes)[a], about[2][a])

(* A packet under way, in secure mode or not *)
Sound(p, sec) ==
  /\ p.kind \in Kinds /\ p.src \in Nodes /\ p.dst \in {Gs, Me, Broadcast}
  /\ p.size = Bytes(p.bytes)
  /\ p.kind # "DATA" => TypeOf(p) = NumberOf(p.kind, sec)
  /\ p.kind = "DATA"
       => p.dst = Me /\ p.size = IF sec /\ p.about = PACKET_DATA_LEN_BEFORE_ENCRYPTON
                                THEN PACKET_DATA_LEN_AFTER_ENCRYPTON ELSE p.about
  /\ p.kind = "REQUEST" => p.src = Me
  /\ p.kind = "HELLO" => \E text : Carries(p, sec, SecureHelloReads, text)
  /\ p.kind = "GSGEOLOCATION"
       => \E text : Carries(p, sec, SecureGSGeoLocationReads, text) /\ Tells(text, p.about)
  /\ p.kind = "REPLY" => KeyIn(p) = SharedKey

PacketInv ==
  /\ \E S : up \in Seq(S)
  /\ \A p \in Messages : Sound(p, secure)
  /\ status = "AUTH" => key = SharedKey

IInv == TypeOK /\ PacketInv /\ PositionsAsTold

(* A new packet is empty and of its kind. *)
LEMMA Created ==
  ASSUME NEW kind, NEW uid, NEW src, NEW dst, NEW about,
         NEW c, c = Create(kind, uid, src, dst, about)
  PROVE  /\ Packet(c) /\ c.size = 0 /\ Honest(c)
         /\ c.kind = kind /\ c.src = src /\ c.dst = dst /\ c.about = about
<1> DEFINE S == {kind, uid, src, dst, about}
<1>1. c = [kind |-> kind, uid |-> uid, src |-> src, dst |-> dst, about |-> about,
           size |-> 0, bytes |-> <<>>]
  BY DEF Create
<1>2. <<>> \in Seq(S)
  BY EmptySeq
<1>3. kind \in S /\ uid \in S /\ src \in S /\ dst \in S /\ about \in S
  OBVIOUS
<1> HIDE DEF S
<1>4. c \in [kind : S, uid : S, src : S, dst : S, about : S, size : Int, bytes : Seq(S)]
  BY <1>1, <1>2, <1>3
<1>5. Honest(c)
  BY <1>1, BytesOfNone DEF Honest
<1> QED  BY <1>1, <1>4, <1>5 DEF Packet

(* Dropping the fraction of a coordinate leaves its whole part, which fits. *)
Facts == INSTANCE HelloCodecProofs
         WITH position <- flight.pos, velocity <- flight.vel, packet <- HellosUnderWay

(* The cast of SendGroundStationPackets stays within 32 bits. *)
LEMMA Truncated ==
  ASSUME NEW v \in Coordinates
  PROVE  /\ Codec!Truncate(v) \in 0..MaxU32
         /\ Codec!WholePart(Codec!Truncate(v), v)
<1>1. v \in Nat /\ v < (MaxU32 + 1) * Scale
  BY MotionsAssumption
<1>2. /\ Facts!Truncate(v) \in 0..MaxU32
      /\ Facts!Truncate(v) * Scale <= v /\ v < (Facts!Truncate(v) + 1) * Scale
  BY <1>1, MotionsAssumption, Facts!TruncateCorrect
<1> QED  BY <1>1, <1>2 DEF Facts!Truncate, Codec!Truncate, Codec!WholePart

(* What the senders send is sound. *)
LEMMA HelloSound ==
  ASSUME NEW uid, NEW src \in Nodes, NEW dst \in {Gs, Me, Broadcast}, NEW about, NEW h,
         NEW d, d = AddHeader(Create("HELLO", uid, src, dst, about), HelloSize, HelloWrites, h),
         NEW p, p = AddTypeHeader(d, "AERORPTYPE_HELLO")
  PROVE  /\ Sound(RouteOutput(p), secure)
         /\ RouteOutput(p).kind = "HELLO"
         /\ Carries(RouteOutput(p), secure, SecureHelloReads, d.bytes)
<1> DEFINE c == Create("HELLO", uid, src, dst, about)
<1>1. Packet(c) /\ c.size = 0 /\ Honest(c) /\ c.kind = "HELLO" /\ c.src = src /\ c.dst = dst
  BY Created
<1>2. d = AddHeader(c, HelloSize, HelloWrites, h)
  OBVIOUS
<1> HIDE DEF c
<1>3. /\ SameEnvelope(c, RouteOutput(p))
      /\ secure => /\ TypeOf(RouteOutput(p)) = 6
                   /\ Seals(RouteOutput(p), SecureHelloReads, d.bytes)
      /\ ~secure => TypeOf(RouteOutput(p)) = 1 /\ RemoveTypeHeader(RouteOutput(p)) = d
      /\ Honest(RouteOutput(p))
  BY <1>1, <1>2, HelloOut
<1>4. /\ RouteOutput(p).kind = "HELLO"
      /\ RouteOutput(p).src \in Nodes /\ RouteOutput(p).dst \in {Gs, Me, Broadcast}
  BY <1>1, <1>3 DEF SameEnvelope
<1>5. TypeOf(RouteOutput(p)) = NumberOf("HELLO", secure)
  BY <1>3 DEF NumberOf
<1>6. Carries(RouteOutput(p), secure, SecureHelloReads, d.bytes)
  BY <1>3 DEF Carries
<1>7. RouteOutput(p).size = Bytes(RouteOutput(p).bytes)
  BY <1>3 DEF Honest
<1> QED  BY <1>4, <1>5, <1>6, <1>7 DEF Sound, Kinds

(* The broadcast of SendGroundStationPackets, in either form *)
LEMMA PositionSound ==
  ASSUME NEW uid, NEW src \in Nodes, NEW dst \in {Gs, Me, Broadcast},
         NEW about \in Nodes \X [Codec!Axis -> Coordinates], NEW h,
         h.node = about[1],
         h.posx = Codec!Truncate(about[2].x), h.posy = Codec!Truncate(about[2].y),
         h.posz = Codec!Truncate(about[2].z),
         NEW p, p = AddTypeHeader(AddHeader(Create("GSGEOLOCATION", uid, src, dst, about),
                                            GSGeoLocationSize, GSGeoLocationWrites, h),
                                  "AERORPTYPE_GSGEOLOCATION")
  PROVE  Sound(RouteOutput(p), secure) /\ RouteOutput(p).kind = "GSGEOLOCATION"
<1> DEFINE c == Create("GSGEOLOCATION", uid, src, dst, about)
           d == AddHeader(c, GSGeoLocationSize, GSGeoLocationWrites, h)
<1>1. /\ Packet(c) /\ c.size = 0 /\ Honest(c) /\ c.kind = "GSGEOLOCATION"
      /\ c.src = src /\ c.dst = dst /\ c.about = about
  BY Created
<1>2. p = AddTypeHeader(d, "AERORPTYPE_GSGEOLOCATION")
  OBVIOUS
<1> HIDE DEF c
<1>3. /\ SameEnvelope(c, RouteOutput(p))
      /\ secure => /\ TypeOf(RouteOutput(p)) = 7
                   /\ Seals(RouteOutput(p), SecureGSGeoLocationReads, d.bytes)
      /\ ~secure => TypeOf(RouteOutput(p)) = 2 /\ RemoveTypeHeader(RouteOutput(p)) = d
      /\ Honest(RouteOutput(p))
  <2> HIDE DEF d
  <2>1. d = AddHeader(c, GSGeoLocationSize, GSGeoLocationWrites, h)
    BY DEF d
  <2> QED  BY <1>1, <1>2, <2>1, PositionOut
<1>4. /\ RouteOutput(p).kind = "GSGEOLOCATION" /\ RouteOutput(p).about = about
      /\ RouteOutput(p).src \in Nodes /\ RouteOutput(p).dst \in {Gs, Me, Broadcast}
  BY <1>1, <1>3 DEF SameEnvelope
<1>5. TypeOf(RouteOutput(p)) = NumberOf("GSGEOLOCATION", secure)
  BY <1>3 DEF NumberOf
<1>6. Carries(RouteOutput(p), secure, SecureGSGeoLocationReads, d.bytes)
  BY <1>3 DEF Carries
<1>7. Tells(d.bytes, about)
  <2> DEFINE e == Deserialize(GSGeoLocationReads, d.bytes)
             names == {GSGeoLocationWrites[i][1] : i \in DOMAIN GSGeoLocationWrites}
  <2>1. e = [name \in names |-> h[name]]
    BY <1>1, Layouts, Sizes, ReadsBack
  <2>2. {"node", "posx", "posy", "posz"} \subseteq names
    <3>1. /\ {1, 2, 3, 4} \subseteq DOMAIN GSGeoLocationWrites
          /\ GSGeoLocationWrites[1][1] = "node" /\ GSGeoLocationWrites[2][1] = "posx"
          /\ GSGeoLocationWrites[3][1] = "posy" /\ GSGeoLocationWrites[4][1] = "posz"
      BY DEF GSGeoLocationWrites
    <3> QED  BY <3>1
  <2> HIDE DEF e, names
  <2>3. e.node = h.node /\ e.posx = h.posx /\ e.posy = h.posy /\ e.posz = h.posz
    BY <2>1, <2>2
  <2>4. /\ e.node = about[1]
        /\ Place(d.bytes) = [x |-> Codec!Truncate(about[2].x), y |-> Codec!Truncate(about[2].y),
                             z |-> Codec!Truncate(about[2].z)]
    BY <2>3 DEF Place, e
  <2>5. \A a \in Codec!Axis : about[2][a] \in Coordinates
    OBVIOUS
  <2>6. \A a \in Codec!Axis : Place(d.bytes)[a] = Codec!Truncate(about[2][a])
    BY <2>4 DEF Codec!Axis
  <2>7. \A a \in Codec!Axis : /\ Place(d.bytes)[a] \in 0..MaxU32
                              /\ Codec!WholePart(Place(d.bytes)[a], about[2][a])
    BY <2>5, <2>6, Truncated
  <2>8. Place(d.bytes) \in [Codec!Axis -> 0..MaxU32]
    BY <2>4, <2>7 DEF Codec!Axis
  <2> QED  BY <2>4, <2>7, <2>8 DEF Tells, e
<1>8. RouteOutput(p).size = Bytes(RouteOutput(p).bytes)
  BY <1>3 DEF Honest
<1> QED  BY <1>4, <1>5, <1>6, <1>7, <1>8 DEF Sound, Kinds

(* The request of SendAuthenticationRequest carries nothing but its type. *)
LEMMA RequestSound ==
  ASSUME NEW uid, NEW src, src = Me, NEW dst \in {Gs, Me, Broadcast}, NEW about, NEW h,
         NEW p, p = AddTypeHeader(AddHeader(Create("REQUEST", uid, src, dst, about),
                                            AuthenticationRequestSize, AuthenticationRequestWrites, h),
                                  "AERORPTYPE_AUTHENTICATIONREQUEST")
  PROVE  Sound(RouteOutput(p), secure) /\ RouteOutput(p).kind = "REQUEST"
<1> DEFINE c == Create("REQUEST", uid, src, dst, about)
<1>1. Packet(c) /\ c.size = 0 /\ Honest(c) /\ c.kind = "REQUEST" /\ c.src = src /\ c.dst = dst
  BY Created
<1>2. p = AddTypeHeader(AddHeader(c, AuthenticationRequestSize, AuthenticationRequestWrites, h),
                        "AERORPTYPE_AUTHENTICATIONREQUEST")
  OBVIOUS
<1> HIDE DEF c
<1>3. /\ SameEnvelope(c, RouteOutput(p))
      /\ TypeOf(RouteOutput(p)) = MessageType["AERORPTYPE_AUTHENTICATIONREQUEST"]
      /\ Honest(RouteOutput(p))
  <2> DEFINE L == AuthenticationRequestWrites
             size == AuthenticationRequestSize
             type == "AERORPTYPE_AUTHENTICATIONREQUEST"
  <2>1. Layout(L) /\ Fits(L, size) /\ size \in {AuthenticationRequestSize, AuthenticationReplySize}
    BY Layouts, LayoutsFit
  <2>2. p = AddTypeHeader(AddHeader(c, size, L, h), type)
    BY <1>2
  <2> HIDE DEF L, size, type
  <2>3. /\ SameEnvelope(c, RouteOutput(p))
        /\ TypeOf(RouteOutput(p)) = MessageType[type]
        /\ Deserialize(L, RemoveTypeHeader(RouteOutput(p)).bytes)
             = [name \in {L[i][1] : i \in DOMAIN L} |-> h[name]]
        /\ Honest(RouteOutput(p))
    BY <1>1, <2>1, <2>2, HandshakeOut
  <2> QED  BY <2>3 DEF type
<1>4. /\ RouteOutput(p).kind = "REQUEST"
      /\ RouteOutput(p).src = Me /\ RouteOutput(p).dst \in {Gs, Me, Broadcast}
  BY <1>1, <1>3 DEF SameEnvelope
<1>5. TypeOf(RouteOutput(p)) = 4
  BY <1>3 DEF MessageType
<1>6. RouteOutput(p).size = Bytes(RouteOutput(p).bytes)
  BY <1>3 DEF Honest
<1> QED  BY <1>4, <1>5, <1>6 DEF Sound, Kinds, NumberOf, Nodes

(* The reply of RecvAuthenticationRequest carries the shared key. *)
LEMMA ReplySound ==
  ASSUME NEW uid, NEW src \in Nodes, NEW dst \in {Gs, Me, Broadcast}, NEW about, NEW h,
         h.sharedKey.key = SharedKey,
         NEW p, p = AddTypeHeader(AddHeader(Create("REPLY", uid, src, dst, about),
                                            AuthenticationReplySize, AuthenticationReplyWrites, h),
                                  "AERORPTYPE_AUTHENTICATIONREPLY")
  PROVE  Sound(RouteOutput(p), secure) /\ RouteOutput(p).kind = "REPLY"
<1> DEFINE c == Create("REPLY", uid, src, dst, about)
<1>1. Packet(c) /\ c.size = 0 /\ Honest(c) /\ c.kind = "REPLY" /\ c.src = src /\ c.dst = dst
  BY Created
<1>2. p = AddTypeHeader(AddHeader(c, AuthenticationReplySize, AuthenticationReplyWrites, h),
                        "AERORPTYPE_AUTHENTICATIONREPLY")
  OBVIOUS
<1> HIDE DEF c
<1>3. /\ SameEnvelope(c, RouteOutput(p))
      /\ TypeOf(RouteOutput(p)) = MessageType["AERORPTYPE_AUTHENTICATIONREPLY"]
      /\ Honest(RouteOutput(p))
      /\ Deserialize(AuthenticationReplyWrites, RemoveTypeHeader(RouteOutput(p)).bytes)
           = [name \in {AuthenticationReplyWrites[i][1] : i \in DOMAIN AuthenticationReplyWrites} |-> h[name]]
  <2> DEFINE L == AuthenticationReplyWrites
             size == AuthenticationReplySize
             type == "AERORPTYPE_AUTHENTICATIONREPLY"
  <2>1. Layout(L) /\ Fits(L, size) /\ size \in {AuthenticationRequestSize, AuthenticationReplySize}
    BY Layouts, LayoutsFit
  <2>2. p = AddTypeHeader(AddHeader(c, size, L, h), type)
    BY <1>2
  <2> HIDE DEF L, size, type
  <2>3. /\ SameEnvelope(c, RouteOutput(p))
        /\ TypeOf(RouteOutput(p)) = MessageType[type]
        /\ Deserialize(L, RemoveTypeHeader(RouteOutput(p)).bytes)
             = [name \in {L[i][1] : i \in DOMAIN L} |-> h[name]]
        /\ Honest(RouteOutput(p))
    BY <1>1, <2>1, <2>2, HandshakeOut
  <2> QED  BY <2>3 DEF L, type
<1>4. /\ RouteOutput(p).kind = "REPLY"
      /\ RouteOutput(p).src \in Nodes /\ RouteOutput(p).dst \in {Gs, Me, Broadcast}
  BY <1>1, <1>3 DEF SameEnvelope
<1>5. "sharedKey" \in {AuthenticationReplyWrites[i][1] : i \in DOMAIN AuthenticationReplyWrites}
  <2>1. 6 \in DOMAIN AuthenticationReplyWrites /\ AuthenticationReplyWrites[6][1] = "sharedKey"
    BY DEF AuthenticationReplyWrites
  <2> QED  BY <2>1
<1>6. KeyIn(RouteOutput(p)) = SharedKey
  <2> DEFINE e == Deserialize(AuthenticationReplyWrites, RemoveTypeHeader(RouteOutput(p)).bytes)
  <2>1. e["sharedKey"] = h["sharedKey"]
    BY <1>3, <1>5
  <2>2. KeyIn(RouteOutput(p)) = e["sharedKey"].key
    BY Layouts DEF KeyIn
  <2> QED  BY <2>1, <2>2
<1>7. TypeOf(RouteOutput(p)) = 5
  BY <1>3 DEF MessageType
<1>8. RouteOutput(p).size = Bytes(RouteOutput(p).bytes)
  BY <1>3 DEF Honest
<1> QED  BY <1>4, <1>6, <1>7, <1>8 DEF Sound, Kinds, NumberOf

(* A data packet has no header of its own. *)
LEMMA DataSound ==
  ASSUME NEW size, NEW p,
         p = [Create("DATA", "data", An, Me, size) EXCEPT
                !.size = size, !.bytes = << [width |-> size, value |-> "payload"] >>],
         size \in DataSizes
  PROVE  Sound(RouteOutput(p), secure) /\ RouteOutput(p).kind = "DATA"
<1> DEFINE before == PACKET_DATA_LEN_BEFORE_ENCRYPTON
           after == PACKET_DATA_LEN_AFTER_ENCRYPTON
<1>1. /\ p.kind = "DATA" /\ p.size = size /\ p.src = An /\ p.dst = Me /\ p.about = size
      /\ p.bytes = << [width |-> size, value |-> "payload"] >>
  BY DEF Create
<1>2. size \in Nat /\ p.size # 26 /\ p.size # 45
  BY <1>1, DataAssumption
<1>3. RouteOutput(p) = IF secure /\ size = before THEN SecureData(p) ELSE p
  BY <1>1, <1>2 DEF RouteOutput, HELLO_PACKET_SIZE, GS_PACKET_SIZE
<1>4. Bytes(p.bytes) = size
  <2> DEFINE s == p.bytes
  <2>1. Len(s) = 1 /\ s[1].width = size
    BY <1>1
  <2> HIDE DEF s
  <2>2. PICK f : Bytes(s) = f[1] /\ f[0] = 0 /\ \A i \in 1..1 : f[i] = f[i - 1] + s[i].width
    <3> DEFINE n == 1
    <3>1. n \in Nat /\ Len(s) = n
      BY <2>1
    <3> HIDE DEF n
    <3>2. \E f : Bytes(s) = f[n] /\ f[0] = 0 /\ \A i \in 1..n : f[i] = f[i - 1] + s[i].width
      BY <3>1, BytesSum
    <3> QED  BY <3>2 DEF n
  <2> QED  BY <1>2, <2>1, <2>2 DEF s
<1>5. /\ SecureData(p).kind = "DATA" /\ SecureData(p).src = An /\ SecureData(p).dst = Me
      /\ SecureData(p).about = size /\ SecureData(p).size = after
  BY <1>1 DEF Create, SecureData
<1>6. Bytes(SecureData(p).bytes) = after
  <2> DEFINE s == SecureData(p).bytes
  <2>1. Len(s) = 2 /\ s[1].width = 1000 /\ s[2].width = 16
    BY DEF SecureData, Create, TAG_SIZE, PACKET_DATA_LEN_BEFORE_ENCRYPTON
  <2> HIDE DEF s
  <2>2. PICK f : Bytes(s) = f[2] /\ f[0] = 0 /\ \A i \in 1..2 : f[i] = f[i - 1] + s[i].width
    <3> DEFINE n == 2
    <3>1. n \in Nat /\ Len(s) = n
      BY <2>1
    <3> HIDE DEF n
    <3>2. \E f : Bytes(s) = f[n] /\ f[0] = 0 /\ \A i \in 1..n : f[i] = f[i - 1] + s[i].width
      BY <3>1, BytesSum
    <3> QED  BY <3>2 DEF n
  <2>3. f[1] = 1000
    BY <2>1, <2>2
  <2> QED  BY <2>1, <2>2, <2>3 DEF s, PACKET_DATA_LEN_AFTER_ENCRYPTON
<1> HIDE DEF before, after
<1>7. CASE secure /\ size = before
  BY <1>3, <1>5, <1>6, <1>7 DEF Sound, Kinds, Nodes, before, after
<1>8. CASE ~(secure /\ size = before)
  BY <1>1, <1>3, <1>4, <1>8 DEF Sound, Kinds, Nodes, before, after
<1> QED  BY <1>7, <1>8

-----------------------------------------------------------------------------
(* What RouteInput appends is the only new packet at the socket. *)
LEMMA AppendElements ==
  ASSUME NEW S, NEW u \in Seq(S), NEW p, NEW v, v = Append(u, p)
  PROVE  /\ \E T : v \in Seq(T)
         /\ \A i \in DOMAIN v : v[i] = p \/ v[i] \in {u[j] : j \in DOMAIN u}
<1> DEFINE T == S \cup {p}
<1>1. u \in Seq(T)
  BY SeqMonotonic
<1>2. p \in T
  OBVIOUS
<1> HIDE DEF T
<1>3. /\ v \in Seq(T) /\ Len(v) = Len(u) + 1
      /\ \A i \in 1..Len(u) : v[i] = u[i]
      /\ v[Len(u) + 1] = p
  BY <1>1, <1>2, AppendProperties
<1>4. Len(u) \in Nat /\ DOMAIN u = 1..Len(u) /\ DOMAIN v = 1..(Len(u) + 1)
  BY <1>1, <1>3, LenProperties
<1>5. ASSUME NEW i \in DOMAIN v
      PROVE  v[i] = p \/ v[i] \in {u[j] : j \in DOMAIN u}
  <2>1. i = Len(u) + 1 \/ i \in 1..Len(u)
    BY <1>4
  <2> QED  BY <1>3, <1>4, <2>1
<1> QED  BY <1>3, <1>5

(* Reading the socket leaves only packets that were there. *)
LEMMA TailElements ==
  ASSUME NEW S, NEW u \in Seq(S), u # <<>>, NEW v, v = Tail(u)
  PROVE  /\ \E T : v \in Seq(T)
         /\ \A i \in DOMAIN v : v[i] \in {u[j] : j \in DOMAIN u}
         /\ Head(u) \in {u[j] : j \in DOMAIN u}
<1>1. /\ v \in Seq(S) /\ Len(v) = Len(u) - 1
      /\ \A i \in 1..Len(v) : v[i] = u[i + 1]
  BY HeadTailProperties
<1>2. /\ Len(u) \in Nat \ {0} /\ DOMAIN u = 1..Len(u) /\ DOMAIN v = 1..(Len(u) - 1)
  BY <1>1, EmptySeq, LenProperties
<1>3. ASSUME NEW i \in DOMAIN v
      PROVE  v[i] \in {u[j] : j \in DOMAIN u}
  <2>1. i + 1 \in DOMAIN u /\ v[i] = u[i + 1]
    BY <1>1, <1>2
  <2> QED  BY <2>1
<1>4. Head(u) = u[1] /\ 1 \in DOMAIN u
  BY <1>2
<1> QED  BY <1>1, <1>3, <1>4

(* A step that adds only sound packets, and changes neither status nor key *)
LEMMA OnlySoundAdded ==
  ASSUME PacketInv, UNCHANGED <<secure, up, status, key>>,
         \A p \in net' : p \in net \/ Sound(p, secure)
  PROVE  PacketInv'
<1>1. \A p \in Messages' : p \in Messages \/ Sound(p, secure)
  BY DEF Messages
<1> QED  BY <1>1 DEF PacketInv

(* A step of the socket of Me *)
LEMMA SocketRead ==
  ASSUME PacketInv, UNCHANGED <<secure, net>>, up # <<>>, up' = Tail(up),
         status' = "AUTH" => key' = SharedKey
  PROVE  PacketInv'
<1>1. PICK S : up \in Seq(S)
  BY DEF PacketInv
<1>2. /\ \E T : up' \in Seq(T)
      /\ \A i \in DOMAIN up' : up'[i] \in {up[j] : j \in DOMAIN up}
  BY <1>1, TailElements
<1>3. \A p \in Messages' : p \in Messages
  BY <1>2 DEF Messages
<1> QED  BY <1>2, <1>3 DEF PacketInv

(* A position the ground station speaks of is one a node can have. *)
LEMMA PositionInRange ==
  ASSUME TypeOK, NEW n \in Told
  PROVE  <<n, PositionOf(n)>> \in Nodes \X [Codec!Axis -> Coordinates]
<1>1. n \in Nodes /\ flight.pos \in [Codec!Axis -> Coordinates]
  BY FlightsAssumption DEF TypeOK, Codec!Motions
<1>2. n # An => Parked[n] \in [Codec!Axis -> Coordinates]
  BY <1>1, FlightsAssumption DEF Nodes
<1> QED  BY <1>1, <1>2 DEF PositionOf

(* The number of its type tells what a control packet is. *)
LEMMA KindOfNumber ==
  ASSUME NEW sec, NEW p, Sound(p, sec), p.kind # "DATA"
  PROVE  /\ TypeOf(p) \in 1..7
         /\ TypeOf(p) \in {1, 6} <=> p.kind = "HELLO"
         /\ TypeOf(p) \in {2, 7} <=> p.kind = "GSGEOLOCATION"
         /\ TypeOf(p) = 4 <=> p.kind = "REQUEST"
         /\ TypeOf(p) = 5 <=> p.kind = "REPLY"
         /\ TypeOf(p) \in {6, 7} => sec
         /\ TypeOf(p) \in {1, 2} => ~sec
<1>1. p.kind \in {"HELLO", "GSGEOLOCATION", "REQUEST", "REPLY"} /\ TypeOf(p) = NumberOf(p.kind, sec)
  BY DEF Sound, Kinds
<1>2. CASE p.kind = "HELLO"
  BY <1>1, <1>2 DEF NumberOf
<1>3. CASE p.kind = "GSGEOLOCATION"
  BY <1>1, <1>3 DEF NumberOf
<1>4. CASE p.kind = "REQUEST"
  BY <1>1, <1>4 DEF NumberOf
<1>5. CASE p.kind = "REPLY"
  BY <1>1, <1>5 DEF NumberOf
<1> QED  BY <1>1, <1>2, <1>3, <1>4, <1>5

(* No packet is under way initially. *)
LEMMA PacketInvInit == Init => PacketInv
<1> SUFFICES ASSUME Init PROVE PacketInv
  OBVIOUS
<1>1. up \in Seq({}) /\ Len(up) = 0
  BY EmptySeq DEF Init
<1>2. DOMAIN up = {}
  BY <1>1, LenProperties
<1>3. Messages = {}
  BY <1>2 DEF Messages, Init
<1> QED  BY <1>1, <1>3 DEF PacketInv, Init

(* What the handlers send: sound packets of one kind, and no HELLO is taken away *)
Adds(kind) ==
  /\ UNCHANGED <<secure, up, status, key>>
  /\ \A q \in net' : q \in net \/ (Sound(q, secure) /\ q.kind = kind)
  /\ \A q \in net : q.kind = "HELLO" => q \in net'

(* A HELLO says what SendHello of the codec says. *)
Says(q, f) ==
  \A type : HelloOf(Deserialize(HelloReads, HelloBytes(q)), type) = Codec!Header(type, f.pos, f.vel)

(* SendHello adds one sound HELLO, which says where the node is. *)
LEMMA HelloSent ==
  ASSUME SendHello
  PROVE  /\ Adds("HELLO")
         /\ \E q : /\ net' = net \cup {q} /\ q.kind = "HELLO"
                  /\ Says(q, flight)
<1> DEFINE h == Codec!Header("HELLO", flight.pos, flight.vel)
           hh == HelloHeader(h.pos.x, h.pos.y, h.pos.z, h.sign, h.vel.x, h.vel.y, h.vel.z)
           c == Create("HELLO", "hello", An, Broadcast, An)
           d == AddHeader(c, HelloSize, HelloWrites, hh)
           p == AddTypeHeader(d, "AERORPTYPE_HELLO")
           q == RouteOutput(p)
<1>1. net' = net \cup {q} /\ UNCHANGED <<secure, up, status, key>>
  BY DEF SendHello
<1> HIDE DEF hh
<1>2. Sound(q, secure) /\ q.kind = "HELLO" /\ Carries(q, secure, SecureHelloReads, d.bytes)
  BY HelloSound DEF Nodes
<1>3. Deserialize(HelloReads, d.bytes) = [name \in {HelloWrites[i][1] : i \in DOMAIN HelloWrites} |-> hh[name]]
  BY Created, Layouts, Sizes, ReadsBack
<1> HIDE DEF q, d
<1>4. HelloBytes(q) = d.bytes
  <2>1. TypeOf(q) = IF secure THEN 6 ELSE 1
    BY <1>2 DEF Sound, NumberOf
  <2>2. CASE secure
    <3>1. Deserialize(SecureHelloReads, RemoveTypeHeader(q).bytes).cipher.text = d.bytes
      BY <1>2, <2>2 DEF Carries, Seals, Encryption
    <3> QED  BY <2>1, <2>2, <3>1 DEF HelloBytes, MessageType
  <2>3. CASE ~secure
    BY <1>2, <2>1, <2>3 DEF HelloBytes, MessageType, Carries
  <2> QED  BY <2>2, <2>3
<1>5. Says(q, flight)
  <2> DEFINE e == Deserialize(HelloReads, d.bytes)
             names == {HelloWrites[i][1] : i \in DOMAIN HelloWrites}
  <2>1. {"posx", "posy", "posz", "velsign", "velx", "vely", "velz"} \subseteq names
    <3>1. /\ 1..7 \subseteq DOMAIN HelloWrites
          /\ HelloWrites[1][1] = "posx" /\ HelloWrites[2][1] = "posy" /\ HelloWrites[3][1] = "posz"
          /\ HelloWrites[4][1] = "velsign" /\ HelloWrites[5][1] = "velx"
          /\ HelloWrites[6][1] = "vely" /\ HelloWrites[7][1] = "velz"
      BY DEF HelloWrites
    <3> QED  BY <3>1
  <2>2. e = [name \in names |-> hh[name]]
    BY <1>3
  <2> HIDE DEF e, names
  <2>3. /\ e.posx = hh.posx /\ e.posy = hh.posy /\ e.posz = hh.posz /\ e.velsign = hh.velsign
        /\ e.velx = hh.velx /\ e.vely = hh.vely /\ e.velz = hh.velz
    BY <2>1, <2>2
  <2>4. /\ hh.posx = h.pos.x /\ hh.posy = h.pos.y /\ hh.posz = h.pos.z /\ hh.velsign = h.sign
        /\ hh.velx = h.vel.x /\ hh.vely = h.vel.y /\ hh.velz = h.vel.z
    BY DEF hh, HelloHeader
  <2>5. ASSUME NEW type
        PROVE  HelloOf(e, type) = Codec!Header(type, flight.pos, flight.vel)
    <3> DEFINE g == Codec!Header(type, flight.pos, flight.vel)
    <3>1. /\ g = [type |-> type, sign |-> h.sign, pos |-> h.pos, vel |-> h.vel]
          /\ h.pos = [x |-> h.pos.x, y |-> h.pos.y, z |-> h.pos.z]
          /\ h.vel = [x |-> h.vel.x, y |-> h.vel.y, z |-> h.vel.z]
      BY DEF Codec!Header, Codec!Axis
    <3> HIDE DEF h, g
    <3>2. HelloOf(e, type) = [type |-> type, sign |-> h.sign,
                              pos |-> [x |-> h.pos.x, y |-> h.pos.y, z |-> h.pos.z],
                              vel |-> [x |-> h.vel.x, y |-> h.vel.y, z |-> h.vel.z]]
      BY <2>3, <2>4 DEF HelloOf
    <3>3. HelloOf(e, type) = g
      BY <3>1, <3>2
    <3> QED  BY <3>3 DEF g
  <2> QED  BY <1>4, <2>5 DEF Says, e
<1> QED  BY <1>1, <1>2, <1>5 DEF Adds

(* SendGroundStationPackets adds sound broadcasts only. *)
LEMMA PositionsSent ==
  ASSUME TypeOK, SendGroundStationPackets
  PROVE  Adds("GSGEOLOCATION")
<1> DEFINE P(n, any) ==
      AddTypeHeader(AddHeader(Create("GSGEOLOCATION", <<"position", n>>, Gs, Broadcast, <<n, PositionOf(n)>>),
                              GSGeoLocationSize, GSGeoLocationWrites, GeoLocation(n, any)),
                    "AERORPTYPE_GSGEOLOCATION")
<1>1. PICK any \in Undefined : net' = net \cup {RouteOutput(P(n, any)) : n \in Told}
  BY DEF SendGroundStationPackets
<1>2. ASSUME NEW n \in Told
      PROVE  Sound(RouteOutput(P(n, any)), secure) /\ RouteOutput(P(n, any)).kind = "GSGEOLOCATION"
  <2> DEFINE about == <<n, PositionOf(n)>>
             h == GeoLocation(n, any)
  <2>1. about \in Nodes \X [Codec!Axis -> Coordinates]
    BY PositionInRange
  <2>2. /\ h.node = about[1]
        /\ h.posx = Codec!Truncate(about[2].x) /\ h.posy = Codec!Truncate(about[2].y)
        /\ h.posz = Codec!Truncate(about[2].z)
    BY DEF GeoLocation, GSGeoLocationHeader, Codec!Axis
  <2>3. Gs \in Nodes
    BY DEF Nodes
  <2>4. P(n, any) = AddTypeHeader(AddHeader(Create("GSGEOLOCATION", <<"position", n>>, Gs, Broadcast, about),
                                            GSGeoLocationSize, GSGeoLocationWrites, h),
                                  "AERORPTYPE_GSGEOLOCATION")
    OBVIOUS
  <2> HIDE DEF P, about, h
  <2> QED  BY <2>1, <2>2, <2>3, <2>4, PositionSound
<1> HIDE DEF P
<1>3. UNCHANGED <<secure, up, status, key>>
  BY DEF SendGroundStationPackets
<1> QED  BY <1>1, <1>2, <1>3 DEF Adds

(* SendAuthenticationRequest adds a sound request. *)
LEMMA RequestSent ==
  ASSUME SendAuthenticationRequest
  PROVE  Adds("REQUEST")
<1> DEFINE h == AuthenticationRequestHeader(Me, 0, Me, 0, [by |-> Me, data |-> <<0, Me, 0>>])
           p == AddTypeHeader(AddHeader(Create("REQUEST", "request", Me, Gs, Me),
                                        AuthenticationRequestSize, AuthenticationRequestWrites, h),
                              "AERORPTYPE_AUTHENTICATIONREQUEST")
<1>1. net' = net \cup {RouteOutput(p)} /\ UNCHANGED <<secure, up, status, key>>
  BY DEF SendAuthenticationRequest
<1> HIDE DEF h
<1>2. Sound(RouteOutput(p), secure) /\ RouteOutput(p).kind = "REQUEST"
  BY RequestSound
<1> HIDE DEF p
<1> QED  BY <1>1, <1>2 DEF Adds

(* RecvAuthenticationRequest adds a sound reply. *)
LEMMA ReplySent ==
  ASSUME PacketInv, NEW p \in net, RecvAuthenticationRequest(p)
  PROVE  Adds("REPLY")
<1> DEFINE r == Deserialize(AuthenticationRequestReads, RemoveTypeHeader(p).bytes)
           ek == [for |-> r.cert, key |-> SharedKey]
           h == AuthenticationReplyHeader(Gs, 0, Gs, r.randomNo, p.src, ek,
                                          [by |-> Gs, data |-> <<0, Gs, r.randomNo, p.src, ek>>])
           reply == AddTypeHeader(AddHeader(Create("REPLY", "reply", Gs, p.src, p.src),
                                            AuthenticationReplySize, AuthenticationReplyWrites, h),
                                  "AERORPTYPE_AUTHENTICATIONREPLY")
<1>1. /\ \A q \in net' : q \in net \/ q = RouteOutput(reply)
      /\ \A q \in net : q = p \/ q \in net'
      /\ UNCHANGED <<secure, up, status, key>>
  BY DEF RecvAuthenticationRequest
<1>2. h.sharedKey.key = SharedKey
  BY DEF AuthenticationReplyHeader
<1> HIDE DEF h
<1>3. Gs \in Nodes /\ p.src \in {Gs, Me, Broadcast} /\ p.kind = "REQUEST"
  <2>1. p.dst = Gs /\ TypeOf(p) = 4
    BY DEF RecvAuthenticationRequest, MessageType
  <2>2. Sound(p, secure)
    BY DEF PacketInv, Messages
  <2>3. p.kind # "DATA"
    BY <2>1, <2>2, NodesAssumption DEF Sound
  <2>4. p.kind = "REQUEST"
    BY <2>1, <2>2, <2>3, KindOfNumber
  <2> QED  BY <2>2, <2>4 DEF Sound, Nodes
<1>4. Sound(RouteOutput(reply), secure) /\ RouteOutput(reply).kind = "REPLY"
  BY <1>2, <1>3, ReplySound
<1> HIDE DEF reply
<1> QED  BY <1>1, <1>3, <1>4 DEF Adds

(* The application adds a sound data packet. *)
LEMMA DataSent ==
  ASSUME NEW size \in DataSizes, SendData(size)
  PROVE  Adds("DATA")
<1> DEFINE p == [Create("DATA", "data", An, Me, size) EXCEPT
                   !.size = size, !.bytes = << [width |-> size, value |-> "payload"] >>]
<1>1. net' = net \cup {RouteOutput(p)} /\ UNCHANGED <<secure, up, status, key>>
  BY DEF SendData
<1>2. Sound(RouteOutput(p), secure) /\ RouteOutput(p).kind = "DATA"
  BY DataSound
<1> HIDE DEF p
<1> QED  BY <1>1, <1>2 DEF Adds

(* Every handler keeps the invariant: what it sends is sound, and a key comes from a reply. *)
LEMMA PacketInvStep == TypeOK /\ PacketInv /\ [Next]_vars => PacketInv'
<1> SUFFICES ASSUME TypeOK, PacketInv, [Next]_vars PROVE PacketInv'
  OBVIOUS
<1>1. ASSUME NEW kind, Adds(kind) PROVE PacketInv'
  BY <1>1, OnlySoundAdded DEF Adds
<1>2. CASE SendHello \/ SendGroundStationPackets \/ SendAuthenticationRequest
  BY <1>1, <1>2, HelloSent, PositionsSent, RequestSent
<1>3. ASSUME NEW p \in net, RecvAuthenticationRequest(p) PROVE PacketInv'
  BY <1>1, <1>3, ReplySent
<1>4. ASSUME NEW size \in DataSizes, SendData(size) PROVE PacketInv'
  BY <1>1, <1>4, DataSent
<1>5. ASSUME NEW p \in net, RouteInput(p) PROVE PacketInv'
  <2>1. PICK S : up \in Seq(S)
    BY DEF PacketInv
  <2>2. /\ net' = net \ {p} /\ up' = Append(up, p)
        /\ UNCHANGED <<secure, status, key>>
    BY <1>5 DEF RouteInput
  <2>3. /\ \E T : up' \in Seq(T)
        /\ \A i \in DOMAIN up' : up'[i] = p \/ up'[i] \in {up[j] : j \in DOMAIN up}
    BY <2>1, <2>2, AppendElements
  <2>4. \A q \in Messages' : q \in Messages
    BY <2>2, <2>3 DEF Messages
  <2> QED  BY <2>2, <2>3, <2>4 DEF PacketInv
<1>6. ASSUME NEW p \in net, Lose(p) PROVE PacketInv'
  BY <1>6, OnlySoundAdded DEF Lose
<1>7. CASE RouteInputElsewhere \/ \E f \in Flights : Move(f)
  BY <1>7, OnlySoundAdded DEF RouteInputElsewhere, Move
<1>8. CASE RecvIgnored
  BY <1>8, SocketRead DEF RecvIgnored, PacketInv
<1>9. ASSUME NEW p, RecvHello(p) PROVE PacketInv'
  BY <1>9, SocketRead DEF RecvHello, Arrives, PacketInv
<1>10. ASSUME NEW p, RecvSecureHello(p) PROVE PacketInv'
  BY <1>10, SocketRead DEF RecvSecureHello, Arrives, PacketInv
<1>11. ASSUME NEW p, RecvGSGeoLocation(p) PROVE PacketInv'
  BY <1>11, SocketRead DEF RecvGSGeoLocation, Arrives, PacketInv
<1>12. ASSUME NEW p, RecvSecureGSGeoLocation(p) PROVE PacketInv'
  BY <1>12, SocketRead DEF RecvSecureGSGeoLocation, Arrives, PacketInv
<1>13. ASSUME NEW p, RecvData(p) PROVE PacketInv'
  BY <1>13, SocketRead DEF RecvData, PacketInv
<1>14. ASSUME NEW p, RecvAuthenticationReply(p) PROVE PacketInv'
  <2>1. /\ up # <<>> /\ p = Head(up) /\ p.kind # "DATA" /\ up' = Tail(up)
        /\ TypeOf(p) = MessageType["AERORPTYPE_AUTHENTICATIONREPLY"]
        /\ UNCHANGED <<secure, net>>
    BY <1>14 DEF RecvAuthenticationReply, Arrives
  <2>2. status' = "AUTH" => key' = KeyIn(p)
    BY <1>14 DEF RecvAuthenticationReply, KeyIn
  <2>3. p \in Messages
    BY <2>1, TailElements DEF PacketInv, Messages
  <2>4. Sound(p, secure)
    BY <2>3 DEF PacketInv
  <2>5. p.kind = "REPLY" /\ KeyIn(p) = SharedKey
    <3>1. TypeOf(p) = 5
      BY <2>1 DEF MessageType
    <3>2. p.kind = "REPLY"
      BY <2>1, <2>4, <3>1, KindOfNumber
    <3> QED  BY <2>4, <3>2 DEF Sound
  <2> QED  BY <2>1, <2>2, <2>5, SocketRead
<1>15. CASE UNCHANGED vars
  BY <1>15, OnlySoundAdded DEF vars
<1> QED
  BY <1>2, <1>3, <1>4, <1>5, <1>6, <1>7, <1>8, <1>9, <1>10, <1>11, <1>12, <1>13, <1>14, <1>15
     DEF Next

-----------------------------------------------------------------------------
(* The tables *)

(* What does open is the text that was sealed. *)
LEMMA OpensToText ==
  ASSUME NEW p, NEW L, NEW text, Seals(p, L, text), NEW add, NEW k
  PROVE  Dencryption(Deserialize(L, RemoveTypeHeader(p).bytes), add, k, p.uid) \subseteq {text}
<1> DEFINE h == Deserialize(L, RemoveTypeHeader(p).bytes)
<1>1. h.cipher.text = text
  BY DEF Seals, Encryption
<1> HIDE DEF h
<1>2. Dencryption(h, add, k, p.uid) \subseteq {text}
  BY <1>1 DEF Dencryption
<1> QED  BY <1>2 DEF h

EntryOK(e) ==
  /\ e \in [node : Nodes, pos : [Codec!Axis -> 0..MaxU32], about : Nodes \X [Codec!Axis -> Coordinates]]
  /\ e.node = e.about[1]
  /\ \A a \in Codec!Axis : Codec!WholePart(e.pos[a], e.about[2][a])

(* The entry that a position makes *)
LEMMA EntryMade ==
  ASSUME NEW bytes, NEW about, Tells(bytes, about), UpdateRouteToNodes(bytes, about)
  PROVE  \A e \in table' : e \in table \/ EntryOK(e)
<1> DEFINE h == Deserialize(GSGeoLocationReads, bytes)
           n == [node |-> h.node, pos |-> Place(bytes), about |-> about]
<1>1. \A e \in table' : e \in table \/ e = n
  BY DEF UpdateRouteToNodes, Place
<1>2. EntryOK(n)
  <2> HIDE DEF h
  <2>1. n.node = h.node /\ n.pos = Place(bytes) /\ n.about = about
    OBVIOUS
  <2>2. /\ about \in Nodes \X [Codec!Axis -> Coordinates] /\ h.node = about[1]
        /\ Place(bytes) \in [Codec!Axis -> 0..MaxU32]
        /\ \A a \in Codec!Axis : Codec!WholePart(Place(bytes)[a], about[2][a])
    BY DEF Tells, h
  <2>3. about[1] \in Nodes
    BY <2>2
  <2> QED  BY <2>1, <2>2, <2>3 DEF EntryOK
<1> QED  BY <1>1, <1>2

(* Only a position makes an entry: in the open outside secure mode, and in it from a text *)
(* that opened.                                                                           *)
LEMMA TableStep ==
  ASSUME PacketInv, [Next]_vars
  PROVE  \A e \in table' : e \in table \/ EntryOK(e)
<1>1. ASSUME NEW p, up # <<>>, p = Head(up)
      PROVE  Sound(p, secure)
  BY <1>1, TailElements DEF PacketInv, Messages
<1>2. ASSUME NEW p, RecvGSGeoLocation(p) PROVE \A e \in table' : e \in table \/ EntryOK(e)
  <2>1. /\ up # <<>> /\ p = Head(up) /\ p.kind # "DATA" /\ TypeOf(p) = 2
        /\ UpdateRouteToNodes(RemoveTypeHeader(p).bytes, p.about)
    BY <1>2 DEF RecvGSGeoLocation, Arrives, MessageType
  <2>2. Sound(p, secure)
    BY <1>1, <2>1
  <2>3. p.kind = "GSGEOLOCATION" /\ ~secure
    BY <2>1, <2>2, KindOfNumber
  <2>4. Tells(RemoveTypeHeader(p).bytes, p.about)
    BY <2>2, <2>3 DEF Sound, Carries
  <2> QED  BY <2>1, <2>4, EntryMade
<1>3. ASSUME NEW p, RecvSecureGSGeoLocation(p) PROVE \A e \in table' : e \in table \/ EntryOK(e)
  <2>1. /\ up # <<>> /\ p = Head(up) /\ p.kind # "DATA" /\ TypeOf(p) = 7
        /\ \/ \E bytes \in Opened(p, SecureGSGeoLocationReads) : UpdateRouteToNodes(bytes, p.about)
           \/ UNCHANGED table
    BY <1>3 DEF RecvSecureGSGeoLocation, Arrives, MessageType
  <2>2. Sound(p, secure)
    BY <1>1, <2>1
  <2>3. p.kind = "GSGEOLOCATION" /\ secure
    BY <2>1, <2>2, KindOfNumber
  <2>4. PICK text : Seals(p, SecureGSGeoLocationReads, text) /\ Tells(text, p.about)
    BY <2>2, <2>3 DEF Sound, Carries
  <2>5. Opened(p, SecureGSGeoLocationReads) \subseteq {text}
    BY <2>4, OpensToText DEF Opened
  <2>6. UpdateRouteToNodes(text, p.about) \/ UNCHANGED table
    BY <2>1, <2>5
  <2> QED  BY <2>4, <2>6, EntryMade
<1>4. CASE UNCHANGED table
  BY <1>4
<1>5. \/ UNCHANGED table
      \/ \E p : RecvGSGeoLocation(p) \/ RecvSecureGSGeoLocation(p)
  BY DEF Next, vars, SendHello, SendGroundStationPackets, SendAuthenticationRequest,
         RecvAuthenticationRequest, SendData, RouteInput, RouteInputElsewhere, Lose, Move, RecvIgnored,
         RecvHello, RecvSecureHello, RecvAuthenticationReply, RecvData
<1> QED  BY <1>2, <1>3, <1>4, <1>5

(* The bound on packets handed up *)
LEMMA UpStep ==
  ASSUME TypeOK, PacketInv, [Next]_vars
  PROVE  Len(up') <= MaxUp
<1>1. PICK S : up \in Seq(S)
  BY DEF PacketInv
<1>2. Len(up) \in Nat /\ Len(up) <= MaxUp
  BY <1>1, LenProperties DEF TypeOK
<1>3. ASSUME up # <<>>, up' = Tail(up) PROVE Len(up') <= MaxUp
  <2>1. Len(up') = Len(up) - 1
    BY <1>1, <1>3, HeadTailProperties
  <2> QED  BY <1>2, <2>1, NodesAssumption
<1>4. ASSUME NEW p, Len(up) < MaxUp, up' = Append(up, p) PROVE Len(up') <= MaxUp
  <2> DEFINE T == S \cup {p}
  <2>1. up \in Seq(T) /\ p \in T
    BY <1>1, SeqMonotonic
  <2> HIDE DEF T
  <2>2. Len(up') = Len(up) + 1
    BY <1>4, <2>1, AppendProperties
  <2> QED  BY <1>2, <1>4, <2>2, NodesAssumption
<1>5. \/ UNCHANGED up
      \/ up # <<>> /\ up' = Tail(up)
      \/ \E p : Len(up) < MaxUp /\ up' = Append(up, p)
  BY DEF Next, vars, SendHello, SendGroundStationPackets, SendAuthenticationRequest, Arrives,
         RecvAuthenticationRequest, SendData, RouteInput, RouteInputElsewhere, Lose, Move, RecvIgnored,
         RecvHello, RecvSecureHello, RecvGSGeoLocation, RecvSecureGSGeoLocation,
         RecvAuthenticationReply, RecvData
<1> QED  BY <1>2, <1>3, <1>4, <1>5

(* The variables of which a step sets few *)
Scalars ==
  /\ secure \in BOOLEAN /\ authTimer \in BOOLEAN /\ flight \in Flights
  /\ status \in {"AUTH", "UNAUTH"} /\ key \in {SharedKey, NoKey}
  /\ aad \in (Nodes \X {Me, Broadcast}) \cup {Elsewhere}
  /\ said \in Flights /\ heard \in Flights

(* The variables other than the packets and the table keep their types. *)
LEMMA ScalarStep ==
  ASSUME Scalars, PacketInv, PacketInv', [Next]_vars
  PROVE  Scalars'
<1>1. CASE \/ SendHello \/ SendGroundStationPackets \/ SendAuthenticationRequest
           \/ \E size \in DataSizes : SendData(size)
           \/ \E p \in net : RecvAuthenticationRequest(p) \/ Lose(p)
           \/ RouteInputElsewhere \/ RecvIgnored
           \/ \E f \in Flights : Move(f)
           \/ UNCHANGED vars
  BY <1>1 DEF Scalars, SendHello, SendGroundStationPackets, SendAuthenticationRequest, SendData,
              RecvAuthenticationRequest, Lose, RouteInputElsewhere, RecvIgnored, Move, vars
<1>2. ASSUME NEW p \in net, RouteInput(p) PROVE Scalars'
  <2>1. p.src \in Nodes
    BY DEF PacketInv, Messages, Sound
  <2>2. aad' = <<p.src, p.dst>> /\ p.dst \in {Me, Broadcast}
    BY <1>2 DEF RouteInput
  <2>3. aad' \in Nodes \X {Me, Broadcast}
    BY <2>1, <2>2
  <2> QED  BY <1>2, <2>3 DEF Scalars, RouteInput
<1>3. ASSUME NEW p, \/ RecvHello(p) \/ RecvSecureHello(p) \/ RecvGSGeoLocation(p)
                    \/ RecvSecureGSGeoLocation(p) \/ RecvData(p)
      PROVE  Scalars'
  BY <1>3 DEF Scalars, RecvHello, RecvSecureHello, RecvGSGeoLocation, RecvSecureGSGeoLocation, RecvData,
              UpdateRouteToNeighbor
<1>4. ASSUME NEW p, RecvAuthenticationReply(p) PROVE Scalars'
  <2>1. /\ status' = "AUTH" \/ (status' = "UNAUTH" /\ key' = key)
        /\ UNCHANGED <<secure, flight, authTimer, aad, said, heard>>
    BY <1>4 DEF RecvAuthenticationReply
  <2>2. status' = "AUTH" => key' = SharedKey
    BY DEF PacketInv
  <2> QED  BY <2>1, <2>2 DEF Scalars
<1> QED  BY <1>1, <1>2, <1>3, <1>4 DEF Next

(* Types are those of the parts. *)
LEMMA TypeOfParts ==
  PacketInv =>
    (TypeOK /\ PositionsAsTold <=> Scalars /\ Len(up) <= MaxUp /\ \A e \in table : EntryOK(e))
BY DEF PacketInv, Sound, Kinds, TypeOK, PositionsAsTold, Scalars, EntryOK

(* The inductive invariant: it holds initially, *)
LEMMA IInvInit == Init => IInv
<1> SUFFICES ASSUME Init PROVE IInv
  OBVIOUS
<1>1. PacketInv
  BY PacketInvInit
<1>2. Scalars /\ table = {}
  BY DEF Init, Scalars
<1>3. Len(up) <= MaxUp
  <2>1. Len(up) = 0
    BY DEF Init
  <2> QED  BY <2>1, NodesAssumption
<1> QED  BY <1>1, <1>2, <1>3, TypeOfParts DEF IInv

(* and every step keeps it. *)
LEMMA IInvStep == IInv /\ [Next]_vars => IInv'
<1> SUFFICES ASSUME IInv, [Next]_vars PROVE IInv'
  OBVIOUS
<1>1. TypeOK /\ PacketInv /\ PositionsAsTold
  BY DEF IInv
<1>2. PacketInv'
  BY <1>1, PacketInvStep
<1>3. Scalars /\ \A e \in table : EntryOK(e)
  BY <1>1, TypeOfParts
<1>4. Scalars' /\ Len(up') <= MaxUp
  BY <1>1, <1>2, <1>3, ScalarStep, UpStep
<1>5. (\A e \in table : EntryOK(e))'
  BY <1>1, <1>3, TableStep
<1>6. (TypeOK /\ PositionsAsTold)'
  <2>1. (PacketInv =>
           (TypeOK /\ PositionsAsTold <=> Scalars /\ Len(up) <= MaxUp /\ \A e \in table : EntryOK(e)))'
    BY TypeOfParts, PTL
  <2> QED  BY <1>2, <1>4, <1>5, <2>1
<1> QED  BY <1>2, <1>6 DEF IInv

(* Types of packets, keys and tables: whatever opens is a position that fits its field. *)
THEOREM TypeCorrect == Spec => []TypeOK
<1>1. IInv => TypeOK
  BY DEF IInv
<1> QED  BY <1>1, IInvInit, IInvStep, PTL DEF Spec

(* The positions in m_nodesPosition are those the ground station said, in whole metres: *)
(* through header, encryption and the additional data that another packet left behind.  *)
THEOREM ToldTrue == Spec => []PositionsAsTold
<1>1. IInv => PositionsAsTold
  BY DEF IInv
<1> QED  BY <1>1, IInvInit, IInvStep, PTL DEF Spec

(* Every packet is as long as its headers claim; its size made RouteOutput take it for what it  *)
(* is, and the number in its first byte makes the receiver take it for the same.               *)
THEOREM TakenRight == Spec => []TakenForWhatItIs
<1>1. PacketInv => TakenForWhatItIs
  <2> SUFFICES ASSUME PacketInv, NEW p \in Messages
               PROVE  /\ p.size = Bytes(p.bytes)
                      /\ IF p.kind = "DATA"
                         THEN p.size = IF secure /\ p.about = PACKET_DATA_LEN_BEFORE_ENCRYPTON
                                       THEN PACKET_DATA_LEN_AFTER_ENCRYPTON ELSE p.about
                         ELSE TypeOf(p) = MessageType[TypeMeant(p)]
    BY DEF TakenForWhatItIs
  <2>1. Sound(p, secure)
    BY DEF PacketInv
  <2>2. CASE p.kind = "DATA"
    BY <2>1, <2>2 DEF Sound
  <2>3. CASE p.kind # "DATA"
    <3>1. TypeOf(p) = NumberOf(p.kind, secure) /\ p.size = Bytes(p.bytes)
          /\ p.kind \in {"HELLO", "GSGEOLOCATION", "REQUEST", "REPLY"}
      BY <2>1, <2>3 DEF Sound, Kinds
    <3>2. NumberOf(p.kind, secure) = MessageType[TypeMeant(p)]
      BY <3>1 DEF NumberOf, TypeMeant, MessageType
    <3> QED  BY <2>3, <3>1, <3>2
  <2> QED  BY <2>2, <2>3
<1>2. IInv => PacketInv
  BY DEF IInv
<1> QED  BY <1>1, <1>2, IInvInit, IInvStep, PTL DEF Spec

(* A packet that left in secure form opens with the key of every authenticated node, and with *)
(* the addresses and the identifier it carries itself, whatever packets, sizes, addresses and *)
(* orders of arrival.                                                                         *)
THEOREM AlwaysOpens == Spec => []SecuredOpens
<1>1. PacketInv => SecuredOpens
  <2> SUFFICES ASSUME PacketInv, NEW p \in Messages,
                      secure, status = "AUTH", p.kind \in {"HELLO", "GSGEOLOCATION"},
                      NEW L, L = IF p.kind = "HELLO" THEN SecureHelloReads ELSE SecureGSGeoLocationReads
               PROVE  Dencryption(Deserialize(L, RemoveTypeHeader(p).bytes), <<p.src, p.dst>>, key, p.uid) # {}
    BY DEF SecuredOpens
  <2>1. Sound(p, secure) /\ key = SharedKey
    BY DEF PacketInv
  <2>2. \E text : Seals(p, L, text)
    BY <2>1 DEF Sound, Carries
  <2>3. PICK text : Deserialize(L, RemoveTypeHeader(p).bytes)
                      = Encryption(text, <<p.src, p.dst>>, SharedKey, p.uid)
    BY <2>2 DEF Seals
  <2> DEFINE e == Encryption(text, <<p.src, p.dst>>, SharedKey, p.uid)
  <2>4. e.cipher.text = text
    BY DEF Encryption
  <2> HIDE DEF e
  <2>5. Dencryption(e, <<p.src, p.dst>>, SharedKey, p.uid) = {e.cipher.text}
    BY <2>4 DEF Dencryption, e
  <2> QED  BY <2>1, <2>3, <2>5 DEF e
<1>2. IInv => PacketInv
  BY DEF IInv
<1> QED  BY <1>1, <1>2, IInvInit, IInvStep, PTL DEF Spec

-----------------------------------------------------------------------------
(* HELLOs implement HelloCodec: there is at most one of them under way, and every step of *)
(* its packet is a step of the HELLO.                                                     *)

HelloPackets == {q \in Messages : q.kind = "HELLO"}

OneHello ==
  /\ \A p, q \in net : p.kind = "HELLO" /\ q.kind = "HELLO" => p = q
  /\ \A p \in net, i \in DOMAIN up : ~(p.kind = "HELLO" /\ up[i].kind = "HELLO")
  /\ \A i, j \in DOMAIN up : up[i].kind = "HELLO" /\ up[j].kind = "HELLO" => i = j

(* What the receiver reads in a HELLO *)
ReadAs(p) == HelloOf(Deserialize(HelloReads, HelloBytes(p)), IF secure THEN "SECURE_HELLO" ELSE "HELLO")

(* The HELLOs under way, as the receiver would read them *)
LEMMA UnderWay == HellosUnderWay = {ReadAs(p) : p \in HelloPackets}
BY DEF HellosUnderWay, ReadAs, HelloPackets

(* The same in the next state, when the mode does not change *)
LEMMA UnderWayNext ==
  ASSUME UNCHANGED secure
  PROVE  HellosUnderWay' = {ReadAs(p) : p \in HelloPackets'}
BY DEF HellosUnderWay, ReadAs, HelloPackets

(* The places of a sequence and of its tail *)
LEMMA TailPlaces ==
  ASSUME NEW S, NEW u \in Seq(S), u # <<>>, NEW v, v = Tail(u)
  PROVE  /\ Head(u) = u[1] /\ 1 \in DOMAIN u
         /\ \A i \in DOMAIN v : i + 1 \in DOMAIN u /\ v[i] = u[i + 1]
         /\ \A j \in DOMAIN u : j = 1 \/ (j - 1 \in DOMAIN v /\ v[j - 1] = u[j])
         /\ \A i \in DOMAIN v : i \in Int /\ i + 1 # 1
<1>1. /\ v \in Seq(S) /\ Len(v) = Len(u) - 1
      /\ \A i \in 1..Len(v) : v[i] = u[i + 1]
  BY HeadTailProperties
<1>2. /\ Len(u) \in Nat \ {0} /\ DOMAIN u = 1..Len(u) /\ DOMAIN v = 1..(Len(u) - 1)
  BY <1>1, EmptySeq, LenProperties
<1>3. ASSUME NEW i \in DOMAIN v
      PROVE  i + 1 \in DOMAIN u /\ v[i] = u[i + 1] /\ i \in Int /\ i + 1 # 1
  BY <1>1, <1>2
<1>4. ASSUME NEW j \in DOMAIN u, j # 1
      PROVE  j - 1 \in DOMAIN v /\ v[j - 1] = u[j]
  <2>1. j - 1 \in 1..(Len(u) - 1) /\ j - 1 + 1 = j
    BY <1>2, <1>4
  <2> QED  BY <1>1, <1>2, <2>1
<1>5. Head(u) = u[1] /\ 1 \in DOMAIN u
  BY <1>2
<1> QED  BY <1>3, <1>4, <1>5

(* The places of a sequence and of one with an element more *)
LEMMA AppendPlaces ==
  ASSUME NEW S, NEW u \in Seq(S), NEW p, NEW v, v = Append(u, p)
  PROVE  \E n : /\ n \notin DOMAIN u /\ DOMAIN v = DOMAIN u \cup {n} /\ v[n] = p
               /\ \A i \in DOMAIN u : v[i] = u[i]
<1> DEFINE T == S \cup {p}
           n == Len(u) + 1
<1>1. u \in Seq(T) /\ p \in T
  BY SeqMonotonic
<1> HIDE DEF T
<1>2. /\ v \in Seq(T) /\ Len(v) = Len(u) + 1
      /\ \A i \in 1..Len(u) : v[i] = u[i]
      /\ v[Len(u) + 1] = p
  BY <1>1, AppendProperties
<1>3. Len(u) \in Nat /\ DOMAIN u = 1..Len(u) /\ DOMAIN v = 1..(Len(u) + 1)
  BY <1>1, <1>2, LenProperties
<1>4. n \notin DOMAIN u /\ DOMAIN v = DOMAIN u \cup {n}
  BY <1>3
<1> QED  BY <1>2, <1>3, <1>4

(* Handlers that send no HELLO *)
LEMMA QuietSend ==
  ASSUME OneHello, NEW kind, kind # "HELLO", Adds(kind)
  PROVE  OneHello' /\ HelloPackets' = HelloPackets /\ UNCHANGED secure
<1>1. /\ UNCHANGED <<secure, up>>
      /\ \A q \in net' : q.kind = "HELLO" => q \in net
      /\ \A q \in net : q.kind = "HELLO" => q \in net'
  BY DEF Adds
<1>2. OneHello'
  BY <1>1 DEF OneHello
<1>3. HelloPackets' = HelloPackets
  BY <1>1 DEF HelloPackets, Messages
<1> QED  BY <1>1, <1>2, <1>3

(* SendHello, when no HELLO is under way *)
LEMMA HelloEnters ==
  ASSUME SendHello
  PROVE  /\ OneHello' /\ HelloPackets = {} /\ UNCHANGED secure
         /\ \E q : HelloPackets' = {q} /\ Says(q, flight)
<1>1. PICK q : net' = net \cup {q} /\ q.kind = "HELLO" /\ Says(q, flight)
  BY HelloSent
<1>2. UNCHANGED <<secure, up>>
  BY DEF SendHello
<1>3. \A p \in Messages : p.kind # "HELLO"
  BY DEF SendHello, Room
<1>4. (\A p \in net : p.kind # "HELLO") /\ \A i \in DOMAIN up : up[i].kind # "HELLO"
  BY <1>3 DEF Messages
<1>5. OneHello'
  BY <1>1, <1>2, <1>4 DEF OneHello
<1>6. HelloPackets = {} /\ HelloPackets' = {q}
  BY <1>1, <1>2, <1>3 DEF HelloPackets, Messages
<1> QED  BY <1>1, <1>2, <1>5, <1>6

(* RouteInput hands packets up, it does not change which are under way. *)
LEMMA HandedUp ==
  ASSUME OneHello, PacketInv, NEW p \in net, RouteInput(p)
  PROVE  OneHello' /\ HelloPackets' = HelloPackets /\ UNCHANGED secure
<1>1. net' = net \ {p} /\ up' = Append(up, p) /\ UNCHANGED secure
  BY DEF RouteInput
<1>2. PICK n : /\ n \notin DOMAIN up /\ DOMAIN up' = DOMAIN up \cup {n} /\ up'[n] = p
               /\ \A i \in DOMAIN up : up'[i] = up[i]
  BY <1>1, AppendPlaces DEF PacketInv
<1>3. OneHello'
  <2>1. \A q, r \in net' : q.kind = "HELLO" /\ r.kind = "HELLO" => q = r
    BY <1>1 DEF OneHello
  <2>2. \A q \in net', i \in DOMAIN up' : ~(q.kind = "HELLO" /\ up'[i].kind = "HELLO")
    BY <1>1, <1>2 DEF OneHello
  <2>3. \A i, j \in DOMAIN up' : up'[i].kind = "HELLO" /\ up'[j].kind = "HELLO" => i = j
    BY <1>2 DEF OneHello
  <2> QED  BY <2>1, <2>2, <2>3 DEF OneHello
<1>4. Messages' = Messages
  BY <1>1, <1>2 DEF Messages
<1> QED  BY <1>1, <1>3, <1>4 DEF HelloPackets

(* The socket reads the HELLO, or something else. *)
LEMMA HelloLeaves ==
  ASSUME OneHello, PacketInv, UNCHANGED <<secure, net>>, up # <<>>, up' = Tail(up),
         NEW p, p = Head(up)
  PROVE  /\ OneHello'
         /\ p.kind = "HELLO" => HelloPackets = {p} /\ HelloPackets' = {}
         /\ p.kind # "HELLO" => HelloPackets' = HelloPackets
<1>1. PICK S : up \in Seq(S)
  BY DEF PacketInv
<1>2. /\ p = up[1] /\ 1 \in DOMAIN up
      /\ \A i \in DOMAIN up' : i + 1 \in DOMAIN up /\ up'[i] = up[i + 1]
      /\ \A j \in DOMAIN up : j = 1 \/ (j - 1 \in DOMAIN up' /\ up'[j - 1] = up[j])
      /\ \A i \in DOMAIN up' : i \in Int /\ i + 1 # 1
  BY <1>1, TailPlaces
<1>3. OneHello'
  <2>1. \A q \in net', i \in DOMAIN up' : ~(q.kind = "HELLO" /\ up'[i].kind = "HELLO")
    BY <1>2 DEF OneHello
  <2>2. ASSUME NEW i \in DOMAIN up', NEW j \in DOMAIN up',
               up'[i].kind = "HELLO", up'[j].kind = "HELLO"
        PROVE  i = j
    <3>1. i + 1 = j + 1
      BY <1>2, <2>2 DEF OneHello
    <3> QED  BY <1>2, <3>1
  <2> QED  BY <2>1, <2>2 DEF OneHello
<1>4. CASE p.kind = "HELLO"
  <2>1. \A q \in net : q.kind # "HELLO"
    BY <1>2, <1>4 DEF OneHello
  <2>2. \A i \in DOMAIN up : up[i].kind = "HELLO" => i = 1
    BY <1>2, <1>4 DEF OneHello
  <2>3. \A i \in DOMAIN up' : up'[i].kind # "HELLO"
    BY <1>2, <2>2
  <2>4. HelloPackets = {p}
    BY <1>2, <1>4, <2>1, <2>2 DEF HelloPackets, Messages
  <2>5. HelloPackets' = {}
    BY <2>1, <2>3 DEF HelloPackets, Messages
  <2> QED  BY <1>3, <1>4, <2>4, <2>5
<1>5. CASE p.kind # "HELLO"
  <2>1. \A q \in Messages' : q \in Messages
    BY <1>2 DEF Messages
  <2>2. \A q \in Messages : q = p \/ q \in Messages'
    BY <1>2 DEF Messages
  <2> QED  BY <1>3, <1>5, <2>1, <2>2 DEF HelloPackets
<1> QED  BY <1>4, <1>5

(* The network loses the HELLO, or something else. *)
LEMMA HelloLost ==
  ASSUME OneHello, NEW p \in net, Lose(p)
  PROVE  /\ OneHello' /\ UNCHANGED secure
         /\ p.kind = "HELLO" => HelloPackets # {} /\ HelloPackets' = {}
         /\ p.kind # "HELLO" => HelloPackets' = HelloPackets
<1>1. net' = net \ {p} /\ UNCHANGED <<secure, up>>
  BY DEF Lose
<1>2. OneHello'
  BY <1>1 DEF OneHello
<1>3. p.kind = "HELLO" => HelloPackets # {} /\ HelloPackets' = {}
  BY <1>1 DEF OneHello, HelloPackets, Messages
<1>4. p.kind # "HELLO" => HelloPackets' = HelloPackets
  BY <1>1 DEF HelloPackets, Messages
<1> QED  BY <1>1, <1>2, <1>3, <1>4

(* Nothing is seen of a step that leaves the HELLOs and tables of neighbours alone. *)
LEMMA CodecStutters ==
  ASSUME HelloPackets' = HelloPackets, UNCHANGED <<secure, flight, said, neighbor, heard>>
  PROVE  UNCHANGED Codec!vars
<1>1. HellosUnderWay' = HellosUnderWay
  BY UnderWay, UnderWayNext
<1> QED  BY <1>1 DEF Codec!vars

(* A HELLO that is lost, ignored or not opened is lost to the codec. *)
LEMMA CodecLoses ==
  ASSUME HelloPackets # {}, HelloPackets' = {}, UNCHANGED <<secure, flight, said, neighbor, heard>>
  PROVE  Codec!Lose
<1>1. HellosUnderWay # {} /\ HellosUnderWay' = {}
  BY UnderWay, UnderWayNext
<1> QED  BY <1>1 DEF Codec!Lose

(* The velocity does not depend on the type it is decoded under. *)
LEMMA DecodedAlike ==
  ASSUME NEW h, NEW s, NEW t
  PROVE  Codec!Decoded(HelloOf(h, s)) = Codec!Decoded(HelloOf(h, t))
BY DEF Codec!Decoded, HelloOf

(* SendHello is the codec's SendHello. *)
LEMMA CodecSends ==
  ASSUME TypeOK, SendHello
  PROVE  OneHello' /\ \E type \in {"HELLO", "SECURE_HELLO"} : Codec!SendHello(type)
<1>1. OneHello' /\ HelloPackets = {} /\ UNCHANGED secure
  BY HelloEnters
<1>2. PICK q : HelloPackets' = {q} /\ Says(q, flight)
  BY HelloEnters
<1> DEFINE type == IF secure THEN "SECURE_HELLO" ELSE "HELLO"
<1>3. type \in {"HELLO", "SECURE_HELLO"}
  OBVIOUS
<1>4. HellosUnderWay = {} /\ HellosUnderWay' = {Codec!Header(type, flight.pos, flight.vel)}
  <2>1. HellosUnderWay = {} /\ HellosUnderWay' = {ReadAs(q)}
    BY <1>1, <1>2, UnderWay, UnderWayNext
  <2>2. ReadAs(q) = HelloOf(Deserialize(HelloReads, HelloBytes(q)), type)
    BY DEF ReadAs
  <2> HIDE DEF type
  <2> QED  BY <1>2, <2>1, <2>2 DEF Says
<1> HIDE DEF type
<1>5. flight = Codec!Motion(flight.pos, flight.vel)
  <2>1. flight \in Codec!Motions
    BY FlightsAssumption DEF TypeOK
  <2> QED  BY <2>1 DEF Codec!Motions, Codec!Motion
<1>6. said' = flight /\ UNCHANGED <<flight, neighbor, heard>>
  BY DEF SendHello
<1>7. Codec!SendHello(type)
  BY <1>4, <1>5, <1>6 DEF Codec!SendHello
<1> QED  BY <1>1, <1>3, <1>7

(* The socket's packet is sound, and has left when it was read. *)
LEMMA HeadSound ==
  ASSUME PacketInv, up # <<>>
  PROVE  Sound(Head(up), secure)
BY TailElements DEF PacketInv, Messages

(* RecvHello is the codec's reception, or its loss when the HELLO is ignored. *)
LEMMA CodecHears ==
  ASSUME PacketInv, OneHello, NEW p, RecvHello(p)
  PROVE  OneHello' /\ Codec!RecvHello
<1>1. /\ up # <<>> /\ p = Head(up) /\ p.kind # "DATA" /\ TypeOf(p) = 1 /\ up' = Tail(up)
      /\ neighbor' = {Codec!Decoded(HelloOf(Deserialize(HelloReads, RemoveTypeHeader(p).bytes), "HELLO"))}
      /\ heard' = said /\ UNCHANGED <<secure, net, flight, said>>
  BY DEF RecvHello, Arrives, UpdateRouteToNeighbor, MessageType
<1>2. p.kind = "HELLO" /\ ~secure
  BY <1>1, HeadSound, KindOfNumber
<1>3. OneHello' /\ HelloPackets = {p} /\ HelloPackets' = {}
  BY <1>1, <1>2, HelloLeaves
<1>4. HellosUnderWay = {ReadAs(p)} /\ HellosUnderWay' = {}
  BY <1>1, <1>3, UnderWay, UnderWayNext
<1>5. HelloBytes(p) = RemoveTypeHeader(p).bytes
  BY <1>1 DEF HelloBytes, MessageType
<1>6. ReadAs(p) = HelloOf(Deserialize(HelloReads, RemoveTypeHeader(p).bytes), "HELLO")
  BY <1>2, <1>5 DEF ReadAs
<1>7. ReadAs(p).type = "HELLO"
  BY <1>6 DEF HelloOf
<1>8. neighbor' = {Codec!Decoded(ReadAs(p))}
  BY <1>1, <1>6
<1>9. Codec!RecvHello
  BY <1>1, <1>4, <1>7, <1>8 DEF Codec!RecvHello
<1> QED  BY <1>3, <1>9

(* RecvSecureHello likewise: a HELLO that does not open is lost. *)
LEMMA CodecOpens ==
  ASSUME PacketInv, OneHello, NEW p, RecvSecureHello(p)
  PROVE  OneHello' /\ (Codec!RecvSecureHello \/ Codec!Lose)
<1>1. /\ up # <<>> /\ p = Head(up) /\ p.kind # "DATA" /\ TypeOf(p) = 6 /\ up' = Tail(up)
      /\ UNCHANGED <<secure, net, flight, said>>
  BY DEF RecvSecureHello, Arrives, MessageType
<1>2. p.kind = "HELLO" /\ secure
  BY <1>1, HeadSound, KindOfNumber
<1>3. OneHello' /\ HelloPackets = {p} /\ HelloPackets' = {}
  BY <1>1, <1>2, HelloLeaves
<1>4. HellosUnderWay = {ReadAs(p)} /\ HellosUnderWay' = {}
  BY <1>1, <1>3, UnderWay, UnderWayNext
<1>5. CASE UNCHANGED <<neighbor, heard>>
  <2>1. Codec!Lose
    BY <1>1, <1>3, <1>5, CodecLoses
  <2> QED  BY <1>3, <2>1
<1>6. ASSUME NEW bytes \in Opened(p, SecureHelloReads), UpdateRouteToNeighbor(bytes)
      PROVE  Codec!RecvSecureHello
  <2>1. bytes = HelloBytes(p)
    BY <1>1, <1>6 DEF Opened, Dencryption, HelloBytes, MessageType
  <2>2. ReadAs(p) = HelloOf(Deserialize(HelloReads, bytes), "SECURE_HELLO")
    BY <1>2, <2>1 DEF ReadAs
  <2>3. ReadAs(p).type = "SECURE_HELLO"
    BY <2>2 DEF HelloOf
  <2>4. neighbor' = {Codec!Decoded(ReadAs(p))} /\ heard' = said
    BY <1>6, <2>2, DecodedAlike DEF UpdateRouteToNeighbor
  <2> QED  BY <1>1, <1>4, <2>3, <2>4 DEF Codec!RecvSecureHello
<1>7. \/ UNCHANGED <<neighbor, heard>>
      \/ \E bytes \in Opened(p, SecureHelloReads) : UpdateRouteToNeighbor(bytes)
  BY DEF RecvSecureHello
<1> QED  BY <1>3, <1>5, <1>6, <1>7

(* The other packets that the socket reads, and HELLOs it ignores *)
LEMMA CodecReads ==
  ASSUME PacketInv, OneHello, up # <<>>, up' = Tail(up),
         UNCHANGED <<secure, net, flight, said, neighbor, heard>>
  PROVE  OneHello' /\ (Codec!Lose \/ UNCHANGED Codec!vars)
<1> DEFINE p == Head(up)
<1>1. p.kind = "HELLO" => HelloPackets = {p} /\ HelloPackets' = {}
  BY HelloLeaves
<1>2. OneHello' /\ (p.kind # "HELLO" => HelloPackets' = HelloPackets)
  BY HelloLeaves
<1>3. CASE p.kind = "HELLO"
  <2>1. HelloPackets # {}
    BY <1>1, <1>3
  <2> QED  BY <1>1, <1>2, <1>3, <2>1, CodecLoses
<1>4. CASE p.kind # "HELLO"
  BY <1>2, <1>4, CodecStutters
<1> QED  BY <1>3, <1>4

(* Every step of the packets is a step of the codec or none. *)
LEMMA CodecStep ==
  ASSUME IInv, OneHello, [Next]_vars
  PROVE  OneHello' /\ [Codec!Next]_(Codec!vars)
<1>0. TypeOK /\ PacketInv
  BY DEF IInv
<1>1. CASE SendHello
  BY <1>0, <1>1, CodecSends DEF Codec!Next
<1>2. ASSUME NEW kind, kind # "HELLO", Adds(kind), UNCHANGED <<flight, said, neighbor, heard>>
      PROVE  OneHello' /\ UNCHANGED Codec!vars
  BY <1>2, QuietSend, CodecStutters
<1>3. CASE SendGroundStationPackets
  <2>1. UNCHANGED <<flight, said, neighbor, heard>>
    BY <1>3 DEF SendGroundStationPackets
  <2> QED  BY <1>0, <1>2, <1>3, <2>1, PositionsSent
<1>4. CASE SendAuthenticationRequest
  <2>1. UNCHANGED <<flight, said, neighbor, heard>>
    BY <1>4 DEF SendAuthenticationRequest
  <2> QED  BY <1>2, <1>4, <2>1, RequestSent
<1>5. ASSUME NEW p \in net, RecvAuthenticationRequest(p)
      PROVE  OneHello' /\ UNCHANGED Codec!vars
  <2>1. UNCHANGED <<flight, said, neighbor, heard>>
    BY <1>5 DEF RecvAuthenticationRequest
  <2> QED  BY <1>0, <1>2, <1>5, <2>1, ReplySent
<1>6. ASSUME NEW size \in DataSizes, SendData(size)
      PROVE  OneHello' /\ UNCHANGED Codec!vars
  <2>1. UNCHANGED <<flight, said, neighbor, heard>>
    BY <1>6 DEF SendData
  <2> QED  BY <1>2, <1>6, <2>1, DataSent
<1>7. ASSUME NEW p \in net, RouteInput(p)
      PROVE  OneHello' /\ UNCHANGED Codec!vars
  <2>1. UNCHANGED <<flight, said, neighbor, heard>>
    BY <1>7 DEF RouteInput
  <2> QED  BY <1>0, <1>7, <2>1, HandedUp, CodecStutters
<1>8. ASSUME NEW p \in net, Lose(p)
      PROVE  OneHello' /\ [Codec!Next]_(Codec!vars)
  <2>1. UNCHANGED <<flight, said, neighbor, heard>>
    BY <1>8 DEF Lose
  <2>2. OneHello' /\ UNCHANGED secure
    BY <1>8, HelloLost
  <2>3. CASE p.kind = "HELLO"
    BY <1>8, <2>1, <2>2, <2>3, HelloLost, CodecLoses DEF Codec!Next
  <2>4. CASE p.kind # "HELLO"
    BY <1>8, <2>1, <2>2, <2>4, HelloLost, CodecStutters
  <2> QED  BY <2>3, <2>4
<1>9. CASE RouteInputElsewhere \/ UNCHANGED vars
  <2>1. UNCHANGED <<net, up, secure, flight, said, neighbor, heard>>
    BY <1>9 DEF RouteInputElsewhere, vars
  <2>2. OneHello' /\ HelloPackets' = HelloPackets
    BY <2>1 DEF OneHello, HelloPackets, Messages
  <2> QED  BY <2>1, <2>2, CodecStutters
<1>10. ASSUME NEW f \in Flights, Move(f)
       PROVE  OneHello' /\ Codec!Move
  <2>1. UNCHANGED <<net, up, secure, said, neighbor, heard>> /\ flight' = f
    BY <1>10 DEF Move
  <2>2. OneHello' /\ HelloPackets' = HelloPackets
    BY <2>1 DEF OneHello, HelloPackets, Messages
  <2>3. HellosUnderWay' = HellosUnderWay
    BY <2>1, <2>2, UnderWay, UnderWayNext
  <2>4. f.pos \in [Codec!Axis -> Coordinates] /\ f.vel \in [Codec!Axis -> Speeds]
    BY FlightsAssumption DEF Codec!Motions
  <2> QED  BY <2>1, <2>2, <2>3, <2>4 DEF Codec!Move
<1>11. ASSUME NEW p, RecvHello(p)
       PROVE  OneHello' /\ Codec!Next
  BY <1>0, <1>11, CodecHears DEF Codec!Next
<1>12. ASSUME NEW p, RecvSecureHello(p)
       PROVE  OneHello' /\ Codec!Next
  BY <1>0, <1>12, CodecOpens DEF Codec!Next
<1>13. ASSUME NEW p, \/ RecvIgnored \/ RecvGSGeoLocation(p) \/ RecvSecureGSGeoLocation(p)
                     \/ RecvAuthenticationReply(p) \/ RecvData(p)
       PROVE  OneHello' /\ [Codec!Next]_(Codec!vars)
  <2>1. /\ up # <<>> /\ up' = Tail(up)
        /\ UNCHANGED <<secure, net, flight, said, neighbor, heard>>
    BY <1>13 DEF RecvIgnored, RecvGSGeoLocation, RecvSecureGSGeoLocation, RecvAuthenticationReply,
                 RecvData, Arrives
  <2> QED  BY <1>0, <2>1, CodecReads DEF Codec!Next
<1> DEFINE Done == OneHello' /\ [Codec!Next]_(Codec!vars)
<1>14. ASSUME NEW p \in net, RecvAuthenticationRequest(p) \/ RouteInput(p) \/ Lose(p)
       PROVE  Done
  BY <1>5, <1>7, <1>8, <1>14
<1>15. ASSUME NEW p, \/ RecvHello(p) \/ RecvSecureHello(p) \/ RecvGSGeoLocation(p)
                     \/ RecvSecureGSGeoLocation(p) \/ RecvAuthenticationReply(p) \/ RecvData(p)
       PROVE  Done
  BY <1>11, <1>12, <1>13, <1>15
<1>16. ASSUME RecvIgnored
       PROVE  Done
  BY <1>13, <1>16
<1>17. ASSUME NEW size \in DataSizes, SendData(size)
       PROVE  Done
  BY <1>6, <1>17
<1>18. ASSUME NEW f \in Flights, Move(f)
       PROVE  Done
  BY <1>10, <1>18 DEF Codec!Next
<1>19. ASSUME SendHello \/ SendGroundStationPackets \/ SendAuthenticationRequest
       PROVE  Done
  BY <1>1, <1>3, <1>4, <1>19
<1>20. ASSUME RouteInputElsewhere \/ UNCHANGED vars
       PROVE  Done
  BY <1>9, <1>20
<1>21. Done
  <2> HIDE DEF Done
  <2> QED
    BY <1>14, <1>15, <1>16, <1>17, <1>18, <1>19, <1>20 DEF Next
<1> QED  BY <1>21

(* Both begin in the same state. *)
LEMMA CodecInit == Init => OneHello /\ Codec!Init
<1> SUFFICES ASSUME Init PROVE OneHello /\ Codec!Init
  OBVIOUS
<1>1. net = {} /\ DOMAIN up = {}
  <2>1. up \in Seq({}) /\ Len(up) = 0
    BY EmptySeq DEF Init
  <2> QED  BY <2>1, LenProperties DEF Init
<1>2. OneHello /\ HelloPackets = {}
  BY <1>1 DEF OneHello, HelloPackets, Messages
<1>3. HellosUnderWay = {}
  BY <1>2, UnderWay
<1>4. flight \in Codec!Motions /\ said = flight /\ heard = flight /\ neighbor = {}
  BY FlightsAssumption DEF Init
<1>5. flight = Codec!Motion(flight.pos, flight.vel)
  BY <1>4 DEF Codec!Motions, Codec!Motion
<1>6. flight.pos \in [Codec!Axis -> Coordinates] /\ flight.vel \in [Codec!Axis -> Speeds]
  BY <1>4 DEF Codec!Motions
<1> QED  BY <1>2, <1>3, <1>4, <1>5, <1>6 DEF Codec!Init

(* Headers, encryption, the socket and the gate implement HelloCodec: for any flights, delays *)
(* and losses the entry of a neighbour is decoded from the HELLO as it was encoded, and a     *)
(* HELLO that is ignored or does not open leaves no trace.                                    *)
THEOREM ImplementsCodec == Spec => CodecSpec
<1>1. IInv /\ OneHello /\ [Next]_vars => IInv' /\ OneHello' /\ [Codec!Next]_(Codec!vars)
  BY IInvStep, CodecStep
<1> QED  BY <1>1, IInvInit, CodecInit, PTL DEF Spec, CodecSpec, Codec!Spec

(* What HelloCodec promises of its entries holds of the neighbour table here: whether the  *)
(* HELLO came in the clear or as bytes that were encrypted, decrypted and read again, the *)
(* entry is the sender's motion cut to whole metres, with the directions.                 *)
THEOREM NeighborAsFlown == Spec => []Codec!MotionAsSaid
<1>1. Facts!Spec => []Facts!MotionAsSaid
  BY MotionsAssumption, Facts!HeardAsSaid
<1>2. Codec!Axis = Facts!Axis
  BY DEF Codec!Axis, Facts!Axis
<1>3. \A pos, vel : Codec!Motion(pos, vel) = Facts!Motion(pos, vel)
  BY DEF Codec!Motion, Facts!Motion
<1>4. Codec!Init => Facts!Init
  BY <1>2, <1>3 DEF Codec!Init, Facts!Init
<1>5. \A type, pos, vel : Codec!Header(type, pos, vel) = Facts!Header(type, pos, vel)
  <2>1. \A a : Codec!Truncate(a) = Facts!Truncate(a)
    BY DEF Codec!Truncate, Facts!Truncate
  <2>2. \A code : Codec!Backwards(code) = Facts!Backwards(code)
    BY <1>2 DEF Codec!Backwards, Facts!Backwards
  <2>3. \A vel : Codec!VelocitySign(vel) = Facts!VelocitySign(vel)
    BY <1>2, <2>2, Zenon DEF Codec!VelocitySign, Facts!VelocitySign
  <2> QED  BY <1>2, <2>1, <2>3, Zenon DEF Codec!Header, Facts!Header
<1>6. \A p : Codec!Decoded(p) = Facts!Decoded(p)
  <2>1. Codec!Negated = Facts!Negated
    BY DEF Codec!Negated, Facts!Negated
  <2> QED  BY <1>2, <1>3, <2>1, Zenon DEF Codec!Decoded, Facts!Decoded
<1>7. Codec!Next => Facts!Next
  <2>1. \A type : Codec!SendHello(type) => Facts!SendHello(type)
    BY <1>3, <1>5 DEF Codec!SendHello, Facts!SendHello
  <2>2. Codec!RecvHello => Facts!RecvHello
    BY <1>6 DEF Codec!RecvHello, Facts!RecvHello
  <2>3. Codec!RecvSecureHello => Facts!RecvSecureHello
    BY <1>6 DEF Codec!RecvSecureHello, Facts!RecvSecureHello
  <2>4. Codec!Lose => Facts!Lose
    BY DEF Codec!Lose, Facts!Lose
  <2>5. Codec!Move => Facts!Move
    BY <1>2 DEF Codec!Move, Facts!Move
  <2> QED  BY <2>1, <2>2, <2>3, <2>4, <2>5 DEF Codec!Next, Facts!Next
<1>8. [Codec!Next]_(Codec!vars) => [Facts!Next]_(Facts!vars)
  <2>1. Codec!vars = Facts!vars /\ (Codec!vars)' = (Facts!vars)'
    BY DEF Codec!vars, Facts!vars
  <2> QED  BY <1>7, <2>1
<1>9. Facts!MotionAsSaid => Codec!MotionAsSaid
  <2>1. \A k, v : Facts!WholePart(k, v) <=> Codec!WholePart(k, v)
    BY DEF Facts!WholePart, Codec!WholePart
  <2> QED  BY <1>2, <2>1 DEF Facts!MotionAsSaid, Codec!MotionAsSaid
<1> QED  BY <1>1, <1>4, <1>8, <1>9, ImplementsCodec, PTL DEF CodecSpec, Codec!Spec, Facts!Spec
=============================================================================
