---------------------------- MODULE Authentication ----------------------------
(***************************************************************************)
(* The secure control plane (m_SecurityState true) of a ground station and *)
(* the airborne nodes around it: the certificate-based handshake in which  *)
(* a node gets the shared key from the ground station, and the control     *)
(* packets (SECURE_HELLO, SECURE_GSGEOLOCATION) that only holders of the   *)
(* key exchange.  Every node has run Start; the requests and replies       *)
(* travel over interface 2, the control packets are broadcast on interface *)
(* 1, and either may be late or lost.                                      *)
(*                                                                         *)
(* OpenSSL is abstracted to what the program relies on: a certificate of   *)
(* the one certificate authority verifies, a signature verifies against    *)
(* the data and key it was made with, a ciphertext opens with the key, IV  *)
(* and additional data it was made with.                                   *)
(***************************************************************************)
EXTENDS Integers

CONSTANTS
  Nodes,           \* GetId () of the airborne nodes
  GS,              \* GetId () of the ground station
  Base,            \* 3232235777, which is 192.168.1.1
  Randoms,         \* values of m_myRandomNo
  SharedKey, NoKey,
  Window,          \* td of VerifyTimeStamp
  AuthInterval,    \* AuthenticationInterval, the largest FIRSTAUTH_JITTER
  Networks,        \* for a network: whether it loses packets, how long a handshake packet takes
  MaxNow           \* bound: the last instant at which the clock is looked at

All == Nodes \cup {GS}

ASSUME NodesAssumption ==
  /\ GS = 0 /\ Nodes \subseteq 1..255 /\ Base \in Nat /\ Base > 255
  /\ SharedKey # NoKey
ASSUME TimeAssumption ==
  /\ Window \in Nat /\ AuthInterval \in Nat /\ MaxNow \in Nat
  /\ Networks \subseteq [lossy : BOOLEAN, delay : Nat]

VARIABLES
  now,             \* Simulator::Now ()
  rand,            \* m_myRandomNo
  network,         \* the network of this simulation
  status,          \* m_authenticationStatus
  key,             \* m_sharedKey
  authTimer,       \* AuthenticationTimer is scheduled
  helloTimer,      \* HelloIntervalTimer is scheduled
  authNet,         \* requests and replies under way
  air,             \* control packets under way, one for each receiver
  heard,           \* senders of the HELLOs each node put in its neighbour table
  located          \* nodes that have put positions into m_nodesPosition

vars == <<now, rand, network, status, key, authTimer, helloTimer, authNet, air, heard, located>>

-----------------------------------------------------------------------------
(* Contents of the handshake *)

AuthAddress(n) == Base + n

IdentificationOf_HostByte(addr) == addr % 256

(* static_cast<uint8_t> (senderip % 3232235777U) *)
IdentificationOf(addr) == (addr % Base) % 256

SetANData(time, randno, identifier) == <<time, randno, identifier>>

SetGSData(time, gsrandno, anrandno, identifier, encrypted) ==
  <<time, gsrandno, anrandno, identifier, encrypted>>

SignData(n, data) == [by |-> n, data |-> data]

EncryptSharedKey(n) == [for |-> n, key |-> key[GS]]

VerifyIdentification(id, me) == id = me
VerifyCert(cert) == cert \in All
VerifySign(m, data) == m.sign = [by |-> m.cert, data |-> data]
VerifyRandomNo(anrandno, me) == anrandno = rand[me]

(* The handlers call Time::FromInteger on sendertimestamp and drop its result: the time  *)
(* they check is the default, zero.                                                      *)
SenderTimeStamp(m) == 0

VerifyTimeStamp_Strict(timestamp) == timestamp + Window > now

VerifyTimeStamp(timestamp) == timestamp + Window >= now

CheckPacketValidity(m, data, me) ==
  /\ VerifyIdentification(m.id, me)
  /\ VerifyCert(m.cert)
  /\ VerifyTimeStamp(SenderTimeStamp(m))
  /\ VerifySign(m, data)

Request(n) ==
  [type |-> "request", source |-> AuthAddress(n), to |-> GS, cert |-> n, time |-> now,
   rand |-> rand[n], id |-> GS, sign |-> SignData(n, SetANData(now, rand[n], GS))]

Reply(r) ==
  LET id == IdentificationOf(r.source)
      ek == EncryptSharedKey(r.cert)
  IN  [type |-> "reply", source |-> AuthAddress(GS), to |-> r.source - Base, cert |-> GS,
       time |-> now, rand |-> rand[GS], oldRand |-> r.rand, id |-> id, key |-> ek,
       sign |-> SignData(GS, SetGSData(now, rand[GS], r.rand, id, ek))]

-----------------------------------------------------------------------------
(* The handshake *)

AuthenticationTimerExpire_Retry(n) ==
  /\ authTimer[n]
  /\ authNet' = authNet \cup {Request(n)}
  /\ authTimer' = [authTimer EXCEPT ![n] = status[n] = "UNAUTH" /\ now < AuthInterval]
  /\ UNCHANGED <<now, rand, network, status, key, helloTimer, air, heard, located>>

(* The request is sent once: rescheduling is commented out. *)
AuthenticationTimerExpire(n) ==
  /\ authTimer[n]
  /\ authNet' = authNet \cup {Request(n)}
  /\ authTimer' = [authTimer EXCEPT ![n] = FALSE]
  /\ UNCHANGED <<now, rand, network, status, key, helloTimer, air, heard, located>>

RecvAuthenticationRequest(m) ==
  /\ m \in authNet /\ m.type = "request"
  /\ authNet' = (authNet \ {m}) \cup
       (IF CheckPacketValidity(m, SetANData(m.time, m.rand, m.id), m.to)
        THEN {Reply(m)} ELSE {})
  /\ UNCHANGED <<now, rand, network, status, key, authTimer, helloTimer, air, heard, located>>

RecvAuthenticationReply_KeyLeftOut(m) ==
  /\ m \in authNet /\ m.type = "reply"
  /\ authNet' = authNet \ {m}
  /\ status' = [status EXCEPT ![m.to] = "AUTH"]
  /\ UNCHANGED <<now, rand, network, key, authTimer, helloTimer, air, heard, located>>

RecvAuthenticationReply(m) ==
  LET me    == m.to
      valid == /\ CheckPacketValidity(m, SetGSData(m.time, m.rand, m.oldRand, m.id, m.key), me)
               /\ VerifyRandomNo(m.oldRand, me)
  IN  /\ m \in authNet /\ m.type = "reply"
      /\ authNet' = authNet \ {m}
      /\ \/ /\ valid
            /\ status' = [status EXCEPT ![me] = "AUTH"]
            /\ key' = [key EXCEPT ![me] = IF m.key.for = me THEN m.key.key ELSE @]
         \/ /\ ~valid
            /\ status' = [status EXCEPT ![me] = "UNAUTH"]
            /\ UNCHANGED key
      /\ UNCHANGED <<now, rand, network, authTimer, helloTimer, air, heard, located>>

-----------------------------------------------------------------------------
(* Control packets *)

(* A control packet as RouteOutput leaves it: encrypted with the sender's m_sharedKey,   *)
(* the sender's and the broadcast address as additional data and the uid as IV, which    *)
(* the receiver derives from the same packet.                                            *)
Broadcast(n, type) ==
  air \cup {[type |-> type, from |-> n, to |-> r, key |-> key[n]] : r \in All \ {n}}

HelloTimerExpire_NoReschedule(n) ==
  /\ helloTimer[n]
  /\ air' = IF status[n] = "AUTH" THEN Broadcast(n, "hello") ELSE air
  /\ helloTimer' = [helloTimer EXCEPT ![n] = status[n] = "AUTH"]
  /\ UNCHANGED <<now, rand, network, status, key, authTimer, authNet, heard, located>>

HelloTimerExpire(n) ==
  /\ helloTimer[n]
  /\ \/ status[n] = "AUTH" /\ air' = Broadcast(n, "hello")
     \/ status[n] = "UNAUTH" /\ UNCHANGED air
  /\ helloTimer' = [helloTimer EXCEPT ![n] = TRUE]
  /\ UNCHANGED <<now, rand, network, status, key, authTimer, authNet, heard, located>>

GSTimerExpire_AsHello ==
  /\ air' = Broadcast(GS, "hello")
  /\ UNCHANGED <<now, rand, network, status, key, authTimer, helloTimer, authNet, heard, located>>

GSTimerExpire ==
  /\ air' = Broadcast(GS, "gsgeo")
  /\ UNCHANGED <<now, rand, network, status, key, authTimer, helloTimer, authNet, heard, located>>

(* An unauthenticated node ignores the packet, and so does one that cannot decrypt it. *)
Accepts(c) == status[c.to] = "AUTH" /\ c.key = key[c.to]

RecvControl(c) ==
  /\ c \in air
  /\ air' = air \ {c}
  /\ heard' = [heard EXCEPT ![c.to] =
                 IF c.type = "hello" /\ Accepts(c) THEN @ \cup {c.from} ELSE @]
  /\ located' = IF c.type = "gsgeo" /\ Accepts(c) THEN located \cup {c.to} ELSE located
  /\ UNCHANGED <<now, rand, network, status, key, authTimer, helloTimer, authNet>>

-----------------------------------------------------------------------------
(* Time and the network *)

(* FIRSTAUTH_JITTER is over before AuthInterval, a delivery before network.delay. *)
Tick ==
  /\ now < MaxNow
  /\ now < AuthInterval \/ \A n \in Nodes : ~authTimer[n]
  /\ \A m \in authNet : now - m.time < network.delay
  /\ now' = now + 1
  /\ UNCHANGED <<rand, network, status, key, authTimer, helloTimer, authNet, air, heard, located>>

LoseAuth(m) ==
  /\ network.lossy /\ m \in authNet
  /\ authNet' = authNet \ {m}
  /\ UNCHANGED <<now, rand, network, status, key, authTimer, helloTimer, air, heard, located>>

LoseControl(c) ==
  /\ network.lossy /\ c \in air
  /\ air' = air \ {c}
  /\ UNCHANGED <<now, rand, network, status, key, authTimer, helloTimer, authNet, heard, located>>

-----------------------------------------------------------------------------
(* After Start on every node. *)
Init ==
  /\ now = 0
  /\ rand \in [All -> Randoms] /\ network \in Networks
  /\ status = [n \in All |-> IF n = GS THEN "AUTH" ELSE "UNAUTH"]
  /\ key = [n \in All |-> IF n = GS THEN SharedKey ELSE NoKey]
  /\ authTimer = [n \in Nodes |-> TRUE]
  /\ helloTimer = [n \in Nodes |-> TRUE]
  /\ authNet = {} /\ air = {}
  /\ heard = [n \in All |-> {}]
  /\ located = {}

Next ==
  \/ \E n \in Nodes : AuthenticationTimerExpire(n)
  \/ \E m \in authNet : RecvAuthenticationRequest(m)
  \/ \E m \in authNet : RecvAuthenticationReply(m)
  \/ \E n \in Nodes : HelloTimerExpire(n)
  \/ GSTimerExpire
  \/ \E c \in air : RecvControl(c)
  \/ Tick
  \/ \E m \in authNet : LoseAuth(m)
  \/ \E c \in air : LoseControl(c)

Spec == Init /\ [][Next]_vars

RecvAuthFor(n) ==
  \E m \in authNet : /\ m.cert = n \/ m.to = n
                     /\ RecvAuthenticationRequest(m) \/ RecvAuthenticationReply(m)

RecvHello(from, to) ==
  \E c \in air : c.type = "hello" /\ c.from = from /\ c.to = to /\ RecvControl(c)

(* Scheduled timers expire and what is under way and not lost arrives. *)
FairSpec ==
  /\ Spec
  /\ \A n \in Nodes : /\ WF_vars(AuthenticationTimerExpire(n)) /\ WF_vars(HelloTimerExpire(n))
                      /\ WF_vars(RecvAuthFor(n))
                      /\ \A r \in All : WF_vars(RecvHello(n, r))

-----------------------------------------------------------------------------
(* Types, with the parts of a message that the handlers use. *)
TypeOK ==
  /\ now \in 0..MaxNow /\ rand \in [All -> Randoms] /\ network \in Networks
  /\ status \in [All -> {"AUTH", "UNAUTH"}]
  /\ key \in [All -> {SharedKey, NoKey}]
  /\ authTimer \in [Nodes -> BOOLEAN] /\ helloTimer \in [Nodes -> BOOLEAN]
  /\ \A m \in authNet : m.type \in {"request", "reply"} /\ m.to \in All /\ m.time \in 0..now
  /\ air \subseteq [type : {"hello", "gsgeo"}, from : All, to : All, key : {SharedKey, NoKey}]
  /\ heard \in [All -> SUBSET Nodes] /\ located \subseteq All

(* A control packet under way to an authenticated node opens with that node's key: the   *)
(* failure branches of RecvAERORP are never taken between nodes that follow the protocol. *)
ControlOpens == \A c \in air : status[c.to] = "AUTH" => c.key = key[c.to]

(* Neighbour tables hold authenticated nodes only, at authenticated nodes only: the gate *)
(* is at both ends, HelloTimerExpire's and RecvAERORP's.                                 *)
OnlyMembersHeard ==
  \A n \in All : \A s \in heard[n] : status[n] = "AUTH" /\ status[s] = "AUTH"

(* A reply never takes a node's authentication away, although RecvAERORP sets UNAUTH on  *)
(* every reply it finds invalid.                                                         *)
AuthenticatedForGood ==
  [][\A n \in All : status[n] = "AUTH" => status'[n] = "AUTH"]_vars

(* A network that loses nothing and is fast enough for a request sent at the latest      *)
(* jitter, and the reply to it, to arrive within the window *)
Timely == ~network.lossy /\ AuthInterval + 2 * network.delay <= Window

(* On a timely network no node is left behind, although the request is sent only once: one *)
(* that is not authenticated has its timer scheduled, or its request or the reply to it is *)
(* under way.                                                                              *)
NoneLeftBehind ==
  Timely => \A n \in Nodes : \/ status[n] = "AUTH" \/ authTimer[n]
                             \/ \E m \in authNet : m.cert = n \/ m.to = n

(* On a timely network all nodes are authenticated and then hear each other: HELLOs       *)
(* missed before that are repeated.                                                       *)
EveryoneHeard ==
  Timely => <>(\A n \in All : \A s \in Nodes \ {n} : s \in heard[n])

-----------------------------------------------------------------------------
(* Abstraction: the handshake admits the nodes to a group *)

Under(type, n) ==
  \E m \in authNet : m.type = type /\ n = IF type = "request" THEN m.cert ELSE m.to

stageOf ==
  [n \in Nodes |-> IF status[n] = "AUTH" THEN "member"
                   ELSE IF authTimer[n] THEN "outside"
                   ELSE IF Under("request", n) THEN "applied"
                   ELSE IF Under("reply", n) THEN "answered"
                   ELSE "failed"]

Group == INSTANCE Membership WITH Founder <- GS, stage <- stageOf, known <- heard, safe <- Timely

(* Timers, requests, replies and the gates at both ends implement admission to a group:   *)
(* one application for each node, answered before it is admitted, which fails only on a   *)
(* network that is not timely; a stale reply, a late HELLO or a loss changes nothing else. *)
GroupSpec == Group!Spec

-----------------------------------------------------------------------------
(* A statement of the code that its steps do not keep *)

(* "extract data from packet then validate it": a request that is younger than the window *)
(* is answered.                                                                          *)
FreshRequestAnswered ==
  [][\A m \in authNet :
       RecvAuthenticationRequest(m) /\ now - m.time <= Window
         => \E r \in authNet' : r.type = "reply" /\ r.to = m.cert]_vars
=============================================================================
