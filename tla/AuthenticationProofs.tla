------------------------- MODULE AuthenticationProofs -------------------------
(***************************************************************************)
(* The safety of the handshake for any set of nodes, any random numbers,   *)
(* any delays and any losses.  The invariant says what is true of every    *)
(* message under way, and that a node has at most one exchange open, and   *)
(* that only while it is unauthenticated.                                  *)
(***************************************************************************)
EXTENDS Authentication, TLAPS

(* The node whose exchange a message belongs to. *)
About(m) == IF m.type = "request" THEN m.cert ELSE m.to

MessageOK(m) ==
  /\ m.time \in 0..now
  /\ \/ m.type = "request" /\ m.cert \in Nodes /\ m.source = AuthAddress(m.cert) /\ m.to = GS
     \/ m.type = "reply" /\ m.to \in Nodes /\ m.key = [for |-> m.to, key |-> SharedKey]

StateOK ==
  /\ now \in 0..MaxNow /\ rand \in [All -> Randoms] /\ network \in Networks
  /\ status \in [All -> {"AUTH", "UNAUTH"}]
  /\ key \in [All -> {SharedKey, NoKey}]
  /\ authTimer \in [Nodes -> BOOLEAN] /\ helloTimer \in [Nodes -> BOOLEAN]
  /\ heard \in [All -> SUBSET Nodes] /\ located \subseteq All

KeysOK == \A n \in All : status[n] = "AUTH" => key[n] = SharedKey

GroundStationOK == status[GS] = "AUTH"

AirOK ==
  /\ air \subseteq [type : {"hello", "gsgeo"}, from : All, to : All, key : {SharedKey, NoKey}]
  /\ \A c \in air : c.key = SharedKey /\ status[c.from] = "AUTH"
                    /\ (c.type = "hello" => c.from \in Nodes)

OneExchange ==
  /\ \A m \in authNet : status[About(m)] = "UNAUTH" /\ ~authTimer[About(m)]
  /\ \A m, k \in authNet : About(m) = About(k) => m = k
  /\ \A n \in Nodes : authTimer[n] => status[n] = "UNAUTH"

IInv ==
  /\ StateOK /\ (\A m \in authNet : MessageOK(m)) /\ KeysOK /\ GroundStationOK
  /\ AirOK /\ OneExchange /\ OnlyMembersHeard

-----------------------------------------------------------------------------
(* The ground station is not one of the airborne nodes. *)
LEMMA GSApart == GS \notin Nodes /\ GS \in All /\ Nodes \subseteq All
  BY NodesAssumption DEF All

(* Every exchange belongs to an airborne node. *)
LEMMA AboutNode == ASSUME NEW m, MessageOK(m) PROVE About(m) \in Nodes
  BY DEF About, MessageOK

(* The reply goes back to the node that asked, with the key encrypted for it. *)
LEMMA ReplyOK ==
  ASSUME IInv, NEW m \in authNet, m.type = "request"
  PROVE  MessageOK(Reply(m)) /\ About(Reply(m)) = m.cert
<1>1. m.cert \in Nodes /\ m.source = Base + m.cert /\ now \in 0..MaxNow
  BY DEF IInv, MessageOK, AuthAddress, StateOK
<1>2. m.source - Base = m.cert
  <2>1. Base \in Int /\ \A n \in Nodes : n \in Int
    BY NodesAssumption
  <2>2. \A b, c \in Int : (b + c) - b = c
    OBVIOUS
  <2> QED BY <2>1, <2>2, <1>1
<1>3. key[GS] = SharedKey
  BY GSApart DEF IInv, KeysOK, GroundStationOK
<1>4. /\ Reply(m).type = "reply" /\ Reply(m).to = m.cert /\ Reply(m).time = now
      /\ Reply(m).key = [for |-> m.cert, key |-> SharedKey]
  BY <1>2, <1>3 DEF Reply, EncryptSharedKey
<1> QED BY <1>1, <1>4, TimeAssumption DEF MessageOK, About

(* The invariant holds when every node has run Start. *)
LEMMA InitInv == Init => IInv
<1> SUFFICES ASSUME Init PROVE IInv
  OBVIOUS
<1> USE DEF Init
<1>1. StateOK
  BY TimeAssumption DEF StateOK
<1>2. KeysOK /\ GroundStationOK
  BY GSApart DEF KeysOK, GroundStationOK
<1>3. AirOK /\ OnlyMembersHeard
  BY DEF AirOK, OnlyMembersHeard
<1>4. OneExchange
  BY GSApart DEF OneExchange
<1> QED BY <1>1, <1>2, <1>3, <1>4 DEF IInv

(* A step of a message under way: one goes, perhaps another of the same exchange comes. *)
LEMMA RequestStep ==
  ASSUME IInv, NEW m \in authNet, RecvAuthenticationRequest(m)
  PROVE  IInv'
<1> USE DEF IInv
<1>1. /\ m.type = "request" /\ MessageOK(m)
      /\ authNet' = authNet \ {m} \/ authNet' = (authNet \ {m}) \cup {Reply(m)}
      /\ UNCHANGED <<now, rand, network, status, key, authTimer, helloTimer, air, heard, located>>
  BY DEF RecvAuthenticationRequest
<1>2. MessageOK(Reply(m)) /\ About(Reply(m)) = About(m)
  BY <1>1, ReplyOK DEF About
<1>3. \A k \in authNet' : MessageOK(k)
  BY <1>1, <1>2
<1>4. (\A k \in authNet : MessageOK(k))'
  BY <1>1, <1>3 DEF MessageOK, AuthAddress
<1>5. OneExchange'
  <2>1. \A k \in authNet' : (k \in authNet /\ k # m) \/ k = Reply(m)
    BY <1>1
  <2>2. \A k, l \in authNet' : About(k) = About(l) => k = l
    BY <2>1, <1>2 DEF OneExchange
  <2>3. \A k \in authNet' : status[About(k)] = "UNAUTH" /\ ~authTimer[About(k)]
    BY <2>1, <1>2 DEF OneExchange
  <2> QED BY <2>2, <2>3, <1>1 DEF OneExchange, About
<1>6. StateOK' /\ KeysOK' /\ GroundStationOK' /\ AirOK' /\ OnlyMembersHeard'
  BY <1>1 DEF StateOK, KeysOK, GroundStationOK, AirOK, OnlyMembersHeard
<1> QED BY <1>4, <1>5, <1>6

(* A reply authenticates the node that asked, or is refused and ends the exchange. *)
LEMMA ReplyStep ==
  ASSUME IInv, NEW m \in authNet, RecvAuthenticationReply(m)
  PROVE  IInv' /\ \A n \in All : status[n] = "AUTH" => status'[n] = "AUTH"
<1> USE DEF IInv
<1>1. /\ m.type = "reply" /\ m.to \in Nodes /\ m.key = [for |-> m.to, key |-> SharedKey]
      /\ About(m) = m.to /\ authNet' = authNet \ {m}
      /\ UNCHANGED <<now, rand, network, authTimer, helloTimer, air, heard, located>>
  BY DEF RecvAuthenticationReply, MessageOK, About
<1>2. m.to \in All /\ m.to # GS
  BY <1>1, GSApart
<1>3. \/ /\ status' = [status EXCEPT ![m.to] = "AUTH"]
         /\ key' = [key EXCEPT ![m.to] = SharedKey]
      \/ status' = [status EXCEPT ![m.to] = "UNAUTH"] /\ UNCHANGED key
  BY <1>1 DEF RecvAuthenticationReply
<1>4. status[m.to] = "UNAUTH"
  BY <1>1 DEF OneExchange
<1>5. \A n \in All : status[n] = "AUTH" => status'[n] = "AUTH"
  BY <1>2, <1>3, <1>4 DEF StateOK
<1>6. \A n \in All : n # m.to => status'[n] = status[n] /\ key'[n] = key[n]
  BY <1>2, <1>3 DEF StateOK
<1>7. StateOK'
  BY <1>1, <1>3 DEF StateOK
<1>8. KeysOK' /\ GroundStationOK'
  BY <1>2, <1>3, <1>6, GSApart DEF KeysOK, GroundStationOK, StateOK
<1>9. AirOK'
  BY <1>1, <1>5 DEF AirOK
<1>10. OnlyMembersHeard'
  BY <1>1, <1>5, GSApart DEF OnlyMembersHeard, StateOK
<1>11. (\A k \in authNet : MessageOK(k))'
  BY <1>1 DEF MessageOK, AuthAddress
<1>12. OneExchange'
  <2>1. \A k \in authNet' : k \in authNet /\ About(k) # m.to /\ About(k) \in Nodes
    BY <1>1, AboutNode DEF OneExchange
  <2>2. \A k \in authNet' : status'[About(k)] = "UNAUTH" /\ ~authTimer'[About(k)]
    BY <2>1, <1>1, <1>6, GSApart DEF OneExchange
  <2>3. \A n \in Nodes : authTimer'[n] => status'[n] = "UNAUTH"
    <3>1. authTimer[m.to] = FALSE
      BY <1>1 DEF OneExchange, StateOK
    <3> QED BY <3>1, <1>1, <1>6, GSApart DEF OneExchange
  <2> QED BY <2>1, <2>2, <2>3, <1>1 DEF OneExchange, About
<1> QED BY <1>5, <1>7, <1>8, <1>9, <1>10, <1>11, <1>12

(* AuthenticationTimerExpire opens the only exchange of a node. *)
LEMMA AuthTimerStep ==
  ASSUME IInv, NEW n \in Nodes, AuthenticationTimerExpire(n)
  PROVE  IInv'
<1> USE DEF IInv
<1>1. /\ authTimer[n] /\ authNet' = authNet \cup {Request(n)}
      /\ authTimer' = [authTimer EXCEPT ![n] = FALSE]
      /\ UNCHANGED <<now, rand, network, status, key, helloTimer, air, heard, located>>
  BY DEF AuthenticationTimerExpire
<1>2. MessageOK(Request(n)) /\ About(Request(n)) = n
  BY TimeAssumption DEF Request, MessageOK, About, StateOK
<1>3. \A k \in authNet' : MessageOK(k)
  BY <1>1, <1>2
<1>4. (\A k \in authNet : MessageOK(k))'
  BY <1>1, <1>3 DEF MessageOK, AuthAddress
<1>5. OneExchange'
  <2>1. \A k \in authNet : About(k) # n /\ About(k) \in Nodes
    BY <1>1, AboutNode DEF OneExchange, StateOK
  <2>2. \A k \in authNet' : k \in authNet \/ k = Request(n)
    BY <1>1
  <2>3. \A k, l \in authNet' : About(k) = About(l) => k = l
    BY <2>1, <2>2, <1>2 DEF OneExchange
  <2>4. \A x \in Nodes : authTimer'[x] = IF x = n THEN FALSE ELSE authTimer[x]
    BY <1>1 DEF StateOK
  <2>5. \A k \in authNet' : status[About(k)] = "UNAUTH" /\ ~authTimer'[About(k)]
    BY <2>1, <2>2, <2>4, <1>1, <1>2 DEF OneExchange
  <2> QED BY <2>3, <2>4, <2>5, <1>1 DEF OneExchange, About
<1>6. StateOK' /\ KeysOK' /\ GroundStationOK' /\ AirOK' /\ OnlyMembersHeard'
  BY <1>1 DEF StateOK, KeysOK, GroundStationOK, AirOK, OnlyMembersHeard
<1> QED BY <1>4, <1>5, <1>6

(* A broadcast of an authenticated node carries the shared key. *)
LEMMA BroadcastOK ==
  ASSUME IInv, NEW n \in All, status[n] = "AUTH", NEW type \in {"hello", "gsgeo"},
         type = "hello" => n \in Nodes, air' = Broadcast(n, type),
         UNCHANGED <<now, rand, network, status, key, authTimer, authNet, heard, located>>,
         helloTimer' \in [Nodes -> BOOLEAN]
  PROVE  IInv'
<1> USE DEF IInv
<1>1. key[n] = SharedKey
  BY DEF KeysOK
<1>2. \A c \in air' : c \in air \/ \E r \in All : c = [type |-> type, from |-> n, to |-> r, key |-> SharedKey]
  BY <1>1 DEF Broadcast
<1>3. AirOK'
  BY <1>2 DEF AirOK
<1>4. StateOK' /\ KeysOK' /\ GroundStationOK' /\ OnlyMembersHeard' /\ OneExchange'
  BY DEF StateOK, KeysOK, GroundStationOK, OnlyMembersHeard, OneExchange, About
<1>5. (\A k \in authNet : MessageOK(k))'
  BY DEF MessageOK, AuthAddress
<1> QED BY <1>3, <1>4, <1>5

(* Control packets travel under the shared key, between nodes that have it. *)
LEMMA ControlStep ==
  ASSUME IInv, NEW c \in air, RecvControl(c)
  PROVE  IInv'
<1> USE DEF IInv
<1>1. /\ air' = air \ {c} /\ UNCHANGED <<now, rand, network, status, key, authTimer, helloTimer, authNet>>
      /\ heard' = [heard EXCEPT ![c.to] =
                     IF c.type = "hello" /\ Accepts(c) THEN @ \cup {c.from} ELSE @]
      /\ located' = IF c.type = "gsgeo" /\ Accepts(c) THEN located \cup {c.to} ELSE located
  BY DEF RecvControl
<1>2. c.to \in All /\ c.from \in All /\ status[c.from] = "AUTH" /\ (c.type = "hello" => c.from \in Nodes)
  BY DEF AirOK
<1>3. StateOK'
  BY <1>1, <1>2 DEF StateOK
<1>4. OnlyMembersHeard'
  BY <1>1, <1>2 DEF OnlyMembersHeard, StateOK, Accepts
<1>5. KeysOK' /\ GroundStationOK' /\ AirOK' /\ OneExchange'
  BY <1>1 DEF KeysOK, GroundStationOK, AirOK, OneExchange, About
<1>6. (\A k \in authNet : MessageOK(k))'
  BY <1>1 DEF MessageOK, AuthAddress
<1> QED BY <1>3, <1>4, <1>5, <1>6

(* Losing packets, and time. *)
LEMMA NetworkStep ==
  ASSUME IInv, authNet' \subseteq authNet, air' \subseteq air, now' \in now..MaxNow,
         UNCHANGED <<rand, network, status, key, authTimer, helloTimer, heard, located>>
  PROVE  IInv'
<1> USE DEF IInv
<1>1. StateOK' /\ KeysOK' /\ GroundStationOK' /\ AirOK' /\ OnlyMembersHeard' /\ OneExchange'
  BY TimeAssumption
     DEF StateOK, KeysOK, GroundStationOK, AirOK, OnlyMembersHeard, OneExchange, About
<1>2. (\A k \in authNet : MessageOK(k))'
  BY TimeAssumption DEF MessageOK, AuthAddress, StateOK
<1> QED BY <1>1, <1>2

(* Every step keeps the invariant. *)
LEMMA NextInv ==
  ASSUME IInv, [Next]_vars
  PROVE  IInv' /\ \A n \in All : status[n] = "AUTH" => status'[n] = "AUTH"
<1>1. ASSUME NEW n \in Nodes, AuthenticationTimerExpire(n)
      PROVE  IInv' /\ UNCHANGED status
  BY <1>1, AuthTimerStep DEF AuthenticationTimerExpire
<1>2. ASSUME NEW m \in authNet, RecvAuthenticationRequest(m)
      PROVE  IInv' /\ UNCHANGED status
  BY <1>2, RequestStep DEF RecvAuthenticationRequest
<1>3. ASSUME NEW n \in Nodes, HelloTimerExpire(n)
      PROVE  IInv' /\ UNCHANGED status
  <2>1. helloTimer' \in [Nodes -> BOOLEAN] /\ n \in All
    BY <1>3, GSApart DEF HelloTimerExpire, IInv, StateOK
  <2>2. CASE status[n] = "AUTH"
    BY <2>1, <2>2, <1>3, BroadcastOK DEF HelloTimerExpire
  <2>3. CASE status[n] # "AUTH"
    <3>1. UNCHANGED <<now, rand, network, status, key, authTimer, authNet, air, heard, located>>
      BY <2>3, <1>3 DEF HelloTimerExpire
    <3> QED BY <3>1, <2>1 DEF IInv, StateOK, KeysOK, GroundStationOK, AirOK, OneExchange,
                              OnlyMembersHeard, MessageOK, About, AuthAddress
  <2> QED BY <2>2, <2>3
<1>4. CASE GSTimerExpire
  BY <1>4, BroadcastOK, GSApart DEF GSTimerExpire, IInv, GroundStationOK, StateOK
<1>5. ASSUME NEW c \in air, RecvControl(c)
      PROVE  IInv' /\ UNCHANGED status
  BY <1>5, ControlStep DEF RecvControl
<1>6. CASE Tick
  BY <1>6, NetworkStep, TimeAssumption DEF Tick, IInv, StateOK
<1>7. CASE UNCHANGED vars
  BY <1>7, NetworkStep, TimeAssumption DEF vars, IInv, StateOK
<1>8. ASSUME NEW m \in authNet, LoseAuth(m)
      PROVE  IInv' /\ UNCHANGED status
  BY <1>8, NetworkStep, TimeAssumption DEF LoseAuth, IInv, StateOK
<1>9. ASSUME NEW c \in air, LoseControl(c)
      PROVE  IInv' /\ UNCHANGED status
  BY <1>9, NetworkStep, TimeAssumption DEF LoseControl, IInv, StateOK
<1>10. CASE Tick \/ GSTimerExpire \/ UNCHANGED vars
  BY <1>4, <1>6, <1>7, <1>10 DEF Tick, GSTimerExpire, vars
<1> QED BY <1>1, <1>2, <1>3, <1>5, <1>8, <1>9, <1>10, ReplyStep DEF Next

(* The strengthening of the safety invariants holds in every reachable state. *)
THEOREM Invariance == Spec => []IInv
<1>1. IInv /\ [Next]_vars => IInv'
  BY NextInv
<1> QED BY <1>1, InitInv, PTL DEF Spec

(* Types hold; a message under way is never one its handler cannot read. *)
THEOREM TypeCorrect == Spec => []TypeOK
<1>1. IInv => TypeOK
  BY GSApart DEF IInv, StateOK, AirOK, MessageOK, TypeOK
<1> QED BY <1>1, Invariance, PTL

(* Control packets between authenticated nodes always open. *)
THEOREM AlwaysOpens == Spec => []ControlOpens
<1>1. IInv => ControlOpens
  BY DEF IInv, AirOK, KeysOK, ControlOpens
<1> QED BY <1>1, Invariance, PTL

(* Neighbour tables of the secure protocol name authenticated nodes only. *)
THEOREM MembersOnly == Spec => []OnlyMembersHeard
<1>1. IInv => OnlyMembersHeard
  BY DEF IInv
<1> QED BY <1>1, Invariance, PTL

(* Once authenticated, always authenticated. *)
THEOREM Stable == Spec => AuthenticatedForGood
<1>1. IInv /\ [Next]_vars => [\A n \in All : status[n] = "AUTH" => status'[n] = "AUTH"]_vars
  BY NextInv
<1> QED BY <1>1, Invariance, PTL DEF Spec, AuthenticatedForGood

-----------------------------------------------------------------------------
(* The handshake on a timely network: requests leave before AuthInterval is over and every *)
(* hop takes at most network.delay, so each message under way is genuine and is handled    *)
(* while VerifyTimeStamp still agrees; the exchange of a node is closed by AUTH only.      *)

Genuine(m) ==
  /\ now - m.time <= network.delay
  /\ \/ /\ m.type = "request" /\ m.id = GS /\ m.time <= AuthInterval /\ m.rand = rand[m.cert]
        /\ m.sign = SignData(m.cert, SetANData(m.time, m.rand, m.id))
     \/ /\ m.type = "reply" /\ m.id = m.to /\ m.cert = GS /\ m.oldRand = rand[m.to]
        /\ m.time <= AuthInterval + network.delay
        /\ m.sign = SignData(GS, SetGSData(m.time, m.rand, m.oldRand, m.id, m.key))

JitterOver == \A n \in Nodes : authTimer[n] => now <= AuthInterval

GInv == IInv /\ (\A m \in authNet : Genuine(m)) /\ JitterOver

(* The address of a node gives its identity back. *)
LEMMA IdentityFromAddress == \A n \in Nodes : IdentificationOf(AuthAddress(n)) = n
<1> SUFFICES ASSUME NEW n \in Nodes PROVE IdentificationOf(AuthAddress(n)) = n
  OBVIOUS
<1>1. n \in 1..255 /\ Base \in Nat /\ Base > 255
  BY NodesAssumption
<1>2. (Base + n) % Base = n
  BY <1>1
<1>3. n % 256 = n
  BY <1>1
<1> QED  BY <1>2, <1>3 DEF IdentificationOf, AuthAddress

(* A genuine message is valid for its receiver as long as the window is open. *)
LEMMA ValidInWindow ==
  ASSUME GInv, NEW m \in authNet
  PROVE  /\ m.type = "request"
            => (CheckPacketValidity(m, SetANData(m.time, m.rand, m.id), m.to) <=> now <= Window)
         /\ m.type = "reply"
            => /\ CheckPacketValidity(m, SetGSData(m.time, m.rand, m.oldRand, m.id, m.key), m.to)
                  <=> now <= Window
               /\ VerifyRandomNo(m.oldRand, m.to)
<1>1. MessageOK(m) /\ Genuine(m) /\ now \in Nat
  BY DEF GInv, IInv, StateOK
<1>2. VerifyTimeStamp(SenderTimeStamp(m)) <=> now <= Window
  BY <1>1, TimeAssumption DEF VerifyTimeStamp, SenderTimeStamp
<1>3. ASSUME m.type = "request"
      PROVE  CheckPacketValidity(m, SetANData(m.time, m.rand, m.id), m.to) <=> now <= Window
  <2>1. m.cert \in All /\ m.to = GS /\ m.id = GS
    BY <1>1, <1>3, GSApart DEF MessageOK, Genuine
  <2>2. m.sign = SignData(m.cert, SetANData(m.time, m.rand, m.id))
    BY <1>1, <1>3 DEF Genuine
  <2> QED  BY <2>1, <2>2, <1>2 DEF CheckPacketValidity, VerifyIdentification, VerifyCert, VerifySign, SignData
<1>4. ASSUME m.type = "reply"
      PROVE  /\ CheckPacketValidity(m, SetGSData(m.time, m.rand, m.oldRand, m.id, m.key), m.to)
                <=> now <= Window
             /\ VerifyRandomNo(m.oldRand, m.to)
  <2>1. m.cert = GS /\ m.id = m.to /\ m.oldRand = rand[m.to]
    BY <1>1, <1>4 DEF Genuine
  <2>2. m.sign = SignData(m.cert, SetGSData(m.time, m.rand, m.oldRand, m.id, m.key))
    BY <1>1, <1>4 DEF Genuine
  <2> QED  BY <2>1, <2>2, <1>2, GSApart
           DEF CheckPacketValidity, VerifyIdentification, VerifyCert, VerifySign, SignData, VerifyRandomNo
<1> QED  BY <1>3, <1>4

(* What AuthenticationTimerExpire sends is genuine. *)
LEMMA RequestGenuine ==
  ASSUME GInv, NEW n \in Nodes, authTimer[n]
  PROVE  Genuine(Request(n))
<1>1. now <= AuthInterval /\ now \in Nat /\ network.delay \in Nat
  BY TimeAssumption DEF GInv, JitterOver, IInv, StateOK
<1> QED  BY <1>1 DEF Genuine, Request

(* So is the answer to a genuine request. *)
LEMMA ReplyGenuine ==
  ASSUME GInv, NEW m \in authNet, m.type = "request"
  PROVE  Genuine(Reply(m))
<1>1. /\ m.cert \in Nodes /\ m.source = AuthAddress(m.cert) /\ m.time \in 0..now
      /\ now \in Nat /\ network.delay \in Nat /\ AuthInterval \in Nat
  <2>1. MessageOK(m) /\ StateOK
    BY DEF GInv, IInv
  <2> QED  BY <2>1, TimeAssumption DEF MessageOK, StateOK
<1>2. now - m.time <= network.delay /\ m.time <= AuthInterval /\ m.rand = rand[m.cert]
  BY DEF GInv, Genuine
<1>3. Reply(m).to = m.cert
  BY ReplyOK DEF GInv, About, Reply
<1>4. Reply(m).id = m.cert /\ IdentificationOf(m.source) = m.cert
  BY <1>1, IdentityFromAddress DEF Reply
<1>5. now <= AuthInterval + network.delay
  BY <1>1, <1>2
<1>6. /\ Reply(m).type = "reply" /\ Reply(m).cert = GS /\ Reply(m).oldRand = m.rand
      /\ Reply(m).time = now
      /\ Reply(m).sign = SignData(GS, SetGSData(Reply(m).time, Reply(m).rand, Reply(m).oldRand,
                                               Reply(m).id, Reply(m).key))
  BY DEF Reply
<1> QED  BY <1>1, <1>2, <1>3, <1>4, <1>5, <1>6 DEF Genuine

(* Every step keeps the messages genuine and the timers within their jitter. *)
LEMMA GenuineStep ==
  ASSUME GInv, [Next]_vars
  PROVE  GInv'
<1>1. IInv'
  BY NextInv DEF GInv
<1>2. ASSUME UNCHANGED <<now, rand, network>>,
             \A m \in authNet' : m \in authNet \/ Genuine(m),
             \A n \in Nodes : authTimer'[n] => authTimer[n]
      PROVE  GInv'
  <2>1. \A m \in authNet' : Genuine(m)
    BY <1>2 DEF GInv
  <2>2. (\A m \in authNet : Genuine(m))'
    BY <2>1, <1>2 DEF Genuine
  <2> QED  BY <1>1, <1>2, <2>2 DEF GInv, JitterOver
<1>3. ASSUME NEW n \in Nodes, AuthenticationTimerExpire(n)
      PROVE  GInv'
  <2>1. \A x \in Nodes : authTimer'[x] => authTimer[x]
    BY <1>3 DEF AuthenticationTimerExpire, GInv, IInv, StateOK
  <2> QED  BY <1>2, <1>3, <2>1, RequestGenuine DEF AuthenticationTimerExpire
<1>4. ASSUME NEW m \in authNet, RecvAuthenticationRequest(m)
      PROVE  GInv'
  BY <1>2, <1>4, ReplyGenuine DEF RecvAuthenticationRequest
<1>5. ASSUME NEW m \in authNet, RecvAuthenticationReply(m)
      PROVE  GInv'
  BY <1>2, <1>5 DEF RecvAuthenticationReply
<1>6. CASE Tick
  <2>1. /\ now' = now + 1 /\ now \in Nat /\ network.delay \in Nat /\ AuthInterval \in Nat
        /\ now < AuthInterval \/ \A n \in Nodes : ~authTimer[n]
        /\ UNCHANGED <<rand, network, authTimer, authNet>>
    BY <1>6, TimeAssumption DEF Tick, GInv, IInv, StateOK
  <2>2. ASSUME NEW m \in authNet
        PROVE  Genuine(m)'
    <3>1. now - m.time < network.delay /\ m.time \in Int /\ Genuine(m)
      <4>1. MessageOK(m) /\ Genuine(m)
        BY DEF GInv, IInv
      <4> QED  BY <4>1, <2>1, <1>6 DEF Tick, MessageOK
    <3>2. now' - m.time <= network.delay
      BY <3>1, <2>1
    <3> QED  BY <3>1, <3>2, <2>1 DEF Genuine
  <2>3. JitterOver'
    BY <2>1 DEF JitterOver
  <2> QED  BY <1>1, <2>1, <2>2, <2>3 DEF GInv
<1>7. CASE UNCHANGED vars
  BY <1>2, <1>7 DEF vars
<1>8. ASSUME NEW n \in Nodes, HelloTimerExpire(n)
      PROVE  GInv'
  BY <1>2, <1>8 DEF HelloTimerExpire
<1>9. CASE GSTimerExpire
  BY <1>2, <1>9 DEF GSTimerExpire
<1>10. ASSUME NEW c \in air, RecvControl(c) \/ LoseControl(c)
       PROVE  GInv'
  BY <1>2, <1>10 DEF RecvControl, LoseControl
<1>11. ASSUME NEW m \in authNet, LoseAuth(m)
       PROVE  GInv'
  BY <1>2, <1>11 DEF LoseAuth
<1> QED  BY <1>3, <1>4, <1>5, <1>6, <1>7, <1>8, <1>9, <1>10, <1>11 DEF Next

(* Every message under way was sent by the node it names, about what its receiver expects. *)
LEMMA AlwaysGenuine == Spec => []GInv
<1>1. Init => GInv
  BY InitInv, TimeAssumption DEF Init, GInv, JitterOver
<1> QED  BY <1>1, GenuineStep, PTL DEF Spec

(* On a timely network the window is open for whatever arrives. *)
LEMMA WindowOpen ==
  ASSUME GInv, Timely, NEW m \in authNet
  PROVE  now <= Window
<1>1. /\ now \in Nat /\ m.time \in 0..now /\ network.delay \in Nat
      /\ AuthInterval \in Nat /\ Window \in Nat
  <2>1. MessageOK(m) /\ StateOK
    BY DEF GInv, IInv
  <2> QED  BY <2>1, TimeAssumption DEF MessageOK, StateOK
<1>2. now - m.time <= network.delay /\ m.time <= AuthInterval + network.delay
  BY <1>1 DEF GInv, Genuine
<1> QED  BY <1>1, <1>2 DEF Timely

(* A step leaves no node behind. *)
LEMMA NoneLeftBehindStep ==
  ASSUME GInv, NoneLeftBehind, [Next]_vars
  PROVE  NoneLeftBehind'
<1> DEFINE Open(n) == status[n] = "AUTH" \/ authTimer[n] \/ \E m \in authNet : About(m) = n
<1>1. \A m \in authNet, n \in Nodes : m.cert = n \/ m.to = n <=> About(m) = n
  BY GSApart DEF GInv, IInv, MessageOK, Genuine, About
<1>2. GInv'
  BY GenuineStep
<1>3. \A m \in authNet', n \in Nodes : m.cert = n \/ m.to = n <=> About(m) = n
  BY <1>2, GSApart DEF GInv, IInv, MessageOK, Genuine, About
<1>4. SUFFICES ASSUME Timely', NEW n \in Nodes
               PROVE  Open(n)'
  BY <1>3 DEF NoneLeftBehind, About
<1>5. UNCHANGED network
  BY DEF Next, AuthenticationTimerExpire, RecvAuthenticationRequest, RecvAuthenticationReply,
         HelloTimerExpire, GSTimerExpire, RecvControl, Tick, LoseAuth, LoseControl, vars
<1>6. Timely /\ Open(n)
  BY <1>1, <1>4, <1>5 DEF Timely, NoneLeftBehind
<1>7. n \in All /\ (status[n] = "AUTH" => status'[n] = "AUTH")
  BY NextInv, GSApart DEF GInv
<1>8. ASSUME authNet \subseteq authNet', UNCHANGED authTimer
      PROVE  Open(n)'
  BY <1>6, <1>7, <1>8 DEF About
<1>9. ASSUME NEW x \in Nodes, AuthenticationTimerExpire(x)
      PROVE  Open(n)'
  <2>1. Request(x) \in authNet' /\ About(Request(x)) = x
    BY <1>9 DEF AuthenticationTimerExpire, Request, About
  <2>2. n # x => authTimer'[n] = authTimer[n]
    BY <1>9 DEF AuthenticationTimerExpire, GInv, IInv, StateOK
  <2>3. authNet \subseteq authNet'
    BY <1>9 DEF AuthenticationTimerExpire
  <2> QED  BY <1>6, <1>7, <2>1, <2>2, <2>3 DEF About
<1>10. ASSUME NEW m \in authNet, RecvAuthenticationRequest(m)
       PROVE  Open(n)'
  <2>1. m.type = "request" /\ UNCHANGED authTimer
    BY <1>10 DEF RecvAuthenticationRequest
  <2>2. CheckPacketValidity(m, SetANData(m.time, m.rand, m.id), m.to)
    BY <1>6, <2>1, WindowOpen, ValidInWindow
  <2>3. authNet' = (authNet \ {m}) \cup {Reply(m)}
    BY <1>10, <2>2 DEF RecvAuthenticationRequest
  <2>4. About(Reply(m)) = About(m)
    BY <2>1, ReplyOK DEF GInv, About
  <2> QED  BY <1>6, <1>7, <2>1, <2>3, <2>4 DEF About
<1>11. ASSUME NEW m \in authNet, RecvAuthenticationReply(m)
       PROVE  Open(n)'
  <2>1. m.type = "reply" /\ UNCHANGED authTimer /\ authNet' = authNet \ {m} /\ About(m) = m.to
    BY <1>11 DEF RecvAuthenticationReply, About
  <2>2. /\ CheckPacketValidity(m, SetGSData(m.time, m.rand, m.oldRand, m.id, m.key), m.to)
        /\ VerifyRandomNo(m.oldRand, m.to)
    BY <1>6, <2>1, WindowOpen, ValidInWindow
  <2>3. status' = [status EXCEPT ![m.to] = "AUTH"]
    BY <1>11, <2>2 DEF RecvAuthenticationReply
  <2>4. n = m.to => status'[n] = "AUTH"
    BY <2>3, <1>7 DEF GInv, IInv, StateOK
  <2> QED  BY <1>6, <1>7, <2>1, <2>4 DEF About
<1>12. ASSUME NEW m \in authNet, LoseAuth(m)
       PROVE  Open(n)'
  BY <1>6, <1>12 DEF LoseAuth, Timely
<1>13. ASSUME NEW x \in Nodes, HelloTimerExpire(x)
       PROVE  Open(n)'
  BY <1>8, <1>13 DEF HelloTimerExpire
<1>14. ASSUME NEW c \in air, RecvControl(c) \/ LoseControl(c)
       PROVE  Open(n)'
  BY <1>8, <1>14 DEF RecvControl, LoseControl
<1>15. CASE GSTimerExpire \/ Tick \/ UNCHANGED vars
  BY <1>8, <1>15 DEF GSTimerExpire, Tick, vars
<1> QED  BY <1>9, <1>10, <1>11, <1>12, <1>13, <1>14, <1>15 DEF Next

(* On a network that loses nothing and is fast enough for the window, the one request of  *)
(* each node is answered and the answer accepted: an unauthenticated node always has its  *)
(* timer scheduled or a message of its exchange under way.                                *)
THEOREM NobodyLeftBehind == Spec => []NoneLeftBehind
<1>1. Init => NoneLeftBehind
  BY DEF Init, NoneLeftBehind
<1> QED  BY <1>1, NoneLeftBehindStep, AlwaysGenuine, PTL DEF Spec

(* The window is not the age of a request: whatever the network does, a request is answered *)
(* exactly when it arrives within Window of the start of the simulation.                   *)
THEOREM WindowFromTheStart ==
  Spec => [][\A m \in authNet :
               RecvAuthenticationRequest(m)
                 => ((\E r \in authNet' : r.type = "reply" /\ r.to = m.cert) <=> now <= Window)]_vars
<1>1. ASSUME GInv, NEW m \in authNet, RecvAuthenticationRequest(m)
      PROVE  (\E r \in authNet' : r.type = "reply" /\ r.to = m.cert) <=> now <= Window
  <2>1. m.type = "request" /\ About(m) = m.cert
    BY <1>1 DEF RecvAuthenticationRequest, About
  <2>2. \A r \in authNet \ {m} : ~(r.type = "reply" /\ r.to = m.cert)
    BY <1>1, <2>1 DEF GInv, IInv, OneExchange, About
  <2>3. Reply(m).type = "reply" /\ Reply(m).to = m.cert
    BY <1>1, <2>1, ReplyOK DEF GInv, About, Reply
  <2>4. CheckPacketValidity(m, SetANData(m.time, m.rand, m.id), m.to) <=> now <= Window
    BY <1>1, <2>1, ValidInWindow
  <2> QED  BY <1>1, <2>2, <2>3, <2>4 DEF RecvAuthenticationRequest
<1>2. GInv /\ [Next]_vars
        => [\A m \in authNet :
              RecvAuthenticationRequest(m)
                => ((\E r \in authNet' : r.type = "reply" /\ r.to = m.cert) <=> now <= Window)]_vars
  BY <1>1
<1> QED  BY <1>2, AlwaysGenuine, PTL DEF Spec

-----------------------------------------------------------------------------
(* Refinement: the handshake admits the nodes to a group *)

(* A stage of a node is a matter of its status, its timer and the messages about it. *)
LEMMA StageFrom ==
  ASSUME NEW n \in Nodes
  PROVE  /\ stageOf[n] = IF status[n] = "AUTH" THEN "member"
                         ELSE IF authTimer[n] THEN "outside"
                         ELSE IF \E m \in authNet : m.type = "request" /\ About(m) = n THEN "applied"
                         ELSE IF \E m \in authNet : m.type = "reply" /\ About(m) = n THEN "answered"
                         ELSE "failed"
         /\ stageOf'[n] = IF status'[n] = "AUTH" THEN "member"
                          ELSE IF authTimer'[n] THEN "outside"
                          ELSE IF \E m \in authNet' : m.type = "request" /\ About(m) = n THEN "applied"
                          ELSE IF \E m \in authNet' : m.type = "reply" /\ About(m) = n THEN "answered"
                          ELSE "failed"
<1>1. \A x : /\ Under("request", x) <=> \E m \in authNet : m.type = "request" /\ About(m) = x
             /\ Under("reply", x) <=> \E m \in authNet : m.type = "reply" /\ About(m) = x
  BY DEF Under, About
<1>2. \A x : /\ Under("request", x)' <=> \E m \in authNet' : m.type = "request" /\ About(m) = x
             /\ Under("reply", x)' <=> \E m \in authNet' : m.type = "reply" /\ About(m) = x
  BY DEF Under, About
<1> QED  BY <1>1, <1>2 DEF stageOf

(* While a message is under way its node is at the stage that the message says. *)
LEMMA StageOfMessage ==
  ASSUME IInv, NEW m \in authNet
  PROVE  /\ About(m) \in Nodes
         /\ m.type = "request" => stageOf[About(m)] = "applied"
         /\ m.type = "reply" => stageOf[About(m)] = "answered"
<1>1. MessageOK(m) /\ About(m) \in Nodes
  BY AboutNode DEF IInv
<1>2. status[About(m)] = "UNAUTH" /\ ~authTimer[About(m)]
  BY DEF IInv, OneExchange
<1>3. \A k \in authNet : About(k) = About(m) => k = m
  BY DEF IInv, OneExchange
<1> QED  BY <1>1, <1>2, <1>3, StageFrom

(* A step of one node's exchange is a step of that node alone. *)
LEMMA OneMoves ==
  ASSUME NEW n \in Nodes, NEW from, NEW to, stageOf[n] = from, stageOf'[n] = to,
         \A x \in Nodes \ {n} : status'[x] = status[x] /\ authTimer'[x] = authTimer[x],
         \A m \in authNet : About(m) # n => m \in authNet',
         \A m \in authNet' : About(m) # n => m \in authNet,
         UNCHANGED <<heard, network>>
  PROVE  Group!Advance(n, from, to)
<1>1. ASSUME NEW x \in Nodes, x # n
      PROVE  stageOf'[x] = stageOf[x]
  <2>1. \A m : About(m) = x => (m \in authNet' <=> m \in authNet)
    BY <1>1
  <2>2. status'[x] = status[x] /\ authTimer'[x] = authTimer[x]
    BY <1>1
  <2> DEFINE request  == \E m \in authNet : m.type = "request" /\ About(m) = x
             request2 == \E m \in authNet' : m.type = "request" /\ About(m) = x
             reply    == \E m \in authNet : m.type = "reply" /\ About(m) = x
             reply2   == \E m \in authNet' : m.type = "reply" /\ About(m) = x
  <2>3. (request <=> request2) /\ (reply <=> reply2)
    BY <2>1
  <2> QED  BY <2>2, <2>3, StageFrom
<1>2. stageOf' = [stageOf EXCEPT ![n] = to]
  <2>1. stageOf = [x \in Nodes |-> stageOf[x]] /\ stageOf' = [x \in Nodes |-> stageOf'[x]]
    BY DEF stageOf
  <2> HIDE DEF stageOf
  <2> QED  BY <2>1, <1>1
<1>3. Timely' = Timely
  BY DEF Timely
<1> QED  BY <1>2, <1>3 DEF Group!Advance

(* An expired timer applies. *)
LEMMA TimerInGroup ==
  ASSUME GInv, NEW n \in Nodes, AuthenticationTimerExpire(n)
  PROVE  Group!Apply(n)
<1>1. /\ authTimer[n] /\ authNet' = authNet \cup {Request(n)} /\ status[n] = "UNAUTH"
      /\ \A x \in Nodes : authTimer'[x] = IF x = n THEN FALSE ELSE authTimer[x]
      /\ UNCHANGED <<status, heard, network>>
  BY DEF AuthenticationTimerExpire, GInv, IInv, StateOK, OneExchange
<1>2. Request(n).type = "request" /\ About(Request(n)) = n
  BY DEF Request, About
<1>3. stageOf[n] = "outside"
  BY <1>1, StageFrom
<1>4. stageOf'[n] = "applied"
  <2>1. \E m \in authNet' : m.type = "request" /\ About(m) = n
    BY <1>1, <1>2
  <2>2. status'[n] = "UNAUTH" /\ ~authTimer'[n]
    BY <1>1
  <2> QED  BY <2>1, <2>2, StageFrom
<1> QED  BY <1>1, <1>2, <1>3, <1>4, OneMoves DEF Group!Apply

(* A request that arrives is answered, or comes too late. *)
LEMMA RequestInGroup ==
  ASSUME GInv, NEW m \in authNet, RecvAuthenticationRequest(m)
  PROVE  Group!Answer(About(m)) \/ Group!Fail(About(m))
<1> DEFINE n == About(m)
<1>1. /\ m.type = "request" /\ UNCHANGED <<status, authTimer, heard, network>>
      /\ n \in Nodes /\ stageOf[n] = "applied"
      /\ status[n] = "UNAUTH" /\ ~authTimer[n] /\ \A k \in authNet : About(k) = n => k = m
  BY StageOfMessage DEF RecvAuthenticationRequest, GInv, IInv, OneExchange
<1> HIDE DEF n
<1>2. CASE CheckPacketValidity(m, SetANData(m.time, m.rand, m.id), m.to)
  <2>1. authNet' = (authNet \ {m}) \cup {Reply(m)}
    BY <1>2 DEF RecvAuthenticationRequest
  <2>2. Reply(m).type = "reply" /\ About(Reply(m)) = n
    BY <1>1, ReplyOK DEF GInv, About, Reply, n
  <2>3. stageOf'[n] = "answered"
    <3>1. \A k \in authNet' : About(k) = n => k = Reply(m)
      BY <2>1, <1>1
    <3> QED  BY <3>1, <2>1, <2>2, <1>1, StageFrom
  <2>4. \A k \in authNet' : About(k) # n => k \in authNet
    BY <2>1, <2>2
  <2>5. \A k \in authNet : About(k) # n => k \in authNet'
    BY <2>1 DEF n
  <2> QED  BY <1>1, <2>3, <2>4, <2>5, OneMoves DEF Group!Answer, n
<1>3. CASE ~CheckPacketValidity(m, SetANData(m.time, m.rand, m.id), m.to)
  <2>1. authNet' = authNet \ {m}
    BY <1>3 DEF RecvAuthenticationRequest
  <2>2. ~Timely
    BY <1>1, <1>3, WindowOpen, ValidInWindow
  <2>3. stageOf'[n] = "failed"
    BY <1>1, <2>1, StageFrom
  <2>4. Group!Advance(n, "applied", "failed")
    BY <1>1, <2>1, <2>3, OneMoves DEF n
  <2> QED  BY <2>2, <2>4 DEF Group!Fail, n
<1> QED  BY <1>2, <1>3

(* A reply that arrives admits its node, or comes too late. *)
LEMMA ReplyInGroup ==
  ASSUME GInv, NEW m \in authNet, RecvAuthenticationReply(m)
  PROVE  Group!Admit(About(m)) \/ Group!Fail(About(m))
<1> DEFINE n == About(m)
           valid == /\ CheckPacketValidity(m, SetGSData(m.time, m.rand, m.oldRand, m.id, m.key), m.to)
                    /\ VerifyRandomNo(m.oldRand, m.to)
<1>1. /\ m.type = "reply" /\ UNCHANGED <<authTimer, heard, network>> /\ authNet' = authNet \ {m}
      /\ n \in Nodes /\ n \in All /\ stageOf[n] = "answered" /\ m.to = n
      /\ status[n] = "UNAUTH" /\ ~authTimer[n] /\ \A k \in authNet : About(k) = n => k = m
  <2>1. m.type = "reply" /\ About(m) = m.to
    BY DEF RecvAuthenticationReply, About
  <2> QED  BY <2>1, StageOfMessage, GSApart DEF RecvAuthenticationReply, GInv, IInv, OneExchange
<1>2. \/ valid /\ status' = [status EXCEPT ![n] = "AUTH"]
      \/ ~valid /\ status' = [status EXCEPT ![n] = "UNAUTH"]
  BY <1>1 DEF RecvAuthenticationReply
<1>3. valid <=> now <= Window
  BY <1>1, ValidInWindow
<1> HIDE DEF n, valid
<1>4. \A k \in authNet : About(k) # n => k \in authNet'
  BY <1>1 DEF n
<1>5. CASE valid
  <2>1. status'[n] = "AUTH" /\ \A x \in Nodes \ {n} : status'[x] = status[x]
    BY <1>1, <1>2, <1>5, GSApart DEF GInv, IInv, StateOK
  <2>2. stageOf'[n] = "member"
    BY <1>1, <2>1, StageFrom
  <2> QED  BY <1>1, <1>4, <2>1, <2>2, OneMoves DEF Group!Admit, n
<1>6. CASE ~valid
  <2>1. status'[n] = "UNAUTH" /\ \A x \in Nodes \ {n} : status'[x] = status[x]
    BY <1>1, <1>2, <1>6, GSApart DEF GInv, IInv, StateOK
  <2>2. stageOf'[n] = "failed"
    BY <1>1, <2>1, StageFrom
  <2>3. Group!Advance(n, "answered", "failed")
    BY <1>1, <1>4, <2>1, <2>2, OneMoves
  <2>4. ~Timely
    BY <1>3, <1>6, WindowOpen
  <2> QED  BY <2>3, <2>4 DEF Group!Fail, n
<1> QED  BY <1>5, <1>6

(* A lost message ends the application. *)
LEMMA LossInGroup ==
  ASSUME GInv, NEW m \in authNet, LoseAuth(m)
  PROVE  Group!Fail(About(m))
<1> DEFINE n == About(m)
<1>1. /\ UNCHANGED <<status, authTimer, heard, network>> /\ authNet' = authNet \ {m} /\ ~Timely
      /\ n \in Nodes /\ stageOf[n] \in {"applied", "answered"}
      /\ status[n] = "UNAUTH" /\ ~authTimer[n] /\ \A k \in authNet : About(k) = n => k = m
  <2>1. m.type \in {"request", "reply"}
    BY DEF GInv, Genuine
  <2> QED  BY <2>1, StageOfMessage DEF LoseAuth, Timely, GInv, IInv, OneExchange
<1>2. stageOf'[n] = "failed"
  BY <1>1, StageFrom
<1> HIDE DEF n
<1>3. \A k \in authNet : About(k) # n => k \in authNet'
  BY <1>1 DEF n
<1>4. Group!Advance(n, stageOf[n], "failed")
  BY <1>1, <1>2, <1>3, OneMoves
<1> QED  BY <1>1, <1>4 DEF Group!Fail, n

(* A HELLO that gets through the gates is heard of a member by a member. *)
LEMMA ControlInGroup ==
  ASSUME GInv, NEW c \in air, RecvControl(c)
  PROVE  Group!Next \/ UNCHANGED <<stageOf, heard, Timely>>
<1>1. UNCHANGED <<stageOf, Timely>>
  BY DEF RecvControl, stageOf, Under, Timely
<1>2. ASSUME NEW n \in Nodes, status[n] = "AUTH"
      PROVE  stageOf[n] = "member"
  BY <1>2, StageFrom
<1>3. c.to \in All /\ status[c.from] = "AUTH" /\ (c.type = "hello" => c.from \in Nodes)
  BY DEF GInv, IInv, AirOK
<1>4. CASE c.type = "hello" /\ Accepts(c)
  <2>1. Group!Member(c.to) /\ Group!Member(c.from)
    BY <1>2, <1>3, <1>4 DEF Accepts, Group!Member, All
  <2>2. heard' = [heard EXCEPT ![c.to] = @ \cup {c.from}]
    BY <1>4 DEF RecvControl
  <2>3. Group!Meet(c.to, c.from)
    BY <1>1, <2>1, <2>2 DEF Group!Meet
  <2> QED  BY <2>3, <1>3, <1>4 DEF Group!Next, All
<1>5. CASE ~(c.type = "hello" /\ Accepts(c))
  <2>1. heard' = heard
    BY <1>3, <1>5 DEF RecvControl, GInv, IInv, StateOK
  <2> QED  BY <1>1, <2>1
<1> QED  BY <1>4, <1>5

(* Every step of the handshake is a step of the group, or nothing is seen of it. *)
LEMMA NextInGroup ==
  ASSUME GInv, [Next]_vars
  PROVE  [Group!Next]_<<stageOf, heard, Timely>>
<1>1. ASSUME UNCHANGED <<status, authTimer, authNet, heard, network>>
      PROVE  UNCHANGED <<stageOf, heard, Timely>>
  BY <1>1 DEF stageOf, Under, Timely
<1>2. ASSUME NEW n \in Nodes, AuthenticationTimerExpire(n) PROVE Group!Next
  BY <1>2, TimerInGroup DEF Group!Next
<1>3. ASSUME NEW m \in authNet, RecvAuthenticationRequest(m) PROVE Group!Next
  BY <1>3, RequestInGroup, StageOfMessage DEF GInv, Group!Next
<1>4. ASSUME NEW m \in authNet, RecvAuthenticationReply(m) PROVE Group!Next
  BY <1>4, ReplyInGroup, StageOfMessage DEF GInv, Group!Next
<1>5. ASSUME NEW m \in authNet, LoseAuth(m) PROVE Group!Next
  BY <1>5, LossInGroup, StageOfMessage DEF GInv, Group!Next
<1>6. ASSUME NEW c \in air, RecvControl(c)
      PROVE  [Group!Next]_<<stageOf, heard, Timely>>
  BY <1>6, ControlInGroup
<1>7. ASSUME NEW n \in Nodes, HelloTimerExpire(n)
      PROVE  UNCHANGED <<stageOf, heard, Timely>>
  BY <1>1, <1>7 DEF HelloTimerExpire
<1>8. ASSUME NEW c \in air, LoseControl(c)
      PROVE  UNCHANGED <<stageOf, heard, Timely>>
  BY <1>1, <1>8 DEF LoseControl
<1>9. CASE GSTimerExpire \/ Tick \/ UNCHANGED vars
  BY <1>1, <1>9 DEF GSTimerExpire, Tick, vars
<1> QED  BY <1>2, <1>3, <1>4, <1>5, <1>6, <1>7, <1>8, <1>9 DEF Next

(* The secure control plane implements admission to a group: for any nodes, delays, losses *)
(* and random numbers every node applies once, is answered before it is admitted, stays,   *)
(* is known to members only, and fails only on a network that is not timely.               *)
THEOREM ImplementsGroup == Spec => GroupSpec
<1>1. ASSUME Init
      PROVE  Group!Init
  <2>1. ASSUME NEW n \in Nodes
        PROVE  stageOf[n] = "outside"
    <3>1. status[n] = "UNAUTH" /\ authTimer[n]
      BY <1>1, GSApart DEF Init, All
    <3> QED  BY <3>1, StageFrom
  <2>2. stageOf = [n \in Nodes |-> stageOf[n]]
    BY DEF stageOf
  <2> HIDE DEF stageOf
  <2>3. stageOf = [n \in Nodes |-> "outside"]
    BY <2>1, <2>2
  <2>4. heard = [n \in Nodes \cup {GS} |-> {}]
    BY <1>1 DEF Init, All
  <2> QED  BY <2>3, <2>4 DEF Group!Init
<1>2. Init => Group!Init
  BY <1>1
<1>3. GInv /\ [Next]_vars => [Group!Next]_<<stageOf, heard, Timely>>
  BY NextInGroup
<1> QED  BY <1>2, <1>3, AlwaysGenuine, PTL DEF Spec, GroupSpec, Group!Spec
=============================================================================
