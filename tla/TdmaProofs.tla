------------------------------ MODULE TdmaProofs ------------------------------
(***************************************************************************)
(* One transmitter at a time, a clear channel and intact queues for any    *)
(* frame, any assignment of its slots, any packets and any delays.         *)
(*                                                                         *)
(* The heart of the argument is DownsOK: the transmission under way, what  *)
(* remains of the slot after it and the guard time end before the next     *)
(* session.  It needs the queues too: StartTransmission schedules a single *)
(* event because one item is at the front.                                 *)
(***************************************************************************)
EXTENDS Tdma, FiniteSetTheorems, TLAPS

(* The channel's longest propagation delay, of the ground station too, fits the guard. *)
Covered == \A m \in Macs : MaxPropagation[m] <= GaurdTime

Seen == {x \in Packets : fate[x] # "new"}

ChainOK ==
  /\ \A s, t \in sessions : s = t
  /\ ~activeEpoch => sessions = {} /\ downs = {} /\ air = {}

DownsOK ==
  /\ \A d, e \in downs : d = e
  /\ \A d \in downs : \E s \in sessions :
       /\ Owner[PreviousSlot(s.slot)] = d.mac
       /\ d.rest > 0 /\ d.left + d.rest + GaurdTime <= s.left

AirOK ==
  Covered => \A a \in air : \E s \in sessions :
    /\ a.left <= s.left
    /\ a.left > 0 => Owner[PreviousSlot(s.slot)] = a.from

ItemsOK(m) ==
  /\ \A i \in queue[m] : Device[i.pkt] = m /\ fate[i.pkt] = "queued" /\ i.ord < Cardinality(Seen)
  /\ \A i, j \in queue[m] : i.pkt = j.pkt \/ i.ord = j.ord => i = j
  /\ \A p \in Packets : Device[p] = m /\ fate[p] = "queued" => \E i \in queue[m] : i.pkt = p

SizeOK(m) == IsFiniteSet(queue[m]) /\ Cardinality(queue[m]) <= MaxPacketNumber

QueueOK == \A m \in Macs : ItemsOK(m) /\ SizeOK(m)

IInv == TypeOK /\ ChainOK /\ DownsOK /\ AirOK /\ QueueOK

-----------------------------------------------------------------------------
(* Queues *)

(* A set that a function maps a finite set onto is no larger. *)
LEMMA ImageBound ==
  ASSUME NEW S, IsFiniteSet(S), NEW T, NEW f, T = {f[x] : x \in S}
  PROVE  IsFiniteSet(T) /\ Cardinality(T) <= Cardinality(S)
<1> DEFINE g == [x \in S |-> f[x]]
<1>1. g \in Surjection(S, T)
  BY DEF Surjection
<1> QED BY <1>1, FS_Surjection

(* The packets that have arrived are finitely many. *)
LEMMA SeenFinite == IsFiniteSet(Seen) /\ Cardinality(Seen) \in Nat
<1>1. Seen \subseteq Packets /\ IsFiniteSet(Packets)
  BY PacketAssumption DEF Seen
<1> QED BY <1>1, FS_Subset, FS_CardinalityType

(* Taking items out of one queue, when their packets end as sent or dropped and no other  *)
(* packet changes, leaves the queues intact.                                              *)
LEMMA Shrink ==
  ASSUME TypeOK, QueueOK, NEW m \in Macs, NEW q, q \subseteq queue[m],
         DOMAIN queue' = Macs, \A k \in Macs : queue'[k] = IF k = m THEN q ELSE queue[k],
         fate' \in [Packets -> {"new", "queued", "sent", "dropped"}],
         \A i \in queue[m] : i \notin q => fate'[i.pkt] \in {"sent", "dropped"},
         \A p \in Packets : (\A i \in queue[m] : i.pkt = p => i \in q) => fate'[p] = fate[p]
  PROVE  QueueOK' /\ \A k \in Macs : queue'[k] \subseteq queue[k]
<1>1. \A k \in Macs : queue'[k] = IF k = m THEN q ELSE queue[k]
  OBVIOUS
<1>2. \A k \in Macs : queue'[k] \subseteq queue[k]
  BY <1>1
<1>3. \A k \in Macs : \A i \in queue[k] : i.pkt \in Packets /\ i.ord \in Nat
  BY DEF TypeOK
<1>4. \A k \in Macs : ItemsOK(k) /\ SizeOK(k)
  BY DEF QueueOK
<1>5. \A p \in Packets : (p \in Seen') <=> (p \in Seen)
  <2> SUFFICES ASSUME NEW p \in Packets PROVE (fate'[p] # "new") <=> (fate[p] # "new")
    BY DEF Seen
  <2>1. CASE \A i \in queue[m] : i.pkt = p => i \in q
    BY <2>1
  <2>2. CASE \E i \in queue[m] : i.pkt = p /\ i \notin q
    BY <2>2, <1>4 DEF ItemsOK
  <2> QED BY <2>1, <2>2
<1>6. Seen' = Seen
  BY <1>5 DEF Seen
<1>7. ASSUME NEW k \in Macs PROVE SizeOK(k)'
  <2>1. IsFiniteSet(queue[k]) /\ Cardinality(queue[k]) <= MaxPacketNumber
    BY <1>4 DEF SizeOK
  <2>2. IsFiniteSet(queue'[k]) /\ Cardinality(queue'[k]) <= Cardinality(queue[k])
    BY <2>1, <1>2, FS_Subset
  <2>3. Cardinality(queue'[k]) \in Nat /\ Cardinality(queue[k]) \in Nat /\ MaxPacketNumber \in Nat
    BY <2>1, <2>2, FS_CardinalityType, PacketAssumption
  <2> QED BY <2>1, <2>2, <2>3 DEF SizeOK
<1>8. ASSUME NEW k \in Macs PROVE ItemsOK(k)'
  <2>1. ASSUME NEW i \in queue'[k]
        PROVE  Device[i.pkt] = k /\ fate'[i.pkt] = "queued" /\ i.ord < Cardinality(Seen')
    <3>1. i \in queue[k] /\ Device[i.pkt] = k /\ fate[i.pkt] = "queued" /\ i.ord < Cardinality(Seen)
      BY <1>2, <1>4 DEF ItemsOK
    <3>2. \A j \in queue[m] : j.pkt = i.pkt => j \in q
      <4>1. CASE k = m
        BY <4>1, <3>1, <1>1, <1>4 DEF ItemsOK
      <4>2. CASE k # m
        BY <4>2, <3>1, <1>4 DEF ItemsOK
      <4> QED BY <4>1, <4>2
    <3> QED BY <3>1, <3>2, <1>3, <1>6
  <2>2. \A i, j \in queue'[k] : i.pkt = j.pkt \/ i.ord = j.ord => i = j
    BY <1>2, <1>4 DEF ItemsOK
  <2>3. ASSUME NEW p \in Packets, Device[p] = k, fate'[p] = "queued"
        PROVE  \E i \in queue'[k] : i.pkt = p
    <3>1. \A i \in queue[m] : i.pkt = p => i \in q
      BY <2>3
    <3>2. PICK i \in queue[k] : i.pkt = p
      BY <2>3, <3>1, <1>4 DEF ItemsOK
    <3> QED BY <3>1, <3>2, <1>1
  <2> QED BY <2>1, <2>2, <2>3 DEF ItemsOK
<1> QED BY <1>1, <1>2, <1>7, <1>8 DEF QueueOK

(* What Cleanup does to a queue and to the fates. *)
LEMMA CleanupOK ==
  ASSUME TypeOK, QueueOK, NEW m \in Macs, NEW out, out \subseteq Live(queue[m]),
         NEW ps, \A p : p \in ps <=> \E i \in out : i.pkt = p,
         queue' = [queue EXCEPT ![m] = Live(queue[m]) \ out],
         fate' = Fate(queue[m], ps, "sent")
  PROVE  /\ QueueOK' /\ DOMAIN queue' = Macs
         /\ \A k \in Macs : queue'[k] \subseteq queue[k]
         /\ fate' \in [Packets -> {"new", "queued", "sent", "dropped"}]
<1> DEFINE q == Live(queue[m]) \ out
<1>1. q \subseteq queue[m] /\ Live(queue[m]) \subseteq queue[m]
  BY DEF Live
<1>2. \A i \in queue[m] : i.pkt \in Packets
  BY DEF TypeOK
<1>3. \A i, j \in queue[m] : i.pkt = j.pkt => i = j
  BY DEF QueueOK, ItemsOK
<1>4. fate' \in [Packets -> {"new", "queued", "sent", "dropped"}]
  BY DEF Fate, TypeOK
<1>5. \A p \in Packets : fate'[p] = IF p \in Dropped(queue[m]) THEN "dropped"
                                    ELSE IF p \in ps THEN "sent" ELSE fate[p]
  BY DEF Fate
<1>6. \A i \in queue[m] : i \notin q => fate'[i.pkt] \in {"sent", "dropped"}
  BY <1>2, <1>5 DEF Dropped
<1>7. \A p \in Packets : (\A i \in queue[m] : i.pkt = p => i \in q) => fate'[p] = fate[p]
  BY <1>1, <1>5 DEF Dropped
<1> HIDE DEF q
<1>8. /\ DOMAIN queue' = Macs /\ \A k \in Macs : queue'[k] = IF k = m THEN q ELSE queue[k]
      /\ q \subseteq queue[m]
  BY <1>1 DEF q, TypeOK
<1>9. QueueOK' /\ \A k \in Macs : queue'[k] \subseteq queue[k]
  BY <1>4, <1>6, <1>7, <1>8, Shrink, ZenonT(60)
<1> QED BY <1>4, <1>8, <1>9

(* A step that changes neither queues nor fates keeps the queues intact. *)
LEMMA QueueStutter ==
  ASSUME QueueOK, UNCHANGED <<queue, fate>>
  PROVE  QueueOK'
<1>1. Seen' = Seen
  BY DEF Seen
<1> QED BY <1>1 DEF QueueOK, ItemsOK, SizeOK

(* An accepted packet goes to the back. *)
LEMMA EnqueueOK ==
  ASSUME TypeOK, QueueOK, NEW p \in Packets, Enqueue(p)
  PROVE  /\ QueueOK' /\ DOMAIN queue' = Macs
         /\ fate' \in [Packets -> {"new", "queued", "sent", "dropped"}]
         /\ \A m \in Macs : queue'[m] \subseteq [pkt : Packets, age : 0..MaxDelay, ord : Nat]
<1> DEFINE m == Device[p]
           live == Live(queue[m])
           item == [pkt |-> p, age |-> 0, ord |-> Cardinality(Seen)]
<1>1. m \in Macs /\ live \subseteq queue[m] /\ fate[p] = "new" /\ p \notin Dropped(queue[m])
  <2>1. m \in Macs /\ live \subseteq queue[m] /\ fate[p] = "new"
    BY PacketAssumption DEF Live, Enqueue
  <2>2. \A i \in queue[m] : fate[i.pkt] = "queued"
    BY <2>1 DEF QueueOK, ItemsOK
  <2>3. \A i \in queue[m] : i.pkt # p
    BY <2>1, <2>2
  <2> QED BY <2>1, <2>3 DEF Dropped
<1>2. \A k \in Macs : /\ queue[k] \subseteq [pkt : Packets, age : 0..MaxDelay, ord : Nat]
                      /\ ItemsOK(k) /\ SizeOK(k)
  BY DEF TypeOK, QueueOK
<1>3. IsFiniteSet(live) /\ Cardinality(live) \in Nat /\ Cardinality(live) <= MaxPacketNumber
  <2>1. IsFiniteSet(queue[m]) /\ Cardinality(queue[m]) <= MaxPacketNumber
    BY <1>1, <1>2 DEF SizeOK
  <2>2. IsFiniteSet(live) /\ Cardinality(live) <= Cardinality(queue[m])
    BY <1>1, <2>1, FS_Subset
  <2>3. Cardinality(queue[m]) \in Nat /\ Cardinality(live) \in Nat /\ MaxPacketNumber \in Nat
    BY <2>1, <2>2, FS_CardinalityType, PacketAssumption
  <2> QED BY <2>1, <2>2, <2>3
<1>4. item \in [pkt : Packets, age : 0..MaxDelay, ord : Nat]
  BY SeenFinite, PacketAssumption
<1>5. /\ queue' = [queue EXCEPT ![m] = IF IsFull(live) THEN live ELSE live \cup {item}]
      /\ fate' = Fate(queue[m], {p}, IF IsFull(live) THEN "dropped" ELSE "queued")
  BY DEF Enqueue, PushBack, Seen
<1>6. /\ fate' \in [Packets -> {"new", "queued", "sent", "dropped"}]
      /\ fate'[p] = IF IsFull(live) THEN "dropped" ELSE "queued"
      /\ \A x \in Packets : x # p =>
           fate'[x] = IF x \in Dropped(queue[m]) THEN "dropped" ELSE fate[x]
  BY <1>1, <1>5 DEF Fate, TypeOK
<1>7. /\ DOMAIN queue' = Macs
      /\ \A k \in Macs : k # m => queue'[k] = queue[k]
      /\ queue'[m] = IF IsFull(live) THEN live ELSE live \cup {item}
  BY <1>1, <1>5 DEF TypeOK
<1>8. IsFiniteSet(Seen') /\ Cardinality(Seen') = Cardinality(Seen) + 1
  <2>1. \A x \in Packets : x # p => (fate'[x] # "new" <=> fate[x] # "new")
    <3>1. \A x \in Dropped(queue[m]) : fate[x] = "queued"
      BY <1>1, <1>2 DEF Dropped, ItemsOK
    <3> QED BY <1>6, <3>1
  <2>2. Seen' = Seen \cup {p} /\ p \notin Seen
    BY <1>1, <1>6, <2>1 DEF Seen
  <2> QED BY <2>2, SeenFinite, FS_AddElement
<1> HIDE DEF item, live, m
<1>9. ASSUME NEW k \in Macs PROVE SizeOK(k)'
  <2>1. CASE k # m
    BY <2>1, <1>2, <1>7 DEF SizeOK
  <2>2. CASE k = m /\ IsFull(live)
    BY <2>2, <1>3, <1>7 DEF SizeOK
  <2>3. CASE k = m /\ ~IsFull(live)
    <3>1. queue'[k] = live \cup {item} /\ Cardinality(live) # MaxPacketNumber
      BY <2>3, <1>7 DEF IsFull
    <3>2. /\ IsFiniteSet(queue'[k])
          /\ Cardinality(queue'[k]) = Cardinality(live) \/ Cardinality(queue'[k]) = Cardinality(live) + 1
      BY <3>1, <1>3, FS_AddElement
    <3> QED BY <3>1, <3>2, <1>3, PacketAssumption DEF SizeOK
  <2> QED BY <2>1, <2>2, <2>3
<1>10. \A k \in Macs : \A i \in queue'[k] : \/ i \in queue[k] /\ (k = m => i \in live)
                                            \/ i = item /\ k = m /\ ~IsFull(live)
  BY <1>1, <1>7
<1>11. \A i \in live : i \in queue[m] /\ i.pkt \notin Dropped(queue[m])
  <2>1. \A i, j \in queue[m] : i.pkt = j.pkt => i = j
    BY <1>1, <1>2 DEF ItemsOK
  <2> QED BY <1>1, <2>1 DEF Dropped, live
<1>12. ASSUME NEW k \in Macs, NEW i, i \in queue[k], k = m => i \in live
       PROVE  fate'[i.pkt] = "queued" /\ i.pkt # p /\ i.ord < Cardinality(Seen)
  <2>1. Device[i.pkt] = k /\ fate[i.pkt] = "queued" /\ i.ord < Cardinality(Seen) /\ i.pkt \in Packets
    BY <1>2, <1>12 DEF ItemsOK
  <2>2. i.pkt \notin Dropped(queue[m])
    <3>1. CASE k = m
      BY <3>1, <1>12, <1>11
    <3>2. CASE k # m
      BY <3>2, <2>1, <1>1, <1>2 DEF Dropped, ItemsOK
    <3> QED BY <3>1, <3>2
  <2> QED BY <2>1, <2>2, <1>1, <1>6
<1>13. item.pkt = p /\ item.ord = Cardinality(Seen) /\ Device[p] = m
  BY DEF item, m
<1>14. ASSUME NEW k \in Macs PROVE ItemsOK(k)'
  <2>1. \A i \in queue[k] : Device[i.pkt] = k /\ i.ord \in Nat
    BY <1>2 DEF ItemsOK
  <2>2. ASSUME NEW i \in queue'[k]
        PROVE  Device[i.pkt] = k /\ fate'[i.pkt] = "queued" /\ i.ord < Cardinality(Seen')
    <3>1. CASE i \in queue[k] /\ (k = m => i \in live)
      BY <3>1, <2>1, <1>8, <1>12, SeenFinite
    <3>2. CASE i = item /\ k = m /\ ~IsFull(live)
      BY <3>2, <1>6, <1>8, <1>13, SeenFinite
    <3> QED BY <3>1, <3>2, <1>10
  <2>3. ASSUME NEW i \in queue'[k], NEW j \in queue'[k], i.pkt = j.pkt \/ i.ord = j.ord
        PROVE  i = j
    <3>1. CASE i \in queue[k] /\ (k = m => i \in live) /\ j \in queue[k]
      BY <3>1, <2>3, <1>2 DEF ItemsOK
    <3>2. CASE i = item
      BY <3>2, <2>3, <2>1, <1>10, <1>12, <1>13, SeenFinite
    <3>3. CASE j = item
      BY <3>3, <2>3, <2>1, <1>10, <1>12, <1>13, SeenFinite
    <3> QED BY <3>1, <3>2, <3>3, <1>10
  <2>4. ASSUME NEW x \in Packets, Device[x] = k, fate'[x] = "queued"
        PROVE  \E i \in queue'[k] : i.pkt = x
    <3>1. CASE x = p
      <4>1. item \in queue'[k]
        BY <3>1, <2>4, <1>6, <1>7, <1>13
      <4> QED BY <3>1, <4>1, <1>13
    <3>2. CASE x # p
      <4>1. x \notin Dropped(queue[m]) /\ fate[x] = "queued"
        BY <3>2, <2>4, <1>6
      <4>2. PICK i \in queue[k] : i.pkt = x
        BY <4>1, <2>4, <1>2 DEF ItemsOK
      <4>3. k = m => i \in live
        BY <4>1, <4>2 DEF Dropped, live
      <4> QED BY <4>2, <4>3, <1>7
    <3> QED BY <3>1, <3>2
  <2> QED BY <2>2, <2>3, <2>4 DEF ItemsOK
<1>15. \A k \in Macs : queue'[k] \subseteq [pkt : Packets, age : 0..MaxDelay, ord : Nat]
  BY <1>1, <1>2, <1>4, <1>10
<1> QED BY <1>6, <1>7, <1>9, <1>14, <1>15 DEF QueueOK

(* As time passes the items of a queue only grow older. *)
LEMMA TickQueueOK ==
  ASSUME TypeOK, QueueOK, Tick
  PROVE  /\ QueueOK' /\ DOMAIN queue' = Macs
         /\ \A m \in Macs : queue'[m] \subseteq [pkt : Packets, age : 0..MaxDelay, ord : Nat]
<1> DEFINE Aged(i) == [i EXCEPT !.age = IF @ < MaxDelay THEN @ + 1 ELSE @]
<1>1. /\ queue' = [m \in Macs |-> {Aged(i) : i \in queue[m]}] /\ fate' = fate
      /\ Seen' = Seen
  BY DEF Tick, Seen
<1>2. ASSUME NEW m \in Macs, NEW i \in queue[m]
      PROVE  /\ Aged(i) \in [pkt : Packets, age : 0..MaxDelay, ord : Nat]
             /\ Aged(i).pkt = i.pkt /\ Aged(i).ord = i.ord
  <2>1. i \in [pkt : Packets, age : 0..MaxDelay, ord : Nat] /\ MaxDelay \in Nat
    BY PacketAssumption DEF TypeOK
  <2> QED BY <2>1
<1> HIDE DEF Aged
<1>3. ASSUME NEW m \in Macs PROVE SizeOK(m)'
  <2> DEFINE f == [i \in queue[m] |-> Aged(i)]
  <2>1. queue'[m] = {f[i] : i \in queue[m]}
    BY <1>1
  <2>2. IsFiniteSet(queue[m]) /\ Cardinality(queue[m]) <= MaxPacketNumber
    BY DEF QueueOK, SizeOK
  <2> HIDE DEF f
  <2>3. IsFiniteSet(queue'[m]) /\ Cardinality(queue'[m]) <= Cardinality(queue[m])
    BY <2>1, <2>2, ImageBound
  <2>4. Cardinality(queue[m]) \in Nat /\ Cardinality(queue'[m]) \in Nat /\ MaxPacketNumber \in Nat
    BY <2>2, <2>3, FS_CardinalityType, PacketAssumption
  <2> QED BY <2>2, <2>3, <2>4 DEF SizeOK
<1>4. ASSUME NEW m \in Macs PROVE ItemsOK(m)'
  <2>1. queue'[m] = {Aged(i) : i \in queue[m]} /\ ItemsOK(m)
    BY <1>1 DEF QueueOK
  <2>2. \A i \in queue'[m] : Device[i.pkt] = m /\ fate'[i.pkt] = "queued" /\ i.ord < Cardinality(Seen')
    BY <2>1, <1>1, <1>2 DEF ItemsOK
  <2>3. \A i, j \in queue'[m] : i.pkt = j.pkt \/ i.ord = j.ord => i = j
    BY <2>1, <1>2 DEF ItemsOK
  <2>4. \A p \in Packets : Device[p] = m /\ fate'[p] = "queued" => \E i \in queue'[m] : i.pkt = p
    BY <2>1, <1>1, <1>2 DEF ItemsOK
  <2> QED BY <2>2, <2>3, <2>4 DEF ItemsOK
<1> QED BY <1>1, <1>2, <1>3, <1>4 DEF QueueOK

-----------------------------------------------------------------------------
(* Transmissions *)

(* One item is at the front, so StartTransmission schedules at most one SendPacketDown,   *)
(* which leaves something of the slot.                                                    *)
LEMMA StartOK ==
  ASSUME TypeOK, QueueOK, NEW m \in Macs, NEW q, q \subseteq queue[m], NEW slot \in Int,
         NEW D, D = StartTransmission(m, q, slot)
  PROVE  /\ \A d \in D : /\ d \in [mac : Macs, left : Nat, rest : Nat]
                         /\ d.mac = m /\ d.rest > 0 /\ d.left + d.rest = slot
         /\ \A d, e \in D : d = e
<1> DEFINE F == Front(Live(q))
           E(i) == [mac |-> m, left |-> TxTime[i.pkt], rest |-> slot - TxTime[i.pkt]]
<1>1. \A i \in F : /\ i \in queue[m] /\ i.pkt \in Packets /\ i.ord \in Nat
                   /\ \A j \in F : i.ord <= j.ord
  BY DEF TypeOK, Front, Live
<1>2. \A i, j \in F : i = j
  <2> SUFFICES ASSUME NEW i \in F, NEW j \in F PROVE i = j
    OBVIOUS
  <2>1. i.ord = j.ord
    BY <1>1
  <2> QED BY <2>1, <1>1 DEF QueueOK, ItemsOK
<1> HIDE DEF F
<1>3. StartTransmission(m, q, slot) = {E(i) : i \in {j \in F : TxTime[j.pkt] < slot}}
  BY DEF StartTransmission, F
<1>4. \A i \in F : TxTime[i.pkt] \in Nat
  BY <1>1, PacketAssumption
<1>5. \A i \in F : TxTime[i.pkt] < slot =>
        /\ E(i) \in [mac : Macs, left : Nat, rest : Nat]
        /\ E(i).mac = m /\ E(i).rest > 0 /\ E(i).left + E(i).rest = slot
  BY <1>4
<1> QED BY <1>2, <1>3, <1>5

(* Truncation to microseconds never lengthens a time. *)
LEMMA Micro == ASSUME NEW t \in Nat PROVE GetMicroSeconds(t) \in Int /\ GetMicroSeconds(t) <= t
  BY FrameAssumption DEF GetMicroSeconds

(* The invariant holds before any device starts. *)
LEMMA InitInv == Init => IInv
<1> SUFFICES ASSUME Init PROVE IInv
  OBVIOUS
<1>1. TypeOK /\ ChainOK /\ DownsOK /\ AirOK
  BY DEF Init, TypeOK, ChainOK, DownsOK, AirOK
<1>2. QueueOK
  BY PacketAssumption, FS_EmptySet DEF Init, QueueOK, ItemsOK, SizeOK
<1> QED BY <1>1, <1>2 DEF IInv

(* Only the first device to start begins a chain of sessions. *)
LEMMA DoStartInv == ASSUME IInv, NEW m \in Macs, DoStart(m) PROVE IInv'
<1> USE DEF IInv
<1>1. QueueOK'
  BY QueueStutter DEF DoStart
<1>2. CASE activeEpoch
  BY <1>1, <1>2 DEF DoStart, TypeOK, ChainOK, DownsOK, AirOK
<1>3. CASE ~activeEpoch
  <2> DEFINE s == Session(m, 0, StartDelay)
  <2>1. sessions' = {s} /\ downs' = {} /\ air' = {} /\ activeEpoch'
    BY <1>3 DEF DoStart, ChainOK, TypeOK
  <2>2. s \in [by : Macs, slot : 0..(TotalSlots - 1), left : Nat]
    BY FrameAssumption DEF Session
  <2>3. TypeOK'
    BY <2>1, <2>2 DEF TypeOK, DoStart
  <2> HIDE DEF s
  <2>4. ChainOK' /\ DownsOK' /\ AirOK'
    BY <2>1 DEF ChainOK, DownsOK, AirOK
  <2> QED BY <1>1, <2>3, <2>4
<1> QED BY <1>2, <1>3 DEF TypeOK

(* Taking a packet keeps the invariant. *)
LEMMA EnqueueInv == ASSUME IInv, NEW p \in Packets, Enqueue(p) PROVE IInv'
<1> USE DEF IInv
<1>1. UNCHANGED <<running, activeEpoch, sessions, downs, air, halted>>
  BY DEF Enqueue
<1>2. QueueOK' /\ TypeOK'
  BY <1>1, EnqueueOK DEF TypeOK
<1>3. ChainOK' /\ DownsOK' /\ AirOK'
  BY <1>1 DEF ChainOK, DownsOK, AirOK
<1> QED BY <1>2, <1>3

(* An arrival keeps the invariant. *)
LEMMA ReceiveInv == ASSUME IInv, NEW a \in air, Receive(a) PROVE IInv'
<1> USE DEF IInv
<1>1. QueueOK'
  BY QueueStutter DEF Receive
<1>2. TypeOK' /\ ChainOK' /\ DownsOK' /\ AirOK'
  BY DEF Receive, TypeOK, ChainOK, DownsOK, AirOK
<1> QED BY <1>1, <1>2

(* What is left of every event shrinks by the same amount. *)
LEMMA TickInv == ASSUME IInv, Tick PROVE IInv'
<1> USE DEF IInv
<1>1. /\ sessions' = Later(sessions) /\ downs' = Later(downs) /\ air' = Later(air)
      /\ \A e \in sessions \cup downs \cup air : e.left > 0
      /\ UNCHANGED <<running, activeEpoch, fate, halted>>
  BY DEF Tick
<1>2. /\ sessions \subseteq [by : Macs, slot : 0..(TotalSlots - 1), left : Nat]
      /\ downs \subseteq [mac : Macs, left : Nat, rest : Nat]
      /\ air \subseteq [from : Macs, to : Macs, pkt : Packets, left : Nat]
  BY DEF TypeOK
<1>3. \A s \in sessions : /\ [s EXCEPT !.left = @ - 1] \in [by : Macs, slot : 0..(TotalSlots - 1), left : Nat]
                          /\ [s EXCEPT !.left = @ - 1].slot = s.slot
                          /\ [s EXCEPT !.left = @ - 1].left = s.left - 1
  BY <1>1, <1>2
<1>4. \A d \in downs : /\ [d EXCEPT !.left = @ - 1] \in [mac : Macs, left : Nat, rest : Nat]
                       /\ [d EXCEPT !.left = @ - 1].mac = d.mac /\ [d EXCEPT !.left = @ - 1].rest = d.rest
                       /\ [d EXCEPT !.left = @ - 1].left = d.left - 1
  BY <1>1, <1>2
<1>5. \A a \in air : /\ [a EXCEPT !.left = @ - 1] \in [from : Macs, to : Macs, pkt : Packets, left : Nat]
                     /\ [a EXCEPT !.left = @ - 1].from = a.from
                     /\ [a EXCEPT !.left = @ - 1].left = a.left - 1
  BY <1>1, <1>2
<1>6. QueueOK' /\ TypeOK'
  BY <1>1, <1>3, <1>4, <1>5, TickQueueOK DEF TypeOK, Later
<1>7. ChainOK'
  BY <1>1 DEF ChainOK, Later
<1>8. DownsOK'
  <2>1. \A d, e \in downs' : d = e
    BY <1>1 DEF DownsOK, Later
  <2>2. ASSUME NEW d \in downs
        PROVE  \E s \in sessions' :
                 /\ Owner[PreviousSlot(s.slot)] = d.mac
                 /\ d.rest > 0 /\ (d.left - 1) + d.rest + GaurdTime <= s.left
    <3>1. PICK s \in sessions : /\ Owner[PreviousSlot(s.slot)] = d.mac
                                /\ d.rest > 0 /\ d.left + d.rest + GaurdTime <= s.left
      BY DEF DownsOK
    <3>2. d.left \in Nat /\ d.rest \in Nat /\ s.left \in Nat /\ GaurdTime \in Nat
      BY <1>2, FrameAssumption
    <3>3. [s EXCEPT !.left = @ - 1] \in sessions'
      BY <1>1 DEF Later
    <3>4. (d.left - 1) + d.rest + GaurdTime <= s.left - 1
      BY <3>1, <3>2
    <3> QED BY <3>1, <3>3, <3>4, <1>3
  <2> QED BY <2>1, <2>2, <1>1, <1>4 DEF DownsOK, Later
<1>9. AirOK'
  <2> SUFFICES ASSUME Covered, NEW a \in air
               PROVE  \E s \in sessions' : /\ a.left - 1 <= s.left
                                           /\ a.left - 1 > 0 => Owner[PreviousSlot(s.slot)] = a.from
    BY <1>1, <1>5 DEF AirOK, Later
  <2>1. PICK s \in sessions : a.left <= s.left /\ (a.left > 0 => Owner[PreviousSlot(s.slot)] = a.from)
    BY DEF AirOK
  <2>2. [s EXCEPT !.left = @ - 1] \in sessions' /\ s.left \in Nat /\ a.left \in Nat
    BY <1>1, <1>2 DEF Later
  <2> QED BY <2>1, <2>2, <1>3
<1> QED BY <1>6, <1>7, <1>8, <1>9

(* The next packet of the slot fits what remains of it, and a packet just sent arrives    *)
(* before the guard time is over if the guard covers its propagation.                     *)
LEMMA SendPacketDownInv == ASSUME IInv, NEW d \in downs, SendPacketDown(d) PROVE IInv'
<1> USE DEF IInv
<1> DEFINE m == d.mac
           q == Live(queue[m])
<1>1. PICK i \in Front(q), delay \in Propagation(m) :
        /\ queue' = [queue EXCEPT ![m] = Live(@) \ {i}]
        /\ fate'  = Fate(queue[m], {i.pkt}, "sent")
        /\ air'   = air \cup Sent(m, i.pkt, delay)
        /\ downs' = (downs \ {d}) \cup
                    StartTransmission(m, Live(queue[m]) \ {i}, GetMicroSeconds(d.rest))
  BY DEF SendPacketDown
<1>2. d.left = 0 /\ UNCHANGED <<running, activeEpoch, sessions, halted>>
  BY DEF SendPacketDown
<1>3. /\ m \in Macs /\ d.rest \in Nat /\ downs = {d} /\ GaurdTime \in Nat
      /\ sessions \subseteq [by : Macs, slot : 0..(TotalSlots - 1), left : Nat]
      /\ air \subseteq [from : Macs, to : Macs, pkt : Packets, left : Nat]
      /\ queue[m] \subseteq [pkt : Packets, age : 0..MaxDelay, ord : Nat]
  BY FrameAssumption DEF TypeOK, DownsOK
<1>4. i \in Live(queue[m]) /\ i.pkt \in Packets /\ Live(queue[m]) \subseteq queue[m]
  BY <1>3 DEF Front, Live
<1>5. PICK s \in sessions : Owner[PreviousSlot(s.slot)] = m /\ d.rest > 0 /\ d.rest + GaurdTime <= s.left
  BY <1>2, <1>3 DEF DownsOK
<1>6. GetMicroSeconds(d.rest) \in Int /\ GetMicroSeconds(d.rest) <= d.rest
  BY <1>3, Micro
<1> HIDE DEF m, q
<1>7. /\ QueueOK' /\ DOMAIN queue' = Macs
      /\ \A k \in Macs : queue'[k] \subseteq queue[k]
      /\ fate' \in [Packets -> {"new", "queued", "sent", "dropped"}]
  <2>1. /\ queue' = [queue EXCEPT ![m] = Live(queue[m]) \ {i}]
        /\ fate' = Fate(queue[m], {i.pkt}, "sent")
    BY <1>1
  <2>2. m \in Macs /\ {i} \subseteq Live(queue[m]) /\ \A p : p \in {i.pkt} <=> \E j \in {i} : j.pkt = p
    BY <1>3, <1>4
  <2> QED BY <2>1, <2>2, CleanupOK, ZenonT(60)
<1>8. /\ \A e \in downs' : /\ e \in [mac : Macs, left : Nat, rest : Nat]
                           /\ e.mac = m /\ e.rest > 0 /\ e.left + e.rest = GetMicroSeconds(d.rest)
      /\ \A e, f \in downs' : e = f
  <2> DEFINE r == Live(queue[m]) \ {i}
             rest == GetMicroSeconds(d.rest)
  <2>1. downs' = StartTransmission(m, r, rest)
    BY <1>1, <1>3
  <2>2. r \subseteq queue[m] /\ rest \in Int /\ m \in Macs
    BY <1>3, <1>4, <1>6
  <2> HIDE DEF r, rest
  <2>3. /\ \A e \in downs' : /\ e \in [mac : Macs, left : Nat, rest : Nat]
                             /\ e.mac = m /\ e.rest > 0 /\ e.left + e.rest = rest
        /\ \A e, f \in downs' : e = f
    BY <2>1, <2>2, StartOK
  <2> QED BY <2>3 DEF rest
<1>9. \A a \in Sent(m, i.pkt, delay) :
        a \in [from : Macs, to : Macs, pkt : Packets, left : Nat] /\ a.from = m /\ a.left <= MaxPropagation[m]
  <2>1. \A r \in Macs \ {m} : delay[r] # OutOfRange => delay[r] \in 0..MaxPropagation[m]
    BY DEF Propagation
  <2> QED BY <2>1, <1>3, <1>4, PacketAssumption DEF Sent
<1>10. TypeOK'
  BY <1>1, <1>2, <1>7, <1>8, <1>9 DEF TypeOK
<1>11. ChainOK'
  BY <1>2, <1>3 DEF ChainOK
<1>12. DownsOK'
  <2>1. \A e \in downs' : e.left + e.rest + GaurdTime <= s.left
    <3> SUFFICES ASSUME NEW e \in downs' PROVE e.left + e.rest + GaurdTime <= s.left
      OBVIOUS
    <3>1. e.left \in Nat /\ e.rest \in Nat /\ s.left \in Nat /\ e.left + e.rest <= d.rest
      BY <1>3, <1>6, <1>8
    <3> QED BY <3>1, <1>3, <1>5
  <2> QED BY <2>1, <1>2, <1>5, <1>8 DEF DownsOK
<1>13. AirOK'
  <2> SUFFICES ASSUME Covered, NEW a \in air'
               PROVE  \E t \in sessions : /\ a.left <= t.left
                                          /\ a.left > 0 => Owner[PreviousSlot(t.slot)] = a.from
    BY <1>2 DEF AirOK, Covered
  <2>1. CASE a \in air
    BY <2>1 DEF AirOK
  <2>2. CASE a \in Sent(m, i.pkt, delay)
    <3>1. /\ a.left \in Nat /\ MaxPropagation[m] \in Nat /\ s.left \in Nat
          /\ a.left <= MaxPropagation[m] /\ MaxPropagation[m] <= GaurdTime
      BY <2>2, <1>3, <1>9, PacketAssumption DEF Covered
    <3>2. a.left <= s.left
      BY <3>1, <1>3, <1>5
    <3> QED BY <3>2, <2>2, <1>5, <1>9
  <2> QED BY <2>1, <2>2, <1>1
<1> QED BY <1>7, <1>10, <1>11, <1>12, <1>13

(* The step that ends the program keeps the invariant. *)
LEMMA SendPacketDownNullInv == ASSUME IInv, NEW d \in downs, SendPacketDownNull(d) PROVE IInv'
<1> USE DEF IInv
<1>1. /\ Live(queue[d.mac]) = {} /\ queue' = [queue EXCEPT ![d.mac] = {}]
      /\ fate' = Fate(queue[d.mac], {}, "sent")
      /\ halted' = TRUE /\ downs' = downs \ {d}
      /\ UNCHANGED <<running, activeEpoch, sessions, air>>
  BY DEF SendPacketDownNull
<1>2. d.mac \in Macs
  BY DEF TypeOK
<1>3. /\ QueueOK' /\ DOMAIN queue' = Macs
      /\ \A k \in Macs : queue'[k] \subseteq queue[k]
      /\ fate' \in [Packets -> {"new", "queued", "sent", "dropped"}]
  <2>1. /\ queue' = [queue EXCEPT ![d.mac] = Live(queue[d.mac]) \ {}]
        /\ {} \subseteq Live(queue[d.mac]) /\ {} = {j.pkt : j \in {}}
    BY <1>1
  <2> QED BY <2>1, <1>1, <1>2, CleanupOK
<1>4. TypeOK' /\ ChainOK' /\ DownsOK' /\ AirOK'
  BY <1>1, <1>3 DEF TypeOK, ChainOK, DownsOK, AirOK
<1> QED BY <1>3, <1>4

(* When a session begins, nothing is being transmitted, nothing covered by the guard is   *)
(* under way, and the slot it opens ends a guard time before the next session.            *)
LEMMA ScheduleTdmaSessionInv == ASSUME IInv, NEW s \in sessions, ScheduleTdmaSession(s) PROVE IInv'
<1> USE DEF IInv
<1> DEFINE m == Owner[s.slot]
<1>1. PICK n \in 1..TotalSlots :
        /\ Allotted(s.slot, n)
        /\ downs' = downs \cup StartTransmission(m, queue[m], SlotTime * n)
        /\ sessions' = (sessions \ {s}) \cup NextSession(s, n)
  BY DEF ScheduleTdmaSession
<1>2. /\ s.left = 0 /\ UNCHANGED <<running, activeEpoch, air, halted>>
      /\ queue' = [queue EXCEPT ![m] = Live(@)]
      /\ fate' = Fate(queue[m], {}, "sent")
  BY DEF ScheduleTdmaSession
<1> DEFINE slots == SlotTime * n
           t == IF s.slot + n = TotalSlots
                THEN Session(s.by, 0, GaurdTime + slots + InterFrameTime)
                ELSE Session(s.by, s.slot + n, GaurdTime + slots)
<1>3. /\ s \in [by : Macs, slot : 0..(TotalSlots - 1), left : Nat] /\ m \in Macs
      /\ GaurdTime \in Nat /\ InterFrameTime \in Nat /\ slots \in Nat /\ TotalSlots \in Nat
      /\ sessions = {s}
  BY FrameAssumption DEF TypeOK, ChainOK
<1>4. sessions' = {t}
  BY <1>1, <1>3 DEF NextSession
<1> HIDE DEF slots
<1>5. /\ t \in [by : Macs, slot : 0..(TotalSlots - 1), left : Nat]
      /\ GaurdTime + slots <= t.left /\ Owner[PreviousSlot(t.slot)] = m
  <2>1. n \in Nat /\ n >= 1 /\ s.slot \in Nat /\ s.slot + n <= TotalSlots
    BY <1>1, <1>3 DEF Allotted
  <2>2. Owner[s.slot + n - 1] = Owner[s.slot]
    BY <2>1, <1>1 DEF Allotted
  <2>3. CASE s.slot + n = TotalSlots
    <3>1. t = Session(s.by, 0, GaurdTime + slots + InterFrameTime)
      BY <2>3
    <3>2. t.slot = 0 /\ t.left = GaurdTime + slots + InterFrameTime
      BY <3>1, <1>3 DEF Session
    <3>3. PreviousSlot(t.slot) = s.slot + n - 1
      BY <3>2, <2>1, <2>3 DEF PreviousSlot
    <3> QED BY <3>1, <3>2, <3>3, <2>1, <2>2, <1>3 DEF Session
  <2>4. CASE s.slot + n # TotalSlots
    <3>1. t = Session(s.by, s.slot + n, GaurdTime + slots)
      BY <2>4
    <3>2. t.slot = s.slot + n /\ t.left = GaurdTime + slots /\ s.slot + n # 0
      BY <3>1, <1>3, <2>1 DEF Session
    <3>3. PreviousSlot(t.slot) = s.slot + n - 1
      BY <3>2, <2>1 DEF PreviousSlot
    <3> QED BY <3>1, <3>2, <3>3, <2>1, <2>2, <2>4, <1>3 DEF Session
  <2> QED BY <2>3, <2>4
<1> HIDE DEF t
<1>6. downs = {}
  <2> SUFFICES ASSUME NEW d \in downs PROVE FALSE
    OBVIOUS
  <2>1. d.rest > 0 /\ d.left + d.rest + GaurdTime <= 0
    BY <1>2, <1>3 DEF DownsOK
  <2>2. d.left \in Nat /\ d.rest \in Nat
    BY DEF TypeOK
  <2> QED BY <2>1, <2>2, <1>3
<1>7. /\ \A e \in downs' : /\ e \in [mac : Macs, left : Nat, rest : Nat]
                           /\ e.mac = m /\ e.rest > 0 /\ e.left + e.rest = slots
      /\ \A e, f \in downs' : e = f
  <2>1. downs' = StartTransmission(m, queue[m], slots) /\ slots \in Int
    BY <1>1, <1>3, <1>6 DEF slots
  <2> HIDE DEF m
  <2> QED BY <2>1, <1>3, StartOK
<1>8. /\ QueueOK' /\ DOMAIN queue' = Macs
      /\ \A k \in Macs : queue'[k] \subseteq queue[k]
      /\ fate' \in [Packets -> {"new", "queued", "sent", "dropped"}]
  <2> HIDE DEF m
  <2>1. /\ queue' = [queue EXCEPT ![m] = Live(queue[m]) \ {}]
        /\ {} \subseteq Live(queue[m]) /\ {} = {j.pkt : j \in {}}
    BY <1>2
  <2> QED BY <2>1, <1>2, <1>3, CleanupOK
<1> HIDE DEF m
<1>9. TypeOK'
  BY <1>2, <1>4, <1>5, <1>7, <1>8 DEF TypeOK
<1>10. ChainOK'
  <2>1. activeEpoch
    BY DEF ChainOK, TypeOK
  <2> QED BY <2>1, <1>2, <1>4 DEF ChainOK
<1>11. DownsOK'
  <2>1. \A e \in downs' : e.left + e.rest + GaurdTime <= t.left
    BY <1>3, <1>5, <1>7
  <2> QED BY <2>1, <1>4, <1>5, <1>7 DEF DownsOK
<1>12. AirOK'
  <2> SUFFICES ASSUME Covered, NEW a \in air PROVE a.left <= t.left /\ ~(a.left > 0)
    BY <1>2, <1>4 DEF AirOK, Covered
  <2>1. a.left <= 0
    BY <1>2, <1>3 DEF AirOK
  <2>2. a.left \in Nat
    BY DEF TypeOK
  <2> QED BY <2>1, <2>2, <1>3, <1>5
<1> QED BY <1>8, <1>9, <1>10, <1>11, <1>12

-----------------------------------------------------------------------------
(* The theorems *)

(* Every step keeps the invariant. *)
LEMMA NextInv == IInv /\ [Next]_vars => IInv'
<1> SUFFICES ASSUME IInv, [Next]_vars PROVE IInv'
  OBVIOUS
<1>1. CASE \E m \in Macs : DoStart(m)
  BY <1>1, DoStartInv
<1>2. CASE \E p \in Packets : Enqueue(p)
  BY <1>2, EnqueueInv
<1>3. CASE Sessions
  BY <1>3, ScheduleTdmaSessionInv DEF Sessions
<1>4. CASE Downs
  BY <1>4, SendPacketDownInv DEF Downs
<1>5. CASE NullDowns
  BY <1>5, SendPacketDownNullInv DEF NullDowns
<1>6. CASE Receives
  BY <1>6, ReceiveInv DEF Receives
<1>7. CASE Tick
  BY <1>7, TickInv
<1>8. CASE UNCHANGED vars
  <2>1. QueueOK'
    BY <1>8, QueueStutter DEF vars, IInv
  <2>2. TypeOK' /\ ChainOK' /\ DownsOK' /\ AirOK'
    BY <1>8 DEF vars, IInv, TypeOK, ChainOK, DownsOK, AirOK
  <2> QED BY <2>1, <2>2 DEF IInv
<1> QED BY <1>1, <1>2, <1>3, <1>4, <1>5, <1>6, <1>7, <1>8 DEF Next, Ended

(* The strengthening holds in every state of every network. *)
THEOREM Invariance == Spec => []IInv
BY InitInv, NextInv, PTL DEF Spec

(* Every variable keeps its type: the times left, among others, never become negative. *)
THEOREM TypeCorrect == Spec => []TypeOK
<1>1. IInv => TypeOK
  BY DEF IInv
<1> QED BY <1>1, Invariance, PTL

(* At most one MAC transmits at a time, within the slots the controller gave it, whatever *)
(* the frame, the lengths of the packets and the order in which devices start.            *)
THEOREM SlotsRespected == Spec => []OneTransmitter
<1>1. IInv => OneTransmitter
  BY DEF IInv, ChainOK, DownsOK, OneTransmitter, HasTurn
<1> QED BY <1>1, Invariance, PTL

(* If the guard time covers the longest propagation delay of every MAC, a MAC transmits   *)
(* only when no packet of another one is still on its way.                                *)
THEOREM GuardSuffices == Spec => [](Covered => ChannelClear)
<1>1. IInv => (Covered => ChannelClear)
  <2> SUFFICES ASSUME IInv, Covered, NEW d \in downs, NEW a \in air, a.left > 0
               PROVE  a.from = d.mac
    BY DEF ChannelClear
  <2>1. \A s, t \in sessions : s = t
    BY DEF IInv, ChainOK
  <2>2. PICK s \in sessions : Owner[PreviousSlot(s.slot)] = d.mac
    BY DEF IInv, DownsOK
  <2>3. PICK t \in sessions : Owner[PreviousSlot(t.slot)] = a.from
    BY DEF IInv, AirOK
  <2> QED BY <2>1, <2>2, <2>3
<1> QED BY <1>1, Invariance, PTL

(* The queues hold exactly the packets that wait, once each, within MaxPacketNumber. *)
THEOREM QueuesIntact == Spec => []QueuedOnce
<1>1. IInv => QueuedOnce
  <2> SUFFICES ASSUME IInv, NEW m \in Macs
               PROVE  /\ Cardinality(queue[m]) <= MaxPacketNumber
                      /\ \A i, j \in queue[m] : i.pkt = j.pkt => i = j
                      /\ {i.pkt : i \in queue[m]} = {p \in Packets : Device[p] = m /\ fate[p] = "queued"}
    BY DEF QueuedOnce
  <2>1. ItemsOK(m) /\ SizeOK(m) /\ \A i \in queue[m] : i.pkt \in Packets
    BY DEF IInv, QueueOK, TypeOK
  <2>2. {i.pkt : i \in queue[m]} = {p \in Packets : Device[p] = m /\ fate[p] = "queued"}
    BY <2>1 DEF ItemsOK
  <2> QED BY <2>1, <2>2 DEF ItemsOK, SizeOK
<1> QED BY <1>1, Invariance, PTL

(* A session is at most LongestTurn away from the one that scheduled it. *)
LEMMA NextSessionSoon ==
  ASSUME NEW s, NEW n \in 1..TotalSlots
  PROVE  \E t \in NextSession(s, n) : t.left <= LongestTurn
<1>1. /\ GaurdTime \in Nat /\ InterFrameTime \in Nat /\ TotalSlots \in Nat /\ n \in Nat
      /\ SlotTime \in Nat /\ n <= TotalSlots
  BY FrameAssumption
<1>2. PICK rest \in Nat : TotalSlots = n + rest
  <2>1. TotalSlots - n \in Nat /\ TotalSlots = n + (TotalSlots - n)
    BY <1>1
  <2> QED BY <2>1
<1>3. SlotTime * TotalSlots = SlotTime * n + SlotTime * rest
  BY <1>1, <1>2, SMT
<1>4. SlotTime * n \in Nat /\ SlotTime * rest \in Nat
  BY <1>1, <1>2, SMT
<1>5. /\ GaurdTime + SlotTime * n <= LongestTurn
      /\ GaurdTime + SlotTime * n + InterFrameTime <= LongestTurn
  <2> DEFINE turn == SlotTime * n  others == SlotTime * rest  all == SlotTime * TotalSlots
  <2>1. turn \in Nat /\ others \in Nat /\ all = turn + others
    BY <1>3, <1>4
  <2>2. LongestTurn = GaurdTime + all + InterFrameTime
    BY DEF LongestTurn
  <2> HIDE DEF turn, others, all
  <2>3. GaurdTime + turn <= LongestTurn /\ GaurdTime + turn + InterFrameTime <= LongestTurn
    BY <2>1, <2>2, <1>1
  <2> QED BY <2>3 DEF turn
<1> QED BY <1>5 DEF NextSession, Session

(* No step lets the chain of sessions end. *)
LEMMA PendingStep ==
  ASSUME IInv, SessionPending, [Next]_vars
  PROVE  SessionPending'
<1>1. CASE UNCHANGED <<sessions, activeEpoch>>
  BY <1>1 DEF SessionPending
<1>2. ASSUME NEW m \in Macs, DoStart(m) PROVE SessionPending'
  <2>1. CASE activeEpoch
    BY <1>2, <2>1 DEF DoStart, SessionPending
  <2>2. CASE ~activeEpoch
    <3>1. Session(m, 0, StartDelay) \in sessions' /\ Session(m, 0, StartDelay).left = StartDelay
      BY <1>2, <2>2 DEF DoStart, Session
    <3> QED BY <3>1, FrameAssumption DEF SessionPending
  <2> QED BY <2>1, <2>2
<1>3. ASSUME NEW s \in sessions, ScheduleTdmaSession(s) PROVE SessionPending'
  <2>1. PICK n \in 1..TotalSlots : sessions' = (sessions \ {s}) \cup NextSession(s, n)
    BY <1>3 DEF ScheduleTdmaSession
  <2> QED BY <2>1, NextSessionSoon DEF SessionPending
<1>4. CASE Tick
  <2> SUFFICES ASSUME activeEpoch
               PROVE  \E t \in sessions' : t.left <= StartDelay \/ t.left <= LongestTurn
    BY <1>4 DEF Tick, SessionPending
  <2>1. PICK s \in sessions : s.left <= StartDelay \/ s.left <= LongestTurn
    BY DEF SessionPending
  <2> DEFINE t == [s EXCEPT !.left = @ - 1]
  <2>2. t \in sessions'
    BY <1>4, <2>1 DEF Tick, Later
  <2>3. t.left = s.left - 1 /\ s.left \in Nat
    BY <2>1 DEF IInv, TypeOK
  <2>4. StartDelay \in Int /\ LongestTurn \in Int
    <3>1. SlotTime * TotalSlots \in Int
      BY FrameAssumption, SMT
    <3> QED BY <3>1, FrameAssumption DEF LongestTurn
  <2> HIDE DEF t
  <2>5. t.left <= StartDelay \/ t.left <= LongestTurn
    BY <2>1, <2>3, <2>4
  <2> QED BY <2>2, <2>5
<1> QED BY <1>1, <1>2, <1>3, <1>4
        DEF Next, vars, Enqueue, Downs, NullDowns, SendPacketDown, SendPacketDownNull,
            Receives, Receive, Sessions, Ended

(* The frame goes on for ever: a next session is always scheduled, and not too far away. *)
THEOREM ChainUnbroken == Spec => []SessionPending
<1>1. Init => SessionPending
  BY DEF Init, SessionPending
<1> QED BY <1>1, PendingStep, Invariance, PTL DEF Spec

-----------------------------------------------------------------------------
(* Refinement: the network is a channel that goes round the frame *)

Sending == {d.mac : d \in downs}

(* The place in the frame that a set of sessions stands for. *)
Place(S) == IF S = {} THEN -1 ELSE (CHOOSE s \in S : TRUE).slot

LEMMA PlaceOfOne ==
  /\ nextTurn = Place(sessions) /\ nextTurn' = Place(sessions')
  /\ Place({}) = -1 /\ \A s : Place({s}) = s.slot
<1>1. \A s : (CHOOSE x \in {s} : TRUE) = s
  OBVIOUS
<1> QED BY <1>1 DEF nextTurn, Place

LEMMA PlaceOfSession ==
  ASSUME NEW b, NEW k, NEW l
  PROVE  Place({Session(b, k, l)}) = k
<1>1. Session(b, k, l).slot = k
  BY DEF Session
<1>2. Place({Session(b, k, l)}) = Session(b, k, l).slot
  BY PlaceOfOne
<1> QED BY <1>1, <1>2

(* With its one chain of sessions the network is always at one place of the frame. *)
LEMMA OnePlace ==
  ASSUME ChainOK, NEW s \in sessions
  PROVE  sessions = {s} /\ nextTurn = s.slot
<1>1. sessions = {s}
  BY DEF ChainOK
<1> QED BY <1>1, PlaceOfOne

(* Events that all belong to one MAC: it is sending, or nobody is. *)
LEMMA OneSender ==
  ASSUME NEW D, NEW m, \A d \in D : d.mac = m
  PROVE  {d.mac : d \in D} \in {{}, {m}} /\ (D # {} => {d.mac : d \in D} = {m})
  OBVIOUS

(* StartTransmission only schedules events of its own MAC. *)
LEMMA StartOwn ==
  ASSUME NEW m, NEW q, NEW slot
  PROVE  \A d \in StartTransmission(m, q, slot) : d.mac = m
  BY DEF StartTransmission

(* The first DoStart enters the frame, the others are not seen. *)
LEMMA DoStartInChannel ==
  ASSUME IInv, NEW m \in Macs, DoStart(m)
  PROVE  Channel!Start \/ UNCHANGED <<nextTurn, Sending>>
<1>1. UNCHANGED downs
  BY DEF DoStart
<1>2. CASE activeEpoch
  BY <1>1, <1>2 DEF DoStart, nextTurn, Sending
<1>3. CASE ~activeEpoch
  <2>1. sessions = {} /\ sessions' = {Session(m, 0, StartDelay)}
    BY <1>3 DEF DoStart, IInv, ChainOK
  <2>2. nextTurn = -1 /\ nextTurn' = 0
    BY <2>1, PlaceOfOne, PlaceOfSession
  <2> QED BY <1>1, <2>2 DEF Channel!Start, Channel!Off, Sending
<1> QED BY <1>2, <1>3

(* A session passes the silent channel on. *)
LEMMA SessionInChannel ==
  ASSUME IInv, NEW s \in sessions, ScheduleTdmaSession(s)
  PROVE  Channel!PassOn
<1> USE DEF IInv
<1> DEFINE m == Owner[s.slot]
<1>1. PICK n \in 1..TotalSlots :
        /\ Allotted(s.slot, n)
        /\ downs' = downs \cup StartTransmission(m, queue[m], SlotTime * n)
        /\ sessions' = (sessions \ {s}) \cup NextSession(s, n)
  BY DEF ScheduleTdmaSession
<1>2. sessions = {s} /\ nextTurn = s.slot /\ s.slot \in 0..(TotalSlots - 1) /\ s.left = 0
  BY OnePlace DEF TypeOK, ScheduleTdmaSession
<1>3. downs = {}
  <2> SUFFICES ASSUME NEW d \in downs PROVE FALSE
    OBVIOUS
  <2>1. d.rest > 0 /\ d.left + d.rest + GaurdTime <= 0
    BY <1>2 DEF DownsOK
  <2>2. d.left \in Nat /\ d.rest \in Nat
    BY DEF TypeOK
  <2> QED BY <2>1, <2>2, FrameAssumption
<1>4. Sending = {} /\ Sending' \in {{}, {m}}
  <2>1. downs' = StartTransmission(m, queue[m], SlotTime * n)
    BY <1>1, <1>3
  <2> HIDE DEF m
  <2>2. \A d \in downs' : d.mac = m
    BY <2>1, StartOwn
  <2> QED BY <1>3, <2>2, OneSender DEF Sending
<1>5. /\ n \in Nat /\ TotalSlots \in Nat \ {0} /\ s.slot \in Nat
      /\ s.slot + n <= TotalSlots /\ n >= 1
  BY <1>1, <1>2, FrameAssumption DEF Allotted
<1>6. nextTurn' = (s.slot + n) % TotalSlots
  <2>1. CASE s.slot + n = TotalSlots
    <3>1. sessions' = {Session(s.by, 0, GaurdTime + SlotTime * n + InterFrameTime)}
      BY <1>1, <1>2, <2>1 DEF NextSession
    <3>2. nextTurn' = 0
      BY <3>1, PlaceOfOne, PlaceOfSession
    <3>3. (s.slot + n) % TotalSlots = 0
      BY <1>5, <2>1
    <3> QED BY <3>2, <3>3
  <2>2. CASE s.slot + n # TotalSlots
    <3>1. sessions' = {Session(s.by, s.slot + n, GaurdTime + SlotTime * n)}
      BY <1>1, <1>2, <2>2 DEF NextSession
    <3>2. nextTurn' = s.slot + n
      BY <3>1, PlaceOfOne, PlaceOfSession
    <3>3. (s.slot + n) % TotalSlots = s.slot + n
      BY <1>5, <2>2
    <3> QED BY <3>2, <3>3
  <2> QED BY <2>1, <2>2
<1>7. nextTurn # Channel!Off
  BY <1>2, <1>5 DEF Channel!Off
<1>8. Channel!Turn(nextTurn, n)
  BY <1>1, <1>2 DEF Allotted, Channel!Turn
<1> QED BY <1>2, <1>4, <1>6, <1>7, <1>8 DEF Channel!PassOn, Sending

(* Within a turn only its MAC goes on sending. *)
LEMMA DownInChannel ==
  ASSUME IInv, NEW d \in downs, SendPacketDown(d) \/ SendPacketDownNull(d)
  PROVE  Channel!FallSilent \/ UNCHANGED <<nextTurn, Sending>>
<1>1. UNCHANGED nextTurn
  <2>1. UNCHANGED sessions
    BY DEF SendPacketDown, SendPacketDownNull
  <2> QED BY <2>1, PlaceOfOne
<1>2. downs = {d}
  BY DEF IInv, DownsOK
<1>3. Sending = {d.mac}
  BY <1>2 DEF Sending
<1>4. \A e \in downs' : e.mac = d.mac
  <2>1. CASE SendPacketDownNull(d)
    BY <2>1, <1>2 DEF SendPacketDownNull
  <2>2. CASE SendPacketDown(d)
    <3>1. \E q, slot : downs' = (downs \ {d}) \cup StartTransmission(d.mac, q, slot)
      BY <2>2 DEF SendPacketDown
    <3> QED BY <3>1, <1>2, StartOwn
  <2> QED BY <2>1, <2>2
<1>5. Sending' \in {{}, {d.mac}}
  BY <1>4, OneSender DEF Sending
<1> QED BY <1>1, <1>3, <1>5 DEF Channel!FallSilent, Sending

(* Time changes neither the place in the frame nor the senders. *)
LEMMA TickInChannel ==
  ASSUME IInv, Tick
  PROVE  UNCHANGED <<nextTurn, Sending>>
<1> USE DEF IInv
<1>1. /\ \A s \in sessions : [s EXCEPT !.left = @ - 1].slot = s.slot
      /\ \A d \in downs : [d EXCEPT !.left = @ - 1].mac = d.mac
  BY DEF TypeOK
<1>2. Sending' = Sending
  BY <1>1 DEF Tick, Later, Sending
<1>3. CASE sessions = {}
  <2>1. sessions' = sessions
    BY <1>3 DEF Tick, Later
  <2> QED BY <1>2, <2>1, PlaceOfOne
<1>4. ASSUME NEW s \in sessions
      PROVE  nextTurn' = nextTurn
  <2>1. sessions = {s} /\ nextTurn = s.slot
    BY OnePlace
  <2>2. sessions' = {[s EXCEPT !.left = @ - 1]}
    BY <2>1 DEF Tick, Later
  <2>3. nextTurn' = [s EXCEPT !.left = @ - 1].slot
    BY <2>2, PlaceOfOne
  <2> QED BY <1>1, <2>1, <2>3
<1> QED BY <1>2, <1>3, <1>4

(* Every step of the network is a step of the channel, or nothing is seen of it. *)
LEMMA NextInChannel ==
  ASSUME IInv, [Next]_vars
  PROVE  [Channel!Next]_<<nextTurn, Sending>>
<1>1. CASE UNCHANGED <<sessions, downs>>
  BY <1>1 DEF nextTurn, Sending
<1>2. CASE \E m \in Macs : DoStart(m)
  BY <1>2, DoStartInChannel DEF Channel!Next
<1>3. CASE Sessions
  BY <1>3, SessionInChannel DEF Sessions, Channel!Next
<1>4. CASE Downs \/ NullDowns
  BY <1>4, DownInChannel DEF Downs, NullDowns, Channel!Next
<1>5. CASE Tick
  BY <1>5, TickInChannel
<1> QED BY <1>1, <1>2, <1>3, <1>4, <1>5 DEF Next, vars, Enqueue, Receives, Receive, Ended

(* Controller, MACs and queues implement the channel that goes round the frame, for any  *)
(* frame, any packets and any order of events.                                           *)
THEOREM ImplementsChannel == Spec => ChannelSpec
<1>1. Init => Channel!Init
  BY DEF Init, Channel!Init, Channel!Off, nextTurn
<1>2. IInv /\ [Next]_vars => [Channel!Next]_<<nextTurn, {d.mac : d \in downs}>>
  BY NextInChannel DEF Sending
<1> QED BY <1>1, <1>2, Invariance, PTL DEF Spec, ChannelSpec, Channel!Spec

(* What the channel promises of its turns *)
WholeTurns ==
  /\ nextTurn \in {Channel!Off} \cup 0..(TotalSlots - 1)
  /\ nextTurn # Channel!Off => nextTurn = 0 \/ Owner[nextTurn - 1] # Owner[nextTurn]

(* Whoever passes the channel on leaves it at the first of the next owner's slots. *)
LEMMA WholeTurnsStep ==
  ASSUME WholeTurns, [Channel!Next]_<<nextTurn, {d.mac : d \in downs}>>
  PROVE  WholeTurns'
<1> USE FrameAssumption
<1>1. CASE UNCHANGED nextTurn
  BY <1>1 DEF WholeTurns, Channel!Off
<1>2. CASE nextTurn' = 0
  BY <1>2 DEF WholeTurns, Channel!Off
<1>3. ASSUME NEW n \in 1..TotalSlots, Channel!Turn(nextTurn, n), nextTurn # Channel!Off,
             nextTurn' = (nextTurn + n) % TotalSlots
      PROVE  WholeTurns'
  <2>1. nextTurn \in 0..(TotalSlots - 1) /\ n \in 1..TotalSlots /\ nextTurn + n <= TotalSlots
    BY <1>3 DEF WholeTurns, Channel!Turn
  <2>2. CASE nextTurn + n = TotalSlots
    <3>1. TotalSlots % TotalSlots = 0
      OBVIOUS
    <3> QED BY <3>1, <2>2, <1>2, <1>3
  <2>3. CASE nextTurn + n < TotalSlots
    <3>1. nextTurn' = nextTurn + n
      BY <2>1, <2>3, <1>3
    <3>2. nextTurn + n - 1 \in nextTurn..(nextTurn + n - 1) /\ nextTurn + n \in 0..(TotalSlots - 1)
      BY <2>1, <2>3
    <3>3. Owner[nextTurn + n] # Owner[nextTurn] /\ Owner[nextTurn + n - 1] = Owner[nextTurn]
      BY <3>2, <2>3, <1>3 DEF Channel!Turn
    <3>4. nextTurn' - 1 = nextTurn + n - 1 /\ nextTurn' \in 0..(TotalSlots - 1)
      BY <3>1, <3>2, <2>1
    <3>5. Owner[nextTurn' - 1] # Owner[nextTurn']
      BY <3>1, <3>3, <3>4
    <3> QED BY <3>4, <3>5 DEF WholeTurns
  <2> QED BY <2>1, <2>2, <2>3
<1> QED BY <1>1, <1>2, <1>3 DEF Channel!Next, Channel!Start, Channel!PassOn, Channel!FallSilent

(* A MAC gets its consecutive slots in one turn: a promise of the channel, which the       *)
(* network inherits by implementing it.                                                   *)
THEOREM TurnsNotCut == Spec => []TurnsWhole
<1>1. Channel!Init => WholeTurns
  BY DEF Channel!Init, WholeTurns
<1>2. Channel!Spec => []WholeTurns
  BY <1>1, WholeTurnsStep, PTL DEF Channel!Spec
<1>3. IInv /\ WholeTurns => TurnsWhole
  <2> SUFFICES ASSUME IInv, WholeTurns, NEW s \in sessions
               PROVE  s.slot = 0 \/ Owner[s.slot - 1] # Owner[s.slot]
    BY DEF TurnsWhole
  <2>1. nextTurn = s.slot
    BY OnePlace DEF IInv
  <2>2. s.slot \in Nat
    BY DEF IInv, TypeOK
  <2> QED BY <2>1, <2>2 DEF WholeTurns, Channel!Off
<1> QED BY <1>2, <1>3, ImplementsChannel, Invariance, PTL DEF ChannelSpec
=============================================================================
