-------------------------- MODULE AeroRoutingProofs --------------------------
(***************************************************************************)
(* The safety of the deferral of packets, for any number of nodes and      *)
(* packets, any geometry, any timing constants and any queue length.  The  *)
(* inductive invariant is split by the variables it speaks of: TablesOK,   *)
(* which the routing decisions need, and DeferralInv, which only           *)
(* DeferredRouteOutput, CheckQueue and Tick disturb.                       *)
(***************************************************************************)
EXTENDS AeroRouting, FiniteSetTheorems, WellFoundedInduction, TLAPS

TablesOK ==
  /\ up \in BOOLEAN /\ motion \in Motions
  /\ neighbors \subseteq [addr : Nodes, motion : Motions, age : 0..LifeTime]
  /\ \A e, f \in neighbors : e.addr = f.addr => e = f
  /\ nodesPosition \in [Address -> Positions]

DeferralOK ==
  /\ queue \subseteq [uid : Packets, left : -1..MaxQueueTime, ord : Nat]
  /\ queuedAddresses \subseteq [addr : Address, stamp : Nat]
  /\ \A a, b \in queuedAddresses : a.addr = b.addr => a = b
  /\ stamp \in Nat /\ timer \in {NotRunning} \cup 0..Recheck
  /\ where \in [Packets -> Where]
  /\ hop \in [Packets -> Address \cup {Zero}]

(* The queue is in the order of insertion, which is the order of expiry. *)
AgeOrder ==
  /\ \A e \in queue : e.ord <= stamp
  /\ \A e, f \in queue : e.ord = f.ord => e = f
  /\ \A e, f \in queue : e.ord < f.ord => e.left <= f.left

(* No packet for this node itself is parked or on its way there. *)
NotForSelf == \A p \in Packets : where[p] \in {"loopback", "queued"} => Dst[p] # Self

DeferralInv ==
  /\ DeferralOK /\ NoStrandedPacket /\ OneOutcome /\ QueueWithinBound
  /\ AgeOrder /\ NotForSelf

IInv == TablesOK /\ DeferralInv

(* The type invariant speaks of the tables and of the deferral, which change apart. *)
LEMMA TypeSplit == TypeOK <=> TablesOK /\ DeferralOK
  BY DEF TypeOK, TablesOK, DeferralOK

-----------------------------------------------------------------------------
(* Finite sets and numbers *)

(* A nonempty set of naturals has a least element. *)
LEMMA LeastNat ==
  ASSUME NEW T, T \subseteq Nat, T # {}
  PROVE  \E x \in T : \A y \in T : x <= y
<1>1. PICK x \in T : \A y \in T : ~(<<y, x>> \in OpToRel(<, Nat))
  BY WFMin, NatLessThanWellFounded
<1>2. \A y \in T : <<y, x>> \in OpToRel(<, Nat) <=> y < x
  BY DEF OpToRel
<1>3. \A y \in T : ~(y < x)
  BY <1>1, <1>2, Zenon
<1>4. \A y \in T : x \in Nat /\ y \in Nat
  OBVIOUS
<1> QED BY <1>3, <1>4

(* The image of a finite set is no larger than the set. *)
LEMMA ImageBound ==
  ASSUME NEW S, IsFiniteSet(S), NEW f, NEW T, T = {f[x] : x \in S}
  PROVE  IsFiniteSet(T) /\ Cardinality(T) <= Cardinality(S)
<1> DEFINE g == [x \in S |-> f[x]]
<1>1. g \in Surjection(S, T)
  BY DEF Surjection
<1> QED BY <1>1, FS_Surjection

-----------------------------------------------------------------------------
(* Routing tables *)

(* BestNeighbor returns an entry of the table it searched, or the zero address. *)
LEMMA BestNeighborFromTable ==
  ASSUME NEW table, NEW pos
  PROVE  \/ BestNeighbor(table, pos) = Zero
         \/ \E e \in table : BestNeighbor(table, pos) = e.addr
<1> DEFINE own    == TTI[pos][motion]
           tti(e) == TTI[pos][e.motion]
           better == {e \in table : tti(e) # 0 /\ (own = 0 \/ tti(e) < own)}
           best   == {e \in better : \A f \in better :
                        tti(e) < tti(f) \/ (tti(e) = tti(f) /\ e.addr <= f.addr)}
<1>1. BestNeighbor(table, pos) = IF best = {} THEN Zero ELSE (CHOOSE e \in best : TRUE).addr
  BY DEF BestNeighbor
<1>2. best \subseteq table
  OBVIOUS
<1> HIDE DEF best
<1> QED BY <1>1, <1>2

(* The loop of BestNeighbor, module NextHop, when it has returned result *)
Search(tti, initialTTI, result, nan) ==
  INSTANCE NextHop
    WITH Distances <- {}, Speeds <- {}, MaxRange <- 0, Margin <- 0, Scale <- 1, Infinity <- 1,
         NaN <- nan, MaxNeighbors <- 0, pc <- "done", i <- 0,
         bestFoundID <- Zero, bestFoundTTI <- 0

(* What the loop returns is what BestNeighbor says: for a table whose entries, one for     *)
(* each address, are visited in the order of their addresses, the entry that NextHop       *)
(* calls the lowest TTI is the next hop chosen here, and both are zero together.           *)
THEOREM LoopFindsBestNeighbor ==
  ASSUME NEW table \in SUBSET [addr : Nodes, motion : Motions, age : 0..LifeTime],
         motion \in Motions, NEW pos \in Positions,
         NEW n \in Nat, NEW e \in [1..n -> table],
         \A x \in table : \E k \in 1..n : e[k] = x,
         \A j, k \in 1..n : j < k => e[j].addr < e[k].addr,
         NEW tti \in [1..n -> Int], \A k \in 1..n : tti[k] = TTI[pos][e[k].motion],
         NEW own \in Int, own = TTI[pos][motion],
         NEW nan, nan \notin Int, NEW result,
         Search(tti, own, result, nan)!LowestTTI
  PROVE  BestNeighbor(table, pos) = IF result = Zero THEN Zero ELSE e[result].addr
<1> DEFINE T(x) == TTI[pos][x.motion]
           Chosen == {k \in 1..n : tti[k] # 0 /\ (own = 0 \/ tti[k] < own)}
           better == {x \in table : T(x) # 0 /\ (own = 0 \/ T(x) < own)}
           best == {x \in better : \A f \in better :
                      T(x) < T(f) \/ (T(x) = T(f) /\ x.addr <= f.addr)}
<1>1. BestNeighbor(table, pos) = IF best = {} THEN Zero ELSE (CHOOSE x \in best : TRUE).addr
  BY DEF BestNeighbor
<1>2. Search(tti, own, result, nan)!Better(1..n) = Chosen
  BY DEF Search!Better, Search!Greater
<1>3. \/ result = Zero /\ Chosen = {}
      \/ /\ result \in Chosen
         /\ \A m \in Chosen : tti[result] < tti[m] \/ (tti[result] = tti[m] /\ result <= m)
  BY <1>2 DEF Search!LowestTTI, Search!Entries, Search!Precedes, Search!Greater, Search!Zero, Zero
<1>4. /\ \A k \in 1..n : /\ e[k] \in table /\ e[k].addr \in Nat
                         /\ T(e[k]) = tti[k] /\ tti[k] \in Int
      /\ \A j, k \in 1..n : j < k => e[j].addr < e[k].addr
  <2>1. \A x \in table : x.addr \in Nat
    BY AddressAssumption
  <2> QED  BY <2>1
<1>5. \A k \in 1..n : e[k] \in better <=> k \in Chosen
  BY <1>4
<1>6. \A x \in better : \E k \in Chosen : e[k] = x
  BY <1>5
<1> HIDE DEF T, better, Chosen
<1>7. CASE Chosen = {}
  <2>1. result = Zero
    BY <1>3, <1>7
  <2>2. best = {}
    BY <1>6, <1>7
  <2> QED  BY <1>1, <2>1, <2>2
<1>8. CASE Chosen # {}
  <2>1. /\ result \in 1..n /\ result \in Chosen /\ result # Zero
        /\ \A m \in Chosen : tti[result] < tti[m] \/ (tti[result] = tti[m] /\ result <= m)
    BY <1>3, <1>8 DEF Chosen, Zero
  <2>2. \A m \in Chosen : m \in 1..n
    BY DEF Chosen
  <2>3. ASSUME NEW m \in 1..n, result <= m
        PROVE  e[result].addr <= e[m].addr
    <3>1. CASE result = m
      BY <3>1, <1>4
    <3>2. CASE result < m
      <4>1. e[result].addr < e[m].addr
        BY <3>2, <2>1, <1>4
      <4> QED  BY <4>1, <2>1, <1>4
    <3> QED  BY <3>1, <3>2, <2>3, <2>1
  <2>4. e[result] \in best
    BY <2>1, <2>2, <2>3, <1>4, <1>5, <1>6
  <2>5. \A x \in best : x = e[result]
    <3> SUFFICES ASSUME NEW x \in best PROVE x = e[result]
      OBVIOUS
    <3>1. PICK k \in Chosen : e[k] = x
      BY <1>6
    <3>2. T(x) < T(e[result]) \/ (T(x) = T(e[result]) /\ x.addr <= e[result].addr)
      BY <2>4
    <3>3. k \in 1..n /\ tti[k] = tti[result]
      <4>1. k \in 1..n /\ T(x) = tti[k] /\ T(e[result]) = tti[result]
        BY <3>1, <2>1, <2>2, <1>4
      <4>2. tti[k] \in Int /\ tti[result] \in Int
        BY <4>1, <2>1, <1>4
      <4>3. tti[result] < tti[k] \/ (tti[result] = tti[k] /\ result <= k)
        BY <3>1, <2>1
      <4>4. tti[k] < tti[result] \/ tti[k] = tti[result]
        BY <3>2, <4>1
      <4>5. \A u, v \in Int : (u < v \/ u = v) /\ (v < u \/ v = u) => u = v
        OBVIOUS
      <4> QED  BY <4>1, <4>2, <4>3, <4>4, <4>5
    <3>4. tti[k] = tti[result] /\ result <= k /\ e[k].addr <= e[result].addr
      BY <3>1, <3>2, <3>3, <2>1, <1>4
    <3>5. ~(result < k)
      BY <3>3, <3>4, <2>1, <1>4
    <3> QED  BY <3>1, <3>3, <3>4, <3>5, <2>1
  <2> HIDE DEF best
  <2>6. (CHOOSE x \in best : TRUE) = e[result]
    BY <2>4, <2>5
  <2> QED  BY <1>1, <2>1, <2>4, <2>6
<1> QED  BY <1>7, <1>8

(* Purge leaves only entries that have not expired. *)
LEMMA PurgeOK ==
  ASSUME TablesOK
  PROVE  /\ Purge(neighbors) \subseteq neighbors
         /\ \A e \in Purge(neighbors) : e.age < LifeTime
  BY DEF Purge

(* The next hop RouteOutput finds is a neighbour heard within its lifetime, or none. *)
LEMMA NextHopOutFresh ==
  ASSUME TablesOK, NEW p \in Packets
  PROVE  NextHopOut(Purge(neighbors), p) = Zero \/ FreshHop(NextHopOut(Purge(neighbors), p))
  BY PurgeOK, BestNeighborFromTable DEF NextHopOut, FreshHop, isNeighbour

(* A next hop taken from a purged table is one of the other nodes. *)
LEMMA FreshHopIsNode ==
  ASSUME TablesOK, NEW h, FreshHop(h)
  PROVE  h \in Address
  BY DEF FreshHop, TablesOK, Address

-----------------------------------------------------------------------------
(* DeferredRouteOutput *)

(* What Enqueue does to the queue, with its local names made visible. *)
EnqueueDropped(p) ==
  (queue \ Live(queue))
    \cup (IF ~AlreadyQueued(Live(queue), p) /\ IsFull(Live(queue))
          THEN Oldest(Live(queue)) ELSE {})
EnqueueEntry(p) == [uid |-> p, left |-> MaxQueueTime, ord |-> stamp + 1]
EnqueueAdded(p) == IF AlreadyQueued(Live(queue), p) THEN {} ELSE {EnqueueEntry(p)}

(* What Enqueue does to the queue and to the packets, case by case. *)
LEMMA EnqueueEffect ==
  ASSUME NEW p \in Packets, Enqueue(p)
  PROVE  /\ queue' = (queue \ EnqueueDropped(p)) \cup EnqueueAdded(p)
         /\ where' = [x \in Packets |-> IF x = p THEN "queued"
                                        ELSE IF x \in Uids(EnqueueDropped(p)) THEN "dropped"
                                        ELSE where[x]]
  BY DEF Enqueue, EnqueueDropped, EnqueueAdded, EnqueueEntry

(* Expired entries go, a refused packet stays where it is, and a queue that is full      *)
(* loses exactly one entry.                                                              *)
LEMMA EnqueueBound ==
  ASSUME DeferralInv, NEW p \in Packets, Enqueue(p)
  PROVE  QueueWithinBound'
<1> DEFINE live == Live(queue)
           kept == queue \ EnqueueDropped(p)
<1>1. IsFiniteSet(queue) /\ Cardinality(queue) <= MaxQueueLen
  BY DEF DeferralInv, QueueWithinBound
<1>2. live \subseteq queue /\ kept \subseteq live
  BY DEF Live, EnqueueDropped
<1>3. IsFiniteSet(live) /\ Cardinality(live) <= Cardinality(queue)
  BY <1>1, <1>2, FS_Subset
<1>4. IsFiniteSet(kept) /\ Cardinality(kept) <= Cardinality(live)
  BY <1>2, <1>3, FS_Subset
<1>5. Cardinality(queue) \in Nat /\ Cardinality(live) \in Nat /\ Cardinality(kept) \in Nat
      /\ MaxQueueLen \in Nat \ {0}
  BY <1>1, <1>3, <1>4, FS_CardinalityType, BoundAssumption
<1>6. queue' = kept \cup EnqueueAdded(p)
  BY EnqueueEffect
<1>7. CASE AlreadyQueued(live, p)
  <2>1. queue' = kept
    BY <1>6, <1>7 DEF EnqueueAdded
  <2> QED BY <2>1, <1>1, <1>3, <1>4, <1>5 DEF QueueWithinBound
<1>8. CASE ~AlreadyQueued(live, p)
  <2>1. queue' = kept \cup {EnqueueEntry(p)}
    BY <1>6, <1>8 DEF EnqueueAdded
  <2>2. IsFiniteSet(queue') /\ Cardinality(queue') <= Cardinality(kept) + 1
    <3>1. IsFiniteSet(queue')
          /\ Cardinality(queue') = IF EnqueueEntry(p) \in kept THEN Cardinality(kept)
                                   ELSE Cardinality(kept) + 1
      BY <2>1, <1>4, FS_AddElement, Zenon
    <3> HIDE DEF kept
    <3> QED BY <3>1, <1>5
  <2>3. Cardinality(kept) + 1 <= MaxQueueLen
    <3>1. CASE Cardinality(live) # MaxQueueLen
      BY <3>1, <1>1, <1>3, <1>4, <1>5
    <3>2. CASE Cardinality(live) = MaxQueueLen
      <4>1. kept = live \ Oldest(live)
        BY <1>8, <3>2 DEF EnqueueDropped, IsFull, Live
      <4>2. live # {}
        BY <3>2, <1>5, FS_EmptySet
      <4>3. \A e \in live : e.ord \in Nat
        BY <1>2 DEF DeferralInv, DeferralOK
      <4>4. PICK x \in {e.ord : e \in live} : \A y \in {e.ord : e \in live} : x <= y
        <5> DEFINE ords == {e.ord : e \in live}
        <5>1. ords \subseteq Nat /\ ords # {}
          BY <4>2, <4>3
        <5> HIDE DEF ords
        <5>2. \E x \in ords : \A y \in ords : x <= y
          BY <5>1, LeastNat
        <5> QED BY <5>2 DEF ords
      <4>5. PICK e \in live : e.ord = x
        OBVIOUS
      <4>6. e \in Oldest(live)
        BY <4>4, <4>5 DEF Oldest
      <4>7. kept \subseteq live \ {e}
        BY <4>1, <4>6
      <4>8. IsFiniteSet(live \ {e}) /\ Cardinality(live \ {e}) = Cardinality(live) - 1
        BY <1>3, FS_RemoveElement
      <4>9. Cardinality(kept) <= Cardinality(live \ {e})
        BY <4>7, <4>8, FS_Subset
      <4> QED BY <4>8, <4>9, <3>2, <1>5
    <3> QED BY <3>1, <3>2
  <2>4. Cardinality(queue') \in Nat
    BY <2>2, FS_CardinalityType
  <2> QED BY <2>2, <2>3, <2>4, <1>5 DEF QueueWithinBound
<1> QED BY <1>7, <1>8

(* Deferring a packet keeps the invariant. *)
LEMMA DeferredInv ==
  ASSUME DeferralInv, NEW p \in Packets, Dst[p] # Self, DeferredRouteOutput(p)
  PROVE  DeferralInv'
<1> USE DEF DeferralInv
<1>1. Enqueue(p) /\ stamp' = stamp + 1
  BY DEF DeferredRouteOutput
<1>2. /\ queue' = (queue \ EnqueueDropped(p)) \cup EnqueueAdded(p)
      /\ where' = [x \in Packets |-> IF x = p THEN "queued"
                                     ELSE IF x \in Uids(EnqueueDropped(p)) THEN "dropped"
                                     ELSE where[x]]
  BY <1>1, EnqueueEffect
<1>3. /\ EnqueueEntry(p).uid = p /\ EnqueueEntry(p).left = MaxQueueTime
      /\ EnqueueEntry(p).ord = stamp + 1
      /\ EnqueueEntry(p) \in [uid : Packets, left : -1..MaxQueueTime, ord : Nat]
  BY BoundAssumption DEF EnqueueEntry, DeferralOK
<1>4. Dst[p] \in Address /\ \A e \in queue : e.uid \in Packets /\ e.ord \in Nat
      /\ e.left \in -1..MaxQueueTime
  BY PacketAssumption DEF DeferralOK
<1>5. \A e \in queue' : \/ e \in queue /\ e \notin EnqueueDropped(p)
                        \/ e = EnqueueEntry(p) /\ ~AlreadyQueued(Live(queue), p)
  BY <1>2 DEF EnqueueAdded
<1>6. DeferralOK'
  <2>1. queue' \subseteq [uid : Packets, left : -1..MaxQueueTime, ord : Nat]
    BY <1>3, <1>5 DEF DeferralOK
  <2>2. /\ queuedAddresses' \subseteq [addr : Address, stamp : Nat]
        /\ \A a, b \in queuedAddresses' : a.addr = b.addr => a = b
        /\ stamp' \in Nat
    BY <1>1, <1>4 DEF DeferralOK, DeferredRouteOutput
  <2>3. timer' \in {NotRunning} \cup 0..Recheck
    BY BoundAssumption DEF DeferralOK, DeferredRouteOutput
  <2>4. where' \in [Packets -> Where] /\ hop' \in [Packets -> Address \cup {Zero}]
    BY <1>2 DEF DeferralOK, DeferredRouteOutput, Where
  <2> QED BY <2>1, <2>2, <2>3, <2>4 DEF DeferralOK
<1>7. NoStrandedPacket'
  <2>a. queuedAddresses' = {a \in queuedAddresses : a.addr # Dst[p]}
                             \cup {[addr |-> Dst[p], stamp |-> stamp + 1]}
    BY DEF DeferredRouteOutput
  <2>2. \E a \in queuedAddresses' : a.addr = Dst[p]
    <3>1. [addr |-> Dst[p], stamp |-> stamp + 1] \in queuedAddresses'
      BY <2>a
    <3> QED BY <3>1
  <2>1. ASSUME NEW d, NEW a \in queuedAddresses, a.addr = d
        PROVE  \E b \in queuedAddresses' : b.addr = d
    <3>1. CASE d = Dst[p]
      BY <3>1, <2>2
    <3>2. CASE d # Dst[p]
      BY <3>2, <2>1, <2>a
    <3> QED BY <3>1, <3>2
  <2>3. \A e \in queue' : \E a \in queuedAddresses' : a.addr = Dst[e.uid]
    BY <2>1, <2>2, <1>3, <1>5 DEF NoStrandedPacket
  <2>4. timer' # NotRunning
    <3>1. CASE Live(queue) = {}
      BY <3>1, BoundAssumption DEF DeferredRouteOutput, NotRunning
    <3>2. CASE Live(queue) # {}
      <4>1. queue # {}
        BY <3>2 DEF Live
      <4>2. timer # NotRunning
        BY <4>1 DEF NoStrandedPacket
      <4> QED BY <3>2, <4>2 DEF DeferredRouteOutput
    <3> QED BY <3>1, <3>2
  <2> QED BY <2>2, <2>3, <2>4 DEF NoStrandedPacket
<1>8. OneOutcome'
  <2>1. \A e \in queue : e \notin EnqueueDropped(p) => e \in Live(queue)
    BY DEF EnqueueDropped
  <2>2. \A e, f \in queue' : e.uid = f.uid => e = f
    BY <2>1, <1>3, <1>5 DEF OneOutcome, AlreadyQueued, Uids
  <2>3. p \in Uids(queue')
    <3>1. CASE AlreadyQueued(Live(queue), p)
      <4>1. PICK e \in Live(queue) : e.uid = p
        BY <3>1 DEF AlreadyQueued, Uids
      <4>2. e \in queue'
        BY <3>1, <4>1, <1>2 DEF EnqueueDropped, Live
      <4> QED BY <4>1, <4>2 DEF Uids
    <3>2. CASE ~AlreadyQueued(Live(queue), p)
      BY <3>2, <1>2, <1>3 DEF EnqueueAdded, Uids
    <3> QED BY <3>1, <3>2
  <2>4. ASSUME NEW x \in Packets, x # p
        PROVE  where'[x] = "queued" <=> x \in Uids(queue')
    <3>1. x \in Uids(queue') <=> \E e \in queue : e.uid = x /\ e \notin EnqueueDropped(p)
      BY <2>4, <1>2, <1>3, <1>5 DEF Uids
    <3>2. EnqueueDropped(p) \subseteq queue
      BY DEF EnqueueDropped, Live, Oldest
    <3>3. x \in Uids(queue') <=> x \in Uids(queue) /\ x \notin Uids(EnqueueDropped(p))
      BY <3>1, <3>2 DEF OneOutcome, Uids
    <3>4. where'[x] = IF x \in Uids(EnqueueDropped(p)) THEN "dropped" ELSE where[x]
      BY <2>4, <1>2
    <3> QED BY <3>3, <3>4 DEF OneOutcome
  <2>5. where'[p] = "queued"
    BY <1>2
  <2> QED BY <2>2, <2>3, <2>4, <2>5 DEF OneOutcome
<1>9. QueueWithinBound'
  BY <1>1, EnqueueBound
<1>10. AgeOrder'
  <2>1. \A e \in queue : e.ord <= stamp /\ e.ord < stamp + 1 /\ e.left <= MaxQueueTime
    BY <1>4, BoundAssumption DEF AgeOrder, DeferralOK
  <2>2. \A e \in queue' : e.ord <= stamp'
    BY <2>1, <1>1, <1>3, <1>4, <1>5 DEF DeferralOK
  <2>3. \A e, f \in queue' : e.ord = f.ord => e = f
    BY <2>1, <1>3, <1>4, <1>5 DEF AgeOrder, DeferralOK
  <2>4. \A e, f \in queue' : e.ord < f.ord => e.left <= f.left
    BY <2>1, <1>3, <1>4, <1>5, BoundAssumption DEF AgeOrder, DeferralOK
  <2> QED BY <2>2, <2>3, <2>4 DEF AgeOrder
<1>11. NotForSelf'
  BY <1>2 DEF NotForSelf
<1> QED BY <1>6, <1>7, <1>8, <1>9, <1>10, <1>11

-----------------------------------------------------------------------------
(* Steps that leave the queue alone *)

(* A packet that leaves without touching the queue keeps the invariant. *)
LEMMA RoutedInv ==
  ASSUME DeferralInv, UNCHANGED deferral,
         where' \in [Packets -> Where], hop' \in [Packets -> Address \cup {Zero}],
         \A x \in Packets : where'[x] = "queued" <=> where[x] = "queued",
         NotForSelf'
  PROVE  DeferralInv'
<1> USE DEF DeferralInv, deferral
<1>1. DeferralOK'
  BY DEF DeferralOK
<1>2. NoStrandedPacket' /\ QueueWithinBound' /\ AgeOrder'
  BY DEF NoStrandedPacket, QueueWithinBound, AgeOrder
<1>3. OneOutcome'
  BY DEF OneOutcome, Uids
<1> QED BY <1>1, <1>2, <1>3

(* So does a step that only changes the tables. *)
LEMMA UntouchedInv ==
  ASSUME DeferralInv, UNCHANGED <<deferral, where, hop>>
  PROVE  DeferralInv'
  BY RoutedInv DEF DeferralInv, DeferralOK, NotForSelf

(* Forwarding a packet that is not queued keeps the invariant. *)
LEMMA SendViaInv ==
  ASSUME DeferralInv, NEW p \in Packets, NEW h \in Address, SendVia(p, h), UNCHANGED deferral
  PROVE  DeferralInv'
<1>1. where' \in [Packets -> Where] /\ hop' \in [Packets -> Address \cup {Zero}]
  BY DEF SendVia, DeferralInv, DeferralOK, Where
<1>2. \A x \in Packets : where'[x] = where[x] \/ (where[x] # "queued" /\ where'[x] = "forwarded")
  BY DEF SendVia, DeferralInv, DeferralOK
<1>3. NotForSelf'
  BY <1>2 DEF NotForSelf, DeferralInv
<1> QED BY <1>1, <1>2, <1>3, RoutedInv

(* A packet that is not parked is moved somewhere else than into the queue. *)
LEMMA MovedInv ==
  ASSUME DeferralInv, UNCHANGED <<deferral, hop>>, NEW p \in Packets, where[p] # "queued",
         NEW w \in Where \ {"queued"}, w = "loopback" => Dst[p] # Self,
         where' = [where EXCEPT ![p] = w]
  PROVE  DeferralInv'
<1>1. where' \in [Packets -> Where] /\ hop' \in [Packets -> Address \cup {Zero}]
  BY DEF DeferralInv, DeferralOK
<1>2. \A x \in Packets : where'[x] = IF x = p THEN w ELSE where[x]
  BY DEF DeferralInv, DeferralOK
<1>3. NotForSelf'
  BY <1>2 DEF NotForSelf, DeferralInv
<1> QED BY <1>1, <1>2, <1>3, RoutedInv

(* A purge, or no change at all, keeps the tables well formed. *)
LEMMA TablesKept ==
  ASSUME TablesOK, neighbors' \subseteq neighbors, UNCHANGED <<up, motion, nodesPosition>>
  PROVE  TablesOK'
  BY DEF TablesOK

(* RouteOutput keeps the invariant. *)
LEMMA RouteOutputInv ==
  ASSUME IInv, NEW p \in Packets, NEW oif \in BOOLEAN, RouteOutput(p, oif)
  PROVE  IInv'
<1> USE DEF IInv
<1>1. /\ where[p] = "new" /\ Dst[p] # Self /\ Dst[p] \in Address
      /\ UNCHANGED <<up, motion, nodesPosition>> /\ UNCHANGED deferral
  BY PacketAssumption DEF RouteOutput
<1>2. TablesOK'
  <2>1. neighbors' \subseteq neighbors
    BY DEF RouteOutput, Purge
  <2> QED BY <2>1, <1>1, TablesKept
<1>3. CASE up /\ AuthRoute(p)
  BY <1>1, <1>2, <1>3, SendViaInv DEF RouteOutput
<1>4. CASE ~up
  <2>1. where' = [where EXCEPT ![p] = "noroute"] /\ UNCHANGED hop
    BY <1>4 DEF RouteOutput
  <2> QED BY <2>1, <1>1, <1>2, MovedInv DEF Where
<1>5. CASE up /\ ~AuthRoute(p)
  <2> DEFINE h == NextHopOut(Purge(neighbors), p)
  <2>1. h # Zero => h \in Address
    BY NextHopOutFresh, FreshHopIsNode
  <2>2. \/ h # Zero /\ SendVia(p, h)
        \/ where' = [where EXCEPT ![p] = "noroute"] /\ UNCHANGED hop
        \/ where' = [where EXCEPT ![p] = "loopback"] /\ UNCHANGED hop
    BY <1>5 DEF RouteOutput
  <2> HIDE DEF h
  <2>3. CASE h # Zero /\ SendVia(p, h)
    BY <2>1, <2>3, <1>1, <1>2, SendViaInv
  <2>4. CASE where' = [where EXCEPT ![p] = "noroute"] /\ UNCHANGED hop
    BY <2>4, <1>1, <1>2, MovedInv DEF Where
  <2>5. CASE where' = [where EXCEPT ![p] = "loopback"] /\ UNCHANGED hop
    BY <2>5, <1>1, <1>2, MovedInv DEF Where
  <2> QED BY <2>2, <2>3, <2>4, <2>5
<1> QED BY <1>3, <1>4, <1>5 DEF RouteOutput

(* RouteInput of a packet from the loopback device keeps the invariant. *)
LEMMA RouteInputLoopbackInv ==
  ASSUME IInv, NEW p \in Packets, RouteInputLoopback(p)
  PROVE  IInv'
<1> USE DEF IInv
<1>1. where[p] = "loopback" /\ UNCHANGED <<up, motion, neighbors, nodesPosition>>
  BY DEF RouteInputLoopback, tables
<1>2. TablesOK'
  BY <1>1, TablesKept
<1>3. Dst[p] # Self
  BY <1>1 DEF DeferralInv, NotForSelf
<1>4. CASE ~up
  <2>1. where' = [where EXCEPT ![p] = "noroute"] /\ UNCHANGED <<deferral, hop>>
    BY <1>4 DEF RouteInputLoopback
  <2> QED BY <2>1, <1>1, <1>2, MovedInv DEF Where
<1>5. CASE up
  BY <1>2, <1>3, <1>5, DeferredInv DEF RouteInputLoopback
<1> QED BY <1>4, <1>5

(* The next hop Forwarding finds. *)
ForwardingHop(p) ==
  IF isNeighbour(Purge(neighbors), Dst[p]) THEN Dst[p] ELSE BestNeighbor(Purge(neighbors), Origin)

(* Forwarding purges the table before it looks for a next hop. *)
LEMMA ForwardingHopFresh ==
  ASSUME TablesOK, NEW p \in Packets
  PROVE  ForwardingHop(p) = Zero \/ FreshHop(ForwardingHop(p))
  BY PurgeOK, BestNeighborFromTable DEF ForwardingHop, FreshHop, isNeighbour

(* What Forwarding leaves alone. *)
LEMMA ForwardingEffect ==
  ASSUME NEW p \in Packets, Forwarding(p)
  PROVE  /\ neighbors' = Purge(neighbors)
         /\ \/ ForwardingHop(p) # Zero /\ SendVia(p, ForwardingHop(p)) /\ UNCHANGED deferral
            \/ DeferredRouteOutput(p)
  BY DEF Forwarding, ForwardingHop

(* RouteInput of a packet from another node keeps the invariant. *)
LEMMA RouteInputRemoteInv ==
  ASSUME IInv, NEW p \in Packets, RouteInputRemote(p)
  PROVE  IInv'
<1> USE DEF IInv
<1>1. UNCHANGED <<up, motion, nodesPosition>> /\ where[p] \in {"new", "forwarded", "queued"}
  BY DEF RouteInputRemote
<1>2. TablesOK'
  <2>1. neighbors' \subseteq neighbors
    BY DEF RouteInputRemote, Forwarding, Purge
  <2> QED BY <2>1, <1>1, TablesKept
<1>3. CASE ~up
  <2>1. UNCHANGED <<deferral, hop>>
        /\ where' = IF where[p] = "new" THEN [where EXCEPT ![p] = "noroute"] ELSE where
    BY <1>3 DEF RouteInputRemote
  <2>2. CASE where[p] = "new"
    BY <2>1, <2>2, <1>2, MovedInv DEF Where
  <2>3. CASE where[p] # "new"
    BY <2>1, <2>3, <1>2, UntouchedInv
  <2> QED BY <2>2, <2>3
<1>4. CASE up /\ Dst[p] = Self
  <2>1. where' = [where EXCEPT ![p] = "delivered"] /\ UNCHANGED <<deferral, hop>>
    BY <1>4 DEF RouteInputRemote
  <2>2. where[p] # "queued"
    BY <1>4 DEF DeferralInv, NotForSelf
  <2> QED BY <2>1, <2>2, <1>2, MovedInv DEF Where
<1>5. CASE up /\ Dst[p] # Self
  <2>1. Forwarding(p)
    BY <1>5 DEF RouteInputRemote
  <2>2. CASE ForwardingHop(p) # Zero /\ SendVia(p, ForwardingHop(p)) /\ UNCHANGED deferral
    <3>1. ForwardingHop(p) \in Address
      BY <2>2, ForwardingHopFresh, FreshHopIsNode
    <3> QED BY <2>2, <3>1, <1>2, SendViaInv
  <2>3. CASE DeferredRouteOutput(p)
    BY <2>3, <1>2, <1>5, DeferredInv
  <2> QED BY <2>1, <2>2, <2>3, ForwardingEffect
<1> QED BY <1>3, <1>4, <1>5

-----------------------------------------------------------------------------
(* CheckQueue *)

(* The local names of CheckQueue. *)
CheckDone == {a \in queuedAddresses : SendPacketFromQueue(a) # Zero}
CheckLeaving == {e \in Live(queue) : \E a \in CheckDone : a.addr = Dst[e.uid]}
CheckExpired == IF CheckDone = {} THEN {} ELSE queue \ Live(queue)

(* What CheckQueue removes from the queue, and what becomes of it. *)
LEMMA CheckQueueEffect ==
  ASSUME CheckQueue
  PROVE  /\ queue' = queue \ (CheckLeaving \cup CheckExpired)
         /\ queuedAddresses' = queuedAddresses \ CheckDone
         /\ timer' = TimerAfterCheck(CheckDone)
         /\ where' = [p \in Packets |-> IF p \in Uids(CheckLeaving) THEN "forwarded"
                                        ELSE IF p \in Uids(CheckExpired) THEN "dropped"
                                        ELSE where[p]]
         /\ hop' = [p \in Packets |->
                      IF p \in Uids(CheckLeaving)
                      THEN SendPacketFromQueue(CHOOSE a \in CheckDone : a.addr = Dst[p])
                      ELSE hop[p]]
         /\ neighbors' = TableAfterCheck
         /\ UNCHANGED <<up, motion, nodesPosition, stamp>>
  BY DEF CheckQueue, CheckDone, CheckLeaving, CheckExpired

(* The next hop CheckQueue finds for a listed address is an address. *)
LEMMA CheckHopIsAddress ==
  ASSUME IInv, NEW a \in queuedAddresses
  PROVE  SendPacketFromQueue(a) \in Address \cup {Zero}
<1>1. a.addr \in Address
  BY DEF IInv, DeferralInv, DeferralOK
<1>2. TableAfterCheck \subseteq neighbors
  BY DEF TableAfterCheck, Purge
<1>3. \A e \in neighbors : e.addr \in Address
  BY DEF IInv, TablesOK, Address
<1>4. BestNeighbor(TableAfterCheck, nodesPosition[a.addr]) \in Address \cup {Zero}
  BY <1>2, <1>3, BestNeighborFromTable
<1> QED BY <1>1, <1>4 DEF SendPacketFromQueue

(* CheckQueue keeps the invariant: it reschedules itself while the queue is not empty. *)
LEMMA CheckQueueInv ==
  ASSUME IInv, CheckQueue
  PROVE  IInv'
<1> USE DEF IInv, DeferralInv
<1>1. TablesOK'
  <2>1. neighbors' \subseteq neighbors
    BY CheckQueueEffect DEF TableAfterCheck, Purge
  <2> QED BY <2>1, CheckQueueEffect, TablesKept
<1>2. /\ queue' \subseteq queue /\ queuedAddresses' \subseteq queuedAddresses
      /\ CheckLeaving \subseteq queue /\ CheckExpired \subseteq queue
      /\ queue' = queue \ (CheckLeaving \cup CheckExpired)
  BY CheckQueueEffect DEF CheckLeaving, CheckExpired, Live
<1>3. \A p \in Packets : where'[p] = IF p \in Uids(CheckLeaving) THEN "forwarded"
                                     ELSE IF p \in Uids(CheckExpired) THEN "dropped"
                                     ELSE where[p]
  BY CheckQueueEffect
<1>4. DeferralOK'
  <2>1. where' \in [Packets -> Where]
    BY CheckQueueEffect DEF DeferralOK, Where
  <2>2. hop' \in [Packets -> Address \cup {Zero}]
    <3>1. ASSUME NEW p \in Uids(CheckLeaving)
          PROVE  SendPacketFromQueue(CHOOSE a \in CheckDone : a.addr = Dst[p])
                   \in Address \cup {Zero}
      <4>1. \E a \in CheckDone : a.addr = Dst[p]
        BY DEF Uids, CheckLeaving
      <4>2. (CHOOSE a \in CheckDone : a.addr = Dst[p]) \in queuedAddresses
        BY <4>1 DEF CheckDone
      <4> QED BY <4>2, CheckHopIsAddress
    <3> QED BY <3>1, CheckQueueEffect DEF DeferralOK
  <2>3. timer' \in {NotRunning} \cup 0..Recheck
    BY CheckQueueEffect, BoundAssumption DEF TimerAfterCheck
  <2> QED BY <2>1, <2>2, <2>3, <1>2, CheckQueueEffect DEF DeferralOK
<1>5. NoStrandedPacket'
  <2>1. ASSUME NEW e \in queue'
        PROVE  \E a \in queuedAddresses' : a.addr = Dst[e.uid]
    <3>1. PICK a \in queuedAddresses : a.addr = Dst[e.uid]
      BY <1>2 DEF NoStrandedPacket
    <3>2. a \notin CheckDone
      BY <3>1, <1>2, <2>1 DEF CheckLeaving, CheckExpired
    <3> QED BY <3>1, <3>2, CheckQueueEffect
  <2>2. queuedAddresses' # {} <=> timer' # NotRunning
    BY CheckQueueEffect, BoundAssumption DEF TimerAfterCheck, NotRunning
  <2> QED BY <2>1, <2>2 DEF NoStrandedPacket
<1>6. OneOutcome'
  <2>1. \A e, f \in queue' : e.uid = f.uid => e = f
    BY <1>2 DEF OneOutcome
  <2>2. \A p : p \in Uids(queue') <=> /\ p \in Uids(queue)
                                      /\ p \notin Uids(CheckLeaving)
                                      /\ p \notin Uids(CheckExpired)
    BY <1>2 DEF OneOutcome, Uids
  <2>3. \A p \in Packets : where'[p] = "queued" <=> p \in Uids(queue')
    BY <2>2, <1>3 DEF OneOutcome
  <2> QED BY <2>1, <2>3 DEF OneOutcome
<1>7. QueueWithinBound'
  <2>1. IsFiniteSet(queue') /\ Cardinality(queue') <= Cardinality(queue)
    BY <1>2, FS_Subset DEF QueueWithinBound
  <2>2. Cardinality(queue') \in Nat /\ Cardinality(queue) \in Nat /\ MaxQueueLen \in Nat
    BY <2>1, FS_CardinalityType, BoundAssumption DEF QueueWithinBound
  <2> QED BY <2>1, <2>2 DEF QueueWithinBound
<1>8. AgeOrder'
  BY <1>2, CheckQueueEffect DEF AgeOrder
<1>9. NotForSelf'
  BY <1>3 DEF NotForSelf
<1> QED BY <1>1, <1>4, <1>5, <1>6, <1>7, <1>8, <1>9

-----------------------------------------------------------------------------
(* Time and the environment *)

(* A queue entry and a neighbour entry one unit of time later. *)
Older(e) == [e EXCEPT !.left = IF @ >= 0 THEN @ - 1 ELSE @]
Aged(e) == [e EXCEPT !.age = IF @ < LifeTime THEN @ + 1 ELSE @]

(* The passage of time keeps the invariant. *)
LEMMA TickInv ==
  ASSUME IInv, Tick
  PROVE  IInv'
<1> USE DEF IInv, DeferralInv
<1>1. /\ queue' = {Older(e) : e \in queue} /\ neighbors' = {Aged(e) : e \in neighbors}
      /\ UNCHANGED <<up, motion, nodesPosition, queuedAddresses, stamp, where, hop>>
      /\ timer # 0 /\ timer' = IF timer = NotRunning THEN NotRunning ELSE timer - 1
  BY DEF Tick, Older, Aged
<1>2. TablesOK'
  <2>1. \A e \in neighbors : /\ Aged(e) \in [addr : Nodes, motion : Motions, age : 0..LifeTime]
                             /\ Aged(e).addr = e.addr
    BY BoundAssumption DEF TablesOK, Aged
  <2>2. \A e, f \in neighbors' : e.addr = f.addr => e = f
    BY <2>1, <1>1 DEF TablesOK
  <2> QED BY <2>1, <2>2, <1>1 DEF TablesOK
<1>3. \A e \in queue : /\ Older(e) \in [uid : Packets, left : -1..MaxQueueTime, ord : Nat]
                       /\ Older(e).uid = e.uid /\ Older(e).ord = e.ord
                       /\ Older(e).left = IF e.left >= 0 THEN e.left - 1 ELSE e.left
                       /\ e.left \in -1..MaxQueueTime /\ e.ord \in Nat
  BY BoundAssumption DEF DeferralOK, Older
<1>4. \A e \in queue' : \E f \in queue : e = Older(f)
  BY <1>1
<1>5. DeferralOK'
  <2>1. queue' \subseteq [uid : Packets, left : -1..MaxQueueTime, ord : Nat]
    BY <1>3, <1>4
  <2>2. timer' \in {NotRunning} \cup 0..Recheck
    BY <1>1, BoundAssumption DEF DeferralOK, NotRunning
  <2> QED BY <2>1, <2>2, <1>1 DEF DeferralOK
<1>6. NoStrandedPacket'
  <2>1. timer' # NotRunning <=> timer # NotRunning
    BY <1>1, BoundAssumption DEF DeferralOK, NotRunning
  <2>2. \A e \in queue' : \E a \in queuedAddresses : a.addr = Dst[e.uid]
    BY <1>3, <1>4 DEF NoStrandedPacket
  <2> QED BY <2>1, <2>2, <1>1 DEF NoStrandedPacket
<1>7. OneOutcome'
  <2>1. \A e, f \in queue' : e.uid = f.uid => e = f
    BY <1>3, <1>4 DEF OneOutcome
  <2>2. \A p : p \in Uids(queue') <=> p \in Uids(queue)
    BY <1>1, <1>3, <1>4 DEF Uids
  <2> QED BY <2>1, <2>2, <1>1 DEF OneOutcome
<1>8. QueueWithinBound'
  <2> DEFINE g == [e \in queue |-> Older(e)]
  <2>1. queue' = {g[e] : e \in queue}
    BY <1>1
  <2>2. IsFiniteSet(queue)
    BY DEF QueueWithinBound
  <2> HIDE DEF g
  <2>3. IsFiniteSet(queue') /\ Cardinality(queue') <= Cardinality(queue)
    BY <2>1, <2>2, ImageBound
  <2>4. Cardinality(queue') \in Nat /\ Cardinality(queue) \in Nat /\ MaxQueueLen \in Nat
    BY <2>2, <2>3, FS_CardinalityType, BoundAssumption
  <2> QED BY <2>3, <2>4 DEF QueueWithinBound
<1>9. AgeOrder'
  <2>1. \A e, f \in queue : Older(e).ord < Older(f).ord => Older(e).left <= Older(f).left
    BY <1>3, BoundAssumption DEF AgeOrder
  <2>2. \A e, f \in queue : Older(e).ord = Older(f).ord => Older(e) = Older(f)
    BY <1>3 DEF AgeOrder
  <2>3. \A e \in queue : Older(e).ord <= stamp
    BY <1>3 DEF AgeOrder
  <2> QED BY <2>1, <2>2, <2>3, <1>1, <1>4 DEF AgeOrder
<1>10. NotForSelf'
  BY <1>1 DEF NotForSelf
<1> QED BY <1>2, <1>5, <1>6, <1>7, <1>8, <1>9, <1>10

(* Hearing other nodes, moving and interface changes keep the invariant. *)
LEMMA EnvironmentInv ==
  ASSUME IInv,
         \/ \E n \in Nodes, m \in Motions : UpdateRouteToNeighbor(n, m)
         \/ \E n \in Nodes, pos \in Positions \ {Invalid} : UpdateRouteToNodes(n, pos)
         \/ \E m \in Motions : Move(m)
         \/ NotifyInterfaceUp
         \/ NotifyInterfaceDown
         \/ NotifyAddAddress
         \/ NotifyRemoveAddress
  PROVE  IInv'
<1> USE DEF IInv, tables
<1>1. UNCHANGED <<deferral, where, hop>>
  BY DEF UpdateRouteToNeighbor, UpdateRouteToNodes, Move, NotifyInterfaceUp, NotifyInterfaceDown,
         NotifyAddAddress, NotifyRemoveAddress
<1>2. DeferralInv'
  BY <1>1, UntouchedInv
<1>3. ASSUME NEW n \in Nodes, NEW m \in Motions, UpdateRouteToNeighbor(n, m)
      PROVE  TablesOK'
  <2>1. [addr |-> n, motion |-> m, age |-> 0] \in [addr : Nodes, motion : Motions, age : 0..LifeTime]
    BY BoundAssumption
  <2> QED BY <2>1, <1>3 DEF TablesOK, UpdateRouteToNeighbor, AddEntry
<1>4. ASSUME NEW n \in Nodes, NEW pos \in Positions \ {Invalid}, UpdateRouteToNodes(n, pos)
      PROVE  TablesOK'
  BY <1>4 DEF TablesOK, UpdateRouteToNodes
<1>5. ASSUME NEW m \in Motions, Move(m)
      PROVE  TablesOK'
  BY <1>5 DEF TablesOK, Move
<1>6. CASE NotifyInterfaceUp
  BY <1>2, <1>6 DEF TablesOK, NotifyInterfaceUp
<1>7. CASE NotifyInterfaceDown
  BY <1>2, <1>7, GeometryAssumption DEF TablesOK, NotifyInterfaceDown
<1>8. CASE NotifyAddAddress
  BY <1>2, <1>8 DEF TablesOK, NotifyAddAddress
<1>9. CASE NotifyRemoveAddress
  BY <1>2, <1>9 DEF TablesOK, NotifyRemoveAddress
<1> QED BY <1>2, <1>3, <1>4, <1>5, <1>6, <1>7, <1>8, <1>9

-----------------------------------------------------------------------------
(* The invariant *)

(* The invariant holds when the protocol is created. *)
LEMMA InitInv == Init => IInv
<1> SUFFICES ASSUME Init PROVE IInv
  OBVIOUS
<1>1. TablesOK
  BY GeometryAssumption DEF Init, TablesOK
<1>2. DeferralOK /\ AgeOrder /\ NotForSelf
  BY BoundAssumption DEF Init, DeferralOK, AgeOrder, NotForSelf, Where
<1>3. NoStrandedPacket /\ OneOutcome
  BY DEF Init, NoStrandedPacket, OneOutcome, Uids
<1>4. QueueWithinBound
  BY FS_EmptySet, BoundAssumption DEF Init, QueueWithinBound
<1> QED BY <1>1, <1>2, <1>3, <1>4 DEF IInv, DeferralInv

(* Every step keeps the invariant. *)
LEMMA NextInv == IInv /\ [Next]_vars => IInv'
<1> SUFFICES ASSUME IInv, [Next]_vars PROVE IInv'
  OBVIOUS
<1>1. ASSUME NEW p \in Packets, NEW oif \in BOOLEAN, RouteOutput(p, oif)
      PROVE  IInv'
  BY <1>1, RouteOutputInv
<1>2. ASSUME NEW p \in Packets, RouteInputLoopback(p)
      PROVE  IInv'
  BY <1>2, RouteInputLoopbackInv
<1>3. ASSUME NEW p \in Packets, RouteInputRemote(p)
      PROVE  IInv'
  BY <1>3, RouteInputRemoteInv
<1>4. CASE CheckQueue
  BY <1>4, CheckQueueInv
<1>5. CASE Tick
  BY <1>5, TickInv
<1>6. CASE UNCHANGED vars
  <2>1. TablesOK'
    BY <1>6, TablesKept DEF IInv, vars
  <2>2. DeferralInv'
    BY <1>6, UntouchedInv DEF IInv, vars, deferral
  <2> QED BY <2>1, <2>2 DEF IInv
<1> QED BY <1>1, <1>2, <1>3, <1>4, <1>5, <1>6, EnvironmentInv DEF Next

(* The strengthening of the type and safety invariants holds in every reachable state. *)
THEOREM Invariance == Spec => []IInv
  BY InitInv, NextInv, PTL DEF Spec

(* Types hold, and both tables stay maps whatever arrives. *)
THEOREM TypeCorrect == Spec => []TypeOK
<1>1. IInv => TypeOK
  BY TypeSplit DEF IInv, DeferralInv
<1> QED BY <1>1, Invariance, PTL

(* No packet is ever parked without CheckQueue being scheduled and its destination       *)
(* being among the addresses CheckQueue visits.                                          *)
THEOREM NeverStranded == Spec => []NoStrandedPacket
<1>1. IInv => NoStrandedPacket
  BY DEF IInv, DeferralInv
<1> QED BY <1>1, Invariance, PTL

(* A parked packet waits once, and gets one of its two callbacks when it leaves. *)
THEOREM ExactlyOneOutcome == Spec => []OneOutcome
<1>1. IInv => OneOutcome
  BY DEF IInv, DeferralInv
<1> QED BY <1>1, Invariance, PTL

(* The request queue never holds more than MaxQueueLen packets. *)
THEOREM Bounded == Spec => []QueueWithinBound
<1>1. IInv => QueueWithinBound
  BY DEF IInv, DeferralInv
<1> QED BY <1>1, Invariance, PTL

-----------------------------------------------------------------------------
(* What a step may do to a packet *)

(* The two action properties, for one step. *)
StepFresh ==
  \A p \in Packets :
    SentNow(p) /\ ~LeavesQueue(p) /\ ~AuthRoute(p) => FreshHop(hop'[p])

StepCause ==
  \A e \in queue :
    /\ where'[e.uid] = "dropped" =>
         \/ e.left < 0
         \/ /\ Cardinality({f \in queue : f.left >= 0}) = MaxQueueLen
            /\ \A f \in queue : f.left >= 0 => e.left <= f.left
    /\ where'[e.uid] = "forwarded" => e.left >= 0

(* A step that leaves the parked packets parked needs no cause. *)
LEMMA StayCause ==
  ASSUME IInv, \A x \in Packets : where[x] = "queued" => where'[x] = "queued"
  PROVE  StepCause
<1>1. \A e \in queue : e.uid \in Packets /\ where[e.uid] = "queued"
  BY DEF IInv, DeferralInv, DeferralOK, OneOutcome, Uids
<1> QED BY <1>1 DEF StepCause

(* A packet that deferring another drops has expired or is the oldest of a full queue. *)
LEMMA DeferredCause ==
  ASSUME IInv, NEW p \in Packets, DeferredRouteOutput(p)
  PROVE  StepCause
<1> USE DEF IInv, DeferralInv
<1>1. where' = [x \in Packets |-> IF x = p THEN "queued"
                                   ELSE IF x \in Uids(EnqueueDropped(p)) THEN "dropped"
                                   ELSE where[x]]
  BY EnqueueEffect DEF DeferredRouteOutput
<1>2. \A e \in queue : /\ e.uid \in Packets /\ where[e.uid] = "queued"
                       /\ e.left \in -1..MaxQueueTime /\ e.ord \in Nat
  BY DEF DeferralOK, OneOutcome, Uids
<1>3. \A e \in queue : where'[e.uid] # "forwarded"
  BY <1>1, <1>2
<1>4. ASSUME NEW e \in queue, where'[e.uid] = "dropped"
      PROVE  \/ e.left < 0
             \/ /\ Cardinality({f \in queue : f.left >= 0}) = MaxQueueLen
                /\ \A f \in queue : f.left >= 0 => e.left <= f.left
  <2>1. e \in EnqueueDropped(p)
    <3>1. e.uid \in Uids(EnqueueDropped(p))
      BY <1>1, <1>2, <1>4
    <3>2. EnqueueDropped(p) \subseteq queue
      BY DEF EnqueueDropped, Live, Oldest
    <3> QED BY <3>1, <3>2 DEF OneOutcome, Uids
  <2>2. CASE e \notin Live(queue)
    BY <2>2, <1>2 DEF Live
  <2>3. CASE e \in Live(queue)
    <3>1. IsFull(Live(queue)) /\ e \in Oldest(Live(queue))
      BY <2>1, <2>3 DEF EnqueueDropped
    <3>2. Cardinality({f \in queue : f.left >= 0}) = MaxQueueLen
      BY <3>1 DEF IsFull, Live
    <3>3. ASSUME NEW f \in queue, f.left >= 0
          PROVE  e.left <= f.left
      <4>1. e.ord <= f.ord
        BY <3>1, <3>3 DEF Oldest, Live
      <4> QED BY <4>1, <1>2 DEF AgeOrder
    <3> QED BY <3>2, <3>3
  <2> QED BY <2>2, <2>3
<1> QED BY <1>3, <1>4 DEF StepCause

(* A packet that CheckQueue drops has expired. *)
LEMMA CheckQueueCause ==
  ASSUME IInv, CheckQueue
  PROVE  StepCause
<1> USE DEF IInv, DeferralInv
<1>1. \A e \in queue : /\ e.uid \in Packets /\ where[e.uid] = "queued"
                       /\ e.left \in -1..MaxQueueTime
  BY DEF DeferralOK, OneOutcome, Uids
<1>2. CheckLeaving \subseteq Live(queue) /\ CheckExpired \subseteq queue \ Live(queue)
  BY DEF CheckLeaving, CheckExpired
<1>3. ASSUME NEW e \in queue
      PROVE  /\ e.uid \in Uids(CheckLeaving) <=> e \in CheckLeaving
             /\ e.uid \in Uids(CheckExpired) <=> e \in CheckExpired
  BY <1>2 DEF OneOutcome, Uids, Live
<1>4. \A e \in queue : where'[e.uid] = IF e \in CheckLeaving THEN "forwarded"
                                       ELSE IF e \in CheckExpired THEN "dropped" ELSE "queued"
  BY <1>1, <1>3, CheckQueueEffect
<1> QED BY <1>1, <1>2, <1>4 DEF StepCause, Live

(* Forwarding one packet drops no other. *)
LEMMA SendViaStays ==
  ASSUME IInv, NEW p \in Packets, NEW h, SendVia(p, h)
  PROVE  /\ \A x \in Packets : where[x] = "queued" => where'[x] = "queued"
         /\ \A x \in Packets : hop'[x] = IF x = p THEN h ELSE hop[x]
  BY DEF SendVia, IInv, DeferralInv, DeferralOK

(* The action properties for RouteOutput. *)
LEMMA RouteOutputStep ==
  ASSUME IInv, NEW p \in Packets, NEW oif \in BOOLEAN, RouteOutput(p, oif)
  PROVE  StepFresh /\ StepCause
<1>1. CASE \E h : SendVia(p, h) /\ (~AuthRoute(p) => FreshHop(h))
  BY <1>1, SendViaStays, StayCause DEF StepFresh, SentNow
<1>2. CASE UNCHANGED hop /\ \E w \in Where : where' = [where EXCEPT ![p] = w]
  <2>1. \A x \in Packets : where[x] = "queued" => where'[x] = "queued"
    BY <1>2 DEF RouteOutput, IInv, DeferralInv, DeferralOK
  <2> QED BY <1>2, <2>1, StayCause DEF StepFresh, SentNow
<1>3. NextHopOut(Purge(neighbors), p) = Zero \/ FreshHop(NextHopOut(Purge(neighbors), p))
  BY NextHopOutFresh DEF IInv
<1> QED BY <1>1, <1>2, <1>3 DEF RouteOutput, Where

(* Deferring forwards nothing. *)
LEMMA DeferredFresh ==
  ASSUME IInv, NEW p \in Packets, DeferredRouteOutput(p)
  PROVE  StepFresh
  BY DEF DeferredRouteOutput, StepFresh, SentNow, IInv, DeferralInv, DeferralOK

(* The action properties for RouteInput. *)
LEMMA RouteInputStep ==
  ASSUME IInv, NEW p \in Packets, RouteInputLoopback(p) \/ RouteInputRemote(p)
  PROVE  StepFresh /\ StepCause
<1>1. CASE DeferredRouteOutput(p)
  BY <1>1, DeferredFresh, DeferredCause
<1>2. CASE ForwardingHop(p) # Zero /\ SendVia(p, ForwardingHop(p))
  <2>1. FreshHop(ForwardingHop(p))
    BY <1>2, ForwardingHopFresh DEF IInv
  <2> QED BY <1>2, <2>1, SendViaStays, StayCause DEF StepFresh, SentNow
<1>3. CASE UNCHANGED <<where, hop>>
  BY <1>3, StayCause DEF StepFresh, SentNow
<1>4. CASE /\ UNCHANGED hop /\ where[p] # "queued"
           /\ \E w \in Where : where' = [where EXCEPT ![p] = w]
  <2>1. \A x \in Packets : where[x] = "queued" => where'[x] = "queued"
    BY <1>4 DEF IInv, DeferralInv, DeferralOK
  <2> QED BY <1>4, <2>1, StayCause DEF StepFresh, SentNow
<1>5. CASE RouteInputLoopback(p)
  BY <1>1, <1>4, <1>5 DEF RouteInputLoopback, Where
<1>6. CASE RouteInputRemote(p)
  <2>1. Dst[p] = Self => where[p] # "queued"
    BY DEF IInv, DeferralInv, NotForSelf
  <2>2. CASE ~up
    BY <2>2, <1>3, <1>4, <1>6 DEF RouteInputRemote, Where
  <2>3. CASE up /\ Dst[p] = Self
    BY <2>1, <2>3, <1>4, <1>6 DEF RouteInputRemote, Where
  <2>4. CASE up /\ Dst[p] # Self
    BY <2>4, <1>1, <1>2, <1>6, ForwardingEffect DEF RouteInputRemote
  <2> QED BY <2>2, <2>3, <2>4
<1> QED BY <1>5, <1>6

(* What CheckQueue forwards was parked, which the property leaves aside. *)
LEMMA CheckQueueFresh ==
  ASSUME IInv, CheckQueue
  PROVE  StepFresh
<1>1. ASSUME NEW p \in Packets, hop'[p] # hop[p]
      PROVE  LeavesQueue(p)
  <2>1. p \in Uids(CheckLeaving)
    BY <1>1, CheckQueueEffect
  <2>2. where'[p] = "forwarded"
    BY <2>1, CheckQueueEffect
  <2>3. p \in Uids(queue)
    BY <2>1 DEF Uids, CheckLeaving, Live
  <2> QED BY <2>2, <2>3 DEF LeavesQueue, IInv, DeferralInv, OneOutcome
<1> QED BY <1>1 DEF StepFresh, SentNow

(* The action properties for every step. *)
LEMMA NextStep == IInv /\ Next => StepFresh /\ StepCause
<1> SUFFICES ASSUME IInv, Next PROVE StepFresh /\ StepCause
  OBVIOUS
<1>1. CASE UNCHANGED <<where, hop>>
  BY <1>1, StayCause DEF StepFresh, SentNow
<1>2. CASE CheckQueue
  BY <1>2, CheckQueueFresh, CheckQueueCause
<1>3. ASSUME NEW p \in Packets, NEW oif \in BOOLEAN, RouteOutput(p, oif)
      PROVE  StepFresh /\ StepCause
  BY <1>3, RouteOutputStep
<1>4. ASSUME NEW p \in Packets, RouteInputLoopback(p) \/ RouteInputRemote(p)
      PROVE  StepFresh /\ StepCause
  BY <1>4, RouteInputStep
<1> QED BY <1>1, <1>2, <1>3, <1>4
       DEF Next, UpdateRouteToNeighbor, UpdateRouteToNodes, Move, NotifyInterfaceUp,
           NotifyInterfaceDown, NotifyAddAddress, NotifyRemoveAddress, Tick

(* A parked packet is dropped only when it is over time or pushed out of a full queue by *)
(* its age, and forwarded only within its time.                                          *)
THEOREM DroppedForCause == Spec => LeavesForCause
<1>1. IInv /\ [Next]_vars => [StepCause]_vars
  BY NextStep
<1> QED BY <1>1, Invariance, PTL DEF Spec, LeavesForCause, StepCause

(* The next hop of a packet that was not parked is a neighbour heard within LifeTime. *)
THEOREM NextHopFresh == Spec => FreshNextHop
<1>1. IInv /\ [Next]_vars => [StepFresh]_vars
  BY NextStep
<1> QED BY <1>1, Invariance, PTL DEF Spec, FreshNextHop, StepFresh

-----------------------------------------------------------------------------
(* CheckQueue *)

(* The two properties of CheckQueue, for one step. *)
StepHop ==
  \A p \in Packets :
    LeavesQueue(p) => \E e \in neighbors :
                         /\ e.addr = hop'[p]
                         /\ e.addr = Dst[p] \/ e.age < LifeTime

StepServes ==
  CheckQueue => \A p \in Packets :
    where[p] = "queued" /\ HasRoute(Dst[p]) => where'[p] # "queued"

(* BestNeighbor is asked of a purged table only. *)
LEMMA UnpurgedTable ==
  ASSUME NEW a \in queuedAddresses, ~isNeighbour(TableAfterCheck, a.addr)
  PROVE  TableAfterCheck = Purge(neighbors)
  BY DEF TableAfterCheck

(* An address is visited with the addresses that come before it, of which the first that  *)
(* is no neighbour purges the table: nothing else is lost than what has expired.          *)
LEMMA AfterCheckTable ==
  Purge(neighbors) \subseteq TableAfterCheck /\ TableAfterCheck \subseteq neighbors
  BY DEF TableAfterCheck, Purge

(* Whom SendPacketFromQueue names is the destination, or was heard within its lifetime. *)
LEMMA CheckHopHeard ==
  ASSUME IInv, NEW a \in queuedAddresses, SendPacketFromQueue(a) # Zero
  PROVE  \E e \in neighbors : /\ e.addr = SendPacketFromQueue(a)
                              /\ e.addr = a.addr \/ e.age < LifeTime
<1>1. CASE a \in Early \/ isNeighbour(TableAfterCheck, a.addr)
  <2>1. isNeighbour(neighbors, a.addr)
    BY <1>1, AfterCheckTable DEF Early, isNeighbour
  <2> QED  BY <1>1, <2>1 DEF SendPacketFromQueue, isNeighbour
<1>2. CASE ~(a \in Early \/ isNeighbour(TableAfterCheck, a.addr))
  <2>1. TableAfterCheck = Purge(neighbors)
    BY <1>2, UnpurgedTable
  <2>2. SendPacketFromQueue(a) = BestNeighbor(Purge(neighbors), nodesPosition[a.addr])
    BY <1>2, <2>1 DEF SendPacketFromQueue
  <2>3. \E e \in Purge(neighbors) : e.addr = SendPacketFromQueue(a)
    BY <2>2, BestNeighborFromTable
  <2> QED  BY <2>3 DEF Purge
<1> QED  BY <1>1, <1>2

(* A listed address with a live next hop is served. *)
LEMMA RouteServed ==
  ASSUME IInv, NEW a \in queuedAddresses, HasRoute(a.addr)
  PROVE  a \in CheckDone
<1>1. a.addr # Zero
  <2>1. a.addr \in Address /\ Zero \notin Address
    BY AddressAssumption DEF IInv, DeferralInv, DeferralOK, Address
  <2> QED  BY <2>1
<1>2. CASE a \in Early \/ isNeighbour(TableAfterCheck, a.addr)
  BY <1>1, <1>2 DEF SendPacketFromQueue, CheckDone
<1>3. CASE ~(a \in Early \/ isNeighbour(TableAfterCheck, a.addr))
  <2>1. TableAfterCheck = Purge(neighbors) /\ ~isNeighbour(Purge(neighbors), a.addr)
    BY <1>3, UnpurgedTable
  <2>2. BestNeighbor(Purge(neighbors), nodesPosition[a.addr]) # Zero
    BY <2>1 DEF HasRoute
  <2> QED  BY <1>3, <2>1, <2>2 DEF SendPacketFromQueue, CheckDone
<1> QED  BY <1>2, <1>3

(* Only CheckQueue takes a packet out of the queue and forwards it, by the next hop of its *)
(* destination, and it leaves none whose destination has one.                             *)
LEMMA CheckQueueStep ==
  ASSUME IInv, CheckQueue
  PROVE  StepHop /\ StepServes
<1> USE DEF IInv, DeferralInv
<1>1. ASSUME NEW p \in Packets, LeavesQueue(p)
      PROVE  \E e \in neighbors : /\ e.addr = hop'[p]
                                  /\ e.addr = Dst[p] \/ e.age < LifeTime
  <2>1. p \in Uids(CheckLeaving)
    BY <1>1, CheckQueueEffect DEF LeavesQueue
  <2>2. \E a \in CheckDone : a.addr = Dst[p]
    BY <2>1 DEF Uids, CheckLeaving
  <2> DEFINE b == CHOOSE a \in CheckDone : a.addr = Dst[p]
  <2>3. b \in CheckDone /\ b.addr = Dst[p]
    BY <2>2
  <2>4. hop'[p] = SendPacketFromQueue(b)
    BY <2>1, CheckQueueEffect
  <2> HIDE DEF b
  <2>5. b \in queuedAddresses /\ SendPacketFromQueue(b) # Zero
    BY <2>3 DEF CheckDone
  <2> QED  BY <2>3, <2>4, <2>5, CheckHopHeard
<1>2. ASSUME NEW p \in Packets, where[p] = "queued", HasRoute(Dst[p])
      PROVE  where'[p] # "queued"
  <2>1. PICK e \in queue : e.uid = p
    BY <1>2 DEF OneOutcome, Uids
  <2>2. PICK a \in queuedAddresses : a.addr = Dst[p]
    BY <2>1 DEF NoStrandedPacket
  <2>3. a \in CheckDone
    BY <1>2, <2>2, RouteServed
  <2>4. e \in CheckLeaving \/ e \in CheckExpired
    BY <2>1, <2>2, <2>3 DEF CheckLeaving, CheckExpired
  <2>5. p \in Uids(CheckLeaving) \/ p \in Uids(CheckExpired)
    BY <2>1, <2>4 DEF Uids
  <2> QED  BY <2>5, CheckQueueEffect
<1> QED  BY <1>1, <1>2 DEF StepHop, StepServes

(* No other step forwards what is parked. *)
LEMMA ParkedStays ==
  ASSUME IInv, Next, ~CheckQueue
  PROVE  \A p \in Packets : ~LeavesQueue(p)
<1>1. CASE UNCHANGED where
  BY <1>1 DEF LeavesQueue
<1>2. ASSUME NEW p \in Packets, NEW h, SendVia(p, h)
      PROVE  \A x \in Packets : ~LeavesQueue(x)
  BY <1>2 DEF SendVia, LeavesQueue, IInv, DeferralInv, DeferralOK
<1>3. ASSUME NEW p \in Packets, DeferredRouteOutput(p)
      PROVE  \A x \in Packets : ~LeavesQueue(x)
  <2>1. Enqueue(p)
    BY <1>3 DEF DeferredRouteOutput
  <2> QED  BY <2>1, EnqueueEffect DEF LeavesQueue
<1>4. ASSUME NEW p \in Packets, NEW w \in {"noroute", "loopback", "delivered"},
             where' = [where EXCEPT ![p] = w]
      PROVE  \A x \in Packets : ~LeavesQueue(x)
  BY <1>4 DEF LeavesQueue, IInv, DeferralInv, DeferralOK
<1>5. ASSUME NEW p \in Packets, NEW oif \in BOOLEAN, RouteOutput(p, oif)
      PROVE  \A x \in Packets : ~LeavesQueue(x)
  BY <1>2, <1>4, <1>5 DEF RouteOutput
<1>6. ASSUME NEW p \in Packets, RouteInputLoopback(p)
      PROVE  \A x \in Packets : ~LeavesQueue(x)
  BY <1>3, <1>4, <1>6 DEF RouteInputLoopback
<1>7. ASSUME NEW p \in Packets, RouteInputRemote(p)
      PROVE  \A x \in Packets : ~LeavesQueue(x)
  BY <1>1, <1>2, <1>3, <1>4, <1>7 DEF RouteInputRemote, Forwarding
<1> QED  BY <1>1, <1>5, <1>6, <1>7
         DEF Next, UpdateRouteToNeighbor, UpdateRouteToNodes, Move, NotifyInterfaceUp,
             NotifyInterfaceDown, NotifyAddAddress, NotifyRemoveAddress, Tick

(* A parked packet is handed to its destination or to a neighbour heard within LifeTime. *)
THEOREM QueuedToHeard == Spec => QueuedNextHop
<1>1. IInv /\ Next => StepHop
  BY CheckQueueStep, ParkedStays DEF StepHop
<1>2. IInv /\ [Next]_vars => [StepHop]_vars
  BY <1>1
<1> QED  BY <1>2, Invariance, PTL DEF Spec, QueuedNextHop, StepHop

(* CheckQueue leaves no packet behind that has a next hop. *)
THEOREM NoneSkipped == Spec => CheckServes
<1>1. IInv /\ [Next]_vars => [StepServes]_vars
  BY CheckQueueStep DEF StepServes
<1> QED  BY <1>1, Invariance, PTL DEF Spec, CheckServes, StepServes
=============================================================================
