----------------------------- MODULE AeroRouting -----------------------------
(***************************************************************************)
(* The data plane of one AeroRP node (AeroRoutingProtocol): what happens   *)
(* to a packet that the node originates or that it must forward.  A next   *)
(* hop is looked up in the neighbour table (aerorp-ntable); a packet that  *)
(* has none is tagged, sent over the loopback device and parked in the     *)
(* request queue (aerorp-pqueue) until CheckQueue, driven by               *)
(* CheckQueueTimer, finds a next hop for its destination.                  *)
(*                                                                         *)
(* Time is kept as ages and remaining lifetimes, advanced by Tick; each is *)
(* cut off where the code can no longer tell two values apart, so the      *)
(* state space is finite without a horizon.                                *)
(***************************************************************************)
EXTENDS Integers, FiniteSets

CONSTANTS
  Nodes,            \* interface-1 addresses of the other nodes
  Self,             \* this node's interface-1 address
  GroundStation,    \* GROUND_STATION_ADDRESS, the ground station's interface-2 address
  Packets,          \* packet uids
  Dst,              \* header.GetDestination () of each packet
  Positions,        \* Vector values used as a destination's position
  Invalid,          \* GetInvalidPosition ()
  Origin,           \* the default-constructed Vector
  Motions,          \* (position, velocity) pairs of a node
  TTI,              \* CalculateTimeToIntercept, by destination position and motion
  SecurityState,    \* m_SecurityState
  IsGroundStation,  \* m_isGroundStation
  MaxQueueLen, MaxQueueTime, LifeTime, FirstCheck, Recheck,
  MaxStamp          \* bound: how many packets the node defers in a behaviour

Zero == 0                                  \* Ipv4Address::GetZero ()
Address == Nodes \cup {Self, GroundStation}
NotRunning == -1                           \* CheckQueueTimer is not scheduled

ASSUME AddressAssumption ==
  /\ Nodes \subseteq Nat \ {Zero} /\ Self \in Nat \ {Zero} /\ GroundStation \in Nat \ {Zero}
  /\ Self \notin Nodes /\ GroundStation \notin Nodes /\ Self # GroundStation
ASSUME PacketAssumption == Dst \in [Packets -> Address]
ASSUME GeometryAssumption == Invalid \in Positions /\ Origin \in Positions
ASSUME TTIAssumption == \A pos \in Positions, m \in Motions : TTI[pos][m] \in Int
ASSUME BoundAssumption ==
  /\ MaxQueueLen \in Nat \ {0} /\ MaxQueueTime \in Nat \ {0} /\ LifeTime \in Nat \ {0}
  /\ FirstCheck \in Nat \ {0} /\ Recheck \in Nat \ {0} /\ FirstCheck <= Recheck
  /\ MaxStamp \in Nat
ASSUME ModeAssumption == SecurityState \in BOOLEAN /\ IsGroundStation \in BOOLEAN

VARIABLES
  up,               \* m_socketAddresses is not empty
  motion,           \* this node's own position and velocity
  neighbors,        \* m_neighbors: {[addr, motion, age]}
  nodesPosition,    \* m_nodesPosition, Invalid where there is no entry
  queue,            \* m_queue: {[uid, left, ord]}, ord the order of insertion
  queuedAddresses,  \* m_queuedAddresses: {[addr, stamp]}, latest insertion first
  stamp,            \* number of packets deferred so far
  timer,            \* time left until CheckQueue runs
  where,            \* where each packet is
  hop               \* gateway each forwarded packet was given to

vars == <<up, motion, neighbors, nodesPosition, queue, queuedAddresses, stamp, timer,
          where, hop>>

tables == <<neighbors, nodesPosition>>
deferral == <<queue, queuedAddresses, stamp, timer>>

Where == {"new", "loopback", "queued", "forwarded", "dropped", "noroute", "delivered"}

-----------------------------------------------------------------------------
(* Neighbour table *)

Purge_LateByOne(table) == {e \in table : e.age <= LifeTime}

Purge(table) == {e \in table : e.age < LifeTime}

(* find () alone decides: the comparison with end ()->first, for an address that is not   *)
(* there, reads no address of a node.                                                    *)
isNeighbour(table, d) == \E e \in table : e.addr = d

AddEntry_NoErase(table, n, m) ==
  table \cup {[addr |-> n, motion |-> m, age |-> 0]}

AddEntry(table, n, m) ==
  {e \in table : e.addr # n} \cup {[addr |-> n, motion |-> m, age |-> 0]}

(* The next hop for a destination believed to be at dstPosition: the entry with the     *)
(* least TTI, the lowest address among equals.  A TTI of 0 means "never gets there": it *)
(* is no candidate, and as the node's own TTI any other is better.  The loop of the     *)
(* code is module NextHop, which is proved to compute this choice.                      *)
BestNeighbor(table, dstPosition) ==
  LET own     == TTI[dstPosition][motion]
      tti(e)  == TTI[dstPosition][e.motion]
      better  == {e \in table : tti(e) # 0 /\ (own = 0 \/ tti(e) < own)}
      best    == {e \in better : \A f \in better :
                     tti(e) < tti(f) \/ (tti(e) = tti(f) /\ e.addr <= f.addr)}
  IN  IF best = {} THEN Zero ELSE (CHOOSE e \in best : TRUE).addr

-----------------------------------------------------------------------------
(* Request queue *)

Live(q) == {e \in q : e.left >= 0}

Youngest(q) == {e \in q : \A f \in q : e.ord >= f.ord}

Oldest(q) == {e \in q : \A f \in q : e.ord <= f.ord}

Uids(q) == {e.uid : e \in q}

IsFull_OffByOne(q) == Cardinality(q) = MaxQueueLen + 1

IsFull(q) == Cardinality(q) = MaxQueueLen

AlreadyQueued_Never(q, p) == FALSE

AlreadyQueued(q, p) == p \in Uids(q)

Enqueue_Refreshes(p) ==
  LET others == {e \in Live(queue) : e.uid # p}
      aged   == IF IsFull(others) THEN Oldest(others) ELSE {}
      entry  == [uid |-> p, left |-> MaxQueueTime, ord |-> stamp + 1]
  IN  /\ queue' = (others \ aged) \cup {entry}
      /\ where' = [x \in Packets |-> IF x = p THEN "queued"
                                     ELSE IF x \in Uids((queue \ Live(queue)) \cup aged) THEN "dropped"
                                     ELSE where[x]]

(* Enqueue, preceded by its Purge: expired entries are dropped, a packet already waiting *)
(* is refused, and a full queue drops its most aged entry.                               *)
Enqueue(p) ==
  LET live    == Live(queue)
      refused == AlreadyQueued(live, p)
      aged    == IF ~refused /\ IsFull(live) THEN Oldest(live) ELSE {}
      entry   == [uid |-> p, left |-> MaxQueueTime, ord |-> stamp + 1]
      dropped == (queue \ live) \cup aged
  IN  /\ queue' = (queue \ dropped) \cup (IF refused THEN {} ELSE {entry})
      /\ where' = [x \in Packets |-> IF x = p THEN "queued"
                                     ELSE IF x \in Uids(dropped) THEN "dropped"
                                     ELSE where[x]]

(* The timer is started only for a queue found empty; the address goes to the front of   *)
(* m_queuedAddresses whether or not the queue took the packet.                           *)
DeferredRouteOutput(p) ==
  /\ timer' = IF Live(queue) = {} THEN FirstCheck ELSE timer
  /\ Enqueue(p)
  /\ queuedAddresses' = {a \in queuedAddresses : a.addr # Dst[p]}
                          \cup {[addr |-> Dst[p], stamp |-> stamp + 1]}
  /\ stamp' = stamp + 1
  /\ hop' = [hop EXCEPT ![p] = Zero]

-----------------------------------------------------------------------------
(* Routing decisions *)

(* bound: every packet on its way to the queue fits under MaxStamp *)
MayDefer == stamp + Cardinality({p \in Packets : where[p] = "loopback"}) < MaxStamp

(* The forward callback takes the packet; a copy of it that waits in the queue stays.    *)
SendVia(p, h) ==
  /\ where' = [where EXCEPT ![p] = IF @ = "queued" THEN @ ELSE "forwarded"]
  /\ hop' = [hop EXCEPT ![p] = h]

(* The security traffic that RouteOutput sends through device 2 without any lookup. *)
AuthRoute(p) == SecurityState /\ (Dst[p] = GroundStation \/ IsGroundStation)

NextHopOut(table, p) ==
  IF isNeighbour(table, Dst[p]) THEN Dst[p] ELSE BestNeighbor(table, nodesPosition[Dst[p]])

(* A packet of a local application.  BestNeighbor runs, and purges the table, before     *)
(* isNeighbour is asked.  A socket bound to another device is refused.                   *)
RouteOutput(p, oifMatches) ==
  /\ where[p] = "new" /\ Dst[p] # Self /\ MayDefer
  /\ UNCHANGED <<up, motion, nodesPosition, deferral>>
  /\ \/ /\ ~up
        /\ where' = [where EXCEPT ![p] = "noroute"]
        /\ UNCHANGED <<neighbors, hop>>
     \/ /\ up /\ AuthRoute(p)
        /\ SendVia(p, Dst[p])
        /\ UNCHANGED neighbors
     \/ /\ up /\ ~AuthRoute(p)
        /\ neighbors' = Purge(neighbors)
        /\ LET h == NextHopOut(Purge(neighbors), p) IN
             \/ h # Zero /\ oifMatches /\ SendVia(p, h)
             \/ /\ h # Zero /\ ~oifMatches
                /\ where' = [where EXCEPT ![p] = "noroute"] /\ UNCHANGED hop
             \/ /\ h = Zero /\ oifMatches
                /\ where' = [where EXCEPT ![p] = "loopback"] /\ UNCHANGED hop

(* The tagged packet comes back from the loopback device. *)
RouteInputLoopback(p) ==
  /\ where[p] = "loopback"
  /\ UNCHANGED <<up, motion, tables>>
  /\ \/ /\ ~up
        /\ where' = [where EXCEPT ![p] = "noroute"]
        /\ UNCHANGED <<deferral, hop>>
     \/ up /\ DeferredRouteOutput(p)

(* Forwarding looks the position up and drops it: BestNeighbor gets the Vector Position  *)
(* of its own declaration.                                                               *)
Forwarding(p) ==
  /\ neighbors' = Purge(neighbors)
  /\ LET t == Purge(neighbors)
         h == IF isNeighbour(t, Dst[p]) THEN Dst[p] ELSE BestNeighbor(t, Origin)
     IN  \/ h # Zero /\ SendVia(p, h) /\ UNCHANGED deferral
         \/ h = Zero /\ DeferredRouteOutput(p)

(* A packet arrives from another node: a new one, or one this node forwarded before, or  *)
(* a second piece of one that still waits here.                                          *)
RouteInputRemote(p) ==
  /\ where[p] \in {"new", "forwarded", "queued"} /\ MayDefer
  /\ UNCHANGED <<up, motion, nodesPosition>>
  /\ \/ /\ ~up
        /\ where' = IF where[p] = "new" THEN [where EXCEPT ![p] = "noroute"] ELSE where
        /\ UNCHANGED <<neighbors, deferral, hop>>
     \/ /\ up /\ Dst[p] = Self
        /\ where' = [where EXCEPT ![p] = "delivered"]
        /\ UNCHANGED <<neighbors, deferral, hop>>
     \/ up /\ Dst[p] # Self /\ Forwarding(p)

-----------------------------------------------------------------------------
(* CheckQueue *)

(* Addresses visited while the table is still unpurged: the first address that is no     *)
(* neighbour makes SendPacketFromQueue call BestNeighbor, which purges.                  *)
Early ==
  {a \in queuedAddresses :
     /\ isNeighbour(neighbors, a.addr)
     /\ \A b \in queuedAddresses : ~isNeighbour(neighbors, b.addr) => a.stamp > b.stamp}

TableAfterCheck_NeverPurged == neighbors

TableAfterCheck ==
  IF \A a \in queuedAddresses : isNeighbour(neighbors, a.addr)
  THEN neighbors ELSE Purge(neighbors)

SendPacketFromQueue_AsForwarding(a) ==
  IF a \in Early \/ isNeighbour(TableAfterCheck, a.addr)
  THEN a.addr
  ELSE BestNeighbor(TableAfterCheck, Origin)

SendPacketFromQueue(a) ==
  IF a \in Early \/ isNeighbour(TableAfterCheck, a.addr)
  THEN a.addr
  ELSE BestNeighbor(TableAfterCheck, nodesPosition[a.addr])

TimerAfterCheck_OnlyIfSent(done) ==
  IF queuedAddresses \ done = {} \/ done = {} THEN NotRunning ELSE Recheck

TimerAfterCheck(done) == IF queuedAddresses \ done = {} THEN NotRunning ELSE Recheck

(* One expiry of CheckQueueTimer.  Every packet of an address that has a next hop is     *)
(* handed to its forward callback and the address erased; the purge of the queue happens *)
(* in Dequeue, which runs only if some address has a next hop.                           *)
CheckQueue ==
  /\ timer = 0
  /\ LET done    == {a \in queuedAddresses : SendPacketFromQueue(a) # Zero}
         leaving == {e \in Live(queue) : \E a \in done : a.addr = Dst[e.uid]}
         expired == IF done = {} THEN {} ELSE queue \ Live(queue)
     IN  /\ queue' = queue \ (leaving \cup expired)
         /\ queuedAddresses' = queuedAddresses \ done
         /\ timer' = TimerAfterCheck(done)
         /\ where' = [p \in Packets |-> IF p \in Uids(leaving) THEN "forwarded"
                                        ELSE IF p \in Uids(expired) THEN "dropped"
                                        ELSE where[p]]
         /\ hop' = [p \in Packets |->
                      IF p \in Uids(leaving)
                      THEN SendPacketFromQueue(CHOOSE a \in done : a.addr = Dst[p])
                      ELSE hop[p]]
  /\ neighbors' = TableAfterCheck
  /\ UNCHANGED <<up, motion, nodesPosition, stamp>>

-----------------------------------------------------------------------------
(* Environment: control packets, movement, interfaces, time *)

(* A HELLO accepted by RecvAERORP. *)
UpdateRouteToNeighbor(n, m) ==
  /\ up
  /\ neighbors' = AddEntry(neighbors, n, m)
  /\ UNCHANGED <<up, motion, nodesPosition, deferral, where, hop>>

(* A GSGEOLOCATION accepted by RecvAERORP. *)
UpdateRouteToNodes(n, pos) ==
  /\ up
  /\ nodesPosition' = [nodesPosition EXCEPT ![n] = pos]
  /\ UNCHANGED <<up, motion, neighbors, deferral, where, hop>>

Move(m) ==
  /\ motion' = m
  /\ UNCHANGED <<up, tables, deferral, where, hop>>

NotifyInterfaceUp ==
  /\ ~up
  /\ up' = TRUE
  /\ UNCHANGED <<motion, tables, deferral, where, hop>>

(* The last socket is closed.  Only a ground station gets through: elsewhere             *)
(* m_godGroundStation is null and its Clear () ends the program.                         *)
NotifyInterfaceDown ==
  /\ up /\ IsGroundStation
  /\ up' = FALSE
  /\ neighbors' = {}
  /\ nodesPosition' = [n \in Address |-> Invalid]
  /\ UNCHANGED <<motion, deferral, where, hop>>

(* The interface has an address but no socket: one is created. *)
NotifyAddAddress ==
  /\ ~up
  /\ up' = TRUE
  /\ UNCHANGED <<motion, tables, deferral, where, hop>>

(* The last address goes, and its socket with it.  Here the positions stay, and again     *)
(* only a ground station survives the Clear () of m_godGroundStation.                     *)
NotifyRemoveAddress ==
  /\ up /\ IsGroundStation
  /\ up' = FALSE
  /\ neighbors' = {}
  /\ UNCHANGED <<motion, nodesPosition, deferral, where, hop>>

(* Time passes only when no event is due now. *)
Tick ==
  /\ timer # 0
  /\ \A p \in Packets : where[p] # "loopback"
  /\ timer' = IF timer = NotRunning THEN NotRunning ELSE timer - 1
  /\ neighbors' = {[e EXCEPT !.age = IF @ < LifeTime THEN @ + 1 ELSE @] : e \in neighbors}
  /\ queue' = {[e EXCEPT !.left = IF @ >= 0 THEN @ - 1 ELSE @] : e \in queue}
  /\ UNCHANGED <<up, motion, nodesPosition, queuedAddresses, stamp, where, hop>>

-----------------------------------------------------------------------------
Init ==
  /\ up = FALSE
  /\ motion \in Motions
  /\ neighbors = {}
  /\ nodesPosition = [n \in Address |-> Invalid]
  /\ queue = {} /\ queuedAddresses = {} /\ stamp = 0 /\ timer = NotRunning
  /\ where = [p \in Packets |-> "new"]
  /\ hop = [p \in Packets |-> Zero]

Next ==
  \/ \E p \in Packets, oifMatches \in BOOLEAN : RouteOutput(p, oifMatches)
  \/ \E p \in Packets : RouteInputLoopback(p)
  \/ \E p \in Packets : RouteInputRemote(p)
  \/ CheckQueue
  \/ \E n \in Nodes, m \in Motions : UpdateRouteToNeighbor(n, m)
  \/ \E n \in Nodes, pos \in Positions \ {Invalid} : UpdateRouteToNodes(n, pos)
  \/ \E m \in Motions : Move(m)
  \/ NotifyInterfaceUp
  \/ NotifyInterfaceDown
  \/ NotifyAddAddress
  \/ NotifyRemoveAddress
  \/ Tick

Spec == Init /\ [][Next]_vars

(* The simulator runs every event that is due and its clock advances while events are    *)
(* pending; hellos, positions, traffic and movement are the environment's choice.        *)
FairSpec ==
  /\ Spec
  /\ WF_vars(Tick) /\ WF_vars(CheckQueue)
  /\ \A p \in Packets : WF_vars(RouteInputLoopback(p))

-----------------------------------------------------------------------------
(* Safety *)

(* Types, and both tables are maps: one entry per address. *)
TypeOK ==
  /\ up \in BOOLEAN /\ motion \in Motions
  /\ neighbors \subseteq [addr : Nodes, motion : Motions, age : 0..LifeTime]
  /\ \A e, f \in neighbors : e.addr = f.addr => e = f
  /\ nodesPosition \in [Address -> Positions]
  /\ queue \subseteq [uid : Packets, left : -1..MaxQueueTime, ord : Nat]
  /\ queuedAddresses \subseteq [addr : Address, stamp : Nat]
  /\ \A a, b \in queuedAddresses : a.addr = b.addr => a = b
  /\ stamp \in Nat /\ timer \in {NotRunning} \cup 0..Recheck
  /\ where \in [Packets -> Where]
  /\ hop \in [Packets -> Address \cup {Zero}]

(* Every packet parked by DeferredRouteOutput is listed for CheckQueue, and CheckQueue   *)
(* is scheduled exactly while some address is listed: DeferredRouteOutput may leave the  *)
(* timer alone for a queue it finds occupied, and CheckQueue may erase an address.       *)
NoStrandedPacket ==
  /\ \A e \in queue : \E a \in queuedAddresses : a.addr = Dst[e.uid]
  /\ queuedAddresses # {} <=> timer # NotRunning

(* A packet waits at most once, and it waits exactly while neither its forward callback  *)
(* nor its error callback has been called.                                               *)
OneOutcome ==
  /\ \A e, f \in queue : e.uid = f.uid => e = f
  /\ \A p \in Packets : where[p] = "queued" <=> p \in Uids(queue)

(* MaxQueueLen bounds the queue although Enqueue only tests for equality. *)
QueueWithinBound == IsFiniteSet(queue) /\ Cardinality(queue) <= MaxQueueLen

(* A waiting packet is dropped only when its time is over or when the queue is full and  *)
(* no other packet in it is closer to its end, and it is forwarded only within its time. *)
LeavesForCause ==
  [][\A e \in queue :
       /\ where'[e.uid] = "dropped" =>
            \/ e.left < 0
            \/ /\ Cardinality({f \in queue : f.left >= 0}) = MaxQueueLen
               /\ \A f \in queue : f.left >= 0 => e.left <= f.left
       /\ where'[e.uid] = "forwarded" => e.left >= 0]_vars

LeavesQueue(p) == where[p] = "queued" /\ where'[p] = "forwarded"
SentNow(p) == hop'[p] # hop[p] /\ hop'[p] # Zero

FreshHop(h) == \E e \in neighbors : e.addr = h /\ e.age < LifeTime

(* RouteOutput and Forwarding never hand a packet to a neighbour not heard within its    *)
(* lifetime, although isNeighbour itself looks at no time: a purge comes first.          *)
FreshNextHop ==
  [][\A p \in Packets :
       SentNow(p) /\ ~LeavesQueue(p) /\ ~AuthRoute(p) => FreshHop(hop'[p])]_vars

(* CheckQueue, which asks isNeighbour before anything has purged the table, may hand a     *)
(* parked packet to its destination itself although that was last heard long ago; whoever  *)
(* else it hands a packet to was heard within its lifetime.                                *)
QueuedNextHop ==
  [][\A p \in Packets :
       LeavesQueue(p) => \E e \in neighbors :
                            /\ e.addr = hop'[p]
                            /\ e.addr = Dst[p] \/ e.age < LifeTime]_vars

(* What SendPacketFromQueue would find for d in a table without expired entries. *)
HasRoute(d) ==
  \/ isNeighbour(Purge(neighbors), d)
  \/ BestNeighbor(Purge(neighbors), nodesPosition[d]) # Zero

(* No packet that has a next hop is left behind by CheckQueue, in whatever order the       *)
(* addresses are visited and whichever of them makes it purge the table.                   *)
CheckServes ==
  [][CheckQueue => \A p \in Packets :
       where[p] = "queued" /\ HasRoute(Dst[p]) => where'[p] # "queued"]_vars

(* Liveness *)

(* A destination that from some moment on always has a live next hop gets what was       *)
(* parked for it: CheckQueue keeps being rescheduled and visits every parked address.    *)
RouteMeansSent ==
  \A p \in Packets :
     <>[]HasRoute(Dst[p]) => [](where[p] = "queued" => <>(where[p] # "queued"))

-----------------------------------------------------------------------------
(* Abstraction: the request queue, with the timer and the addresses that drive it, is a  *)
(* line of waiting packets *)

fateInLine ==
  [p \in Packets |-> CASE where[p] \in {"new", "loopback"} -> "open"
                      [] where[p] = "queued"             -> "waiting"
                      [] OTHER                           -> where[p]]

turnInLine ==
  [p \in Packets |->
     IF p \in Uids(queue) THEN (CHOOSE e \in queue : e.uid = p).ord ELSE 0]

Line == INSTANCE DropFrontBuffer
          WITH Capacity <- MaxQueueLen, fate <- fateInLine, turn <- turnInLine

(* Deferral implements a bounded line: DeferredRouteOutput, Enqueue with its purge and   *)
(* CheckQueue drop packets from the front of the line only, never let one overtake, and  *)
(* give a packet that is parked twice one place; no dropped packet is routed again.      *)
LineSpec == Line!Spec

-----------------------------------------------------------------------------
(* Statements of the repository's comments that the code does not keep *)

(* MaxQueueTime, "the maximum period of time that a routing protocol is allowed to       *)
(* buffer a packet for": a parked packet leaves the queue sooner or later.               *)
BufferedForLimitedTime ==
  \A p \in Packets : where[p] = "queued" ~> where[p] # "queued"

(* BestNeighbor, "position the position of the destination node": a forwarded packet goes *)
(* where the known position of its destination says.                                     *)
ForwardedTowardsDestination ==
  [][\A p \in Packets :
       SentNow(p) /\ ~LeavesQueue(p) /\ ~AuthRoute(p) /\ nodesPosition[Dst[p]] # Invalid
         => hop'[p] = NextHopOut(Purge(neighbors), p)]_vars
=============================================================================
