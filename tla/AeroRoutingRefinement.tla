------------------------ MODULE AeroRoutingRefinement ------------------------
(***************************************************************************)
(* The deferral of packets implements the bounded line of DropFrontBuffer, *)
(* for every value of the constants.  Of the invariant proved in           *)
(* AeroRoutingProofs it needs that a packet waits exactly while it has an  *)
(* entry in the queue (OneOutcome), that the order of insertion is the     *)
(* order of expiry (AgeOrder), and the bound of the queue.                 *)
(***************************************************************************)
EXTENDS AeroRoutingProofs

(* The turn of p in a queue q, as turnInLine computes it. *)
Turn(q, p) == IF p \in Uids(q) THEN (CHOOSE e \in q : e.uid = p).ord ELSE 0

(* A packet with one entry has the turn of that entry. *)
LEMMA TurnOfEntry ==
  ASSUME NEW q, \A e, f \in q : e.uid = f.uid => e = f, NEW e \in q
  PROVE  e.uid \in Uids(q) /\ Turn(q, e.uid) = e.ord
<1>1. e.uid \in Uids(q)
  BY DEF Uids
<1>2. (CHOOSE f \in q : f.uid = e.uid) = e
  OBVIOUS
<1> QED BY <1>1, <1>2 DEF Turn

(* Two queues with the same entry for p, or with none, give it the same turn. *)
LEMMA SameTurn ==
  ASSUME NEW q, NEW r, NEW p,
         \A e, f \in q : e.uid = f.uid => e = f,
         \A e, f \in r : e.uid = f.uid => e = f,
         \A e \in q : e.uid = p => \E f \in r : f.uid = p /\ f.ord = e.ord,
         p \in Uids(r) => p \in Uids(q)
  PROVE  Turn(q, p) = Turn(r, p)
<1>1. CASE p \in Uids(q)
  <2>1. PICK e \in q : e.uid = p
    BY <1>1 DEF Uids
  <2>2. PICK f \in r : f.uid = p /\ f.ord = e.ord
    BY <2>1
  <2> QED BY <2>1, <2>2, TurnOfEntry
<1>2. CASE p \notin Uids(q)
  BY <1>2 DEF Turn
<1> QED BY <1>1, <1>2

(* The mapping, spelled out for one packet. *)
FateOf(w) == CASE w \in {"new", "loopback"} -> "open" [] w = "queued" -> "waiting" [] OTHER -> w

LEMMA Mapping ==
  /\ fateInLine = [p \in Packets |-> FateOf(where[p])]
  /\ turnInLine = [p \in Packets |-> Turn(queue, p)]
  /\ fateInLine' = [p \in Packets |-> FateOf(where'[p])]
  /\ turnInLine' = [p \in Packets |-> Turn(queue', p)]
  BY DEF fateInLine, turnInLine, FateOf, Turn

(* What the mapping makes of the places a packet can be in. *)
LEMMA Fates ==
  /\ FateOf("new") = "open" /\ FateOf("loopback") = "open" /\ FateOf("queued") = "waiting"
  /\ \A w \in Line!Outcomes : FateOf(w) = w /\ w # "waiting" /\ w # "open"
  /\ \A w \in Where : FateOf(w) = "waiting" <=> w = "queued"
  BY DEF FateOf, Line!Outcomes, Where

(* Who waits in the line waits in the queue, before and after a step. *)
LEMMA WaitingInQueue ==
  ASSUME DeferralInv
  PROVE  Line!Waiting = Uids(queue)
<1>1. \A p \in Packets : fateInLine[p] = "waiting" <=> p \in Uids(queue)
  BY Mapping, Fates DEF DeferralInv, DeferralOK, OneOutcome
<1>2. Uids(queue) \subseteq Packets
  BY DEF Uids, DeferralInv, DeferralOK
<1> QED BY <1>1, <1>2 DEF Line!Waiting

(* A step that touches neither the queue nor what the mapping tells apart is a stutter. *)
LEMMA StutterInLine ==
  ASSUME UNCHANGED queue, \A p \in Packets : FateOf(where'[p]) = FateOf(where[p])
  PROVE  UNCHANGED <<fateInLine, turnInLine>>
  BY Mapping

(* A packet that is not in the queue moves on: it is routed, or nothing is seen of it. *)
LEMMA MoveInLine ==
  ASSUME DeferralInv, NEW p \in Packets, UNCHANGED queue,
         where[p] \in {"new", "loopback", "forwarded"},
         NEW w \in Line!Outcomes, where' = [where EXCEPT ![p] = w]
  PROVE  Line!Route(p)
<1>1. fateInLine[p] \in {"open", "forwarded"}
  BY Mapping, Fates DEF Line!Outcomes
<1>2. fateInLine' = [fateInLine EXCEPT ![p] = w]
  BY Mapping, Fates DEF DeferralInv, DeferralOK
<1> QED BY <1>1, <1>2, Mapping DEF Line!Route

(* Sending a packet past the queue routes it; a copy that waits goes on waiting. *)
LEMMA SendInLine ==
  ASSUME DeferralInv, NEW p \in Packets, NEW h, SendVia(p, h), UNCHANGED queue,
         where[p] \in {"new", "forwarded", "queued"}
  PROVE  Line!Route(p) \/ UNCHANGED <<fateInLine, turnInLine>>
<1>1. CASE where[p] = "queued"
  BY <1>1, StutterInLine DEF SendVia, DeferralInv, DeferralOK
<1>2. CASE where[p] # "queued"
  BY <1>2, MoveInLine DEF SendVia, DeferralInv, DeferralOK, Line!Outcomes
<1> QED BY <1>1, <1>2

-----------------------------------------------------------------------------
(* Who leaves the queue is at its front: what expires, because the entries are in the    *)
(* order of expiry, and what makes room, because it is the oldest.                       *)
LEMMA ExpiredInFront ==
  ASSUME DeferralInv, NEW e \in queue \ Live(queue), NEW f \in Live(queue)
  PROVE  e.ord < f.ord
<1>1. e \in queue /\ f \in queue /\ e.left < 0 /\ f.left >= 0 /\ e # f
      /\ e.left \in Int /\ f.left \in Int /\ e.ord \in Nat /\ f.ord \in Nat
  BY DEF Live, DeferralInv, DeferralOK
<1> QED BY <1>1 DEF DeferralInv, AgeOrder

LEMMA DroppedInFront ==
  ASSUME DeferralInv, NEW p \in Packets,
         NEW e \in EnqueueDropped(p), NEW f \in queue \ EnqueueDropped(p)
  PROVE  e.ord < f.ord
<1>1. e \in queue /\ f \in Live(queue) /\ e.ord \in Nat /\ f.ord \in Nat /\ e # f
  BY DEF EnqueueDropped, Oldest, Live, DeferralInv, DeferralOK
<1>2. CASE e \notin Live(queue)
  BY <1>1, <1>2, ExpiredInFront
<1>3. CASE e \in Live(queue)
  <2>1. e \in Oldest(Live(queue))
    BY <1>3 DEF EnqueueDropped
  <2>2. e.ord <= f.ord /\ e.ord # f.ord
    BY <2>1, <1>1 DEF Oldest, DeferralInv, AgeOrder, Live
  <2> QED BY <2>2, <1>1
<1> QED BY <1>2, <1>3

(* A set of entries in front of the others is a set of packets in front of the line. *)
LEMMA FrontInLine ==
  ASSUME DeferralInv, NEW D, D \subseteq queue, \A e \in D, f \in queue \ D : e.ord < f.ord
  PROVE  Uids(D) \in SUBSET Line!Waiting /\ Line!FrontOfLine(Uids(D))
<1>1. Uids(D) \subseteq Uids(queue)
  BY DEF Uids
<1>2. ASSUME NEW x \in Uids(D), NEW y \in Uids(queue) \ Uids(D)
      PROVE  turnInLine[x] < turnInLine[y]
  <2>1. PICK e \in D : e.uid = x
    BY DEF Uids
  <2>2. PICK f \in queue : f.uid = y
    BY DEF Uids
  <2>3. f \notin D
    BY <1>2, <2>2 DEF Uids
  <2>4. Turn(queue, x) = e.ord /\ Turn(queue, y) = f.ord /\ x \in Packets /\ y \in Packets
    BY <2>1, <2>2, TurnOfEntry DEF DeferralInv, DeferralOK, OneOutcome
  <2> QED BY <2>1, <2>2, <2>3, <2>4, Mapping
<1> QED BY <1>1, <1>2, WaitingInQueue DEF Line!FrontOfLine

(* The line counts as FiniteSets does. *)
LEMMA SameCount == \A S : Line!Cardinality(S) = Cardinality(S)
  BY DEF Line!Cardinality, Cardinality

(* The line is as short as the queue. *)
LEMMA LineBound ==
  ASSUME DeferralInv'
  PROVE  Cardinality(Line!Waiting') <= MaxQueueLen
<1> DEFINE g == [e \in queue' |-> e.uid]
<1>1. Line!Waiting' = Uids(queue')
  <2>1. \A p \in Packets : fateInLine'[p] = "waiting" <=> p \in Uids(queue')
    BY Mapping, Fates DEF DeferralInv, DeferralOK, OneOutcome
  <2>2. Uids(queue') \subseteq Packets
    BY DEF Uids, DeferralInv, DeferralOK
  <2> QED BY <2>1, <2>2 DEF Line!Waiting
<1>2. Uids(queue') = {g[e] : e \in queue'}
  BY DEF Uids
<1>3. IsFiniteSet(queue') /\ Cardinality(queue') <= MaxQueueLen
  BY DEF DeferralInv, QueueWithinBound
<1> HIDE DEF g
<1>4. IsFiniteSet(Line!Waiting') /\ Cardinality(Line!Waiting') <= Cardinality(queue')
  BY <1>1, <1>2, <1>3, ImageBound
<1>5. Cardinality(Line!Waiting') \in Nat /\ Cardinality(queue') \in Nat /\ MaxQueueLen \in Nat
  BY <1>3, <1>4, FS_CardinalityType, BoundAssumption
<1> QED BY <1>3, <1>4, <1>5

(* DeferredRouteOutput parks its packet in the line. *)
LEMMA DeferredInLine ==
  ASSUME DeferralInv, DeferralInv', NEW p \in Packets, DeferredRouteOutput(p),
         where[p] \in {"new", "loopback", "forwarded", "queued"}
  PROVE  Line!Park(p)
<1> DEFINE D == EnqueueDropped(p)
           out == Uids(D)
<1>a. /\ \A e, f \in queue : e.uid = f.uid => e = f
      /\ \A e, f \in queue' : e.uid = f.uid => e = f
  BY DEF DeferralInv, OneOutcome
<1>1. /\ queue' = (queue \ D) \cup EnqueueAdded(p)
      /\ where' = [x \in Packets |-> IF x = p THEN "queued"
                                     ELSE IF x \in out THEN "dropped" ELSE where[x]]
      /\ D \subseteq queue
      /\ EnqueueEntry(p).uid = p /\ EnqueueEntry(p).ord = stamp + 1
  BY EnqueueEffect DEF DeferredRouteOutput, EnqueueDropped, EnqueueEntry, Live, Oldest
<1> HIDE DEF D
<1>2. fateInLine[p] \in {"open", "forwarded", "waiting"}
  BY Mapping, Fates DEF Line!Outcomes
<1>3. out \in SUBSET Line!Waiting /\ Line!FrontOfLine(out)
  BY <1>1, DroppedInFront, FrontInLine DEF D
<1>4. fateInLine' = [x \in Packets |-> IF x = p THEN "waiting"
                                       ELSE IF x \in out THEN "dropped" ELSE fateInLine[x]]
  BY <1>1, Mapping, Fates DEF Line!Outcomes
<1>5. \A e \in queue : e.uid \in out <=> e \in D
  BY <1>1, <1>a DEF Uids
<1>6. \A e \in queue' : \/ e \in queue /\ e \notin D
                        \/ e = EnqueueEntry(p)
  BY <1>1 DEF EnqueueAdded
<1>7. ASSUME NEW x \in Packets \ {p}
      PROVE  turnInLine'[x] = IF x \in out THEN 0 ELSE turnInLine[x]
  <2>1. CASE x \in out
    <3>1. x \notin Uids(queue')
      BY <1>1, <1>5, <1>6, <1>7, <2>1 DEF Uids
    <3> QED BY <2>1, <3>1, Mapping DEF Turn
  <2>2. CASE x \notin out
    <3>1. \A e \in queue : e.uid = x => e \in queue'
      BY <1>1, <1>5, <2>2
    <3>2. x \in Uids(queue') => x \in Uids(queue)
      BY <1>1, <1>6, <1>7 DEF Uids
    <3>3. Turn(queue, x) = Turn(queue', x)
      BY <1>a, <3>1, <3>2, SameTurn
    <3> QED BY <2>2, <3>3, Mapping
  <2> QED BY <2>1, <2>2
<1>8. ASSUME p \in Line!Waiting \ out
      PROVE  turnInLine'[p] = turnInLine[p]
  <2>1. PICK e \in queue : e.uid = p
    BY <1>8, WaitingInQueue DEF Uids
  <2>2. e \in queue'
    BY <1>1, <1>5, <1>8, <2>1
  <2>3. Turn(queue', p) = Turn(queue, p)
    BY <1>a, <2>1, <2>2, TurnOfEntry
  <2> QED BY <2>3, Mapping
<1>9. ASSUME p \notin Line!Waiting \ out, NEW x \in Packets \ {p}
      PROVE  turnInLine'[x] < turnInLine'[p]
  <2>1. ~AlreadyQueued(Live(queue), p)
    <3>1. SUFFICES ASSUME NEW e \in Live(queue), e.uid = p PROVE FALSE
      BY DEF AlreadyQueued, Uids
    <3>2. e \in queue /\ AlreadyQueued(Live(queue), p)
      BY <3>1 DEF Live, AlreadyQueued, Uids
    <3>3. e \notin D
      BY <3>2 DEF D, EnqueueDropped
    <3>4. p \in Line!Waiting
      BY <3>1, <3>2, WaitingInQueue DEF Uids
    <3> QED BY <1>5, <1>9, <3>1, <3>2, <3>3, <3>4
  <2>2. EnqueueEntry(p) \in queue'
    BY <1>1, <2>1 DEF EnqueueAdded
  <2>3. turnInLine'[p] = stamp + 1
    <3>1. Turn(queue', EnqueueEntry(p).uid) = EnqueueEntry(p).ord
      BY <1>a, <2>2, TurnOfEntry
    <3> QED BY <3>1, <1>1, Mapping
  <2>4. stamp \in Nat
    BY DEF DeferralInv, DeferralOK
  <2>5. turnInLine'[x] <= stamp /\ turnInLine'[x] \in Nat
    <3>1. CASE x \in Uids(queue')
      <4>1. PICK e \in queue' : e.uid = x
        BY <3>1 DEF Uids
      <4>2. e \in queue
        BY <4>1, <1>1, <1>6, <1>9
      <4>3. turnInLine'[x] = e.ord
        BY <1>a, <4>1, TurnOfEntry, Mapping
      <4> QED BY <4>2, <4>3 DEF DeferralInv, DeferralOK, AgeOrder
    <3>2. CASE x \notin Uids(queue')
      BY <3>2, <2>4, Mapping DEF Turn
    <3> QED BY <3>1, <3>2
  <2> QED BY <2>3, <2>4, <2>5
<1>10. Cardinality(Line!Waiting') <= MaxQueueLen
  BY LineBound
<1> QED BY <1>2, <1>3, <1>4, <1>7, <1>8, <1>9, <1>10, SameCount DEF Line!Park, Line!LeaveLine

-----------------------------------------------------------------------------
(* What CheckQueue sends leaves the line, what it drops was at the front of it. *)
LEMMA CheckQueueInLine ==
  ASSUME IInv, CheckQueue
  PROVE  Line!Release
<1> USE DEF IInv
<1> DEFINE out == Uids(CheckExpired)
           sent == Uids(CheckLeaving)
<1>a. \A e, f \in queue : e.uid = f.uid => e = f
  BY DEF DeferralInv, OneOutcome
<1>1. /\ CheckLeaving \subseteq Live(queue) /\ CheckExpired \subseteq queue \ Live(queue)
      /\ CheckExpired = {} \/ CheckExpired = queue \ Live(queue)
      /\ Live(queue) \subseteq queue
      /\ queue' = queue \ (CheckLeaving \cup CheckExpired)
      /\ where' = [p \in Packets |-> IF p \in sent THEN "forwarded"
                                     ELSE IF p \in out THEN "dropped" ELSE where[p]]
  BY CheckQueueEffect DEF CheckLeaving, CheckExpired, Live
<1>2. \A e \in CheckExpired, f \in queue \ CheckExpired : e.ord < f.ord
  BY <1>1, ExpiredInFront
<1>3. out \in SUBSET Line!Waiting /\ Line!FrontOfLine(out)
  BY <1>1, <1>2, FrontInLine
<1>4. sent \in SUBSET (Line!Waiting \ out)
  <2>1. sent \subseteq Uids(queue) /\ sent \cap out = {}
    BY <1>a, <1>1 DEF Uids
  <2> QED BY <2>1, WaitingInQueue
<1>5. fateInLine' = [p \in Packets |-> IF p \in sent THEN "forwarded"
                                      ELSE IF p \in out THEN "dropped" ELSE fateInLine[p]]
  BY <1>1, Mapping, Fates DEF Line!Outcomes
<1>6. ASSUME NEW x \in Packets
      PROVE  turnInLine'[x] = IF x \in out \cup sent THEN 0 ELSE turnInLine[x]
  <2>1. CASE x \in out \cup sent
    <3>1. x \notin Uids(queue')
      BY <1>a, <1>1, <2>1 DEF Uids
    <3> QED BY <2>1, <3>1, Mapping DEF Turn
  <2>2. CASE x \notin out \cup sent
    <3>1. \A e \in queue : e.uid = x => e \in queue'
      BY <1>1, <2>2 DEF Uids
    <3>2. x \in Uids(queue') => x \in Uids(queue)
      BY <1>1 DEF Uids
    <3>3. Turn(queue, x) = Turn(queue', x)
      BY <1>a, <1>1, <3>1, <3>2, SameTurn
    <3> QED BY <2>2, <3>3, Mapping
  <2> QED BY <2>1, <2>2
<1> QED BY <1>3, <1>4, <1>5, <1>6 DEF Line!Release, Line!LeaveLine

(* Time moves no packet: entries grow older in place. *)
LEMMA TickInLine ==
  ASSUME IInv, IInv', Tick
  PROVE  UNCHANGED <<fateInLine, turnInLine>>
<1> USE DEF IInv
<1>1. /\ UNCHANGED where
      /\ queue' = {Older(e) : e \in queue}
      /\ \A e \in queue : Older(e).uid = e.uid /\ Older(e).ord = e.ord
  BY DEF Tick, Older, DeferralInv, DeferralOK
<1>2. ASSUME NEW x \in Packets
      PROVE  Turn(queue, x) = Turn(queue', x)
  <2>1. \A e \in queue : e.uid = x => \E f \in queue' : f.uid = x /\ f.ord = e.ord
    BY <1>1
  <2>2. x \in Uids(queue') => x \in Uids(queue)
    BY <1>1 DEF Uids
  <2> QED BY <2>1, <2>2, SameTurn DEF DeferralInv, OneOutcome
<1> QED BY <1>1, <1>2, Mapping

(* RouteOutput and RouteInput: a packet is routed, parked, or nothing is seen of it. *)
LEMMA RoutingInLine ==
  ASSUME IInv, IInv', NEW p \in Packets,
         \/ \E oif \in BOOLEAN : RouteOutput(p, oif)
         \/ RouteInputLoopback(p)
         \/ RouteInputRemote(p)
  PROVE  Line!Next \/ UNCHANGED <<fateInLine, turnInLine>>
<1> USE DEF IInv
<1>1. CASE /\ UNCHANGED queue /\ where[p] \in {"new", "loopback", "forwarded"}
           /\ \E w \in Line!Outcomes : where' = [where EXCEPT ![p] = w]
  BY <1>1, MoveInLine DEF Line!Next
<1>2. CASE /\ UNCHANGED queue /\ where[p] \in {"new", "forwarded", "queued"}
           /\ \E h : SendVia(p, h)
  BY <1>2, SendInLine DEF Line!Next
<1>3. CASE UNCHANGED queue /\ UNCHANGED where
  BY <1>3, StutterInLine
<1>4. CASE UNCHANGED queue /\ where[p] = "new" /\ where' = [where EXCEPT ![p] = "loopback"]
  BY <1>4, StutterInLine, Fates DEF DeferralInv, DeferralOK
<1>5. CASE DeferredRouteOutput(p) /\ where[p] \in {"new", "loopback", "forwarded", "queued"}
  BY <1>5, DeferredInLine DEF Line!Next
<1>6. ASSUME NEW oif \in BOOLEAN, RouteOutput(p, oif)
      PROVE  Line!Next \/ UNCHANGED <<fateInLine, turnInLine>>
  BY <1>1, <1>2, <1>4, <1>6 DEF RouteOutput, deferral, Line!Outcomes
<1>7. CASE RouteInputLoopback(p)
  BY <1>1, <1>5, <1>7 DEF RouteInputLoopback, deferral, Line!Outcomes
<1>8. CASE RouteInputRemote(p)
  <2>1. Dst[p] = Self => where[p] # "queued"
    BY DEF DeferralInv, NotForSelf
  <2>2. CASE ~up
    BY <2>2, <1>1, <1>3, <1>8 DEF RouteInputRemote, deferral, Line!Outcomes
  <2>3. CASE up /\ Dst[p] = Self
    BY <2>1, <2>3, <1>1, <1>8 DEF RouteInputRemote, deferral, Line!Outcomes
  <2>4. CASE up /\ Dst[p] # Self
    BY <2>4, <1>2, <1>5, <1>8, ForwardingEffect DEF RouteInputRemote, deferral
  <2> QED BY <2>2, <2>3, <2>4
<1> QED BY <1>6, <1>7, <1>8

-----------------------------------------------------------------------------
(* At the start nobody waits. *)
LEMMA InitInLine == Init => Line!Init
  BY Mapping, Fates DEF Init, Line!Init, Turn, Uids

(* Every step of the protocol is a step of the line, or nothing is seen of it. *)
LEMMA NextInLine ==
  ASSUME IInv, IInv', [Next]_vars
  PROVE  [Line!Next]_<<fateInLine, turnInLine>>
<1>1. CASE UNCHANGED <<queue, where>>
  BY <1>1, StutterInLine
<1>2. CASE CheckQueue
  BY <1>2, CheckQueueInLine DEF Line!Next
<1>3. CASE Tick
  BY <1>3, TickInLine
<1>4. ASSUME NEW p \in Packets,
             \/ \E oif \in BOOLEAN : RouteOutput(p, oif)
             \/ RouteInputLoopback(p)
             \/ RouteInputRemote(p)
      PROVE  [Line!Next]_<<fateInLine, turnInLine>>
  BY <1>4, RoutingInLine
<1> QED BY <1>1, <1>2, <1>3, <1>4
       DEF Next, vars, deferral, UpdateRouteToNeighbor, UpdateRouteToNodes, Move,
           NotifyInterfaceUp, NotifyInterfaceDown, NotifyAddAddress, NotifyRemoveAddress

(* The deferral of packets implements the bounded line: for every number of packets,     *)
(* every queue length and all timing constants.                                          *)
THEOREM ImplementsLine == Spec => LineSpec
<1>1. IInv /\ IInv' /\ [Next]_vars => [Line!Next]_<<fateInLine, turnInLine>>
  BY NextInLine
<1> QED BY <1>1, InitInLine, Invariance, PTL DEF Spec, LineSpec, Line!Spec
=============================================================================
