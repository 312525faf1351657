--------------------------------- MODULE Tdma ---------------------------------
(***************************************************************************)
(* One TDMA network: the TdmaController that gives the channel to its MACs *)
(* slot after slot, the TdmaCentralMac of each device with its             *)
(* TdmaMacQueue, and the SimpleWirelessChannel between them.               *)
(*                                                                         *)
(* Everything happens in simulator events.  An event is a record with the  *)
(* time left before it runs; Tick lets time pass while no event is due,    *)
(* and events due at the same instant run in any order.                    *)
(***************************************************************************)
EXTENDS Integers, FiniteSets

CONSTANTS
  Macs,            \* the TdmaCentralMac objects of the network
  TotalSlots,      \* m_totalSlotsAllowed
  Owner,           \* m_slotPtrs, the MAC of each slot
  SlotTime, GaurdTime, InterFrameTime,     \* m_slotTime, m_gaurdTime, m_tdmaInterFrameTime
  StartDelay,      \* NanoSeconds (10) of Start
  MicroSecond,     \* units of time in a microsecond
  Packets,
  Device,          \* the MAC whose device each packet is given to
  TxTime,          \* CalculateTxTime of each packet
  MaxPacketNumber, MaxDelay,               \* m_maxSize, m_maxDelay of the queues
  MaxPropagation   \* longest propagationTime of a packet of each MAC

ASSUME FrameAssumption ==
  /\ TotalSlots \in Nat \ {0} /\ Owner \in [0..(TotalSlots - 1) -> Macs]
  /\ SlotTime \in Nat \ {0} /\ GaurdTime \in Nat /\ InterFrameTime \in Nat
  /\ StartDelay \in Nat /\ MicroSecond \in Nat \ {0}
ASSUME PacketAssumption ==
  /\ IsFiniteSet(Packets)
  /\ Device \in [Packets -> Macs] /\ TxTime \in [Packets -> Nat]
  /\ MaxPacketNumber \in Nat /\ MaxDelay \in Nat
  /\ MaxPropagation \in [Macs -> Nat]

VARIABLES
  running,         \* MACs whose DoStart has run: m_isTdmaRunning
  activeEpoch,     \* m_activeEpoch
  sessions,        \* scheduled ScheduleTdmaSession: {[by, slot, left]}, by the MAC that began it
  downs,           \* scheduled SendPacketDown: {[mac, left, rest]}
  queue,           \* m_queue of each MAC: {[pkt, age, ord]}, ord the order of insertion
  fate,            \* what became of each packet
  air,             \* scheduled TdmaMacLow::Receive: {[from, to, pkt, left]}
  halted           \* a null packet was sent down: the program has ended

vars == <<running, activeEpoch, sessions, downs, queue, fate, air, halted>>

-----------------------------------------------------------------------------
(* TdmaMacQueue *)

(* Cleanup keeps the items with tstamp + m_maxDelay > now. *)
Live(q) == {i \in q : i.age < MaxDelay}

Front(q) == {i \in q : \A j \in q : i.ord <= j.ord}

IsFull_OffByOne(q) == Cardinality(q) > MaxPacketNumber
IsFull(q) == Cardinality(q) = MaxPacketNumber

(* ord counts the packets that came before p. *)
PushBack(q, p) ==
  q \cup {[pkt |-> p, age |-> 0, ord |-> Cardinality({x \in Packets : fate[x] # "new"})]}

(* fate once Cleanup has dropped what expired in q and p has met end *)
Dropped(q) == {i.pkt : i \in q \ Live(q)}
Fate(q, ps, end) ==
  [p \in Packets |-> IF p \in Dropped(q) THEN "dropped" ELSE IF p \in ps THEN end ELSE fate[p]]

-----------------------------------------------------------------------------
(* TdmaCentralMac *)

Init ==
  /\ running = {} /\ activeEpoch = FALSE /\ sessions = {} /\ downs = {}
  /\ queue = [m \in Macs |-> {}] /\ fate = [p \in Packets |-> "new"]
  /\ air = {} /\ halted = FALSE

Session(m, slotNum, delay) == [by |-> m, slot |-> slotNum, left |-> delay]

(* DoStart, and the Start of the controller it calls *)
DoStart_EveryMac(m) ==
  /\ m \notin running /\ ~halted
  /\ running' = running \cup {m}
  /\ activeEpoch' = TRUE
  /\ sessions' = sessions \cup {Session(m, 0, StartDelay)}
  /\ UNCHANGED <<downs, queue, fate, air, halted>>

DoStart(m) ==
  /\ m \notin running /\ ~halted
  /\ running' = running \cup {m}
  /\ activeEpoch' = TRUE
  /\ sessions' = IF activeEpoch THEN sessions
                 ELSE sessions \cup {Session(m, 0, StartDelay)}
  /\ UNCHANGED <<downs, queue, fate, air, halted>>

(* Send of the device, Enqueue and Queue of its MAC *)
Enqueue(p) ==
  LET m == Device[p]  live == Live(queue[m])
  IN  /\ fate[p] = "new" /\ ~halted
      /\ queue' = [queue EXCEPT ![m] = IF IsFull(live) THEN live ELSE PushBack(live, p)]
      /\ fate' = Fate(queue[m], {p}, IF IsFull(live) THEN "dropped" ELSE "queued")
      /\ UNCHANGED <<running, activeEpoch, sessions, downs, air, halted>>

(* The SendPacketDown that StartTransmission schedules for a queue q, if its first packet *)
(* takes less than what remains of the slot                                               *)
StartTransmission_AnyLength(m, q, slot) ==
  {[mac |-> m, left |-> TxTime[i.pkt], rest |-> slot - TxTime[i.pkt]] : i \in Front(Live(q))}

StartTransmission(m, q, slot) ==
  {[mac |-> m, left |-> TxTime[i.pkt], rest |-> slot - TxTime[i.pkt]] :
     i \in {j \in Front(Live(q)) : TxTime[j.pkt] < slot}}

(* Time (...).GetMicroSeconds () *)
GetMicroSeconds(t) == t - (t % MicroSecond)

(* Send of the channel: every other MAC hears the packet, after a delay that depends on   *)
(* its distance, or is out of range.                                                      *)
OutOfRange == -1
Propagation(m) == [Macs \ {m} -> {OutOfRange} \cup 0..MaxPropagation[m]]
Sent(m, p, delay) ==
  {[from |-> m, to |-> r, pkt |-> p, left |-> delay[r]] :
     r \in {x \in Macs \ {m} : delay[x] # OutOfRange}}

SendPacketDown(d) ==
  LET m == d.mac
  IN  /\ d.left = 0 /\ ~halted
      /\ \E i \in Front(Live(queue[m])), delay \in Propagation(m) :
           /\ queue' = [queue EXCEPT ![m] = Live(@) \ {i}]
           /\ fate'  = Fate(queue[m], {i.pkt}, "sent")
           /\ air'   = air \cup Sent(m, i.pkt, delay)
           /\ downs' = (downs \ {d}) \cup
                       StartTransmission(m, Live(queue[m]) \ {i}, GetMicroSeconds(d.rest))
      /\ UNCHANGED <<running, activeEpoch, sessions, halted>>

(* The packets of the queue expired since StartTransmission looked at it: Dequeue returns *)
(* a null packet, which TdmaMacLow::StartTransmission dereferences.                       *)
SendPacketDownNull(d) ==
  /\ d.left = 0 /\ ~halted
  /\ Live(queue[d.mac]) = {}
  /\ queue' = [queue EXCEPT ![d.mac] = {}]
  /\ fate'  = Fate(queue[d.mac], {}, "sent")
  /\ halted' = TRUE
  /\ downs' = downs \ {d}
  /\ UNCHANGED <<running, activeEpoch, sessions, air>>

(* TdmaMacLow::Receive, Receive of the MAC and ForwardUp of the device, which hand the    *)
(* packet to the layers above                                                             *)
Receive(a) ==
  /\ a.left = 0 /\ ~halted
  /\ air' = air \ {a}
  /\ UNCHANGED <<running, activeEpoch, sessions, downs, queue, fate, halted>>

-----------------------------------------------------------------------------
(* TdmaController *)

(* numOfSlotsAllotted is n for the session that begins in slotNum *)
Allotted(slotNum, n) ==
  /\ slotNum + n <= TotalSlots
  /\ \A k \in slotNum..(slotNum + n - 1) : Owner[k] = Owner[slotNum]
  /\ slotNum + n < TotalSlots => Owner[slotNum + n] # Owner[slotNum]

(* The session scheduled after one of n slots *)
NextSession_NoRestart(s, n) ==
  IF s.slot + n = TotalSlots THEN {}
  ELSE {Session(s.by, s.slot + n, GaurdTime + SlotTime * n)}

NextSession_NoGuard(s, n) ==
  {IF s.slot + n = TotalSlots
   THEN Session(s.by, 0, SlotTime * n + InterFrameTime)
   ELSE Session(s.by, s.slot + n, SlotTime * n)}

NextSession_OneSlotOn(s, n) ==
  {IF s.slot + 1 = TotalSlots
   THEN Session(s.by, 0, GaurdTime + SlotTime * n + InterFrameTime)
   ELSE Session(s.by, s.slot + 1, GaurdTime + SlotTime * n)}

NextSession(s, n) ==
  {IF s.slot + n = TotalSlots
   THEN Session(s.by, 0, GaurdTime + SlotTime * n + InterFrameTime)
   ELSE Session(s.by, s.slot + n, GaurdTime + SlotTime * n)}

ScheduleTdmaSession(s) ==
  LET m == Owner[s.slot]
  IN  /\ s.left = 0 /\ ~halted
      /\ \E n \in 1..TotalSlots :
           /\ Allotted(s.slot, n)
           /\ downs' = downs \cup StartTransmission(m, queue[m], SlotTime * n)
           /\ sessions' = (sessions \ {s}) \cup NextSession(s, n)
      /\ queue' = [queue EXCEPT ![m] = Live(@)]
      /\ fate' = Fate(queue[m], {}, "sent")
      /\ UNCHANGED <<running, activeEpoch, air, halted>>

-----------------------------------------------------------------------------
(* The simulator.  The devices of all nodes are started at time zero. *)

Later(E) == {[e EXCEPT !.left = @ - 1] : e \in E}

Tick ==
  /\ ~halted /\ running = Macs
  /\ \A e \in sessions \cup downs \cup air : e.left > 0
  /\ sessions' = Later(sessions) /\ downs' = Later(downs) /\ air' = Later(air)
  /\ queue' = [m \in Macs |-> {[i EXCEPT !.age = IF @ < MaxDelay THEN @ + 1 ELSE @] : i \in queue[m]}]
  /\ UNCHANGED <<running, activeEpoch, fate, halted>>

Ended == halted /\ UNCHANGED vars

Sessions  == \E s \in sessions : ScheduleTdmaSession(s)
Downs     == \E d \in downs : SendPacketDown(d)
NullDowns == \E d \in downs : SendPacketDownNull(d)
Receives  == \E a \in air : Receive(a)

Next ==
  \/ \E m \in Macs : DoStart(m)
  \/ \E p \in Packets : Enqueue(p)
  \/ Sessions \/ Downs \/ NullDowns \/ Receives \/ Tick \/ Ended

Spec == Init /\ [][Next]_vars

(* Simulator::Run runs every event that is scheduled and lets time pass between them. *)
Fairness ==
  /\ \A m \in Macs : WF_vars(DoStart(m))
  /\ WF_vars(Sessions) /\ WF_vars(Downs \/ NullDowns) /\ WF_vars(Receives) /\ WF_vars(Tick)

FairSpec == Spec /\ Fairness

-----------------------------------------------------------------------------
(* Properties *)

TypeOK ==
  /\ running \subseteq Macs /\ activeEpoch \in BOOLEAN /\ halted \in BOOLEAN
  /\ sessions \subseteq [by : Macs, slot : 0..(TotalSlots - 1), left : Nat]
  /\ downs \subseteq [mac : Macs, left : Nat, rest : Nat]
  /\ \A m \in Macs : queue[m] \subseteq [pkt : Packets, age : 0..MaxDelay, ord : Nat]
  /\ DOMAIN queue = Macs
  /\ fate \in [Packets -> {"new", "queued", "sent", "dropped"}]
  /\ air \subseteq [from : Macs, to : Macs, pkt : Packets, left : Nat]

(* The MAC that owns the slot before the next session: the one whose turn it is *)
PreviousSlot(n) == IF n = 0 THEN TotalSlots - 1 ELSE n - 1
HasTurn(m) == \E s \in sessions : Owner[PreviousSlot(s.slot)] = m

(* At most one MAC is transmitting, and it owns the slot: however many devices start the  *)
(* controller, ScheduleTdmaSession keeps one chain of sessions, and the SendPacketDown    *)
(* events a MAC chains within its slot have all run when the next slot begins.            *)
OneTransmitter ==
  /\ \A d \in downs : HasTurn(d.mac)
  /\ \A d, e \in downs : d = e
  /\ \A s, t \in sessions : s = t

(* Once started the controller never falls silent, whatever became of the packets of a    *)
(* turn: the next session is always scheduled, within the longest turn, its guard time    *)
(* and the time between two frames.                                                       *)
LongestTurn == GaurdTime + SlotTime * TotalSlots + InterFrameTime

SessionPending ==
  activeEpoch => \E s \in sessions : s.left <= StartDelay \/ s.left <= LongestTurn

(* Consecutive slots of one MAC are one turn, which only the end of the frame divides: no *)
(* session begins in the middle of them.                                                  *)
TurnsWhole == \A s \in sessions : s.slot = 0 \/ Owner[s.slot - 1] # Owner[s.slot]

nextTurn == IF sessions = {} THEN -1 ELSE (CHOOSE s \in sessions : TRUE).slot

Channel == INSTANCE SlottedChannel WITH next <- nextTurn, sending <- {d.mac : d \in downs}

(* Controller, MACs and queues together implement a channel that goes round the frame:   *)
(* ScheduleTdmaSession counts consecutive slots of one MAC as one turn and goes on after *)
(* them, and the channel is never passed on while the events SendPacketDown chains still *)
(* transmit.                                                                             *)
ChannelSpec == Channel!Spec

(* GaurdTime does its work: when a MAC transmits, no packet of another MAC is still on    *)
(* its way to a receiver.                                                                 *)
ChannelClear ==
  \A d \in downs, a \in air : a.left > 0 => a.from = d.mac

(* Every packet is in its MAC's queue exactly while it is waiting; the queue never holds  *)
(* more than MaxPacketNumber.                                                             *)
QueuedOnce ==
  \A m \in Macs :
    /\ Cardinality(queue[m]) <= MaxPacketNumber
    /\ \A i, j \in queue[m] : i.pkt = j.pkt => i = j
    /\ {i.pkt : i \in queue[m]} = {p \in Packets : Device[p] = m /\ fate[p] = "queued"}

(* A packet that TdmaCentralMac::Queue accepted is sent in a slot of its MAC or dropped   *)
(* at MaxDelay, also when its transmission does not fit the slot; it never waits for      *)
(* ever, because the frame starts over.                                                   *)
EveryPacketLeaves ==
  \A p \in Packets : fate[p] = "queued" ~> (fate[p] \in {"sent", "dropped"} \/ halted)

=============================================================================
