# A verification project for SAeroRP

SAeroRP is an ns-3 module: a geographic routing protocol for aircraft (AeroRP), a
certificate-based extension of it (the "S"), and the TDMA medium access it runs over. This
directory holds TLA+ modules of the parts that keep state, TLC runs on small instances of
them, and theorems about them that TLAPS checks. `PROJECT.json` maps every definition to the
lines it stands for and lists runs, mutants, hazards and theorems.

## 1. Inventory

A node is a chain of objects in one discrete-event simulator: application -> UDP/IP ->
`AeroRoutingProtocol` -> `TdmaNetDevice` -> `TdmaCentralMac` (with a `TdmaMacQueue`) ->
`TdmaMacLow` -> `SimpleWirelessChannel` -> the other nodes. Nothing runs in parallel; what
is concurrent is the order of events: timers, packets, control packets and slots of all nodes.

| Component | State | Operations | Correct when |
|---|---|---|---|
| `AeroRoutingProtocol`, data plane | `m_neighbors`, `m_nodesPosition`, `m_queue`, `m_queuedAddresses`, `CheckQueueTimer`, `m_socketAddresses` | `RouteOutput`, `RouteInput`, `Forwarding`, `DeferredRouteOutput`, `CheckQueue`, `SendPacketFromQueue`, `NotifyInterfaceUp/Down`, `NotifyAdd/RemoveAddress` | a parked packet is visited until it is sent or dropped, has one outcome, goes to live neighbours |
| `NeighborTable` | address -> position, velocity, time | `AddEntry`, `Purge`, `isNeighbour`, `BestNeighbor` | one entry per address; the least time to intercept (TTI) wins |
| `PositionTable` | address -> position | `AddEntry`, `GetPosition`, `Clear` | the last broadcast position of each node |
| `RequestQueue` | parked packets with expiry | `Enqueue`, `Dequeue`, `Purge`, `Drop` | bounded, no duplicates, drops the most aged |
| Secure control plane | status, keys, random number, timers | `SendAuthenticationRequestPacket`, `...ReplyPacket`, `RecvAERORP`, `HelloTimerExpire`, `SendGroundStationPackets` | only authenticated nodes are heard; whoever is authenticated has the shared key |
| HELLO contents | header fields | `SendHello`, `RecvAERORP` | the receiver learns the sender's motion |
| Packet headers (`aerorp-packet`) | bytes of a packet, its size | `Serialize`, `Deserialize`, `GetSerializedSize` of seven headers, `AddHeader`, `RemoveHeader` | a header is read as it was written and is as long as it claims |
| Packet encryption (`GCMConverter`, `RouteOutput`, `RouteInput`, `RecvAERORP`) | shared key, `GCMAADTOBECHECKED`, the packet's uid | `Encryption`, `Dencryption` and the exchange of headers around them | what left encrypted opens at every node with the key; what does not open leaves no trace |
| `AeroRPHelper`, slot file parser, scenario | none at run time | object creation, text parsing | not modelled, see section 5 |
| `TdmaHelper` | table of slots | constructor, `SetSlots`, `Install` | every slot has exactly one MAC |
| `TdmaController` | `m_slotPtrs`, `m_activeEpoch` | `Start`, `ScheduleTdmaSession` | one MAC has the channel at a time |
| `TdmaCentralMac`, `TdmaMacLow`, `TdmaMacQueue` | queue, chained `SendPacketDown` events | `Enqueue`, `StartTransmission`, `SendPacketDown`, `Receive` | transmissions end within the slot; queues are intact and get emptied |
| `SimpleWirelessChannel` | packets under way | `Send` | every device in range gets a copy |

How they interact: `RouteOutput` returns a route, or sends the tagged packet through the
loopback device, whence it comes back to `RouteInput` and is parked with its callbacks;
control packets change the tables the decisions are made from; `CheckQueueTimer` calls the
parked callbacks. Every packet that leaves goes to a device's MAC and waits for a slot that
the controller, which all devices of a network share, gives to that MAC.

What is hard here: the timer that is started under one condition and restarted under another,
while two collections (the queue and the addresses in it) change along different paths;
tables that are purged by some readers and not by others; a handshake whose request is sent
once over a network that delays and loses; events of a slot that must all be over when the
next session begins; a queue that is looked at when a transmission starts and emptied when it
ends; numbers that change representation (signs, fractions, infinities, zero as "never"); packets
that are told apart by their size; a member that one entry point sets and another, later, reads.
`PROJECT.json` lists these as `hazards`, each at its line.

## 2. Modules

| Module | Models | Run through |
|---|---|---|
| `AeroRouting` | the data plane of one node, with its tables and queue | `MCAeroRouting` |
| `DropFrontBuffer` | abstract: a bounded line that drops from its front | `LineSpec` of `AeroRouting` |
| `NextHop` | the search loop of `BestNeighbor` and `CalculateTimeToIntercept` | `MCNextHop` |
| `Authentication` | handshake and encrypted control packets of all nodes | `MCAuthentication` |
| `Membership` | abstract: a group that nodes apply to | `GroupSpec` of `Authentication` |
| `PacketHeaders` | layouts, sizes and types of the headers; packets as sequences of fields | `ControlPackets` |
| `ControlPackets` | one packet's way: header, encryption, `RouteInput`, socket, tables | `MCControlPackets` |
| `HelloCodec` | encoding and the two decoders of HELLOs | `MCHelloCodec`, and `CodecSpec` of `ControlPackets` |
| `Tdma` | controller, MACs, queues and channel of one network | `MCTdma` |
| `SlottedChannel` | abstract: turns that follow the frame | `ChannelSpec` of `Tdma` |
| `SlotAssignment` | how `TdmaHelper` fills the controller's table | itself |
| `AeroRoutingProofs`, `NextHopProofs`, `AuthenticationProofs`, `ControlPacketsProofs`, `HelloCodecProofs`, `TdmaProofs`, `SlotAssignmentProofs` | theorems about the module they are named after | TLAPS |
| `AeroRoutingRefinement` | `AeroRouting` implements `DropFrontBuffer` | TLAPS |

The modules rest on each other by what each shows: the choice that `AeroRouting` makes in one
step (`BestNeighbor`) is proved to be the one the loop of `NextHop` computes
(`LoopFindsBestNeighbor`, with `NextHop` instantiated for the table); that every slot
of `Tdma` has an owner is what `SlotAssignment` proves of the default table; that a control
packet reaches the tables of `AeroRouting` only from authenticated nodes is what
`Authentication` shows, with headers and ciphertexts as values; that these survive layouts, sizes
and the exchange of headers, `ControlPackets`, which instantiates `HelloCodec` for the
motion in a HELLO and implements its specification.

### AeroRouting
One node; the others appear as the HELLOs, positions and packets that arrive. One action per
entry point: `RouteOutput`, `RouteInputLoopback` and `RouteInputRemote` (the two ways into
`RouteInput`), `CheckQueue` (with `SendPacketFromQueue` for every address),
`UpdateRouteToNeighbor`, `UpdateRouteToNodes`, the four callbacks of the IP layer; `Tick` lets a unit
of time pass when no event is due and no packet is in the loopback device. Faithful details
that matter:

* `DeferredRouteOutput` starts the timer only for a queue it finds empty, puts the address at
  the front of the list in any case, and `Enqueue` purges, refuses duplicates and drops the
  most aged entry of a full queue, in that order. The bound is tested with `==`, as in the code.
* `CheckQueue` visits addresses from the latest on and purges the neighbour table at the first
  address that is no neighbour (`Early`); the queue is purged only if an address has a next
  hop, because only `Dequeue` does it. The timer is set again exactly if an address remains.
* `NotifyRemoveAddress` clears the neighbour table and keeps the positions, `NotifyInterfaceDown`
  clears both; `NotifyAddAddress` may run at any time without a socket, like `NotifyInterfaceUp`.
* `Forwarding` gives `BestNeighbor` the default vector, not the position it looked up.

Abstractions: `m_queuedAddresses` is the set of its addresses with the stamp of their latest
insertion, since an older duplicate of an address has no effect; ages and remaining times
saturate where the code cannot tell values apart; positions and motions are model values ranked
by the constant `TTI` (0 is the code's "never"). Left out: the branch of `Forwarding` and
`RouteOutput` in which `BestNeighbor` returns the node itself (it never does: a node is not in
its own table); a socket bound to another device without a next hop, which stops the program
at an assertion of `LoopbackRoute`; `NotifyInterfaceDown` and `NotifyRemoveAddress` on a node that is no ground station,
which dereference the null `m_godGroundStation`. `isNeighbour`, `AddEntry` and `GetPosition`
compare with `end()->first`, which is undefined; in the library the program is built with this
never equals an address of a node, and the models take that outcome.

`DropFrontBuffer` says what deferral promises whoever chooses the routes: what waits leaves in
any order by being sent, but is dropped only from the front; what is parked again keeps its place;
what was dropped never returns. The mapping (`Line` in `AeroRouting`) takes the packets'
places for fates, with packets in the loopback device still open, and the order numbers of the
queue's entries for turns.

### NextHop
One state per iteration, for every table of up to `MaxNeighbors` TTIs. TTIs are doubles,
modelled as scaled integers with infinities and NaN; the sign of a zero speed is unknown, so
both infinities are possible. A node at a distance of exactly `MaxRange` that does not move
relative to the destination has the TTI 0/0. No comparison holds for NaN: as the node's own TTI
it hides every better neighbour. `LowestTTI` is checked on distances other than `MaxRange` and
proved for all TTIs but NaN; with `MaxRange` among the `Distances` of the run TLC shows the zero
address returned while a better neighbour is in the table.

### Authentication
All nodes, the two interfaces, and the clock that `VerifyTimeStamp` looks at. Requests and
replies carry the fields the validity checks read, signed and encrypted symbolically: a
signature verifies against what it was made of, a ciphertext opens with its key (the IV is the
packet's uid and the additional data its addresses, the same at both ends). The time a handler
validates is always zero, as in the code (`SenderTimeStamp`). Nodes follow the protocol; what a
network may do is delay, reorder and, where `Lossy`, lose. The periods of HELLO and GSGEO
timers are abstracted to "scheduled". HELLO (not SECURE_HELLO) packets are never sent in this
mode, so their branch is left to `ControlPackets`. `network` is chosen once from `Networks`,
one that loses and delays and one that does neither; `Timely` is the latter with enough of the
window left for both messages, and `NoneLeftBehind`, `EveryoneHeard` and the failures of
`Membership` speak of it. The identity of a node travels as its number in one direction and as its
address in the other (`AuthAddress`, `IdentificationOf`); `NodesAssumption` keeps node numbers
within the last byte of an address, as the scenario's networks do.

`Membership` says what is seen of the handshake from outside: every node is outside, has applied,
has been answered, is a member, or has failed for good, and members meet members. The mapping
(`stageOf`) reads the stage off the status, the timer and the one message about the node that is under
way; the neighbour tables (`heard`) are who knows whom.

### PacketHeaders and ControlPackets
`PacketHeaders` has, for every header a node sends, the pairs of field and width that
`Serialize` writes, those that `Deserialize` reads, and the size that `GetSerializedSize`
claims, each from its own lines of `aerorp-packet.cc`. A packet has the size that it claims and,
apart from it, the fields that were written, so that a disagreement of the three shows.
The bytes within a field are abstract. The certificate is taken to be 727 bytes, which is
what makes the claimed sizes of the handshake's headers true. `GSTopologyHeader` is never sent; it
claims 16 bytes and writes 28.

`ControlPackets` follows packets from their sender to the tables of one receiver, `Me`, with the security
state on or off: HELLOs of an airborne node, rounds of positions from the ground station,
the request and the reply of `Me`'s handshake, data. Faithful details that matter:

* `RouteOutput` tells packets apart by their sizes, one test after the other, each on what the one
  before made of the packet. A HELLO and a position get other headers in the same packet and
  keep its uid, which is half of the IV; data of 1000 bytes goes into a new packet.
* `RouteInput` sets `aad` (`GCMAADTOBECHECKED`) for every packet of the node, the socket callback
  decrypts with what it finds there. Between the two other packets may come in.
* A packet that does not open changes nothing; a valid reply sets status and key, an invalid
  one takes the status away.
* Casts of negative components to `uint32_t` in `SendGroundStationPackets` are undefined and yield
  any value of `Undefined`.

Abstractions: keys and certificates of the handshake are symbolic and its times are left to
`Authentication`; `An` and the ground station have the key from the start; the branch that falsifies
positions (attack mode) is off. Payloads are encrypted, but never decrypted: the size
that `RouteInput` asks for is not the one the packet has there. Application data of 26 or 45 bytes
would be taken for a control packet; `DataAssumption` excludes it, as the scenario sends 1000.
`said`, `heard` and the `about` of an entry are there for the properties.

### Tdma
An event is a record with the time left before it runs; events due at the same instant run in
any order. `ScheduleTdmaSession` gives `numOfSlotsAllotted` slots to the MAC at the current
slot and schedules the next session; `StartTransmission` schedules a `SendPacketDown` if the
first packet of the queue takes less than what remains, and `SendPacketDown` chains the next
one with what is left of the slot, cut to whole microseconds. A propagation delay is any
value up to the sender's longest, or the receiver is out of range. Devices are started at time
zero, as the simulator's node initialisation does, in any order. If all packets
expire between `StartTransmission` and `SendPacketDown` a null packet is sent down and the
program ends (`SendPacketDownNull`, `halted`). Each packet is enqueued once; what `Receive`
hands up is the layer above. The scenario's two networks have a controller each and are two
instances.

`SlottedChannel` keeps of all this the order of turns: each MAC has the channel for its whole
run of consecutive slots and no more, and it is passed on in silence (`TurnsWhole` is one of its
promises). Its `next` is where the pending
session starts, its `sending` the MACs with a `SendPacketDown` scheduled.

### SlotAssignment
The debug build, with assertions on. Entries of the table are 0 or 1 (the parser and the
setters give nothing else a meaning), each node is installed once, and the numbers of nodes and
slots are positive.

### HelloCodec
One sender, one receiver, one HELLO under way while the sender keeps moving. Doubles are integers
in units of `1/Scale`. Positions are not negative and whole parts fit 32 bits: the scenario's boxes
are 0..150000 m and 0..1000 m. `heard` is what the receiver keeps; a HELLO may be lost (`Lose`), or
ignored by a receiver that is not authenticated.

## 3. Runs

| Run | Properties | What it shows |
|---|---|---|
| `deferral` | `TypeOK` `NoStrandedPacket` `OneOutcome` `QueueWithinBound` `LeavesForCause` `FreshNextHop` `QueuedNextHop` `CheckServes` `LineSpec` | every parked packet is listed and the timer runs exactly while something is; a packet waits once, exactly while no callback was called; drops are for age or for space; immediate next hops were heard within `LifeTime`; what `CheckQueue` takes from the queue goes to its destination or to a neighbour heard within `LifeTime`, and it leaves nothing behind that has a live next hop; the whole implements `DropFrontBuffer` |
| `ground_station` | `NoStrandedPacket` `OneOutcome` `RouteMeansSent` | the same when the interface or its address goes and tables are cleared; a destination that keeps a live next hop gets what was parked for it |
| `search_loop` | `LowestTTI` | the loop finds the least TTI, lowest address first, for every table in bounds |
| `handshake` | `TypeOK` `ControlOpens` `OnlyMembersHeard` `NoneLeftBehind` `AuthenticatedForGood` `EveryoneHeard` `GroupSpec` | over networks that delay and lose, authenticated nodes have the right key, nobody else is in a neighbour table, no reply takes the authentication away; on the one that is timely no exchange breaks off and every node gets into every neighbour table; the whole implements `Membership` |
| `control_packets` | `TypeOK` `TakenForWhatItIs` `SecuredOpens` `PositionsAsTold` `CodecSpec` | packets are as long as their headers claim and RouteOutput's sizes pick the right ones; what left encrypted opens; tables hold what was sent, whatever came in between, with and without security |
| `slots` | `TypeOK` `OneTransmitter` `SessionPending` `TurnsWhole` `ChannelClear` `QueuedOnce` `EveryPacketLeaves` `ChannelSpec` | one transmitter, in its slot; a next session is always scheduled, within the longest turn, and never in the middle of one; the channel is clear between MACs; queues hold what waits; nothing waits for ever; turns follow the frame |
| `slot_table` | `TypeOK` `SlotsAsAllotted` `NoHoleByDefault` | every slot goes to the node whose row marks it; the default frame has no hole |
| `octants` | `TypeOK` `MotionAsSaid` | eight octants, fractions, a moving sender: the entry is the motion sent, cut to whole units |

Runs in which the code disagrees with what its comments say (`findings`):

| Run | Property | Counterexample |
|---|---|---|
| `buffered_for_ever` | `BufferedForLimitedTime` | a packet whose destination gets no next hop outlives `MaxQueueTime` without end: `CheckQueue` purges nothing unless it sends something |
| `forward_position` | `ForwardedTowardsDestination` | the next hop is chosen for the origin of coordinates although the destination's position is known |
| `request_window` | `FreshRequestAnswered` | a fresh request is refused because five seconds of simulation are over |
| `ground_range` | `ChannelClear` | the ground station's packets, which reach further than the range the guard time knows, meet the next MAC's transmission |

Other oddities are in the model, but have no run. `CheckQueue` asks `isNeighbour` of a table nobody
purged, so a parked packet may go to a destination that has gone (`QueuedNextHop` shows that
this is the only stale hop there is). It uses the invalid position of an unknown destination
like any other. `SendPacketDown` sends what is at the front of the queue when the time of the
packet that was there before is over: if that one has expired, the packet sent may be longer
than any turn of its MAC.

### Bounds, and why they are enough
* `deferral`: three packets and a queue of two, so a third arrival meets a full queue; two
  destinations, of which one is shared by two packets; `MaxQueueTime` of three units and
  `Recheck` of two, so entries expire between checks and at different times; `LifeTime` of one.
  `MaxStamp` bounds how many packets are deferred in a behaviour. Destination 9 is the ground
  station, which `RouteOutput` sends to without lookup in secure mode and `Forwarding` does not.
* `ground_station`: the same with `IsGroundStation`, and a packet for the node itself.
* `search_loop`: three entries suffice for a least one, a tie and one that is not better;
  distances inside the margin, between margin and range, and outside.
* `handshake`: two airborne nodes and the ground station. `MaxNow` ends the clock at five
  units, past the window of three; the timers' events go on after it. The timely network has delays
  of one and an interval of one within the window, so every request is in time.
* `control_packets`: two flights, one with a negative speed, whose components differ on all axes, so
  that exchanged fields show; `Scale` is 2 for a fraction, `MaxU32` 3. `MaxUp` of two packets at the
  socket lets another one come between a packet and its callback, `MaxMessages` of three covers a
  round of positions of two nodes (`Told`) with one other packet under way. Data sizes are one on either
  side of those that `RouteOutput` looks for (27 and 44) and the scenario's 1000.
* `slots`: two MACs, one of which owns two slots in a row (the allotment is longer than one slot
  and the frame wraps), four packets of which one is longer than any slot, queues of two,
  `MaxDelay` of eleven units, one more than a frame, the unit being half a microsecond so that the
  cut to microseconds matters. `ground_range` keeps the scenario's ratio of about five
  between the ground station's range and the one the guard time is based on.
* `slot_table`: three nodes and four slots, so they do not divide evenly; all tables of them.
* `octants`: a whole, a fractional and two negative speeds on three axes; `MaxU32` is one.

`CHECK_DEADLOCK FALSE` is set where the system stops: `NextHop` when the loop is done,
`SlotAssignment` when all nodes are installed.

### Fairness
The simulator runs every event that is scheduled and its clock moves on while events are
pending. Hence weak fairness of `Tick`, of `CheckQueue` and of packets in the loopback device in
`AeroRouting`; of `DoStart`, sessions, `SendPacketDown`, receptions and `Tick` in `Tdma`; of the
timers and of every delivery that is not lost in `Authentication`, stated for each node, pair
of nodes and kind of packet, as a scheduled event of one never waits for those of another. None is
assumed for applications, movement, HELLOs of other nodes, or interfaces.

## 4. Proofs

Everything below is for every value of the constants that meets the named assumptions of the
module; the invariants are inductive and were checked with TLC before. Every safety invariant and action property
of the passing runs is stated by a theorem.

* `AeroRoutingProofs`: `TypeCorrect`, `NeverStranded`, `ExactlyOneOutcome`, `Bounded`,
  `DroppedForCause`, `NextHopFresh`, `QueuedToHeard`, `NoneSkipped`, `LoopFindsBestNeighbor`. The invariant adds two facts to the properties themselves.
  `AgeOrder`: the order numbers of the entries are pairwise different, at most `stamp`, and in
  the order of expiry; so a full queue has a single most aged entry, dropping it makes room for
  one, and the bound, tested with `==`, is never stepped over. `NotForSelf`: no packet for the
  node itself is parked, so what `CheckQueue` forwards and what is delivered are apart.
  `QueuedToHeard` turns on the order of the visits: the table is purged at the first address that
  is no neighbour (`Early`), before any relay is chosen, and only the destinations visited before it can be
  stale, each being its own next hop. `NoneSkipped` is its counterpart: an address that stays
  has no next hop in the purged table. `LoopFindsBestNeighbor` instantiates `NextHop` with the
  entries in the order of their addresses and shows that `LowestTTI`, proved of the loop,
  determines the operator that `AeroRouting` uses.
* `AeroRoutingRefinement`: `ImplementsLine`. `AgeOrder` is what makes the entries that `Purge` and
  `Drop` remove a front of the line, and `OneOutcome` what makes the turn of a packet well defined.
* `NextHopProofs`: `BestNeighborCorrect`, for tables of any size and all TTIs but NaN. The loop
  invariant says what the best entry so far is among the entries seen.
* `AuthenticationProofs`: `TypeCorrect`, `AlwaysOpens`, `MembersOnly`, `Stable`,
  `NobodyLeftBehind`, `WindowFromTheStart`, `ImplementsGroup`. The invariant
  says that a node with status AUTH has the shared key, that a control packet under way was
  sent by an authenticated node, and that at most one request or reply is under way for a node
  (`OneExchange`), only after its timer has expired and while it is unauthenticated: that is why
  no invalid reply can ever take an authentication away. For the fate of an application `GInv`
  adds that every message is `Genuine` (signed over what it carries, addressed by the identity its
  receiver derives, no older than the network's delay) and that no timer outlasts its interval. Then the
  only test of `CheckPacketValidity` that can fail is the one of the window (`ValidInWindow`),
  which asks for the time since the start whatever the age of the message (`WindowFromTheStart`), and on a
  timely network it never fails (`NobodyLeftBehind`). `ImplementsGroup` takes each step to the
  one of `Membership` that it is: `OneExchange` makes the stage of a node well defined and changed by
  its own exchange alone (`OneMoves`), and `GInv` shows that a step to "failed" needs a
  network that is not timely.
* `ControlPacketsProofs`: `ReadAsWritten`, for every header of the protocol in front of
  any packet; `TypeCorrect`, `ToldTrue`, `AlwaysOpens`, `TakenRight`, `ImplementsCodec` and
  `NeighborAsFlown`. The invariant
  (`PacketInv`) is about packets under way: each is, byte for byte, one that a handler makes, and
  an encrypted one was sealed with its own addresses and uid; only a reply has the type of a
  reply, and its key is the shared one. An authenticated node therefore has the shared key, and
  what opens is what was sealed (`OpensToText`), whatever the additional data another packet left
  behind: the entry made from it is the position that was said. The sizes that `RouteOutput` compares decide
  which lemma a packet falls under (`HelloOut`, `PositionOut`, `HandshakeOut`), and
  `DataAssumption` keeps data out of the first two. For the refinement, `OneHello` says that
  one HELLO at most is under way, on the network or in the socket, which is the packet of
  `HelloCodec`. `MotionsAssumption` is that of `HelloCodec`, whose proofs are instantiated for
  the fields; `NodesAssumption` keeps the ground station and the receiver apart; `NeighborAsFlown` carries HelloCodec's theorem over the refinement.
  `TakenRight` needs the sum of the widths of a packet's fields, over packets of any length.
  The library's induction takes an operator as a parameter, but it can be had with a set in its
  place (`SetInduction`, from the least element of the complement, `LeastOne`): from it the sum is the
  recursion's at every length, and prepending a header adds its width.
* `TdmaProofs`: `TypeCorrect`, `SlotsRespected`, `GuardSuffices`, `QueuesIntact`, `ChainUnbroken`,
  `ImplementsChannel`, `TurnsNotCut`. The invariant
  ties every `SendPacketDown` to the one pending session: what is left until it and what it leaves of
  the slot do not exceed the time to the session less the guard time; packets in the air
  of another MAC arrive before the session. `GuardSuffices` assumes that the guard time covers the
  longest propagation of every MAC, which is what `ground_range` shows the code does not ensure.
  `ChainUnbroken` is about the one pending session of the invariant and how far away it can be.
  `TurnsNotCut` is proved of `SlottedChannel` and inherited through `ImplementsChannel`.
* `SlotAssignmentProofs`: `TypeCorrect`, `InstalledAsAllotted`, `DefaultFrameComplete`: for any
  numbers of nodes and slots the default table is a partition of the columns.
* `HelloCodecProofs`: `TypeCorrect`, `HeardAsSaid`, for any scale, positions and speeds in range.

Only model-checked: liveness (`RouteMeansSent`, `EveryoneHeard`, `EveryPacketLeaves`), which
is out of the prover's reach, and the violations, which are counterexamples. `NoneLeftBehind`,
`CheckServes` and `SessionPending` are the safety parts of these three: under them what is missing for each
is only that scheduled events run.

## 5. Not modelled

* The sockets of interface 2 in the callbacks of the IP layer: which of two sockets is closed and
  opened does not show in anything the other parts look at. `NotifyAddAddress` asks
  `GetNAddresses` about a truth value there, see the hazards.
* Key generation, X509, RSA and AES themselves; the order of bytes within a field.
* Decryption of payloads (never reached) and the falsified positions of the attack mode.
* Functions nothing calls (`DeleteEntry`, `ProcessTxError`, `DropPacketWithDst`, `Remove`, ...).
* The parser of slot files, helpers that only create objects, the scenario, scripts and traces.
  What the parser yields is one of the tables that `SlotAssignment` takes, provided its rows have one
  length, which the parser's assertion on the number of entries does not ensure.
* ARP, IP, UDP, `Timer`, `Simulator` and mobility: external, modelled from their use.

## 6. Plan

Order of the modules: first what decides the fate of a packet (`AeroRouting`, `NextHop`), then
who may influence it (`Authentication`, `ControlPackets`), then the medium (`Tdma`), then what these assume
(`SlotAssignment`, `HelloCodec`, `PacketHeaders`), with what the request queue, the medium and the
handshake promise as abstract specifications (`DropFrontBuffer`, `SlottedChannel`, `Membership`).
These exist. What is left:

1. Several `AeroRouting` nodes in one network, forwarding to each other: what a hop may do to a
   packet, and how stale tables at two nodes meet. Copies of packets and loops are the questions.
2. The sockets of both interfaces in `NotifyAddAddress` and its siblings; the rows of slot files.
3. A ground station that comes up late, and what that means for a handshake without retry.
4. A proof that the default table of `SlotAssignment`, with every slot owned, is an `Owner` that
   `Tdma` may be instantiated with; and bounds on how long a parked packet that has a next hop waits,
   as an invariant with the timer's remaining time, in place of the liveness that cannot be proved.
