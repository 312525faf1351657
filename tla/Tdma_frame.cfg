SPECIFICATION FairSpec
CONSTANTS
  gs = gs
  an = an
  p1 = p1
  p2 = p2
  p3 = p3
  p4 = p4
  Macs = {gs, an}
  Packets = {p1, p2, p3, p4}
  TotalSlots = 3
  Owner <- TwoSlotsThenOne
  SlotTime = 2
  GaurdTime = 2
  InterFrameTime = 0
  StartDelay = 1
  MicroSecond = 2
  Device <- MCDevice
  TxTime <- MCTxTime
  MaxPacketNumber = 2
  MaxDelay = 11
  MaxPropagation <- EqualRange
INVARIANTS TypeOK OneTransmitter SessionPending TurnsWhole ChannelClear QueuedOnce
PROPERTIES EveryPacketLeaves ChannelSpec
