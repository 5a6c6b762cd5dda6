CONSTANTS
  p1 = p1  p2 = p2
  w1 = w1  w2 = w2  w3 = w3
  r1 = r1
  Proc = {p1, p2}
  Worker = {w1, w2}
  ProcOf <- MCProcOfPair
  Room = {r1}
  MaxId = 2
  RoomOf <- MCRoomOf
  Garbage = {2}
  MaxDeliveries = 2
  StreamMaxLen = 1
  MaxFaults = 1
  HeldMayGoStale = TRUE
SPECIFICATION FairSpec
INVARIANTS TypeOK NoSilentLoss DeliveryBound OnlyPoisonIsBuried
PROPERTIES ImplementsAtLeastOnce EveryEnvelopeSettles
CHECK_DEADLOCK FALSE
