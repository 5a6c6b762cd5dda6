CONSTANTS
  p1 = p1  p2 = p2
  w1 = w1  w2 = w2  w3 = w3
  r1 = r1
  Proc = {p1}
  Worker = {w1, w2, w3}
  ProcOf <- MCProcOfPool
  Room = {r1}
  MaxId = 2
  RoomOf <- MCRoomOf
  Garbage = {}
  MaxDeliveries = 3
  StreamMaxLen = 3
  MaxFaults = 1
  HeldMayGoStale = TRUE
SPECIFICATION Spec
INVARIANTS OneTurnPerRoom RoomFifo
SYMMETRY MCSymmetry
CHECK_DEADLOCK FALSE
