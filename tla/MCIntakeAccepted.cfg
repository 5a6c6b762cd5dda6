CONSTANTS
  ann = ann  bob = bob
  MaxMsg = 2
  MaxTries <- MCMaxTries
  Mixes <- MCBurst
  SenderOf <- MCSenderOf
  MaxDeliveries = 2
  MaxFaults = 1
  InOrder = TRUE
SPECIFICATION Spec
INVARIANTS AcceptedIsKept
CHECK_DEADLOCK FALSE
