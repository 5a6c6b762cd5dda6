CONSTANTS
  ann = ann  bob = bob
  MaxMsg = 2
  MaxTries <- MCMaxTries
  Mixes <- MCMixes
  SenderOf <- MCSenderOf
  MaxDeliveries = 2
  MaxFaults = 1
  InOrder = TRUE
SPECIFICATION Spec
INVARIANTS HistoryFirst  QueuedOnce
CHECK_DEADLOCK FALSE
