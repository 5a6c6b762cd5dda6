CONSTANTS
  n1 = n1  c1 = c1  c2 = c2
  yes1 = yes1  yes2 = yes2  no1 = no1
  Draft = {n1}
  Room = {r1}
  Caller = {c1, c2}
  Decider = {yes1, yes2}
  Poller = {p1, p2}
  DraftOf <- MCDraftOf
  VerdictOf <- MCVerdictOf
  FlowOf <- MCFlowOf
  Casts <- MCCasts
  MaxAttempts = 2
  MaxSendPerTick = 1
  SlowTicks = FALSE
  MaxFaults = 0
SPECIFICATION Spec
INVARIANT ToldOnce
CHECK_DEADLOCK FALSE
