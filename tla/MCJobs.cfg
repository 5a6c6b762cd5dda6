CONSTANTS
  h1 = h1  h2 = h2  Host = {h1, h2}
  MaxFaults = 1
  Job = {j1}  Day = 2  MaxClock = 3  MaxJobsPerGroup = 1
  g1 = g1  g2 = g2  Group = {g1, g2}  MaxFacts = 1
  ann = ann  bob = bob  Person = {ann, bob}
  MaxMessage = 3  AuthorOf <- MCAuthorOf  MaxPerHour = 1
  MaxAttempts = 3
  Server = {s1, s2}  Env <- MCEnv
SPECIFICATION Spec
INVARIANTS TypeOK FiredOnce DigestOnce ApprovedIsWritten 
  NothingStranded ServedByItsRoom
PROPERTY FiredAsPlanned
SYMMETRY MCSymmetry
CHECK_DEADLOCK FALSE
