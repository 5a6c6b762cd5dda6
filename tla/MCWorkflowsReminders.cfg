CONSTANTS
  s1 = s1  here = here  there = there
  o1 = o1  o2 = o2  a1 = a1  a2 = a2  p1 = p1  p2 = p2
  Subject = {s1}
  Room = {here, there}
  Opener = {o1}
  Answerer = {}
  Poller = {p1, p2}
  SubjectOf <- MCSubjectOf
  RoomOf <- MCRoomOf
  Ttl = 3
  MaxTime = 4
  MaxFaults = 1
SPECIFICATION FairSpec
INVARIANTS FreshAsks
PROPERTIES PendingCloses
CHECK_DEADLOCK FALSE
