CONSTANTS
  s1 = s1  here = here  there = there
  o1 = o1  o2 = o2  a1 = a1  a2 = a2  p1 = p1  p2 = p2
  Subject = {s1}
  Room = {here, there}
  Opener = {o1, o2}
  Answerer = {a1, a2}
  Poller = {p1, p2}
  SubjectOf <- MCSubjectOf
  RoomOf <- MCRoomOf
  Ttl = 2
  MaxTime = 3
  MaxFaults = 1
SPECIFICATION Spec
INVARIANTS OneAsker ResultOnce ToldOrRaised
SYMMETRY MCSymmetry
CHECK_DEADLOCK FALSE
