CONSTANTS
  s1 = s1  here = here  there = there
  o1 = o1  o2 = o2  a1 = a1  a2 = a2  p1 = p1  p2 = p2
  Subject = {s1}
  Room = {here, there}
  Opener = {o1, o2}
  Answerer = {}
  Poller = {p1}
  SubjectOf <- MCSubjectOf
  RoomOf <- MCRoomOf
  Ttl = 2
  MaxTime = 5
  MaxFaults = 0
SPECIFICATION Spec
PROPERTIES ExpiredMayBeAskedAgain
CHECK_DEADLOCK FALSE
