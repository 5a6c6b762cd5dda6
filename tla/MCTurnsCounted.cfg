CONSTANTS
  h1 = h1  h2 = h2  Host = {h1, h2}
  MaxFaults = 1
  MaxIterations = 3  MaxReplyFixes = 1  MaxChunks = 2
  b1 = b1  b2 = b2  Bill = {b1, b2}  MaxRuns = 4  MaxCost = 2  Limit = 2
  c1 = c1  c2 = c2  Customer = {c1, c2}  TTL = 2  MaxNow = 2
  d1 = d1  d2 = d2  Call = {d1, d2}  MaxTier = 3  Days = 3  Sundays = {1}  MaxCount = 1  Retries = 2
  MaxRows = 2  PageSize = 1  s1 = s1  s2 = s2  Sku = {s1, s2}  Listed = {s1}  MaxLines = 2
  a1 = a1  a2 = a2  Sender = {a1, a2}  Reply <- MCReply  MaxMessages = 2  ChannelLimit = 2  MaxToken = 2
  Keeper = {k1}  MaxSaid = 6  Buffer = 3  Window = 1  MinEntries = 1  MinPending = 2
  p1 = p1  p2 = p2  Landlord = {c1, c2}  Talker = {p1, p2}  Ticket = {t1}  Answerable = {t1}
  ShownTurns = 2  MaxTalk = 3  MaxTurns = 2  MaxBinds = 1
  TextCap = 2  MaxText = 3  Ref = {r1, r2, r3}  RefBudget = 4  MaxRef = 3
SPECIFICATION Spec
INVARIANT CountIsTold
SYMMETRY MCSymmetry
CHECK_DEADLOCK FALSE
