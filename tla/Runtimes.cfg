CONSTANTS
  d1 = d1
  d2 = d2
  e1 = e1
  r1 = r1
  r2 = r2
  o1 = o1
  Deliveries = {d1, d2}
  Receipts = {e1}
  Rooms = {r1, r2}
  RoomOf <- MCRoomOf
  Operators = {o1}
  MaxStarts = 2
  MaxGen = 6
  MaxEpoch = 2
  Mail = {1, 2}
  Threads = {a, b}
  Bootstrap = a
  NoThread = NoThread
  MaxConsecutive = 2
  MaxFaults = 2
  MaxRebinds = 1
  MaxUserTurns = 1
  Slots = {1, 2}
  Callers = {c1, c2, c3}
  CrashThreshold = 2
  MaxProcs = 5
  s1 = s1
  m1 = m1
  Sends = {x1, x2}
  Senders = {s1}
  Msgs = {m1, m2, m3}
  MaxRate = 1
  Window = 0
  MaxDepth = 2
  NoMsg = NoMsg
  asker = asker
  helper = helper
  other = other
  worker = worker
  worker2 = worker2
  principal = principal
  p1 = p1
  p2 = p2
  rpc1 = rpc1
  rpc2 = rpc2
  Nothing = Nothing
SPECIFICATION RuntimesSpec
\* Once everything was answered nothing is left to do.
CHECK_DEADLOCK FALSE
INVARIANTS
  
  
  SendsAreKept
