CONSTANTS
  r3 = r3
  w1 = w1
  w2 = w2
  chat = chat
  sender = sender
  t1 = t1
  t2 = t2
  c1 = c1
  Msgs = {r1, r2, r3}
  Runner = {r1, r2, r3}
  Recipient <- MCRecipient
  Pair <- MCPair
  Chats = {}
  Says <- MCSays
  Texts = {t1}
  ReplyIds = {q1, q2}
  Ops = {}
  Tokens = {}
  ReconcileIds = {}
  Legacy = {}
  None = None
  MaxConcurrent = 2
  MaxPair = 1
  PairWindow = 2
  Retention = 1
  Lease = 1
  CompactInterval = 1
  StorageFaults = FALSE
SPECIFICATION FairSpec
INVARIANTS
  ExecutorOwnsRow
  NoLostWork
  LimitsHold
PROPERTIES
  KeepsPromise
  WorkMoves
