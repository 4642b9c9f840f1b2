CONSTANTS
  r3 = r3
  w1 = w1
  w2 = w2
  chat = chat
  sender = sender
  t1 = t1
  t2 = t2
  c1 = c1
  Msgs = {r1, i1}
  Runner = {r1}
  Recipient <- MCRecipient
  Pair <- MCPair
  Chats = {c1, c2}
  Says <- MCSays
  Texts = {t1, t2}
  ReplyIds = {q1, q2}
  Ops = {o1}
  Tokens = {k1, k2}
  ReconcileIds = {a1}
  Legacy = {r1}
  None = None
  MaxConcurrent = 2
  MaxPair = 2
  PairWindow = 1
  Retention = 1
  Lease = 1
  CompactInterval = 0
  StorageFaults = TRUE
SPECIFICATION Spec

  
PROPERTIES
  AcceptedTextWasReviewed
  KeepsPromise
