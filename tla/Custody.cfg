CONSTANTS
  Deliveries = {ask, tell}
  Texts = {x, y}
  ReplyRequired = {ask}
  MaxFailures = 3
  MaxRetries = 2
  None = None
  co = co
  orphan = orphan
  Mail = {1, 2}
  Asked = {1}
  Replies = {x}
  Callers = {co, orphan}
  Coordinators = {co}
  Owner <- MCOwner
  Scopes <- MCScopes
  StuckAfter = 1
  MaxKills = 1
  Workers = {w1, w2}
  Polled = {1, 2, 3}
  Kind <- MCKind
  MaxAttempts = 2
  MaxAcks = 2
  MaxLists = 2
  MaxFaults = 2
  request = request
  answer = answer
  question = question
  Items = {request, answer}
  Asks = {question}
  KindOf <- MCKindOf
  InReplyTo <- MCInReplyTo
  MaxRecords = 3
  MaxResolved = 1
  MaxForget = 1
SPECIFICATION CustodySpec
\* Once every delivery is settled nothing is left to do.
CHECK_DEADLOCK FALSE
INVARIANTS
  RecordIsTrue
  NoOrphanClaim
  
  DrainAnswers
PROPERTIES
  KeepsDelivery
  KeepsMailbox
  
