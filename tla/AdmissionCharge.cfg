CONSTANTS
  Requests = {x1, x2}
  Senders = {s1}
  Msgs = {m1, m2}
  MaxRate = 2
  Window = 0
  MaxDepth = 2
  None = None
SPECIFICATION Spec
INVARIANTS
  RefusedIsFree
