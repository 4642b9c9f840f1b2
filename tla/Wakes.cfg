CONSTANTS
  Items = {i1, i2}
  Wakes = {w1, w2, w3}
  Threads = {t1, t2}
  MaxGen = 2
  MinInterval = 1
  None = None
  Children = {c1, c2}
  Relearns = {c2}
  Reservations = {w1}
  Owed = {i1}
  MaxRuns = 2
SPECIFICATION WakesSpec
INVARIANTS
  HintIsSound
PROPERTIES
  StaleOnlyReconciled
  NotifierMoves
  
