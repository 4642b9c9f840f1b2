CONSTANTS
  Children = {c1, c2}
  Relearns = {c2}
  Wakes = {w1, w2}
  Items = {i1}
  MaxGen = 2
  None = None
  Profiles = {p, q}
  Foreign = f
  FirstMark = 2
  Places = 1
  MaxMail = 3
  MaxFaults = 1
  MaxCrashes = 1
  Lanes = {a, b}
  Addressed = {b, f}
  MaxEvents = 2
SPECIFICATION SessionsSpec
SYMMETRY Symmetric
\* Once MESH has told every event and every turn ended, nothing is left to do.
CHECK_DEADLOCK FALSE
INVARIANTS
  HintFollowsRun
  
  QuietIsCovered
