CONSTANTS
  s1 = s1
  s2 = s2
  d1 = d1
  d2 = d2
  Claimers = {s1, s2, d1, d2}
  Dedicated = {d1, d2}
  FamilyOf <- MCFamilyOf
  x1 = x1
  x2 = x2
  x3 = x3
  x4 = x4
  p1 = p1
  p2 = p2
  GateRuns = {x1, x2, x3, x4}
  Profiles = {p1, p2}
  ProfileOf <- MCProfileOf
  Limit = 2
  None = None
  Supervisors = {s1, s2}
  MaxFaults = 2
  MaxCrashes = 2
  MaxForeign = 2
  r1 = r1
  r2 = r2
  Deliveries = {1, 2, 3}
  Rooms = {r1, r2}
  RoomOf <- MCRoomOf
  CrashThreshold = 2
  MaxFailures = 2
SPECIFICATION SupervisionSpec
\* Once every run is done, or a supervisor was stopped, nothing is left to do.
CHECK_DEADLOCK FALSE
INVARIANTS
  OneDrain
  GatesCount
  OneServer
  RepliesStayInRoom
PROPERTIES
  SupervisedWorkMoves
