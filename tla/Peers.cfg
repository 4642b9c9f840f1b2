CONSTANTS
  near = near
  far = far
  Devices = {near, far}
  Ids = {x, y}
  Bodies = {p, q}
  Reach <- MCReach
  Roster <- MCRoster
  Slots = {t1, t2}
  Expiry = 1
  Retention = 2
  Timeout = 1
  MaxOutbox = 1
  Quota = 1
  MaxSends = 2
  Faults = {near, far}
  None = None
  Owners = {t1, t2}
  Profiles = {x, y}
  Principals = {p, q}
  MaxWrites = 2
  MaxChanges = 2
  MaxTries = 1
SPECIFICATION PeersSpec
SYMMETRY Symmetric
\* Owner commands end, and nobody has to give another.
CHECK_DEADLOCK FALSE
INVARIANTS
  
  ReceiptsAreKept
  RegistryIsSound
