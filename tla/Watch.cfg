CONSTANTS
  Lanes = {e, i}
  First = e
  Bound = {i}
  Attempts = {n1, n2, n3}
  Drains = {b}
  Foreign = f
  Addressed = {b, f}
  MaxEvents = 2
  MaxFaults = 1
  s1 = s1
  s2 = s2
  s3 = s3
  Sessions = {s1, s2, s3}
  Events <- MCEvents
  Capacity = 2
  Retention = 1
SPECIFICATION WatchSpec
\* Once the loops were told to stop, nothing is left to do.
CHECK_DEADLOCK FALSE
INVARIANTS
  NothingTwice
  EndOutranks
PROPERTIES
  LoopsComeBack
  EachRunHasItsGeneration
