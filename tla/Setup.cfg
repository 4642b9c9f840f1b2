CONSTANTS
  Homes = {h1, h2}
  Keys = {k1, k2, k3}
  NoKey = NoKey
  DeviceKey = DeviceKey
  NoHome = NoHome
  Proxied = {"op"}
  MaxFaults = 2
  Writers = {h1, h2}
  Fields = {claim, ack}
  MaxClock = 3
  Requests = {h1, h2}
  Messages = {1, 2}
  MaxContinuations = 2
  MaxTokens = 3
  MaxErrors = 1
  MaxChecks = 1
SPECIFICATION MCSpec
SYMMETRY Symmetric
\* Commands and requests end, and nobody has to make another.
CHECK_DEADLOCK FALSE
INVARIANTS
  
  GatewayAnswers
PROPERTIES
  BindingIsKept
