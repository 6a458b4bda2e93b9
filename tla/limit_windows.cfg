SPECIFICATION Spec
CONSTANTS
  ip1 = ip1
  ip2 = ip2
  None = None
  Tokens = {good, fake}
  Verified = {good}
  Addresses = {ip1, ip2}
  AuthOn = TRUE
  WindowMs = 2
  Max = 1
  SweepBatch = 1
  TicksPerSecond = 2
  MaxClock = 4
  MaxRequests = 5
SYMMETRY symmetry
CHECK_DEADLOCK FALSE
INVARIANT AtMostMaxPerWindow
PROPERTY WaitingIsEnough
