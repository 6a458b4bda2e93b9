\* Operators, a server and a consumer around one registry file.
CONSTANTS
  Keys = {k1, k2, k3}
  Cmds = {c1, c2}
  MaxCmds = 3
  Fetches = {f1, f2}
  Ttl = 2
  MaxAge = 1
  MaxTime = 2
  MaxRestarts = 1
  None = None
SYMMETRY Symmetry
SPECIFICATION Spec
CHECK_DEADLOCK FALSE
INVARIANT OneKeyInUse
INVARIANT RevocationKept
INVARIANT RevocationReachesConsumer
INVARIANT FreshEnough
INVARIANT RegistriesReadAlike
