SPECIFICATION Spec
CONSTANTS
  g = g
  h = h
  c1 = c1
  c2 = c2
  parts <- Texts
  None = None
  BadInput = BadInput
  Requests = {r1, r2, r3}
  Names = {g, h, x}
  Glyphs = {g, h}
  Confirmed = {h}
  Inputs = {i1, i2}
  CallIds = {c1}
  Scopes = {}
  requiredScopes <- OneScope
  ConfirmationTTL = 2
  MaxPending = 4
  DedupeOn = TRUE
  DedupeTTL = 1
  SweepBatch = 1
  TicksPerSecond = 1
  MaxClock = 1
  FaultPoints = {}
  MayCrash = FALSE
SYMMETRY Symmetric
INVARIANT ResponseOfOwnExecution
PROPERTY RetryIsReplayed
CHECK_DEADLOCK FALSE
