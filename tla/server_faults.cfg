SPECIFICATION FairSpec
CONSTANTS
  g = g
  h = h
  c1 = c1
  c2 = c2
  parts <- Texts
  None = None
  BadInput = BadInput
  Requests = {r1, r2}
  Names = {g, h, x}
  Glyphs = {g, h}
  Confirmed = {g}
  Inputs = {i1}
  CallIds = {c1}
  Scopes = {s1}
  requiredScopes <- OneScope
  ConfirmationTTL = 1
  MaxPending = 4
  DedupeOn = TRUE
  DedupeTTL = 1
  SweepBatch = 1
  TicksPerSecond = 1
  MaxClock = 1
  FaultPoints = {"received", "swept", "minted", "lookedUp", "consumed", "signing", "recording"}
  MayCrash = TRUE
INVARIANT PolicyBeforeEffects
INVARIANT AuditedRunsReturned
PROPERTY EveryRequestAnswered
CHECK_DEADLOCK FALSE
