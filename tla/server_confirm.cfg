SPECIFICATION Spec
CONSTANTS
  g = g
  h = h
  c1 = c1
  c2 = c2
  parts <- Texts
  None = None
  BadInput = BadInput
  Requests = {r1, r2, r3, r4}
  Names = {g}
  Glyphs = {g}
  Confirmed = {g}
  Inputs = {i1, i2}
  CallIds = {}
  Scopes = {}
  requiredScopes <- OneScope
  ConfirmationTTL = 3
  MaxPending = 2
  DedupeOn = FALSE
  DedupeTTL = 1
  SweepBatch = 1
  TicksPerSecond = 2
  MaxClock = 3
  FaultPoints = {}
  MayCrash = FALSE
SYMMETRY Symmetric
INVARIANT TypeOK
INVARIANT ConfirmedRunHasOwnTicket
PROPERTY TokensStayDead
PROPERTY BacklogRetryAfterFreesASlot
PROPERTY ImplementsTickets
CHECK_DEADLOCK FALSE
