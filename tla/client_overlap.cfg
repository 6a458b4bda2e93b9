SPECIFICATION Spec
CONSTANTS
  Configs <- AllUses
  Tasks = {t1, t2, t3}
  UsedCards = {"first", "reworded", "riskier", "rekeyed", "unsigned", "stripped", "spoiled"}
  StoredPins <- SomeStore
  MaxDeploys = 2
  MaxInFlight = 2
  Cards <- MCCards
  Passes <- MCPasses
  content <- MCcontent
  Ids = {i1, i2, i3}
  Keys = {k1, k2}
  None = None
  i1 = i1
  i2 = i2
  i3 = i3
  k1 = k1
  k2 = k2
SYMMETRY symmetry
PROPERTY DeliveredFromPinned
PROPERTY UnsignedPinsAreUpdates
PROPERTY RevocationSticks
PROPERTY RevokedNeverRuns
PROPERTY CallNeverRepinsBreaking
PROPERTY PromoteExactlyAudited
PROPERTY PromotedWithinPolicy
CHECK_DEADLOCK FALSE
