CONSTANTS
  SEs = {1, 2, 3}
  Samples <- MCSamples
  Times = {5}
  Waves = {"a", "b", "d"}
  SE <- MCSE
  Id <- MCId
  Decoded = {"a", "b"}
  None = None
SPECIFICATION Spec
INVARIANTS
  TypeOK
  SameMoment
  OneClock
  AllOrNothing
CHECK_DEADLOCK FALSE
