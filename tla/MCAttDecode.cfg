CONSTANTS
  N = 4
  Budget = 4
  Permits = 2
  slotA = slotA
  slotB = slotB
  Slots = {slotA, slotB}
  Ignored = Ignored
  SizeOf <- MCSizeOf
  Records <- MCRecords
  idA = idA
  idA2 = idA2
  idB = idB
  idB4 = idB4
  idNone = idNone
  IdOf <- MCIdOf
SPECIFICATION FairSpec
INVARIANTS
  TypeOK
  BudgetRespected
  ThreadsBounded
  NoWaveLost
  OkIsComplete
PROPERTIES
  LoadEnds
CHECK_DEADLOCK FALSE
