CONSTANTS
  Tokens <- MCTokens
  KeyOf <- MCKeyOf
  Lines <- MCLines
  RingSize = 2
  Begin = 2
  Step = 2
  NumBins = 2
  MaxGathers = 2
SPECIFICATION Spec
INVARIANTS
  TypeOK
  RingBounded
  ViewAlive
  HotspotComplete
  LinesKnowTheirType
PROPERTIES
  TypeSettles
  GatherEnds
CHECK_DEADLOCK FALSE
