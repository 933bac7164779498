SPECIFICATION Spec
CONSTANTS
  Counters <- MCCounters
  Metadata <- MCMetadata
  Precision = 256
  Spacings <- MCSpacings
  Captures <- MCCaptures
  Drawn <- MCDrawn
  AnchorSets <- MCAnchorSets
  Texts <- MCTexts
  Literals <- MCLiterals
  Hidden = {"_T"}
  MaxUpdates = 2
INVARIANTS
  TypeOK
  SamplesFaithful
  Determined
  CurveIsLatest
CHECK_DEADLOCK FALSE
