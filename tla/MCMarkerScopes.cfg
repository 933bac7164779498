CONSTANTS
  Kernels = {"a", "b", "c"}
  Sends <- MCSends
  Object <- MCObject
  Tag <- MCTag
  NameRows <- MCNameRows
  JsonMap <- MCJsonMap
  Traced = {"a", "c"}
  DecoderMap <- MCDecoderMap
  MaxWaves = 2
  MaxTokens = 4
  Forever = 5
SPECIFICATION Spec
INVARIANTS
  TypeOK
  SpansNest
  SpansAreScopes
  InnermostScope
  GlobalTree
CHECK_DEADLOCK FALSE
