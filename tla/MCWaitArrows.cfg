CONSTANTS
  Archs = {"gfx9", "gfx10", "gfx12"}
  Used <- MCUsed
  MaxTokens <- MCMaxTokens
  MaxValue = 1
SPECIFICATION Spec
INVARIANTS
  TypeOK
  NoArrowTooEarly
  FoundOnce
  ArrowsOfTracked
CHECK_DEADLOCK FALSE
