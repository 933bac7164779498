CONSTANTS
  Writers = {w1, w2}
  Readers = {r1}
  Size = 2
  Accepted = {OldDigest}
  Refused = {Symlink, Folder}
  Folder = Folder
  Nothing = Nothing
  Malformed = Malformed
SPECIFICATION FairSpec
INVARIANTS
  TypeOK
  NeverPartial
  FailureNeverVisible
PROPERTIES
  FailureCleansUp
  AtomicReplacement
  EveryAnalyzeEnds
