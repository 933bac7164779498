CONSTANTS
  dir = dir
  JsonDirs = {json}
  AttDirs = {dir}
  SpmFiles = {spm1, spm2}
  Files = {1, 2}
  FilesIn <- MCFilesIn
  CaptureOf <- MCCaptureOf
  WaveIds = {w}
  NoPath = NoPath
  MaxLoads = 2
SPECIFICATION SessionSpec
INVARIANTS
  CacheOfStore
CHECK_DEADLOCK FALSE
