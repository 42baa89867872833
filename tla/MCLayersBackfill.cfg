SPECIFICATION Spec
CONSTANTS
  LastVersion = 2
  InitialConfigs <- FromUnconfigured
  LineageModes = {TRUE, FALSE}
  ZeroChunkSets <- NoZeroChunk
  MaxDeleted = 1
  MaxSwitches = 2
  MayDie = {}
INVARIANTS
  TypeOK
  DrainedIsAccounted
PROPERTY
  GapsAreEntered
CHECK_DEADLOCK FALSE
