SPECIFICATION Spec
CONSTANTS
  LastVersion = 3
  InitialConfigs <- FromAllLayers
  LineageModes = {TRUE}
  ZeroChunkSets <- LastIsZeroChunk
  MaxDeleted = 0
  MaxSwitches = 0
  MayDie = {}
INVARIANTS
  AdmittedTestimonyStands
CHECK_DEADLOCK FALSE
