SPECIFICATION Spec
CONSTANTS
  LastVersion = 3
  InitialConfigs <- FromAllLayers
  LineageModes = {TRUE, FALSE}
  ZeroChunkSets <- OneZeroChunk
  MaxDeleted = 1
  MaxSwitches = 1
  MayDie = {"tail"}
INVARIANTS
  TailNeverBesideFactWork
  CurrentNeverDischarged
PROPERTY
  LaterReconcilesWait
CHECK_DEADLOCK FALSE
