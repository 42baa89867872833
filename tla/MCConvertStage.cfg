SPECIFICATION FairStageSpec
CONSTANTS
  convert1 = convert1
  structure1 = structure1
  convert2 = convert2
  structure2 = structure2
  Rows = {convert1, structure1}
  ConvertRows = {convert1}
  Versions = {1}
  ConvertOf <- MCConvertOf
  StructureOf <- MCStructureOf
  FollowUps <- MCFollowUps
  Workers = {w1, w2}
  Sweepers = {s1}
  CallKeys = {k1}
  BudgetedLanes = {}
  InitialMaxAttempts = 2
  AttemptCeiling = 2
  CostClasses = {"doc-text", "doc-scan"}
  MaxReadings = 2
  None = None
INVARIANTS
  StageTypeOK
  ParksStand
  NothingPaidBeforeApproval
  ParkedClaimBilledNothing
PROPERTY
  ConversionSettles
CHECK_DEADLOCK FALSE
