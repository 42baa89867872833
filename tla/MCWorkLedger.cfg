SPECIFICATION FairSpec
CONSTANTS
  convert = convert
  structure = structure
  Rows = {convert, structure}
  ConvertRows = {convert}
  Workers = {w1, w2}
  Sweepers = {s1}
  CallKeys = {k1}
  FollowUps <- MCFollowUps
  BudgetedLanes = {"backfill"}
  InitialMaxAttempts = 2
  AttemptCeiling = 2
  None = None
INVARIANTS
  TypeOK
  OnlyOwnerPassesFence
  NoStrandedRow
  BilledByThisClaim
PROPERTY
  EveryRowSettles
  SettledStaysSettled
  ImplementsWorklist
CHECK_DEADLOCK FALSE
