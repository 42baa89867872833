SPECIFICATION FairSpec
CONSTANTS
  d1 = d1
  v1 = v1
  q1 = q1
  h1 = h1
  Docs = {d1}
  Versions = {v1}
  LineageOf <- OneLineage
  Callers = {q1}
  Honorers = {h1}
  MaxAttempts = 1
  MaxFaults = 1
  Losses <- SomeLosses
  Boot = Boot
  None = None
INVARIANTS
  TypeOK
  ForgottenStaysErased
  NoClaimAfterTheCut
  DrainedBeforeTheCut
  IntentIsDurable
PROPERTY
  AcceptedEnds
CHECK_DEADLOCK FALSE
