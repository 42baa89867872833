SPECIFICATION FairSpec
CONSTANTS
  a1 = a1
  a2 = a2
  c1 = c1
  c2 = c2
  x1 = x1
  x2 = x2
  e1 = e1
  e2 = e2
  u1 = u1
  u2 = u2
  r1 = r1
  p1 = p1
  p2 = p2
  Apps = {a1, a2}
  Claims = {c1, c2}
  Docs = {x1, x2}
  Entities = {e1, e2}
  Units = {u1, u2}
  Drainers = {p1, p2}
  Runs = {r1}
  ClaimOf <- TwoClaims
  SubjectOf <- OneSubject
  Rank <- InOrder
  DocOf <- TwoDocs
  MembersOf <- OneUnitEach
  SubjectOfUnit <- OneName
  Ends <- EndsFirst
  Regains <- GainsNone
  Merges = {}
  ReplaysLedger = {r1}
  Interruptible = {r1}
  MaxFailures = 0
  MaxMerges = 0
  None = None
PROPERTY
  UnitsSettle
CHECK_DEADLOCK FALSE
