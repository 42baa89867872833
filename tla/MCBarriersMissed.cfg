SPECIFICATION Spec
CONSTANTS
  a1 = a1
  a2 = a2
  b1 = b1
  c1 = c1
  c2 = c2
  e1 = e1
  e2 = e2
  Versions = {1, 2}
  Chunks = {a1, a2, b1}
  Claims = {c1, c2}
  Entities = {e1, e2}
  VersionOf <- TwoVersions
  ClaimsIn <- SharedClaims
  SubjectMaps <- SomeOrNoSubject
  Modes = {FALSE}
  MaxOpen = 2
  MaxAborts = 0
INVARIANT
  BarriersFire
CHECK_DEADLOCK FALSE
