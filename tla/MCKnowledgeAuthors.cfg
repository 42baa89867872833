SPECIFICATION Spec
CONSTANTS
  Pages = {p1, p2}
  Edits = {e1}
  Garbled = {}
  MaxCycles = 1
  MaxFailures = 0
  MaxAccepted = 0
  MaxSwitches = 0
  None = None
INVARIANT
  AuthorsWorkSurvives
CHECK_DEADLOCK FALSE
