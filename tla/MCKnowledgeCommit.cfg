SPECIFICATION Spec
CONSTANTS
  Pages = {p1, p2}
  Edits = {e1}
  Garbled = {g1}
  MaxCycles = 1
  MaxFailures = 1
  MaxAccepted = 1
  MaxSwitches = 1
  None = None
SYMMETRY Symmetric
INVARIANTS
  TypeOK
  NothingLiveIsUnpublished
  EditsSurvive
  PublishedIsRecovered
CHECK_DEADLOCK FALSE
