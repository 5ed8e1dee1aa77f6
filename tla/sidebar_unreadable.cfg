\* A file that cannot be read appears where there was none.
SPECIFICATION Spec
CONSTANTS
  Install = {i1}
  Kind = {"plain", "unreadable"}
  MaxEdits = 1
  MaxFaults = 0
PROPERTIES RecheckKeepsEdits
CHECK_DEADLOCK FALSE
