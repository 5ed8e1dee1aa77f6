\* A poll while an editor rewrites the file in place.
SPECIFICATION Spec
CONSTANTS
  v1 = v1
  v2 = v2
  v3 = v3
  Version = {v1, v2, v3}
  Empty = Empty
  Broken = Broken
  NoText = NoText
  Defaults = Defaults
  Size <- MCSize
  FineTime = TRUE
  EditsDuringStart = TRUE
  MaxEdits = 3
PROPERTIES MidSaveKeepsSettings
\* The file may stay as it is for good, and the edits are bounded.
CHECK_DEADLOCK FALSE
