\* An editor at work on the file of a running daemon.
SPECIFICATION FairSpec
CONSTANTS
  v1 = v1
  v2 = v2
  v3 = v3
  Version = {v1, v2, v3}
  Empty = Empty
  Broken = Broken
  NoText = NoText
  Defaults = Defaults
  Size <- MCSize
  FineTime = TRUE
  EditsDuringStart = FALSE
  MaxEdits = 5
INVARIANTS TypeOK NoMissedEdit
PROPERTIES EditsTakeEffect
\* The file may stay as it is for good, and the edits are bounded.
CHECK_DEADLOCK FALSE
