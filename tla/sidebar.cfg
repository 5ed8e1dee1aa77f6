\* Two installs, people at work on the file, failures and power cuts.
SPECIFICATION Spec
CONSTANTS
  Install = {i1, i2}
  Kind = {"plain", "set", "stuck"}
  MaxEdits = 2
  MaxFaults = 2
SYMMETRY Symmetry
INVARIANTS NothingHalfWritten
PROPERTIES RecheckKeepsEdits LayoutsStand
\* An install ends.
CHECK_DEADLOCK FALSE
