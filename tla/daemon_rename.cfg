\* An edit that gives a running daemon another source name.
SPECIFICATION Spec
CONSTANTS
  Workspace = {w1, w2}
  Source = {s1, s2}
  NoFocus = NoFocus
  Ttl = 2
  MaxFailures = 2
  UnixSocket = TRUE
  SteadyClock = TRUE
  MaxClock = 5
  MaxSeq = 5
  MaxEvents = 2
  MaxRestarts = 0
SYMMETRY Symmetry
INVARIANTS RowsTakenAway
CHECK_DEADLOCK FALSE
