\* A daemon that is reloaded, crashes and is started again.
SPECIFICATION Spec
CONSTANTS
  Workspace = {w1, w2}
  Source = {s1, s2}
  NoFocus = NoFocus
  Ttl = 2
  MaxFailures = 2
  UnixSocket = TRUE
  SteadyClock = TRUE
  MaxClock = 5
  MaxSeq = 5
  MaxEvents = 3
  MaxRestarts = 1
SYMMETRY Symmetry
INVARIANTS TypeOK NewestWins RowsLast NoStrayRows RowsFollowFocus HoldsWithoutFocus
PROPERTIES ViewSpec
\* The daemon may stop for good, and the clock is bounded.
CHECK_DEADLOCK FALSE
