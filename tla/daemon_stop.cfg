\* A server that goes away while the daemon runs, under any clock, without a
\* socket to look for.
SPECIFICATION FairSpec
CONSTANTS
  Workspace = {w1, w2}
  Source = {s1}
  NoFocus = NoFocus
  Ttl = 1
  MaxFailures = 2
  UnixSocket = FALSE
  SteadyClock = FALSE
  MaxClock = 1
  MaxSeq = 2
  MaxEvents = 3
  MaxRestarts = 0
INVARIANTS NewestWins
PROPERTIES GivesUpForCause StopsWhenServerIsGone
\* The daemon stops.
CHECK_DEADLOCK FALSE
