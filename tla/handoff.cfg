\* Two processes, one server after another, and a lock directory people clean.
SPECIFICATION FairHandoffSpec
CONSTANTS
  p1 = p1
  p2 = p2
  state = state
  Process = {p1, p2}
  Path = {state}
  NoProcess = NoProcess
  AdvisoryLocks = TRUE
  MaxFiles = 2
  MaxFaults = 1
  HookPath = state
  MaxFailures = 2
  UnixSocket = TRUE
  MaxStarts = 4
  MaxSlips = 1
INVARIANTS HandoffTypeOK SomebodyStays HooksNeverDouble
PROPERTIES ReportsKeepComing
\* Every process may end, and the starts are bounded.
CHECK_DEADLOCK FALSE
