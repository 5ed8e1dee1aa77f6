\* Three daemons over two lock paths, with failing calls and removed files.
SPECIFICATION Spec
CONSTANTS
  Process = {p1, p2, p3}
  Path = {state, tmp}
  NoProcess = NoProcess
  AdvisoryLocks = TRUE
  MaxFiles = 3
  MaxFaults = 2
SYMMETRY Symmetry
INVARIANTS OneDaemonPerPath LockLasts PidNamesTheHolder
PROPERTIES RefusedByTheLiving
CHECK_DEADLOCK FALSE
