\* Every platform and mode, four slices of time, one counter that goes back.
SPECIFICATION FairSpec
CONSTANTS
  Ticking = {"user", "idle"}
  MemInfo <- MCMemInfo
  TotalMemory = 2
  Interval = 1
  MaxTime = 4
  MaxResets = 1
INVARIANTS SamplingTypeOK ShownIsNow LoadCountsOnce StopsWhenAsked
PROPERTIES ClosedTerminalEnds
\* A program that ended has no step left, nor has the clock at its bound.
CHECK_DEADLOCK FALSE
