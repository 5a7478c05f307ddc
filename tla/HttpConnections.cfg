SPECIFICATION Spec
CONSTANTS
  NC = 3
  MaxFds = 2
INVARIANTS TypeOK NothingStale IndexExact ReusableExact InputAwaited ExitLosesNoClient
CHECK_DEADLOCK FALSE
PROPERTIES ExitingEnds
