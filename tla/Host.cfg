CONSTANTS
  w1 = w1
  w2 = w2
  w3 = w3
  None = None
  Worker <- ThreeThreads
  MaxSessions = 1
  MaxSpareFailures = 2
  MaxTimers = 2
  Delays <- TwoDelays
  Healthy = 3
  MaxNow = 6
SYMMETRY Symmetry
SPECIFICATION HostSpec
INVARIANTS ThreadsAccounted SpareComesBack ForksAreSpaced TreeIntact
CHECK_DEADLOCK FALSE
