SPECIFICATION SpecUpdate
CONSTANTS
  None = None
  MaxCommits = 2
  MaxPresses = 3
  MaxFailures = 1
INVARIANT OnlyAgreedRuns
CHECK_DEADLOCK FALSE
