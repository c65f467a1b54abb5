CONSTANTS
  None = None
  Before = Before
  Cli = {c1, c2}
  Daemon = {d0, d1, d2, d3}
  Old = d0
  Verbs = {"toggle", "start", "quit", "ping"}
  May = {"kill", "crash", "late"}
SPECIFICATION FairSpec
INVARIANTS SocketIsServed OneRestart
PROPERTIES Upgrades
CHECK_DEADLOCK FALSE
