CONSTANTS
  None = None
  d1 = d1
  d2 = d2
  root = root
  p1 = p1
  p2 = p2
  Queries = {"", "a", "ab"}
  MaxEvents = 1
  Names = {"n1", "n2"}
  Cmds = {"c"}
  Bundled <- Shipped
  Values = {"v", "w"}
  Unset = "unset"
  MaxChanges = 3
  Sid = {"s1"}
  Deadline = 2
  Floor = 2
  Ceiling = 4
  MaxAsks = 3
  PluginDirs = {root, p1, p2}
  PluginNames = {"one", "two"}
  PluginCmds = {"a", "b"}
  MaxCommit = 2
  MaxStarts = 2
  Repository <- TwoPlugins
  Items = {i1, i2}
  MaxTime = 4
  MaxLaunches = 3
  RebaseAbove = 2
SPECIFICATION Spec
INVARIANTS
  ListIsOfQuery
  
  ScoresKeepOrder
  InstallIntact
  RowsIntact
  HeadlessIntact
PROPERTIES
  LaunchingSettles
CHECK_DEADLOCK FALSE
