CONSTANTS
  Sid = {s1, s2}
  NoView = {s2}
  MaxInc = 1
  MaxAsks = 1
  MaxEvents = 1
  MaxSessions = 1
  MaxDraining = 1
  Prompt = TRUE
  UserMay = {"close"}
  Kinds = {"hide"}
  Faults = {"throws", "hostCrash"}
SPECIFICATION Spec
INVARIANTS FinishedIsStopped
CHECK_DEADLOCK FALSE
