CONSTANTS
  Sid = {s1}
  NoView = {}
  MaxInc = 1
  MaxAsks = 2
  MaxEvents = 2
  MaxSessions = 1
  MaxDraining = 1
  Prompt = TRUE
  UserMay = {"close"}
  Kinds = {"service", "alert", "hide", "pop"}
  Faults = {"throws"}
SPECIFICATION Spec
INVARIANTS OwnCloseServed EventsReachHandlers
PROPERTIES OwnCloseNotCut
CHECK_DEADLOCK FALSE
