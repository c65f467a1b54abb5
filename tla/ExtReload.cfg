CONSTANTS
  Sid = {s1}
  NoView = {}
  MaxInc = 2
  MaxAsks = 1
  MaxEvents = 1
  MaxSessions = 1
  MaxDraining = 1
  Prompt = FALSE
  UserMay = {"close", "reload"}
  Kinds = {"alert"}
  Faults = {"throws", "hangs", "crash", "fatal", "hostCrash"}
SPECIFICATION Spec
INVARIANTS NoLeakedThread ConfirmedByUser SlotsAccounted
CHECK_DEADLOCK FALSE
