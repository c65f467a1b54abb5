CONSTANTS
  Sid = {s1}
  NoView = {}
  MaxInc = 1
  MaxAsks = 1
  MaxEvents = 1
  MaxSessions = 1
  MaxDraining = 1
  Prompt = FALSE
  UserMay = {"close"}
  Kinds = {"alert", "hide"}
  Faults = {"throws", "hangs", "crash", "hostCrash"}
SPECIFICATION FairSpec
INVARIANTS ViewsAgree
PROPERTIES NothingHangs
CHECK_DEADLOCK FALSE
