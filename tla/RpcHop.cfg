CONSTANTS
  Methods = {"known", "unknown"}
  Served = {"known"}
  MaxCalls = 3
SPECIFICATION FairSpec
INVARIANTS CallsIntact
PROPERTIES ImplementsContract CallsSettle
CHECK_DEADLOCK FALSE
