CONSTANTS
  MaxSid = 2
  Batches <- FirstRenders
  MaxWire = 2
  MaxActs = 3
  Target = {"key"}
SPECIFICATION Spec
INVARIANTS TreeIsGenuine HiddenRunsNothing PageTellsTruth
CHECK_DEADLOCK FALSE
