CONSTANTS
  None = None
  w1 = w1
  t1 = t1
  t2 = t2
  Trees <- Views
  Elements <- Written
  Texts = {"", "a"}
  Grade <- Grades
  Keys <- Bound
  Requests = {"r3"}
  Chords = {"ctrl+k", "enter", "space", "ctrl+enter", "down", "up", "escape", "ctrl+r"}
  Typeable = {"space"}
  MaxRendered = 2
  MaxTyped = 2
  CacheKeys = {"a", "b", "c"}
  Sizes = {1, 3}
  Capacity = 4
  MaxChanges = 4
  Toasts <- TwoToasts
  MaxViews = 3
  MaxCalls = 5
SPECIFICATION Spec
INVARIANTS
  PageIntact
  CacheIntact
  ViewsIntact
PROPERTIES
  HeldIntact
  FilesIntact
CHECK_DEADLOCK FALSE
