CONSTANTS
  Targets <- WithEmptyAnswer
  Values <- SomeValues
  Managed <- RootOnly
  Empty = Empty
SPECIFICATION Spec
INVARIANTS InBounds
CHECK_DEADLOCK FALSE
