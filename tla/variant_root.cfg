CONSTANTS
  Targets <- SomeTargets
  Values <- SomeValues
  Managed <- RootOnly
  Empty = Empty
SPECIFICATION Spec
INVARIANTS TypeOK ReadBack Delivered InBounds
PROPERTIES ConstStays
CHECK_DEADLOCK FALSE
