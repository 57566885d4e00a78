CONSTANTS
  Targets <- SomeTargets
  Values <- SomeValues
  Managed <- AnyIndex
  Empty = Empty
SPECIFICATION Spec
PROPERTIES Uniform
CHECK_DEADLOCK FALSE
