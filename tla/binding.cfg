CONSTANTS
  Adds <- PlainAdds
  Depth = 3
  MaxLogs = 1
  LogThrows = TRUE
  Null = Null
  Absent = Absent
SPECIFICATION Spec
INVARIANTS TypeOK BoundBeforeVisible PairedCallbacks OwnCallback
PROPERTIES ServingLeavesMaps
