CONSTANTS
  Depth = 3
SPECIFICATION Spec
INVARIANTS TypeOK FlagMatchesSession NoLeak
