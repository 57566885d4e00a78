CONSTANTS
  Adapters = {a1, a2, a3}
  Nodes = {n1, n2}
  Log = Log
  Wrapper = Wrapper
  None = None
SPECIFICATION Spec
INVARIANTS TypeOK NoWildCall
PROPERTIES EndedByDispose
