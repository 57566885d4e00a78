CONSTANTS
  Threads = {t1, t2, t3}
  Main = main
  None = None
  DisposeRunning = TRUE
  Failures = {"start", "stop", "thread"}
SPECIFICATION Spec
INVARIANTS NoStrayThread
