CONSTANTS
  Threads = {t1, t2, t3}
  Main = main
  None = None
  DisposeRunning = FALSE
  Failures = {"start", "stop", "thread"}
SPECIFICATION Spec
INVARIANTS TypeOK NoStrayThread NoUnhandled
PROPERTIES ImplementsService ShutdownReturns StoppedThreadsEnd
