CONSTANTS
  app = app
  controller = controller
  r1 = r1
  r2 = r2
  None = None
  Owner = app
  Threads <- OneThread
  Runners <- TwoRunners
  Calls <- AsyncCalls
  CallbackCalls <- NoCalls
  Failures <- NoCalls
SPECIFICATION Spec
INVARIANTS NeverTerminates
PROPERTIES ShutdownQuiesces
