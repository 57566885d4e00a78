CONSTANTS
  app = app
  controller = controller
  r1 = r1
  r2 = r2
  None = None
  Owner = app
  Threads <- OneThread
  Runners <- TwoRunners
  Calls <- AsyncCalls
  CallbackCalls <- EveryCallback
  Failures <- EveryFailure
SPECIFICATION Spec
INVARIANTS TypeOK OneLoop StartupAlone RunningImpliesStarted NoUseAfterDestroy
PROPERTIES ShutdownQuiesces ShutdownReturns StoppedLoopsEnd RunningIsServed ImplementsService
