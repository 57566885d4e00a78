CONSTANTS
  app = app
  controller = controller
  r1 = r1
  r2 = r2
  None = None
  Owner = app
  Threads <- TwoThreads
  Runners <- TwoRunners
  Calls <- BlockingCalls
  CallbackCalls <- EveryCallback
  Failures <- EveryFailure
SPECIFICATION Spec
PROPERTIES StoppedLoopsEnd ImplementsService
