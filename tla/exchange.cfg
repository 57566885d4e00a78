CONSTANTS
  app = app
  front = front
  back = back
  Apps = {app}
  Servers = {front, back}
  Values = {0, 1}
  Initial = 0
  Uses <- Chain
  MaxRequests <- Bound
  None = None
SPECIFICATION Spec
INVARIANTS TypeOK
PROPERTIES ImplementsRemote OperationsEnd StopsEnd
