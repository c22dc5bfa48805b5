SPECIFICATION Spec
CONSTANTS
  Clients = {c1, c2}
  MAXIMUM_CLIENT = 2
  MaxLines = 1
  SocketBuffer = 1
  None = None
INVARIANT EveryClientHasItsWorker
