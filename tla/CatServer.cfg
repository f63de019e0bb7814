\* A limit of two clients, three connections in a session (one over the limit, one
\* after another has left), and numbers that are reused.
SPECIFICATION Spec
CONSTANTS
  Handlers = {h1, h2, h3}
  Fds = {1, 2, 3, 4}
  MaxClients = 2
  MaxForeign = 1
  Owner = owner
  Acceptor = acceptor
  NoFd = NoFd
INVARIANTS TypeOK ServedIsListed StopLeavesNothing
PROPERTIES OthersUntouched StopReturns
