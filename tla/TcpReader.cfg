\* One loss and one reconnection are enough.
SPECIFICATION Spec
CONSTANTS
  Owners = {o1}
  Readers = {r1, r2}
  Senders = {}
  Sockets = {s1, s2}
  TlsModes = {FALSE}
  NoThread = NoThread
  NoFd = NoFd
INVARIANT ConnectedHasReader
