\* disconnect() while an attempt is in flight.
SPECIFICATION Spec
CONSTANTS
  Callers = {u1}
  Reconnectors = {k1, k2}
  Owners = {u1, k1, k2}
  Readers = {r1, r2}
  Senders = {}
  Sockets = {s1, s2}
  TlsModes = {FALSE}
  Patient = FALSE
  MayDestroy = FALSE
  MaxCalls = 3
  MaxAttempts = 2
  InitialDelayMs = 1000
  MaxDelayMs = 60000
  NoThread = NoThread
  NoFd = NoFd
INVARIANT StoppedIsDisconnected
CHECK_DEADLOCK FALSE
