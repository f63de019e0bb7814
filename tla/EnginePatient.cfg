\* One patient caller, any number of calls, losses and reconnections, until the engine
\* is destroyed.  Two of each identity: one in use and one left over.  The policy has the
\* values of Engine's constructor.
SPECIFICATION Spec
CONSTANTS
  Callers = {u1}
  Reconnectors = {k1, k2}
  Owners = {u1, k1, k2}
  Readers = {r1, r2}
  Senders = {}
  Sockets = {s1, s2}
  TlsModes = {FALSE}
  Patient = TRUE
  MayDestroy = TRUE
  MaxCalls = 0
  MaxAttempts = 10
  InitialDelayMs = 1000
  MaxDelayMs = 60000
  NoThread = NoThread
  NoFd = NoFd
INVARIANTS TypeOK ClientIsSafe ShownIsCurrent StoppedIsDisconnected
  NoMixedStream OneReconnection FailureIsReported
PROPERTIES OnlyConnectDials   
CHECK_DEADLOCK FALSE
