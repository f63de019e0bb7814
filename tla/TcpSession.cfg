\* One owner, TLS or not from one connection to the next, and a sender.  Two
\* descriptors and two thread identities: one of each is in use, one can be left
\* over from the connection before.
SPECIFICATION Spec
CONSTANTS
  Owners = {o1}
  Readers = {r1, r2}
  Senders = {w1}
  Sockets = {s1, s2}
  TlsModes = {FALSE, TRUE}
  NoThread = NoThread
  NoFd = NoFd
INVARIANTS ClientIsSafe OffMeansOff
PROPERTIES CallsReturn LossNoticed
