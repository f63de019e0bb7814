\* Two threads that initialise, destroy and call; one engine and one reference more
\* than there may be.  A thread that hangs may leave every other one waiting for it.
SPECIFICATION Spec
CONSTANTS
  Callers = {c1, c2}
  Engines = {e1, e2}
  Refs = {g1, g2}
  Quiet = TRUE
  ReadThread = reader
  Null = Null
INVARIANTS OneEngine NothingDangles
PROPERTY CallsReturn
CHECK_DEADLOCK FALSE
