\* Three descriptors, so that a number is reused beside the client's; two listeners; a
\* line buffer of two reads, so that it fills and overflows.
SPECIFICATION Spec
CONSTANTS
  Fds = {1, 2, 3}
  Listeners = {l1, l2}
  MaxReads = 2
  MaxLines = 2
  Careful = TRUE
  Owner = owner
  Reader = reader
  Nobody = Nobody
  NoFd = NoFd
INVARIANTS TypeOK ListenersInformed StartsAfresh
PROPERTIES ClosesItsOwn NothingHangs
