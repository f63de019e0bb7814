\* Two calls, one thing the radio does by itself, one loss.  The two mutexes of the
\* code may deadlock (RadioLocks), and calls are bounded: the system stops.
SPECIFICATION Spec
CONSTANTS
  Callers = {u1}
  Reader = reader
  Threads = {u1, reader}
  NotANumber = NotANumber
  Open = Open
  Calls <- MCCalls
  Knobs <- MCKnobs
  Noise <- MCNoise
  RelockBlocks = FALSE
  MaxCalls = 2
  MaxTurns = 1
INVARIANTS TypeOK MirrorsRadio RadioObeys ViewIsCurrent
CHECK_DEADLOCK FALSE
