\* One call and one loss, with mutexes that block when they are locked twice.
SPECIFICATION Spec
CONSTANTS
  Callers = {u1}
  Reader = reader
  Threads = {u1, reader}
  NotANumber = NotANumber
  Open = Open
  Calls <- MCCalls
  Knobs <- MCKnobs
  Noise <- MCNoise
  RelockBlocks = TRUE
  MaxCalls = 1
  MaxTurns = 0
PROPERTY StepsEnd
CHECK_DEADLOCK FALSE
