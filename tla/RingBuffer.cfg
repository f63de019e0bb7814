\* Four slots and positions modulo 8: they wrap, and the buffer fills and empties
\* from every offset.  Two values of a sample tell an old one from a new one.
SPECIFICATION Spec
CONSTANTS
  Samples = {0, 1}
  Capacity = 4
  Modulus = 8
  MaxCount = 3
INVARIANT RaceFree
PROPERTY ImplementsQueue
