\* Widths small enough to try every value of the engine's, with the order of the real ones.
CONSTANTS
  PodCount    = 2
  DoubleBits  = 4
  FloatBits   = 3
  WideBits    = 5
  IntBits     = 3
  ByteBits    = 2
  EightDigits = 4
  NullObj     = NullObj
  Calls      <- MCCalls
  Objects     = {o1}
  Floats     <- MCFloats
  MaxEpoch    = 1
  MaxCalls    = 2
SPECIFICATION Spec
INVARIANTS
  TypeOK
  ArgumentsArrive
  ResultsArrive
  RoundTrip
  CleanFailure
\* Lua makes only MaxCalls calls.
CHECK_DEADLOCK FALSE
