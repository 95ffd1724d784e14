\* One float parameter, given every Lua value; widths as in Invoke.cfg.
CONSTANTS
  PodCount    = 2
  DoubleBits  = 4
  FloatBits   = 3
  WideBits    = 5
  IntBits     = 3
  ByteBits    = 2
  EightDigits = 4
  NullObj     = NullObj
  Calls      <- MCNumberCalls
  Objects     = {o1}
  Floats     <- MCFloats
  MaxEpoch    = 1
  MaxCalls    = 2
SPECIFICATION Spec
INVARIANTS
  ArgumentsAreAsDocumented
\* Lua makes only MaxCalls calls.
CHECK_DEADLOCK FALSE
