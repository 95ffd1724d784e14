\* Two rows of any two kinds, with values Lua may get wrong.
\* Two words of two bits, of which three are legal; 4 and 6 alias legal ones modulo the array.
CONSTANTS
  Rows          = {r1, r2}
  Kinds         = {"value", "podin", "handle", "number", "flag", "object", "inline", "elapsed", "state", "touch"}
  Lo            = 0
  Hi            = 1
  LuaNumbers   <- MCNumbers
  Objects       = {o1}
  NullObj       = NullObj
  WordBits      = 2
  WordCount     = 2
  BitMax        = 2
  BadBits       = {4, 6}
  MaxSteps      = 3
  MaxDispatches = 2
SPECIFICATION MCSpec
INVARIANTS
  TypeOK
  RowsArrive
  BitsAreIndependent
SYMMETRY TwoRows
\* The context is passed on only MaxDispatches times.
CHECK_DEADLOCK FALSE
