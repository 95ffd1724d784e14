\* Messages that fill the buffer.
CONSTANTS
  BufSize = 10
  PrefixLen = 3
  Lengths = {0, 1, 4, 5, 6, 9}
  MaxLines = 2
SPECIFICATION Spec
INVARIANT EveryLineEnds
