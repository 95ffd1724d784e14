\* A buffer of ten bytes, messages from empty to longer than it.
CONSTANTS
  BufSize = 10
  PrefixLen = 3
  Lengths = {0, 1, 4, 5, 6, 9}
  MaxLines = 3
SPECIFICATION Spec
INVARIANTS TypeOK DiskHoldsThisRun BufferIsBigEnough
