\* Only the order of the priorities matters: 1 is below the floor, 2 is the
\* floor itself, 3 and 4 are ordinary priorities.
CONSTANTS
  Priorities  = {1, 2, 3, 4}
  Floor       = 2
  MaxHandlers = 3
  MaxRuns     = 2
SPECIFICATION Spec
INVARIANTS
  TypeOK
  ModsAreToldBeforeTeardown
  NoThunkWithoutLua
\* The game ends: no further start is modelled after the last run.
CHECK_DEADLOCK FALSE
