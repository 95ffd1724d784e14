\* A chunk that raises, required again.
CONSTANTS
  Names = {"a", "b", "missing", "broken", "up"}
  Sources = {"a", "b", "broken"}
  Broken = {"broken"}
  Dotted = {"up"}
  Results = {"table"}
  MaxAsked = 5
SPECIFICATION Spec
INVARIANT CircularMeansInProgress
CHECK_DEADLOCK FALSE
