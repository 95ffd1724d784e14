\* Two modules that may require each other, one that is missing, one broken.
CONSTANTS
  Names = {"a", "b", "missing", "broken", "up"}
  Sources = {"a", "b", "broken"}
  Broken = {"broken"}
  Dotted = {"up"}
  Results = {"table"}
  MaxAsked = 5
SPECIFICATION Spec
INVARIANTS TypeOK EachNameRunsOnce
PROPERTY ResultsAreFinal
CHECK_DEADLOCK FALSE
