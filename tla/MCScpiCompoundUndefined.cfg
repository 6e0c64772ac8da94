CHECK_DEADLOCK FALSE
SPECIFICATION Spec
CONSTANTS
  Sessions <- MCSessions
INVARIANTS ResolvesAgainstPrevious
