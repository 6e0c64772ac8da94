CHECK_DEADLOCK FALSE
SPECIFICATION Spec
CONSTANTS
  Count = 5
  Depth = 3
PROPERTIES ApplicationEnds
