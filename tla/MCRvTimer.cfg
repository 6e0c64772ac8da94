SPECIFICATION CalibratedSpec
CONSTANTS
  Half = 3
  Comparator = {c1, c2}
  TickStep <- MCTickStep
  Threshold <- MCThreshold
  ClockFreq <- MCFreq
  CounterFreq <- MCFreq
  PrescaleMask = 11
  StepMask = 5
  c1 = c1
  c2 = c2
SYMMETRY MCSymmetry
INVARIANTS NoFalseAlarm TickParamsRight
PROPERTIES ReadIsInstant ResetQuiesces
CHECK_DEADLOCK FALSE
