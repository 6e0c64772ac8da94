\* the application ends, and so does the host's script
CHECK_DEADLOCK FALSE
SPECIFICATION TeeSpec
CONSTANTS
  Scripts <- MCScripts
  LineLength = 10
  BufferLength = 10
  Streams = {}
  Careless <- MCCareless
  MaxFlushes = 0
  RxDepth = 2
  MaxLost = 2
INVARIANTS LinesAsSent LineRunsAlone LinesApart
PROPERTY EveryLineServed
