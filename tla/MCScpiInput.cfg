\* the sender stops at the end of its stream
CHECK_DEADLOCK FALSE
SPECIFICATION Spec
CONSTANTS
  Streams <- MCStreams
  BufferLength = 12
  Careless = {}
  MaxFlushes = 1
INVARIANTS TypeOK RoundsAdvance ChunksDoNotMatter NoLineWaits AnswersFramed
