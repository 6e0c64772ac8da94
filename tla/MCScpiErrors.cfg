CONSTANTS
  QueueSize = 2
  MaxPush = 4
  ErrorCode <- MCErrorCode
  EventMask <- MCEventMask
  RequestMask <- MCRequestMask
  DeviceBit = {"b0"}
SPECIFICATION ErrorsSpec
INVARIANTS
  OverflowAccounting
  QmaMeansWaiting
  RequestIsCurrent
  SummaryHasEvent
PROPERTIES
  ImplementsErrorQueue
  ClsClearsStatus
  RequestIsSignalled
