\* the application stops when it is done, and in the race of CheckFlag and Wfi
SPECIFICATION HostSpec
CONSTANTS
  Count = 4
  Depth = 3
  Slot = {s1, s2, s3}
  NoSlot = none
  MaxCalls = 7
INVARIANTS DoneMeansMoved QuietAfterHandler SentIsKept
PROPERTIES RunIsAnswered
CHECK_DEADLOCK FALSE
