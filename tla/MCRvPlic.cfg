SPECIFICATION Spec
CONSTANTS
  Source <- MCSource
  Priority = {0, 1, 2}
  MaxNest = 2
  MaxRequests = 3
  MaxChanges = 4
  MaxReboots = 1
INVARIANTS ClaimsApart SettingsKept
PROPERTIES LevelServed
CHECK_DEADLOCK FALSE
