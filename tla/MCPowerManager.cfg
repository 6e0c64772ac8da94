\* a core that is lost executes nothing
CHECK_DEADLOCK FALSE
SPECIFICATION Spec
CONSTANTS
  Kind <- MCKind
  Contents = {"r1", "r2"}
INVARIANTS RegistersKept OffIsRecoverable IsolatedWhileOff
PROPERTIES MaskedCallReturns ResetSpansPowerUp
