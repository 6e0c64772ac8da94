\* the parser stops at the end of the message
CHECK_DEADLOCK FALSE
SPECIFICATION Spec
CONSTANTS
  Sessions <- MCSessions
INVARIANTS UnreadUntouched FoundChainResolves MatchesAsDeclared NumbersInPlace
