SPECIFICATION FairSpec
CONSTANTS
  Callers = {c1, c2, c3}
  FailureThreshold = 5
  RecoveryTimeout = 3
  HalfOpenMaxCalls = 3
  MaxRetries = 3
  None = None
INVARIANT NoCallWhileOpen
PROPERTY ImplementsDiagram9
PROPERTY EveryCallReturns
PROPERTY ClosesAfterRecovery
