SPECIFICATION ClientsSpec
CONSTANTS
  Workers = {"w1", "w2"}
  Tasks = {"t1", "t2", "t3", "t4"}
  WorkerOf <- MCWorkerOf
  Statuses = {"open", "approved", "closed"}
  MaxRetries = 1
  MaxFaults = 2
  MaxMoves = 1
  Scenarios <- MCScenarios
INVARIANT FindsOpenPool
INVARIANT OneEffect
INVARIANT UpdateIsWhole
CHECK_DEADLOCK FALSE
