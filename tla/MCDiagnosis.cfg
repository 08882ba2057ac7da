SPECIFICATION Spec
CONSTANTS
  Workers = {"w1", "w2"}
  Tasks = {"t1", "t2", "t3"}
  Alerts = {"a1", "a2", "a3"}
  ProdAlerts = {"a1"}
  CanaryAlerts = {"a1", "a2"}
  BatchSize = 2
  CacheSize = 2
  MinSuccess = 1
  MaxFaults = 1
  WorkerOf <- MCWorkerOf
  ThreadOf <- MCThreadOf
  ServiceOf <- MCServiceOf
  Proposals <- MCProposals
  Scenarios <- MCScenarios
INVARIANT EvidenceFits
INVARIANT CountersAgree
INVARIANT CollectionOnce
INVARIANT EmbeddingsFit
PROPERTY EveryTaskEnds
CHECK_DEADLOCK FALSE
