SPECIFICATION Spec
CONSTANTS
  Workers = {"w1", "w2"}
  Runs <- MCRuns
  Requested = {"requested1", "requested2"}
  WorkerOf <- MCWorkerOf
  MaxClusters = 2
  MaxHour = 2
  Plans <- MCPlans
INVARIANT SavedIsStored
PROPERTY SnapshotAtOnce
PROPERTY EveryRunEnds
CHECK_DEADLOCK FALSE
