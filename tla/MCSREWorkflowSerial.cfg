SPECIFICATION FairSpec
CONSTANTS
  Threads = {t1, t2}
  ProdThreads = {t2}
  Tasks = {k1, k2, k3}
  Proposals <- MCProposals
  Faults = {"abort", "audit"}
  WorkerOf <- TwoWorkers
  None = None
INVARIANT CommandIsAllowed
INVARIANT TicketedPlanRuns
PROPERTY ImplementsDiagram3
PROPERTY EveryTaskEnds
CHECK_DEADLOCK FALSE
