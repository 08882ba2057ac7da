SPECIFICATION Spec
CONSTANTS
  Threads = {t1}
  ProdThreads = {}
  Tasks = {k1, k2, k3}
  Proposals <- MCProposals
  Faults = {"overlap"}
  WorkerOf <- OneWorker
  None = None
SYMMETRY TaskSymmetry
INVARIANT RejectionRunsNothing
CHECK_DEADLOCK FALSE
