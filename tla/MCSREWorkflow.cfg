SPECIFICATION Spec
CONSTANTS
  Threads = {t1}
  ProdThreads = {}
  Tasks = {k1, k2, k3}
  Proposals <- MCProposals
  Faults = {"abort", "audit", "overlap"}
  WorkerOf <- OneWorker
  None = None
SYMMETRY TaskSymmetry
INVARIANT CommandWasApproved
INVARIANT AtMostOneLaunch
INVARIANT SuccessIsAudited
INVARIANT NoStrandedThread
CHECK_DEADLOCK FALSE
