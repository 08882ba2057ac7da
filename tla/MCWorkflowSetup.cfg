SPECIFICATION FairSpec
CONSTANT Tasks = {t1, t2, t3}
INVARIANT SetUpInOrder
PROPERTY CalmTaskSucceeds
PROPERTY EveryTaskReturns
