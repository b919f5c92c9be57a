CONSTANTS
  MaxTasks = 3
  NumWorkers = 2
  NumIO = 0
  NumExternal = 1
  Capacity = 1
  kGlobalCheckInterval = 2
  Workloads <- PassingWorkloads
SPECIFICATION FairSpec
INVARIANTS TypeOK EveryTaskInOnePlace
PROPERTIES EveryTaskRuns GlobalQueueServed StopReturns
