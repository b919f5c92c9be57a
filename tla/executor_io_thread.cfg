CONSTANTS
  MaxTasks = 3
  NumWorkers = 1
  NumIO = 1
  NumExternal = 0
  Capacity = 1
  kGlobalCheckInterval = 2
  Workloads <- SingleWorker
SPECIFICATION Spec
INVARIANTS EveryTaskInOnePlace
