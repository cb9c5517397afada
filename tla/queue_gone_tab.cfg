CONSTANTS
  Jobs = {1}
  Workers = {w1, w2}
  Slots = {1}
  Tasks = {report}
  NoRerun = {}
  Detached = {}
  SlotTasks = {}
  NoJob = NoJob
  NoWorker = NoWorker
  NoTask = NoTask
  MaxAttempts = 2
  LeaseTicks = 2
  ClientTicks = 1
  BackoffTicks = 1
  MemoryTicks = 0
  PoolSize = 2
  MaxCrashes = 0
  MaxInflight = 1
  MaxLocked = 0
  Timely = FALSE
SPECIFICATION FairSpec
PROPERTIES GoneTabEnds
CHECK_DEADLOCK FALSE
