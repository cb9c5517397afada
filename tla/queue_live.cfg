CONSTANTS
  Jobs = {1, 2}
  Workers = {w1, w2}
  Slots = {1}
  Tasks = {oracle}
  NoRerun = {}
  Detached = {oracle}
  SlotTasks = {oracle}
  NoJob = NoJob
  NoWorker = NoWorker
  NoTask = NoTask
  MaxAttempts = 2
  LeaseTicks = 2
  ClientTicks = 1
  BackoffTicks = 1
  MemoryTicks = 1
  PoolSize = 2
  MaxCrashes = 1
  MaxInflight = 1
  MaxLocked = 1
  Timely = TRUE
SPECIFICATION FairSpec
INVARIANTS OneLeasedRunner
PROPERTIES EveryJobSettles
CHECK_DEADLOCK FALSE
