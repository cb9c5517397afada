CONSTANTS
  Jobs = {1}
  Workers = {w1, w2, w3}
  Slots = {1}
  Tasks = {report, oracle}
  NoRerun = {}
  Detached = {}
  SlotTasks = {oracle}
  NoJob = NoJob
  NoWorker = NoWorker
  NoTask = NoTask
  MaxAttempts = 2
  LeaseTicks = 2
  ClientTicks = 1
  BackoffTicks = 1
  MemoryTicks = 1
  PoolSize = 2
  MaxCrashes = 1
  MaxInflight = 1
  MaxLocked = 0
  Timely = TRUE
SPECIFICATION HungSpec
PROPERTIES StopTakesEffect
CHECK_DEADLOCK FALSE
