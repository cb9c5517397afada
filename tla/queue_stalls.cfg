CONSTANTS
  Jobs = {1}
  Workers = {w1, w2, w3}
  Slots = {1, 2}
  Tasks = {report, mail, oracle}
  NoRerun = {mail}
  Detached = {mail}
  SlotTasks = {oracle}
  NoJob = NoJob
  NoWorker = NoWorker
  NoTask = NoTask
  MaxAttempts = 2
  LeaseTicks = 2
  ClientTicks = 1
  BackoffTicks = 1
  MemoryTicks = 1
  PoolSize = 2
  MaxCrashes = 1
  MaxInflight = 2
  MaxLocked = 1
  Timely = FALSE
SPECIFICATION Spec
INVARIANTS MailStartsOnce Inductive
PROPERTIES ResultOfCurrentAttempt DetachedSurvivesTab ImplementsLifecycle
SYMMETRY WorkerSymmetry
CHECK_DEADLOCK FALSE
