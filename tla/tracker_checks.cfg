CONSTANTS
  Scheduled = {s, t}
  Manual = {c}
  Mails = {m}
  MaxAttempts = 2
  QueueLease = 1
  Window = 1
  FirstLease = 2
  Pages = 1
  CheckMaxAttempts = 2
  DayTicks = 2
  MorningAt = 1
  None = None
  MaxTime = 4
  Scenarios <- MCScenarios
SPECIFICATION Spec
SYMMETRY MCSymmetry
INVARIANTS StateIsConsistent OneCheckOneMail DeadCheckLetsGo
CHECK_DEADLOCK FALSE
