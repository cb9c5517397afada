CONSTANTS
  Scheduled = {s, t}
  Manual = {c}
  Mails = {m}
  MaxAttempts = 2
  Accounts = {a, b}
  Balances = {0, 1}
  Threshold = 1
  Interval = 1
  Repeat = 2
  Lease = 1
  DayTicks = 2
  MorningAt = 1
  CheckMaxAttempts = 2
  Batch = 2
  None = None
  Modes <- MCModes
  MaxTime = 2
  Scenarios <- MCScenarios
SPECIFICATION Spec
SYMMETRY MCSymmetry
INVARIANTS StateIsConsistent OneCheckOneMail RemindersRight
CHECK_DEADLOCK FALSE
