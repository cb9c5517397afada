CONSTANTS
  Launches = {w1, w2, w3}
  Roles = {"scheduler", "uvicorn"}
  Forked = {"uvicorn"}
  None = None
  NoOne = NoOne
  Schedulers <- MCProcesses
  RunNows = {a}
  DayMinutes = 2
  MaxBackups = 2
  Nobody = Nobody
  MaxMinute = 3
  Uploads = {u1, u2}
  Reports = {r1, r2}
  Previews = {p}
  Sweepers <- MCProcesses
  TokenTtl = 2
  PreviewKeep = 2
  SweepEvery = 1
  Keeps = {1, 2}
  NoUpload = NoUpload
  MaxNow = 4
  Scenarios <- MCScenarios
  Logins = {l1, l2, l3}
  Activities = {a1, a2}
  Logouts = {o}
  Resets = {s1, s2}
  Links = {k}
  Removals = {d1, d2}
  Admins = {x, y}
  ClientKey = "client"
  AccountKey = "account"
  Callers <- MCCallers
  LimitKeys <- MCLimitKeys
  Limit = 2
  Window = 2
  LockWait = 1
  SessionIdle = 2
  MaxTime = 2
SPECIFICATION Spec
SYMMETRY MCSymmetry
INVARIANTS StateIsConsistent OneScheduler DutiesKeepWhatIsNeeded AccessRight
CHECK_DEADLOCK FALSE
