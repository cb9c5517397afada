CONSTANTS
  Scheduled = {}
  Manual = {m}
  Parts = 2
  Messages <- MCMessages
  MaxAttempts = 3
  StaleTicks = 2
  MaxDeaths = 1
  LeasesHold = FALSE
  RunsShort = TRUE
SPECIFICATION FairSpec
INVARIANTS OneRunAtATime LogTellsWhatLeft
PROPERTY DeadRunLetsGo
CHECK_DEADLOCK FALSE
