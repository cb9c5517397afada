CONSTANTS
  Capitals <- MCCapitals
  NoDay = NoDay
  NoReport = NoReport
  NotYet = NotYet
  Stripped <- MCStripped
  Tolerance = 1
  Usual <- MCUsual
  Inputs <- MCInputs
  Builtin <- MCBuiltin
  SpecialSites <- MCSpecial
  Legacy <- MCLegacy
  ErpRegions <- MCErp
  Upper <- MCUpper
  Fold <- MCFold
  Nobody = Nobody
  One = 100
  EvalLimit = 4
  RkBits = 8
  Plain = {0, 1}
  MaxCol = 4
  NamesIn <- MCNames
  Mailbox <- MCMailboxes
  StandingCc <- MCStanding
  BroadcastCc <- MCEveryone
  NoAddress = NoAddress
  Sends = {1, 2}
  Caseless <- MCCaseless
  Trimmed <- MCTrimmed
  Invalid = {"bad"}
  BulkScenarios <- MCMailings
  NoFile = NoFile
SPECIFICATION ReportsSpec
INVARIANTS LedgersRight TransactionsRight OpenItemsRight CombinedRight
           RegionsRight FilesRight BulkMailRight
CHECK_DEADLOCK FALSE
