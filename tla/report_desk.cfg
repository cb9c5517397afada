CONSTANTS
  Parties <- MCParties
  Locations <- MCLocations
  CfLocations <- MCCfLocations
  Groups <- MCGroups
  RatioSets <- MCRatioSets
  Lines <- MCLines
  Clerks = {"ann", "bob"}
  Amount <- MCAmount
  Date <- MCDate
  Desc <- MCDesc
  NamedLike <- MCNamedLike
  None = None
  Jobs = {"old", "j1", "j2"}
  Files <- MCFiles
  Statements <- MCStatements
  Unreadable = "bad"
  Months <- MCMonths
  Scenarios <- MCScenarios
  Idle = Idle
  NoView = NoView
  Keys = {"a", "b", "c"}
  Values = {"x", "y", "learnt", "seed"}
  Editors = {"ann", "bob"}
  ReportJobs = {"r", "q"}
  Seeders = {"s1", "s2"}
  SeedRows <- MCSeedRows
  SeedList = {"b"}
  Learnt <- MCLearnt
  StoreScenarios <- MCStoreScenarios
  NoEdit = NoEdit
  NoRows = NoRows
  Unset = Unset
  Bills = {"b1", "b2", "b3", "b4", "b5"}
  Bill <- MCBill
  MonthEnds <- MCMonthEnds
  Derived = {"HOME"}
  Sites = {"S", "T", "HOME"}
  Codes = {"L"}
  Regions = {"r1", "r2"}
  Vendors = {"v", "w"}
  Invoices = {"i", "j"}
  Threads = {1, 3}
  Accountants = {"ann", "bob"}
  PayScenarios <- MCPayScenarios
  Nobody = Nobody
  Missing = Missing
  Slices = {"s1", "s2"}
  Batches = {"b1", "b2"}
  BuildScenarios <- MCBuildScenarios
  Parcels <- MCParcels
  FileSize <- MCFileSize
  NotSent = NotSent
  OpenInvoices = {"i1", "i2", "i3", "i4", "i5"}
  Receipts = {"r1", "r2", "r3", "r4", "r5"}
  Invoice <- MCInvoice
  Receipt <- MCReceipt
  RegionOf <- MCRegionOf
  Names = {"YARD", "PUNE"}
  Places = {"Pune", "PUNE", "Goa", "YARD"}
  Upper <- MCUpper
  Debtors <- MCDebtors
  Absent = Absent
SPECIFICATION Spec
INVARIANTS LinesKept SheetsRight BuildIsHonest
PROPERTIES ArchiveUnplacesNothing MappingsKept StopsWhenTold
CHECK_DEADLOCK FALSE
