CONSTANTS
  DayTicks = 4
  CycleDays = 2
  SearchDays = 3
  Times = {1, 2}
  Starts = {0, 3}
  Steps = {2, 3}
  Forms <- MCForms
  Default <- MCDefault
  LastTick = 12
  MaxSaves = 2
SPECIFICATION Spec
INVARIANTS StateIsConsistent
PROPERTIES OncePerSlot FirstMailInTime
CHECK_DEADLOCK FALSE
