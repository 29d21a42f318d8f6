\* A reader in the first sprint; windows one sprint around.
SPECIFICATION NavigationSpec
CONSTANTS
  NoDate = NoDate
  DayTicks = 1
  FirstDate <- MCFirstDate
  LastDate = 27
  FirstToday = 3
  LastToday = 4
  Weeks = {0}
  DefaultWeek = NoDate
  RelativeDays = {1, 7, 30}
  Entries <- MCEntries
INVARIANT SprintContainsDate
CHECK_DEADLOCK FALSE
