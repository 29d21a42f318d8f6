\* Three runs and four failures over two weeks of two days; two environments
\* loaded at once; two runs and metrics of three releases over three days; a
\* clock that passes the end of a week and of a sprint, windows two sprints around.
SPECIFICATION Spec
CONSTANTS
  Week = 2
  HistoryWeeks = 1
  SignalWeeks = 1
  WeakPhrases = {2}
  AlertIdentity <- MCAlertIdentity
  RunEnv <- MCRunEnv
  RunPRs <- MCRunPRs
  RunTimes <- MCRunTimes
  FailureRun <- MCFailureRun
  Shapes <- MCShapes
  Scopes <- MCScopes
  EnvChoices <- MCEnvChoices
  MaxRestates = 1
  LoadEnvs = {"dev", "int"}
  LoadRuns = {"u1", "u2"}
  LoadRunEnv <- MCLoadRunEnv
  LoadRows = {"x", "y"}
  LoadRowRun <- MCLoadRowRun
  Unstored = 0
  LoadDays = {1, 2}
  LoadWindow = {2}
  MaxLoads = 2
  MaxWrites = 4
  t1 = t1  t2 = t2
  TrendRuns <- MCTrendRuns
  TrendDays = {1, 2, 3}
  Today = 3
  TrendQueries <- MCTrendQueries
  TargetRate = 95
  NearTarget = 90
  NoDate = NoDate
  DayTicks = 2
  FirstDate <- MCFirstDate
  LastDate = 41
  FirstToday = 12
  LastToday = 15
  Weeks = {0, 7, 14}
  DefaultWeek = 7
  RelativeDays = {1, 7, 30}
  Entries <- MCEntries
SYMMETRY MCSymmetry
INVARIANTS FrontendTypeOK FlagJustified SurfacesAgree NewMeansUnseen LoadKeepsStoredRows TrendsHonest OverviewMatchesTrends NavigationSound
CHECK_DEADLOCK FALSE
