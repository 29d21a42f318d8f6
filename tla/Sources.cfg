\* Releases 1, 2 and 3 of the schema start together; three pull requests on pages
\* of one, two pages a sync; two workers, two days, two filters; and two syncs of
\* runs that overlap, four ticks of the clock.
SPECIFICATION SourcesSpec
CONSTANTS
  Procs = {"old", "new", "newer"}
  NoProc = "nobody"
  Embeds <- MCEmbeds
  Pulls = {1, 2, 3}
  Never = 0
  PerPage = 1
  MaxPages = 2
  LastSecond = 3
  MaxEdits = 2
  Workers = {w1, w2}
  Periods <- MCPeriods
  Filters <- MCFilters
  LastDay = 2
  MaxStat = 1
  e2e = e2e  periodic = periodic  a = a  b = b
  Runs = {a, b}
  Jobs = {e2e, periodic}
  JobOf <- MCJobOf
  Unmappable <- MCUnmappable
  Syncs = {daemon, once}
  Sources = {"sippy", "prow"}
  Replay <- MCReplay
  Window <- MCWindow
  Hour = 2
  MaxListing = 1
  NoTime = never
  MaxTime = 4
INVARIANTS SourcesTypeOK NothingSkipped SyncFindsAll SchemaExact NoUpdateSkipped
PROPERTY DatapointFrozen
CHECK_DEADLOCK FALSE
