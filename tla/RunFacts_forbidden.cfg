CONSTANTS
  pre = pre  per = per  dev = dev  int = int  p1 = p1  c1 = c1  c2 = c2  none = none
  Runs = {pre}
  Envs = {dev}
  EnvOf <- MCEnvOf
  LookupEnvs = {dev}
  RegionRuns = {}
  AliasedRuns = {}
  Pulls = {p1}
  NoPull = none
  SHAs = {c1}
  NoSHA = none
  RunPull <- MCRunPull
  RunSHA <- MCRunSHA
  Sources = {"sippy"}
  Enrichers = {"facts.runs", "source.prow.metadata"}
  TimingOutcomes = {"forbidden", "missing"}
  RegionOutcomes = {}
  RetryWindow = 1
  MaxTime = 2
  MaxPullRevs = 1
  MaxCorrections = 0
SPECIFICATION Spec
PROPERTY TerminalMetadataFinal
CHECK_DEADLOCK FALSE
