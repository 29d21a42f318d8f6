CONSTANTS
  pre = pre  per = per  dev = dev  int = int  p1 = p1  c1 = c1  c2 = c2  none = none
  Runs = {pre}
  Envs = {dev}
  EnvOf <- MCEnvOf
  LookupEnvs = {dev}
  RegionRuns = {}
  AliasedRuns = {}
  Pulls = {p1}
  NoPull = none
  SHAs = {c1, c2}
  NoSHA = none
  RunPull <- MCRunPull
  RunSHA <- MCRunSHA
  Sources = {"sippy", "prow"}
  Enrichers = {"facts.runs"}
  TimingOutcomes = {}
  RegionOutcomes = {}
  RetryWindow = 0
  MaxTime = 1
  MaxPullRevs = 1
  MaxCorrections = 1
SPECIFICATION Spec
INVARIANT SignalsJustified
CHECK_DEADLOCK FALSE
