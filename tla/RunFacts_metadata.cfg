CONSTANTS
  pre = pre
  per = per
  dev = dev
  int = int
  p1 = p1
  c1 = c1
  c2 = c2
  none = none
  Runs = {per}
  Envs = {int}
  EnvOf <- MCEnvOf
  LookupEnvs = {}
  RegionRuns = {per}
  AliasedRuns = {per}
  Pulls = {p1}
  NoPull = none
  SHAs = {c1}
  NoSHA = none
  RunPull <- MCRunPull
  RunSHA <- MCRunSHA
  Sources = {"sippy", "prow"}
  Enrichers = {"source.prow.metadata"}
  TimingOutcomes = {"complete", "incomplete", "forbidden"}
  RegionOutcomes = {"found", "invalid", "missing"}
  RetryWindow = 1
  MaxTime = 2
  MaxPullRevs = 0
  MaxCorrections = 0
SPECIFICATION MetaFairSpec
INVARIANTS TypeOK MetadataGroupsWhole
PROPERTIES FirstCheckedFixed MetadataSettles
CHECK_DEADLOCK FALSE
