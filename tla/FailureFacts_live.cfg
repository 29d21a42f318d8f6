CONSTANTS
  junit1 = junit1
  junit2 = junit2
  f1 = f1
  blank = blank
  Runs = {r1}
  ImportedRuns = {}
  Paths = {junit1}
  Failures = {f1}
  PathOf <- MCPathOf
  Illegible = {}
  Marker = marker
  Synthetic = synthetic
  Times = {t1, t2}
  NoTime = blankTime
  RetryWindow = 1
  MaxTime = 2
  MaxChanges = 2
SPECIFICATION FairSpec
PROPERTIES FailedRunsGetRawFailures
CHECK_DEADLOCK FALSE
