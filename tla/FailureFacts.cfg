CONSTANTS
  junit1 = junit1
  junit2 = junit2
  f1 = f1
  blank = blank
  Runs = {r1}
  ImportedRuns = {r1}
  Paths = {junit1, junit2}
  Failures = {f1, blank}
  PathOf <- MCPathOf
  Illegible = {blank}
  Marker = marker
  Synthetic = synthetic
  Times = {t1, t2}
  NoTime = blankTime
  RetryWindow = 1
  MaxTime = 3
  MaxChanges = 2
SPECIFICATION Spec
INVARIANTS TypeOK MarkerEarned RawFollowsArtifacts
PROPERTIES ArtifactRowsFinal
CHECK_DEADLOCK FALSE
