CONSTANTS
  k1 = k1
  k2 = k2
  Keys = {k1, k2}
  Workers = {w1, w2}
  NoKey = none
  MaxVersion <- MCMaxVersion
SPECIFICATION FairSpec
INVARIANTS TypeOK OneWorkerPerKey NoLostRequest
PROPERTIES KeepsPromise EveryChangeCovered WorkersEnd
CHECK_DEADLOCK FALSE
