CONSTANTS
  dev = dev  int = int  lab = lab
  Clients = {c1}
  Refresher = refresher
  Envs = {dev, int, lab}
  PrimaryEnvs = {dev, int}
  Asked <- MCAsked
  Week = 2
  Envelope = 3
  TTL = 1
  OverBudget = {1}
  NoSnapshot = noSnapshot
  NoTick = noTick
  MaxTime = 2
  MaxVersion = 2
SPECIFICATION FairSpec
INVARIANTS TypeOK AnswersCover
PROPERTIES RequestsEnd CacheCatchesUp
CHECK_DEADLOCK FALSE
