CONSTANTS
  dev = dev  int = int  mon = mon
  r1 = r1  r3 = r3  batch = batch
  Runs = {r1, r3, batch}
  Envs = {dev, int}
  EnvOf <- MCEnvOf
  Days = {mon}
  DayOf <- MCDayOf
  Dev = dev
  BatchRuns = {batch}
  MaxChanges = 3
SPECIFICATION FairSpec
INVARIANTS TypeOK LanesConsistent NoApparentSuccess
PROPERTY MetricsConverge
CHECK_DEADLOCK FALSE
