SPECIFICATION FairSpec
CONSTANTS
  i1 = i1  i2 = i2  t1 = t1  t2 = t2
  None = None
  Instances = {i1, i2}
  Tasks = {t1, t2}
  Scenarios <- MCScenarios
  MaxToken = 3
  MaxCred = 2
INVARIANTS GrantsAreSingle 
PROPERTIES RefreshesAreSound EveryTaskEnds
