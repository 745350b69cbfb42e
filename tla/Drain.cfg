SPECIFICATION FairSpec
CONSTANTS
  Requests = {r1, r2}
  Capacity = 1
  MaxSignals = 2
INVARIANTS DrainIsOrderly
PROPERTIES SignalsAreHeard
