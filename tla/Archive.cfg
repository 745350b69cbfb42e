SPECIFICATION FairSpec
CONSTANTS
  Workers = {w1, w2}
  MaxCaptures = 2
  NumObjects = 2
  MaxRetries = 2
  StaleAfter = 1
  MaxSelectTicks = 1
  MaxFaults = 1
INVARIANTS PayloadsAreSafe
PROPERTIES ClearsOnlyWhatIsStored EveryPayloadSettles
