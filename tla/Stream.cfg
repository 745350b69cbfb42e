CONSTANTS
  Keys = {k1}
  FailureThreshold = 2
  RecoveryTiers <- DefaultTiers
  LatencyBuckets = {1}
  Streams = {t1}
  Modes = {"verbatim", "transcode"}
  Kinds = {"delta", "error", "terminal", "failed", "finish", "bad"}
  EndMarkers = {TRUE, FALSE}
  MaxChunks = 2
  Capacity = 1
  MaxFaults = 1
SPECIFICATION FairSpec
CHECK_DEADLOCK FALSE
INVARIANTS RowIsTrue RowAndHealthAgree FramesAreWhole
PROPERTIES UsageIsCaptured
