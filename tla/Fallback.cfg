CONSTANTS
  NoAccount = NoAccount
  Keys = {1, 2}
  FailureThreshold = 2
  RecoveryTiers <- RouteTiers
  LatencyBuckets = {1}
  ErrorStatuses = {401, 429}
  ErrorCodes = {"none"}
  ErrorTexts = {"400", "other"}
  Requests = {r1, r2}
  ChainLength = 3
  KeyOf <- RouteKeys
  AccountOf <- RouteAccounts
  WeightOf <- RouteWeights
  OAuthTargets = {1}
  Strategies = {"weighted", "latency"}
  MaxTotalAttempts = 2
  Deadline = 0
  RetryAfterSecs = {1}
  DefaultCooling = 1
  AuthCooling = 1
  LatencyShift = 2
  MaxNow = 1
SPECIFICATION FairSpec
CHECK_DEADLOCK FALSE
INVARIANTS TypeOK ExhaustedMeansAllTried BackoffUnreachable LoopIsSound
PROPERTIES EveryRequestEnds
