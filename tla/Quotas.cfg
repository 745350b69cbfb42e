SPECIFICATION QuotaSpec
CONSTANTS
  Minute = 2
  Day = 3
  RpmLimit = 2
  RpdLimit = Unlimited
  TpmLimit = 3
  TpdLimit = 4
  Unlimited = Unlimited
  TokenSizes = {1, 2}
  Start = 3
  MaxTime = 9
  MaxRedisTime = 6
  Requests = {r1, r2}
  Faults = {"connect", "script"}
SYMMETRY RequestSymmetry
INVARIANTS LimitsHold UsageIsHonest
PROPERTIES DeniedConsumesNothing
