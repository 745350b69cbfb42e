------------------------------- MODULE Quotas -------------------------------
(***************************************************************************)
(* The quota counter of a gateway process, one API key: app.rs takes the   *)
(* counter in Redis when a URL is configured and the feature is compiled   *)
(* in, else the one in memory (RedisQuota::new), and never changes it.     *)
(***************************************************************************)
EXTENDS Quota, TLC

CONSTANTS
  Requests,     \* requests that run against Redis at the same time
  Faults,       \* failures of Redis that may happen
  MaxRedisTime  \* bound on the clock when the counters are in Redis

ASSUME RedisAssumption ==
  Faults \subseteq {"connect", "script"} /\ MaxRedisTime \in Start..MaxTime

VARIABLES
  kept,  \* where the counters are kept: "memory" or "redis"
  now, log, counter, answer, key, req

memoryVars == <<counter, answer>>
redisVars == <<key, req>>
quotaVars == <<kept, now, log, memoryVars, redisVars>>

Memory == INSTANCE QuotaMemory
Redis == INSTANCE QuotaRedis

\* Requests are told apart by nothing.
RequestSymmetry == Permutations(Requests)

QuotaInit == kept \in {"memory", "redis"} /\ Memory!Init /\ Redis!Init

QuotaNext ==
  \/ kept = "memory" /\ Memory!Next /\ UNCHANGED <<kept, redisVars>>
  \/ kept = "redis" /\ Redis!Next /\ UNCHANGED <<kept, memoryVars>>

QuotaSpec == QuotaInit /\ [][QuotaNext]_quotaVars
-----------------------------------------------------------------------------
\* Types of the clock, of both kinds of counter and of what is in progress.
QuotaTypeOK == kept \in {"memory", "redis"} /\ Memory!TypeOK /\ Redis!TypeOK

\* Whatever the order of the checks, of looks at the usage and of the scripts of
\* several replicas, no interval of a window's length is charged more than twice
\* the limit (fixed windows that begin with their first charge).  The bound is on
\* what was charged: a check that Redis fails is let through uncharged.
BurstBounded == TwiceLimitAtMost(log, now)

\* WindowCounter holds exactly what was charged since its window began: neither
\* current_usage nor a denial adds or loses anything.
UsageIsWhatWasCharged == kept = "memory" => Memory!UsageIsWhatWasCharged

\* The retry_after of a QuotaDecision::Deny is enough: afterwards the bucket
\* refuses the same request only if others were charged since.
RetryAfterIsEnough == Memory!RetryAfterIsEnough /\ Redis!RetryAfterIsEnough

\* A request that InMemoryQuota denies uses up nothing of any bucket, also not of
\* those it had looked at before (check_and_consume's two phases).
DeniedConsumesNothing == [][Memory!DenialKeepsUsage]_quotaVars

\* No counter in Redis lives for ever: INCR_SCRIPT leaves each with a time to live
\* of at most a window, so that a key at its limit always comes back.
EveryCounterExpires == Redis!EveryCounterExpires

\* Both counters keep their limits in what they charge: over every window, and
\* after a denial's Retry-After.
LimitsHold == QuotaTypeOK /\ BurstBounded /\ RetryAfterIsEnough

\* What a counter reports was charged, and no counter outlives its window.
UsageIsHonest == UsageIsWhatWasCharged /\ EveryCounterExpires
=============================================================================
