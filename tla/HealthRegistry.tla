--------------------------- MODULE HealthRegistry ---------------------------
(***************************************************************************)
(* The per-instance health registry of crates/core/src/routing/mod.rs: a   *)
(* circuit breaker with escalating recovery windows, a cooling deadline    *)
(* and a latency average for every health key ("provider:model").          *)
(*                                                                         *)
(* The registry is shared by every request in flight.  Each of its methods *)
(* runs under the write lock of one map, so each is one operator on the    *)
(* value of that map; the callers (module Fallback) decide in which order  *)
(* the operators are applied.  A key without an entry behaves like one     *)
(* that holds Fresh, so the map is total here.                             *)
(***************************************************************************)
EXTENDS Integers, Sequences

CONSTANTS
  Keys,              \* health keys, RoutingTarget::health_key
  FailureThreshold,  \* failures in a row that open the circuit (3)
  RecoveryTiers,     \* recovery windows (60s, 180s, 600s, 1800s), in ticks
  LatencyBuckets     \* latencies told apart by the latency order

Never == -1          \* None of an Option<Instant>
Unobserved == -1     \* no latency sample yet

ASSUME RegistryAssumption ==
  /\ FailureThreshold \in Nat
  /\ RecoveryTiers \in Seq(Nat)
  /\ RecoveryTiers # <<>>       \* asserted by HealthRegistry::new
  /\ LatencyBuckets \subseteq Nat

\* HealthRegistry::with_defaults, in seconds.
DefaultTiers == <<60, 180, 600, 1800>>

TargetHealth ==
  [consecutive_failures : Nat,
   last_failure_at      : Nat \cup {Never},
   cooling_until        : Nat \cup {Never},
   cooling_reason       : {"none", "rate_limited", "auth_broken"}]

Fresh == [consecutive_failures |-> 0, last_failure_at |-> Never,
          cooling_until |-> Never, cooling_reason |-> "none"]

\* The tier of a failure count: saturating_sub, then capped at the last one.
TierIndex(n) ==
  LET overflow == IF n > FailureThreshold THEN n - FailureThreshold ELSE 0
  IN  IF overflow < Len(RecoveryTiers) THEN overflow + 1 ELSE Len(RecoveryTiers)

RecoveryDurationFor(n) == RecoveryTiers[TierIndex(n)]

Cooling(h, t) == h.cooling_until # Never /\ t < h.cooling_until

\* is_healthy: strictly later than the end of the recovery window.
IsHealthy(h, t) ==
  /\ ~Cooling(h, t)
  /\ \/ h.consecutive_failures < FailureThreshold
     \/ h.last_failure_at = Never
     \/ t - h.last_failure_at > RecoveryDurationFor(h.consecutive_failures)

\* health_status: what the admin API reports for the same entry.
HealthStatus(h, t) ==
  IF Cooling(h, t) THEN "cooling"
  ELSE IF /\ h.consecutive_failures >= FailureThreshold
          /\ h.last_failure_at # Never
          /\ t < h.last_failure_at + RecoveryDurationFor(h.consecutive_failures)
       THEN "circuit_broken"
       ELSE "healthy"

\* A plausible slip of record_success: one failure is forgiven, not all.
BugRecordSuccess(h) == [h EXCEPT !.consecutive_failures = @ - 1]

RecordSuccess(h) ==
  [h EXCEPT !.consecutive_failures = 0,
            !.cooling_until = Never,
            !.cooling_reason = "none"]

RecordFailure(h, t) ==
  [h EXCEPT !.consecutive_failures = @ + 1, !.last_failure_at = t]

ApplyCooling(h, t, duration, reason) ==
  [h EXCEPT !.cooling_until = t + duration, !.cooling_reason = reason]

\* record_latency_ms: the first sample is taken as it is; a later one moves the
\* average by 0.3 * sample + 0.7 * average, that is to a value between the two.
RecordLatency(old, sample) ==
  IF old = Unobserved THEN {sample}
  ELSE {b \in LatencyBuckets :
          \/ old <= b /\ b <= sample
          \/ sample <= b /\ b <= old}
=============================================================================
