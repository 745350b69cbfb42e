------------------------------ MODULE Fallback ------------------------------
(***************************************************************************)
(* execute_with_fallback of crates/server/src/ingress/fallback.rs: the     *)
(* loop every ingress handler runs to try the targets of a route one after *)
(* the other, over a health registry shared by all requests.               *)
(*                                                                         *)
(* One virtual model with a chain of targets; Requests run the loop        *)
(* concurrently.  A step of a request is what it does between two awaits   *)
(* that let another request run.  A target is its position in the chain.   *)
(***************************************************************************)
EXTENDS HealthRegistry, ErrorClasses, FiniteSets

CONSTANTS
  Requests,
  ChainLength,       \* number of targets of the route
  KeyOf,             \* position -> health key
  AccountOf,         \* position -> account label, or NoAccount
  WeightOf,          \* position -> weight (the order of weights matters)
  OAuthTargets,      \* positions whose provider authenticates with OAuth
  Strategies,        \* routing strategies a request may be given
  MaxTotalAttempts,  \* DefaultFallbackPolicy::max_total_attempts (10)
  Deadline,          \* DefaultFallbackPolicy::deadline (120s)
  RetryAfterSecs,    \* values of a parsable Retry-After header
  DefaultCooling,    \* cooling for an unparsable Retry-After (30s)
  AuthCooling,       \* cooling after an authentication failure (300s)
  LatencyShift,      \* weight of the health bit in the latency sort key (2^64)
  MaxNow,            \* bound on the clock
  NoAccount

Positions == 1..ChainLength

ASSUME FallbackAssumption ==
  /\ ChainLength \in Nat
  /\ KeyOf \in [Positions -> Keys]
  /\ WeightOf \in [Positions -> Int]
  /\ OAuthTargets \subseteq Positions
  /\ Strategies \subseteq {"weighted", "priority", "cooldown", "latency"}
  /\ MaxTotalAttempts \in Nat \ {0}
  /\ Deadline \in Nat /\ DefaultCooling \in Nat /\ AuthCooling \in Nat
  /\ RetryAfterSecs \subseteq Nat
  /\ LatencyShift \in Nat \ {0}
  /\ LatencyBuckets \subseteq 0..(LatencyShift - 1)   \* an average is a u64
  /\ MaxNow \in Nat

VARIABLES
  states,     \* HealthRegistry::states
  latencies,  \* HealthRegistry::latencies
  now,        \* the clock
  req         \* the locals of the loop of every request

vars == <<states, latencies, now, req>>

NoError == [status |-> NoStatus, code |-> "none", text |-> "other",
            retry_after |-> "absent"]

\* What became of a target in one request (kept for the properties).
Fates == {"pending", "unhealthy", "executing", "probing", "ok", "failed",
          "auth_failed", "account_skipped"}

Idle == [pc |-> "idle", order |-> <<>>, target_index |-> 1, attempt |-> 0,
         deadline |-> 0, oauth_recovered |-> {}, has_error |-> FALSE,
         err |-> NoError, outcome |-> "none", calls |-> 0,
         fate |-> [p \in Positions |-> "pending"]]

Init ==
  /\ states = [k \in Keys |-> Fresh]
  /\ latencies = [k \in Keys |-> Unobserved]
  /\ now = 0
  /\ req = [r \in Requests |-> Idle]
-----------------------------------------------------------------------------
(* Strategy::order.                                                        *)

Orders == {o \in [Positions -> Positions] :
             /\ \A i, j \in Positions : i # j => o[i] # o[j]
             /\ \A p \in Positions : \E i \in Positions : o[i] = p}

\* The result of a stable sort by an integer rank.
StableSort(rank) ==
  {o \in Orders : \A i, j \in Positions : i < j =>
                     \/ rank[o[i]] < rank[o[j]]
                     \/ rank[o[i]] = rank[o[j]] /\ o[i] < o[j]}

Healthy(p) == IsHealthy(states[KeyOf[p]], now)

HealthRank == [p \in Positions |-> IF Healthy(p) THEN 0 ELSE 1]

\* Unhealthy targets last, whatever their latency; no sample counts as 0 ms.
LatencyRank ==
  LET ms(p) == IF latencies[KeyOf[p]] = Unobserved THEN 0 ELSE latencies[KeyOf[p]]
  IN  [p \in Positions |-> ms(p) + IF Healthy(p) THEN 0 ELSE LatencyShift]

PriorityRank == [p \in Positions |-> -WeightOf[p]]

NonPositive == {p \in Positions : WeightOf[p] <= 0}

\* The weighted shuffle draws from the remaining targets, in their original
\* order: one with a positive weight, or the first one when the draw is 0.
\* Every draw needs a remaining weight above 0.
WeightedOrders ==
  IF NonPositive = Positions THEN StableSort([p \in Positions |-> 0])
  ELSE {o \in Orders : \A i \in Positions :
          LET remaining == {o[j] : j \in i..ChainLength}
          IN  /\ ~(remaining \subseteq NonPositive)
              /\ \/ o[i] \notin NonPositive
                 \/ \A q \in remaining : o[i] <= q}

\* gen_range(0.0..0.0) panics: some draw finds only non-positive weights left.
WeightedPanics == NonPositive # {} /\ NonPositive # Positions

\* The registry is read at once; the code reads it target by target as it sorts.
StrategyOrders(s) ==
  CASE s = "weighted" -> WeightedOrders
    [] s = "priority" -> StableSort(PriorityRank)
    [] s = "cooldown" -> StableSort(HealthRank)
    [] s = "latency" -> StableSort(LatencyRank)
-----------------------------------------------------------------------------
Target(r) == req[r].order[req[r].target_index]
HealthKey(r) == KeyOf[Target(r)]

\* The circuit of the key has opened and no success has closed it since.
Open(k) == states[k].consecutive_failures >= FailureThreshold

\* A plausible slip of the loop: the index stays where it is.
BugAdvance(i) == i

Advance(i) == i + 1

\* The loop condition.
InLoop(r) == /\ req[r].pc = "loop"
             /\ req[r].target_index <= ChainLength
             /\ req[r].attempt < MaxTotalAttempts

Start(r) ==
  /\ req[r].pc = "idle"
  /\ \E s \in Strategies : \E o \in StrategyOrders(s) :
       req' = [req EXCEPT ![r].pc = "loop", ![r].order = o,
                          ![r].deadline = now + Deadline]
  /\ UNCHANGED <<states, latencies, now>>

\* The task of the request dies in WeightedStrategy::order.
StartPanics(r) ==
  /\ req[r].pc = "idle"
  /\ "weighted" \in Strategies /\ WeightedPanics
  /\ req' = [req EXCEPT ![r].pc = "done", ![r].outcome = "panicked"]
  /\ UNCHANGED <<states, latencies, now>>

Exhaust(r) ==
  /\ req[r].pc = "loop" /\ ~InLoop(r)
  /\ req' = [req EXCEPT ![r].pc = "done", ![r].outcome = "exhausted"]
  /\ UNCHANGED <<states, latencies, now>>

ExceedDeadline(r) ==
  /\ InLoop(r)
  /\ now > req[r].deadline
  /\ req' = [req EXCEPT ![r].pc = "done", ![r].outcome = "deadline_exceeded"]
  /\ UNCHANGED <<states, latencies, now>>

SkipUnhealthy(r) ==
  /\ InLoop(r)
  /\ now <= req[r].deadline
  /\ ~Healthy(Target(r))
  /\ req' = [req EXCEPT ![r].fate[Target(r)] = "unhealthy",
                        ![r].target_index = Advance(@)]
  /\ UNCHANGED <<states, latencies, now>>

\* The health check passes; the upstream call starts after HopStart is emitted.
Admit(r) ==
  /\ InLoop(r)
  /\ now <= req[r].deadline
  /\ Healthy(Target(r))
  /\ req' = [req EXCEPT ![r].pc = "execute",
                        ![r].attempt = @ + 1,
                        ![r].calls = @ + 1,
                        ![r].fate[Target(r)] =
                           IF Open(HealthKey(r)) THEN "probing" ELSE "executing"]
  /\ UNCHANGED <<states, latencies, now>>

\* A plausible slip: the recovery is not limited to one per health key.
BugCanRecoverOAuth(r) == Target(r) \in OAuthTargets

CanRecoverOAuth(r) == /\ Target(r) \in OAuthTargets
                      /\ HealthKey(r) \notin req[r].oauth_recovered

\* The first 401 for this health key under OAuth: a fresh token was obtained
\* and the same target is called again.  Nothing is recorded for the first call.
RecoverOAuth(r) ==
  /\ req[r].pc = "execute"
  /\ CanRecoverOAuth(r)
  /\ req' = [req EXCEPT ![r].oauth_recovered = @ \cup {HealthKey(r)},
                        ![r].calls = @ + 1]
  /\ UNCHANGED <<states, latencies, now>>

ObserveLatency(r) ==
  \E sample \in LatencyBuckets :
    \E avg \in RecordLatency(latencies[HealthKey(r)], sample) :
      latencies' = [latencies EXCEPT ![HealthKey(r)] = avg]

HopSuccess(r) ==
  /\ req[r].pc = "execute"
  /\ states' = [states EXCEPT ![HealthKey(r)] = RecordSuccess(@)]
  /\ ObserveLatency(r)
  /\ req' = [req EXCEPT ![r].pc = "done", ![r].outcome = "success",
                        ![r].fate[Target(r)] = "ok"]
  /\ UNCHANGED now

\* A 401 that could not be recovered also uses up the recovery of its key.
RecoveredAfter(r, e) ==
  IF e.status = 401 /\ CanRecoverOAuth(r)
  THEN req[r].oauth_recovered \cup {HealthKey(r)}
  ELSE req[r].oauth_recovered

\* Every error counts as a failure of the target, a rejected request included.
HopFailure(r, e) ==
  /\ req[r].pc = "execute"
  /\ states' = [states EXCEPT ![HealthKey(r)] = RecordFailure(@, now)]
  /\ ObserveLatency(r)
  /\ req' = [req EXCEPT ![r].pc = "classify", ![r].err = e,
                        ![r].oauth_recovered = RecoveredAfter(r, e),
                        ![r].fate[Target(r)] = "failed"]
  /\ UNCHANGED now

\* After HopFailure is emitted: rate-limit cooling, then the decision.
CoolRateLimited(r) ==
  LET e == req[r].err
      cool(d) == states' = [states EXCEPT ![HealthKey(r)] =
                                 ApplyCooling(@, now, d, "rate_limited")]
  IN  IF Classification(e) = "RateLimited" /\ e.retry_after # "absent"
      THEN IF e.retry_after = "seconds"
           THEN \E d \in RetryAfterSecs : cool(d)
           ELSE cool(DefaultCooling)
      ELSE UNCHANGED states

Decision(r) == FallbackDecision(req[r].err, req[r].attempt, MaxTotalAttempts)

DecideFail(r) ==
  /\ req[r].pc = "classify"
  /\ CoolRateLimited(r)
  /\ Decision(r) = "Fail"
  /\ req' = [req EXCEPT ![r].pc = "done", ![r].outcome = "failed",
                        ![r].err = NoError]
  /\ UNCHANGED <<latencies, now>>

DecideNext(r) ==
  /\ req[r].pc = "classify"
  /\ CoolRateLimited(r)
  /\ Decision(r) = "TryNext"
  /\ req' = [req EXCEPT ![r].pc = "next", ![r].has_error = TRUE]
  /\ UNCHANGED <<latencies, now>>

SameAccount(p, q) == AccountOf[p] # NoAccount /\ AccountOf[p] = AccountOf[q]

\* The index (the only one) at which the skip stops: the first target after i,
\* in order, that does not share i's account.
SkipAccount(o, i) ==
  {j \in (i + 1)..(ChainLength + 1) :
     /\ \A m \in (i + 1)..(j - 1) : SameAccount(o[i], o[m])
     /\ j <= ChainLength => ~SameAccount(o[i], o[j])}

AuthFates(r, j) ==
  [p \in Positions |->
     IF p = Target(r) THEN "auth_failed"
     ELSE IF \E m \in (req[r].target_index + 1)..(j - 1) : p = req[r].order[m]
          THEN "account_skipped"
          ELSE req[r].fate[p]]

\* After the decision is emitted: on an authentication failure cool the key and
\* pass over the targets of the same account that come next.
MoveOnAuth(r) ==
  /\ req[r].pc = "next"
  /\ Classification(req[r].err) = "Auth"
  /\ states' = [states EXCEPT ![HealthKey(r)] =
                   ApplyCooling(@, now, AuthCooling, "auth_broken")]
  /\ \E j \in SkipAccount(req[r].order, req[r].target_index) :
       req' = [req EXCEPT ![r].pc = "loop", ![r].target_index = j,
                          ![r].err = NoError,
                          ![r].fate = AuthFates(r, j)]
  /\ UNCHANGED <<latencies, now>>

MoveOn(r) ==
  /\ req[r].pc = "next"
  /\ Classification(req[r].err) # "Auth"
  /\ req' = [req EXCEPT ![r].pc = "loop", ![r].err = NoError,
                        ![r].target_index = Advance(@)]
  /\ UNCHANGED <<states, latencies, now>>

Tick ==
  /\ now < MaxNow
  /\ now' = now + 1
  /\ UNCHANGED <<states, latencies, req>>

RequestStep(r) ==
  \/ Start(r) \/ StartPanics(r) \/ Exhaust(r) \/ ExceedDeadline(r)
  \/ SkipUnhealthy(r) \/ Admit(r) \/ RecoverOAuth(r) \/ HopSuccess(r)
  \/ \E e \in UpstreamErrors : HopFailure(r, e)
  \/ DecideFail(r) \/ DecideNext(r) \/ MoveOnAuth(r) \/ MoveOn(r)

Next == Tick \/ \E r \in Requests : RequestStep(r)

Spec == Init /\ [][Next]_vars

\* A started request keeps running, and an upstream call ends (the transport
\* timeouts of the gateway bound it).
FairSpec == Spec /\ \A r \in Requests : WF_vars(RequestStep(r))
-----------------------------------------------------------------------------
(* Properties.                                                             *)

RequestState ==
  [pc : {"idle", "loop", "execute", "classify", "next", "done"},
   order : Orders \cup {<<>>},
   target_index : Nat,
   attempt : Nat,
   deadline : Nat,
   oauth_recovered : SUBSET Keys,
   has_error : BOOLEAN,
   err : AppError \cup {NoError},
   outcome : {"none", "success", "exhausted", "failed", "deadline_exceeded",
              "panicked"},
   calls : Nat,
   fate : [Positions -> Fates]]

\* Every variable of the loop and of the registry keeps its type: failure counts
\* never go below zero, the error in hand is one an executor returned.
TypeOK ==
  /\ states \in [Keys -> TargetHealth]
  /\ latencies \in [Keys -> LatencyBuckets \cup {Unobserved}]
  /\ now \in Nat
  /\ req \in [Requests -> RequestState]

\* The loop gives up with "exhausted" only when it has dealt with every target:
\* attempted, found unhealthy at its turn, or passed over with its account.
\* The attempt budget alone never ends it that way.
ExhaustedMeansAllTried ==
  \A r \in Requests : req[r].outcome = "exhausted" =>
    \A p \in Positions :
      req[r].fate[p] \in {"unhealthy", "failed", "auth_failed", "account_skipped"}

\* A target is passed over unattempted for its account only after another
\* target of the same, real account failed to authenticate in this request.
AccountSkipJustified ==
  \A r \in Requests : \A p \in Positions :
    req[r].fate[p] = "account_skipped" =>
      /\ AccountOf[p] # NoAccount
      /\ \E q \in Positions : /\ req[r].fate[q] = "auth_failed"
                              /\ AccountOf[q] = AccountOf[p]

Attempted(r) == {p \in Positions : req[r].fate[p] \in
                   {"executing", "probing", "ok", "failed", "auth_failed"}}

\* No target is attempted twice, whatever fails: an attempt is one target, and
\* a target is called again only to use a recovered OAuth token, once per key.
UpstreamCallsBounded ==
  \A r \in Requests :
    /\ req[r].attempt = Cardinality(Attempted(r))
    /\ req[r].attempt <= MaxTotalAttempts
    /\ req[r].calls <= req[r].attempt + Cardinality(req[r].oauth_recovered)

\* The backoff before a repeated attempt on one target is never taken: when the
\* loop admits a target it has made no more attempts than it has passed targets.
BackoffUnreachable ==
  \A r \in Requests : InLoop(r) =>
    ~(req[r].attempt > 0 /\ req[r].attempt > req[r].target_index - 1)

\* A request that ends without any upstream error of its own made no call: every
\* target was unhealthy.
ExhaustedWithoutErrorMeansNoCall ==
  \A r \in Requests :
    req[r].outcome = "exhausted" /\ ~req[r].has_error => req[r].calls = 0

\* A request that starts now under a health-aware strategy will try every target
\* that is healthy before any target that is not, whatever their latencies.
HealthyTargetsFirst ==
  \A s \in {"cooldown", "latency"} : \A o \in StrategyOrders(s) :
    \A i, j \in Positions : i < j /\ Healthy(o[j]) => Healthy(o[i])

\* The admin view never calls a target broken or cooling that requests may use.
StatusAgreesWithHealth ==
  \A k \in Keys : IsHealthy(states[k], now) => HealthStatus(states[k], now) = "healthy"

-----------------------------------------------------------------------------
\* Every request that starts is answered.
EveryRequestEnds ==
  \A r \in Requests : (req[r].pc # "idle") ~> (req[r].pc = "done")

\* The loop as a whole: accounts are skipped for a reason, calls are bounded, a
\* request fails without an error only if it called nobody, the status matches
\* the registry, and targets in good health come first.
LoopIsSound ==
  /\ AccountSkipJustified /\ UpstreamCallsBounded /\ ExhaustedWithoutErrorMeansNoCall
  /\ StatusAgreesWithHealth /\ HealthyTargetsFirst
-----------------------------------------------------------------------------
(* The route the model checker runs: the first and the last of its three     *)
(* targets belong to one account, the last two share a health key, and the   *)
(* second has weight 0.                                                      *)
RouteKeys == <<1, 2, 2>>
RouteAccounts == <<"account", NoAccount, "account">>
RouteWeights == <<1, 0, 2>>
RouteTiers == <<0, 1>>   \* the first window is over at the next tick
=============================================================================
