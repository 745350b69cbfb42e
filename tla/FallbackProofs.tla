--------------------------- MODULE FallbackProofs ---------------------------
(***************************************************************************)
(* What the fallback loop guarantees for every chain, every number of      *)
(* concurrent requests, every strategy and every classifier input.         *)
(***************************************************************************)
EXTENDS Fallback, FiniteSetTheorems, TLAPS

Disposed == {"unhealthy", "failed", "auth_failed", "account_skipped"}

\* Where the loop of one request stands: it has made at most one attempt per
\* target it has passed, and it has dealt with every target it has passed.
LoopInv(q) ==
  /\ q.pc # "idle" /\ q.outcome # "panicked" => q.order \in Orders
  /\ q.target_index \in 1..(ChainLength + 1)
  /\ q.pc \in {"idle", "loop"} => q.attempt <= q.target_index - 1
  /\ q.pc \in {"idle", "loop"} => q.attempt < MaxTotalAttempts
  /\ q.pc \in {"execute", "classify", "next"} =>
       /\ q.target_index <= ChainLength
       /\ q.attempt <= q.target_index
       /\ q.outcome = "none"
  /\ q.pc = "next" => q.attempt < MaxTotalAttempts
  /\ q.pc \in {"classify", "next"} => q.fate[q.order[q.target_index]] \in Disposed
  /\ q.pc = "idle" => q.target_index = 1
  /\ q.pc \in {"idle", "loop"} => q.outcome = "none"
  /\ q.pc \in {"loop", "execute", "classify", "next"} =>
       \A i \in 1..(q.target_index - 1) : q.fate[q.order[i]] \in Disposed
  /\ q.outcome = "exhausted" => \A p \in Positions : q.fate[p] \in Disposed

Inv == TypeOK /\ \A r \in Requests : LoopInv(req[r])

\* Strategy::order returns a permutation of the chain, whatever the strategy.
LEMMA StrategyPermutes ==
  ASSUME NEW s \in Strategies, NEW o \in StrategyOrders(s)
  PROVE  o \in Orders
  <1>1. s \in {"weighted", "priority", "cooldown", "latency"}
    BY FallbackAssumption
  <1> QED
    BY <1>1, Zenon DEF StrategyOrders, WeightedOrders, StableSort

LEMMA OrderIsTyped ==
  ASSUME NEW o \in Orders, NEW i \in Positions
  PROVE  o[i] \in Positions
  BY DEF Orders

\* The registry's operators keep the type of an entry.
LEMMA RegistryTypes ==
  ASSUME NEW h \in TargetHealth, NEW t \in Nat, NEW d \in Nat,
         NEW why \in {"rate_limited", "auth_broken"}
  PROVE  /\ RecordSuccess(h) \in TargetHealth
         /\ RecordFailure(h, t) \in TargetHealth
         /\ ApplyCooling(h, t, d, why) \in TargetHealth
  <1>1. RecordSuccess(h) \in TargetHealth
    BY DEF RecordSuccess, TargetHealth, Never
  <1>2. h.consecutive_failures + 1 \in Nat /\ t \in Nat \cup {Never}
    BY DEF TargetHealth
  <1>3. RecordFailure(h, t) \in TargetHealth
    BY <1>2, Zenon DEF RecordFailure, TargetHealth
  <1>4. t + d \in Nat \cup {Never} /\ why \in {"none", "rate_limited", "auth_broken"}
    OBVIOUS
  <1>5. ApplyCooling(h, t, d, why) \in TargetHealth
    BY <1>4, Zenon DEF ApplyCooling, TargetHealth
  <1> QED
    BY <1>1, <1>3, <1>5

\* While a request is at a target, the target and its key exist.
LEMMA TargetExists ==
  ASSUME Inv, NEW r \in Requests,
         \/ req[r].pc \in {"execute", "classify", "next"}
         \/ InLoop(r)
  PROVE  /\ req[r].order \in Orders
         /\ req[r].target_index \in Positions
         /\ Target(r) \in Positions
         /\ HealthKey(r) \in Keys
  <1>1. req[r] \in RequestState /\ LoopInv(req[r])
    BY DEF Inv, TypeOK
  <1>2. req[r].order \in Orders /\ req[r].target_index \in Positions
    BY <1>1, FallbackAssumption DEF LoopInv, InLoop, Positions, RequestState
  <1> QED
    BY <1>2, OrderIsTyped, FallbackAssumption DEF Target, HealthKey

\* One step of one request keeps the invariant when it does for that request.
LEMMA OneRequestMoves ==
  ASSUME Inv, NEW r \in Requests, NEW q,
         req' = [req EXCEPT ![r] = q],
         q \in RequestState, LoopInv(q),
         states' \in [Keys -> TargetHealth],
         latencies' \in [Keys -> LatencyBuckets \cup {Unobserved}],
         now' \in Nat
  PROVE  Inv'
  <1>1. req \in [Requests -> RequestState] /\ \A s \in Requests : LoopInv(req[s])
    BY DEF Inv, TypeOK
  <1>2. req' \in [Requests -> RequestState]
    BY <1>1
  <1>3. \A s \in Requests : LoopInv(req'[s])
    BY <1>1
  <1> QED
    BY <1>2, <1>3 DEF Inv, TypeOK, LoopInv, Disposed
-----------------------------------------------------------------------------
\* Giving the current target a new fate leaves those of the earlier ones alone.
LEMMA FateOfTarget ==
  ASSUME Inv, NEW r \in Requests, NEW f \in Fates,
         \/ req[r].pc \in {"execute", "classify", "next"}
         \/ InLoop(r)
  PROVE  LET fates == [req[r].fate EXCEPT ![Target(r)] = f]
         IN  /\ fates \in [Positions -> Fates]
             /\ fates[req[r].order[req[r].target_index]] = f
             /\ \A i \in 1..(req[r].target_index - 1) :
                  fates[req[r].order[i]] \in Disposed
  <1>1. req[r] \in RequestState /\ LoopInv(req[r])
    BY DEF Inv, TypeOK
  <1>2. /\ req[r].order \in Orders /\ req[r].target_index \in Positions
        /\ Target(r) \in Positions
    BY TargetExists
  <1>3. req[r].fate \in [Positions -> Fates]
    BY <1>1 DEF RequestState
  <1>4. \A i \in 1..(req[r].target_index - 1) : req[r].fate[req[r].order[i]] \in Disposed
    BY <1>1 DEF LoopInv, InLoop
  <1>5. \A i \in 1..(req[r].target_index - 1) :
          /\ i \in Positions /\ req[r].order[i] \in Positions
          /\ req[r].order[i] # Target(r)
    <2> SUFFICES ASSUME NEW i \in 1..(req[r].target_index - 1)
                 PROVE  /\ i \in Positions /\ req[r].order[i] \in Positions
                        /\ req[r].order[i] # Target(r)
      OBVIOUS
    <2>1. i \in Positions /\ i # req[r].target_index
      BY <1>2, FallbackAssumption DEF Positions
    <2> QED
      BY <1>2, <2>1 DEF Orders, Target
  <1> QED
    BY <1>2, <1>3, <1>4, <1>5 DEF Target

LEMMA StartKeepsInv ==
  ASSUME Inv, NEW r \in Requests, Start(r)
  PROVE  Inv'
  <1>1. req \in [Requests -> RequestState] /\ LoopInv(req[r]) /\ now \in Nat
    BY DEF Inv, TypeOK
  <1>2. PICK s \in Strategies : \E o \in StrategyOrders(s) :
          req' = [req EXCEPT ![r].pc = "loop", ![r].order = o,
                             ![r].deadline = now + Deadline]
    BY DEF Start
  <1>3. PICK o \in StrategyOrders(s) :
          req' = [req EXCEPT ![r].pc = "loop", ![r].order = o,
                             ![r].deadline = now + Deadline]
    BY <1>2
  <1> DEFINE q == [req[r] EXCEPT !.pc = "loop", !.order = o,
                                 !.deadline = now + Deadline]
  <1>4. req' = [req EXCEPT ![r] = q]
    BY <1>1, <1>3
  <1>5. q \in RequestState
    <2>1. o \in Orders /\ now + Deadline \in Nat
      BY <1>1, StrategyPermutes, FallbackAssumption
    <2> QED
      BY <1>1, <2>1, ZenonT(60) DEF RequestState
  <1>6. LoopInv(q)
    BY <1>1, StrategyPermutes, FallbackAssumption DEF Start, LoopInv, RequestState
  <1> HIDE DEF q
  <1> QED
    BY <1>4, <1>5, <1>6, OneRequestMoves DEF Start, Inv, TypeOK

LEMMA LeaveLoopKeepsInv ==
  ASSUME Inv, NEW r \in Requests,
         StartPanics(r) \/ Exhaust(r) \/ ExceedDeadline(r)
  PROVE  Inv'
  <1>1. req \in [Requests -> RequestState] /\ LoopInv(req[r]) /\ now \in Nat
    BY DEF Inv, TypeOK
  <1>2. PICK out \in {"panicked", "exhausted", "deadline_exceeded"} :
          /\ req' = [req EXCEPT ![r].pc = "done", ![r].outcome = out]
          /\ out = "panicked" \/ req[r].pc = "loop"
          /\ out = "exhausted" => ~InLoop(r)
    BY DEF StartPanics, Exhaust, ExceedDeadline, InLoop
  <1> DEFINE q == [req[r] EXCEPT !.pc = "done", !.outcome = out]
  <1>3. req' = [req EXCEPT ![r] = q]
    BY <1>1, <1>2
  <1>4. q \in RequestState
    BY <1>1, ZenonT(60) DEF RequestState
  <1>5. LoopInv(q)
    <2>1. ASSUME out = "exhausted", NEW p \in Positions
          PROVE  req[r].fate[p] \in Disposed
      <3>1. req[r].target_index = ChainLength + 1 /\ req[r].order \in Orders
        BY <1>1, <1>2, <2>1, FallbackAssumption DEF LoopInv, InLoop, RequestState
      <3>2. PICK i \in Positions : req[r].order[i] = p
        BY <3>1 DEF Orders
      <3> QED
        BY <1>1, <1>2, <2>1, <3>1, <3>2, FallbackAssumption DEF LoopInv, Positions
    <2> QED
      BY <1>1, <1>2, <2>1 DEF LoopInv, RequestState
  <1> HIDE DEF q
  <1> QED
    BY <1>3, <1>4, <1>5, OneRequestMoves DEF StartPanics, Exhaust, ExceedDeadline, Inv, TypeOK

LEMMA SkipUnhealthyKeepsInv ==
  ASSUME Inv, NEW r \in Requests, SkipUnhealthy(r)
  PROVE  Inv'
  <1>1. req \in [Requests -> RequestState] /\ LoopInv(req[r])
    BY DEF Inv, TypeOK
  <1>2. req[r].order \in Orders /\ req[r].target_index \in Positions
    BY TargetExists DEF SkipUnhealthy
  <1> DEFINE fates == [req[r].fate EXCEPT ![Target(r)] = "unhealthy"]
             i == req[r].target_index + 1
             q == [req[r] EXCEPT !.fate = fates, !.target_index = i]
  <1>3. req' = [req EXCEPT ![r] = q]
    BY <1>1 DEF SkipUnhealthy, Advance
  <1>4. /\ fates \in [Positions -> Fates]
        /\ \A j \in 1..(i - 1) : fates[req[r].order[j]] \in Disposed
    <2>1. /\ fates \in [Positions -> Fates]
          /\ fates[req[r].order[req[r].target_index]] = "unhealthy"
          /\ \A j \in 1..(req[r].target_index - 1) : fates[req[r].order[j]] \in Disposed
      BY FateOfTarget DEF SkipUnhealthy, Fates
    <2> HIDE DEF fates
    <2>2. \A j \in 1..(i - 1) :
            j = req[r].target_index \/ j \in 1..(req[r].target_index - 1)
      BY <1>2, FallbackAssumption DEF Positions
    <2> QED
      BY <2>1, <2>2 DEF Disposed
  <1>5. i \in 2..(ChainLength + 1)
    BY <1>2, FallbackAssumption DEF Positions
  <1>6. req[r].attempt <= i - 1
    BY <1>1, <1>2, FallbackAssumption DEF LoopInv, SkipUnhealthy, InLoop, RequestState, Positions
  <1> HIDE DEF fates, i
  <1>7. q \in RequestState
    <2>1. i \in Nat
      BY <1>5, FallbackAssumption
    <2> QED
      BY <1>1, <1>4, <2>1, ZenonT(60) DEF RequestState
  <1>8. LoopInv(q)
    BY <1>1, <1>2, <1>4, <1>5, <1>6, FallbackAssumption
       DEF LoopInv, SkipUnhealthy, InLoop, RequestState
  <1> HIDE DEF q
  <1> QED
    BY <1>3, <1>7, <1>8, OneRequestMoves DEF SkipUnhealthy, Inv, TypeOK

LEMMA AdmitKeepsInv ==
  ASSUME Inv, NEW r \in Requests, Admit(r)
  PROVE  Inv'
  <1>1. req \in [Requests -> RequestState] /\ LoopInv(req[r])
    BY DEF Inv, TypeOK
  <1>2. req[r].order \in Orders /\ req[r].target_index \in Positions
    BY TargetExists DEF Admit
  <1> DEFINE f == IF Open(HealthKey(r)) THEN "probing" ELSE "executing"
             fates == [req[r].fate EXCEPT ![Target(r)] = f]
             a == req[r].attempt + 1
             c == req[r].calls + 1
             q == [req[r] EXCEPT !.pc = "execute", !.attempt = a, !.calls = c,
                                 !.fate = fates]
  <1>3. req' = [req EXCEPT ![r] = q]
    BY <1>1 DEF Admit
  <1>4. /\ fates \in [Positions -> Fates]
        /\ \A j \in 1..(req[r].target_index - 1) : fates[req[r].order[j]] \in Disposed
    BY FateOfTarget DEF Admit, Fates
  <1>5. a \in Nat /\ c \in Nat /\ a <= req[r].target_index
    BY <1>1, <1>2 DEF RequestState, LoopInv, Admit, InLoop, Positions
  <1> HIDE DEF f, fates, a, c
  <1>6. q \in RequestState
    BY <1>1, <1>4, <1>5, ZenonT(60) DEF RequestState
  <1>7. LoopInv(q)
    BY <1>1, <1>2, <1>4, <1>5, FallbackAssumption
       DEF LoopInv, Admit, InLoop, RequestState, Positions
  <1> HIDE DEF q
  <1> QED
    BY <1>3, <1>6, <1>7, OneRequestMoves DEF Admit, Inv, TypeOK

LEMMA RecoverOAuthKeepsInv ==
  ASSUME Inv, NEW r \in Requests, RecoverOAuth(r)
  PROVE  Inv'
  <1>1. req \in [Requests -> RequestState] /\ LoopInv(req[r])
    BY DEF Inv, TypeOK
  <1>2. HealthKey(r) \in Keys
    BY TargetExists DEF RecoverOAuth
  <1> DEFINE rec == req[r].oauth_recovered \cup {HealthKey(r)}
             c == req[r].calls + 1
             q == [req[r] EXCEPT !.oauth_recovered = rec, !.calls = c]
  <1>3. req' = [req EXCEPT ![r] = q]
    BY <1>1 DEF RecoverOAuth
  <1>4. rec \in SUBSET Keys /\ c \in Nat
    BY <1>1, <1>2 DEF RequestState
  <1> HIDE DEF rec, c
  <1>5. q \in RequestState
    BY <1>1, <1>4, ZenonT(60) DEF RequestState
  <1>6. LoopInv(q)
    BY <1>1 DEF LoopInv, RequestState
  <1> HIDE DEF q
  <1> QED
    BY <1>3, <1>5, <1>6, OneRequestMoves DEF RecoverOAuth, Inv, TypeOK

LEMMA LatencyTyped ==
  ASSUME Inv, NEW r \in Requests, ObserveLatency(r)
  PROVE  latencies' \in [Keys -> LatencyBuckets \cup {Unobserved}]
  BY DEF Inv, TypeOK, ObserveLatency, RecordLatency

LEMMA HopSuccessKeepsInv ==
  ASSUME Inv, NEW r \in Requests, HopSuccess(r)
  PROVE  Inv'
  <1>1. req \in [Requests -> RequestState] /\ LoopInv(req[r]) /\ now \in Nat
    BY DEF Inv, TypeOK
  <1>2. HealthKey(r) \in Keys
    BY TargetExists DEF HopSuccess
  <1> DEFINE fates == [req[r].fate EXCEPT ![Target(r)] = "ok"]
             q == [req[r] EXCEPT !.pc = "done", !.outcome = "success", !.fate = fates]
  <1>3. req' = [req EXCEPT ![r] = q]
    BY <1>1 DEF HopSuccess
  <1>4. fates \in [Positions -> Fates]
    BY FateOfTarget DEF HopSuccess, Fates
  <1> HIDE DEF fates
  <1>5. q \in RequestState
    BY <1>1, <1>4, ZenonT(60) DEF RequestState
  <1>6. LoopInv(q)
    BY <1>1 DEF LoopInv, RequestState, HopSuccess
  <1>7. states' \in [Keys -> TargetHealth]
    <2>1. states \in [Keys -> TargetHealth]
      BY DEF Inv, TypeOK
    <2>2. RecordSuccess(states[HealthKey(r)]) \in TargetHealth
      BY <1>2, <2>1, RegistryTypes, 0 \in Nat
    <2> QED
      BY <2>1, <2>2 DEF HopSuccess
  <1> HIDE DEF q
  <1> QED
    BY <1>1, <1>3, <1>5, <1>6, <1>7, OneRequestMoves, LatencyTyped DEF HopSuccess

LEMMA HopFailureKeepsInv ==
  ASSUME Inv, NEW r \in Requests, NEW e \in UpstreamErrors, HopFailure(r, e)
  PROVE  Inv'
  <1>1. req \in [Requests -> RequestState] /\ LoopInv(req[r]) /\ now \in Nat
    BY DEF Inv, TypeOK
  <1>2. /\ req[r].order \in Orders /\ req[r].target_index \in Positions
        /\ HealthKey(r) \in Keys
    BY TargetExists DEF HopFailure
  <1> DEFINE rec == RecoveredAfter(r, e)
             fates == [req[r].fate EXCEPT ![Target(r)] = "failed"]
             q == [req[r] EXCEPT !.pc = "classify", !.err = e,
                                 !.oauth_recovered = rec, !.fate = fates]
  <1>3. req' = [req EXCEPT ![r] = q]
    BY <1>1 DEF HopFailure
  <1>4. /\ fates \in [Positions -> Fates]
        /\ fates[req[r].order[req[r].target_index]] = "failed"
        /\ \A j \in 1..(req[r].target_index - 1) : fates[req[r].order[j]] \in Disposed
    BY FateOfTarget DEF HopFailure, Fates
  <1>5. rec \in SUBSET Keys
    BY <1>1, <1>2 DEF RequestState, RecoveredAfter
  <1> HIDE DEF rec, fates
  <1>6. q \in RequestState
    <2>1. e \in AppError \cup {NoError}
      BY DEF UpstreamErrors
    <2>2. req[r] \in RequestState
      BY <1>1
    <2> QED
      BY <1>4, <1>5, <2>1, <2>2, Zenon DEF RequestState
  <1>7. LoopInv(q)
    BY <1>1, <1>2, <1>4 DEF LoopInv, HopFailure, RequestState, Disposed
  <1>8. states' \in [Keys -> TargetHealth]
    <2>1. states \in [Keys -> TargetHealth]
      BY DEF Inv, TypeOK
    <2>2. RecordFailure(states[HealthKey(r)], now) \in TargetHealth
      BY <1>1, <1>2, <2>1, RegistryTypes, 0 \in Nat
    <2> QED
      BY <2>1, <2>2 DEF HopFailure
  <1> HIDE DEF q
  <1> QED
    BY <1>1, <1>3, <1>6, <1>7, <1>8, OneRequestMoves, LatencyTyped DEF HopFailure

LEMMA CoolingTyped ==
  ASSUME Inv, NEW r \in Requests, req[r].pc = "classify", CoolRateLimited(r)
  PROVE  states' \in [Keys -> TargetHealth]
  <1>1. states \in [Keys -> TargetHealth] /\ now \in Nat /\ HealthKey(r) \in Keys
    BY TargetExists DEF Inv, TypeOK
  <1>2. \A d \in Nat : ApplyCooling(states[HealthKey(r)], now, d, "rate_limited") \in TargetHealth
    BY <1>1, RegistryTypes
  <1>3. CASE UNCHANGED states
    BY <1>1, <1>3
  <1>4. CASE \E d \in Nat :
               states' = [states EXCEPT ![HealthKey(r)] =
                            ApplyCooling(states[HealthKey(r)], now, d, "rate_limited")]
    BY <1>1, <1>2, <1>4
  <1> QED
    BY <1>3, <1>4, FallbackAssumption DEF CoolRateLimited

LEMMA NoErrorTyped == NoError \in AppError \cup {NoError}
  OBVIOUS

LEMMA DecideFailKeepsInv ==
  ASSUME Inv, NEW r \in Requests, DecideFail(r)
  PROVE  Inv'
  <1>1. req \in [Requests -> RequestState] /\ LoopInv(req[r])
    BY DEF Inv, TypeOK
  <1> DEFINE q == [req[r] EXCEPT !.pc = "done", !.outcome = "failed", !.err = NoError]
  <1>2. req' = [req EXCEPT ![r] = q]
    BY <1>1 DEF DecideFail
  <1>3. q \in RequestState
    BY <1>1, NoErrorTyped, ZenonT(60) DEF RequestState
  <1>4. LoopInv(q)
    BY <1>1 DEF LoopInv, RequestState, DecideFail
  <1>5. states' \in [Keys -> TargetHealth]
    BY CoolingTyped DEF DecideFail
  <1> HIDE DEF q
  <1> QED
    BY <1>2, <1>3, <1>4, <1>5, OneRequestMoves DEF DecideFail, Inv, TypeOK

LEMMA DecideNextKeepsInv ==
  ASSUME Inv, NEW r \in Requests, DecideNext(r)
  PROVE  Inv'
  <1>1. req \in [Requests -> RequestState] /\ LoopInv(req[r])
    BY DEF Inv, TypeOK
  <1> DEFINE q == [req[r] EXCEPT !.pc = "next", !.has_error = TRUE]
  <1>2. req' = [req EXCEPT ![r] = q]
    BY <1>1 DEF DecideNext
  <1>3. q \in RequestState
    BY <1>1, Zenon DEF RequestState
  <1>4. LoopInv(q)
    <2>1. req[r].attempt < MaxTotalAttempts
      BY <1>1, FallbackAssumption DEF DecideNext, Decision, FallbackDecision, RequestState
    <2> QED
      BY <1>1, <2>1 DEF LoopInv, RequestState, DecideNext
  <1>5. states' \in [Keys -> TargetHealth]
    BY CoolingTyped DEF DecideNext
  <1> HIDE DEF q
  <1> QED
    BY <1>2, <1>3, <1>4, <1>5, OneRequestMoves DEF DecideNext, Inv, TypeOK

LEMMA MoveOnKeepsInv ==
  ASSUME Inv, NEW r \in Requests, MoveOn(r)
  PROVE  Inv'
  <1>1. req \in [Requests -> RequestState] /\ LoopInv(req[r])
    BY DEF Inv, TypeOK
  <1>2. req[r].order \in Orders /\ req[r].target_index \in Positions
    BY TargetExists DEF MoveOn
  <1> DEFINE i == req[r].target_index + 1
             q == [req[r] EXCEPT !.pc = "loop", !.err = NoError, !.target_index = i]
  <1>3. req' = [req EXCEPT ![r] = q]
    BY <1>1 DEF MoveOn, Advance
  <1>4. i \in 2..(ChainLength + 1) /\ i \in Nat
    BY <1>2, FallbackAssumption DEF Positions
  <1>5. req[r].attempt <= i - 1
    BY <1>1 DEF LoopInv, MoveOn, RequestState
  <1>6. \A j \in 1..(i - 1) : req[r].fate[req[r].order[j]] \in Disposed
    <2>1. \A j \in 1..(i - 1) :
            j = req[r].target_index \/ j \in 1..(req[r].target_index - 1)
      BY <1>2, FallbackAssumption DEF Positions
    <2> QED
      BY <1>1, <2>1 DEF LoopInv, MoveOn
  <1> HIDE DEF i
  <1>7. q \in RequestState
    BY <1>1, <1>4, NoErrorTyped, ZenonT(60) DEF RequestState
  <1>8. LoopInv(q)
    BY <1>1, <1>2, <1>4, <1>5, <1>6, FallbackAssumption DEF LoopInv, MoveOn, RequestState
  <1> HIDE DEF q
  <1> QED
    BY <1>3, <1>7, <1>8, OneRequestMoves DEF MoveOn, Inv, TypeOK

\* The account skip moves forward, and gives every target it passes a fate.
LEMMA SkipDisposes ==
  ASSUME Inv, NEW r \in Requests, req[r].pc = "next",
         NEW j \in SkipAccount(req[r].order, req[r].target_index)
  PROVE  /\ j \in (req[r].target_index + 1)..(ChainLength + 1)
         /\ AuthFates(r, j) \in [Positions -> Fates]
         /\ \A i \in 1..(j - 1) : AuthFates(r, j)[req[r].order[i]] \in Disposed
  <1>1. req[r] \in RequestState /\ LoopInv(req[r])
    BY DEF Inv, TypeOK
  <1>2. req[r].order \in Orders /\ req[r].target_index \in Positions
    BY TargetExists
  <1>3. j \in (req[r].target_index + 1)..(ChainLength + 1)
    BY DEF SkipAccount
  <1>4. AuthFates(r, j) \in [Positions -> Fates]
    BY <1>1 DEF AuthFates, RequestState, Fates
  <1>5. ASSUME NEW i \in 1..(j - 1)
        PROVE  AuthFates(r, j)[req[r].order[i]] \in Disposed
    <2>1. i \in Positions /\ req[r].order[i] \in Positions
      BY <1>2, <1>3, OrderIsTyped, FallbackAssumption DEF Positions
    <2>2. CASE i = req[r].target_index
      BY <2>1, <2>2 DEF AuthFates, Target, Disposed
    <2>3. CASE i \in (req[r].target_index + 1)..(j - 1)
      BY <2>1, <2>3 DEF AuthFates, Disposed
    <2>4. CASE i \in 1..(req[r].target_index - 1)
      <3>1. req[r].fate[req[r].order[i]] \in Disposed
        BY <1>1, <2>4 DEF LoopInv
      <3> QED
        BY <2>1, <3>1 DEF AuthFates, Disposed
    <2>5. \/ i = req[r].target_index \/ i \in (req[r].target_index + 1)..(j - 1)
          \/ i \in 1..(req[r].target_index - 1)
      BY <1>2, <1>3, FallbackAssumption DEF Positions
    <2> QED
      BY <2>2, <2>3, <2>4, <2>5
  <1> QED
    BY <1>3, <1>4, <1>5

LEMMA MoveOnAuthKeepsInv ==
  ASSUME Inv, NEW r \in Requests, MoveOnAuth(r)
  PROVE  Inv'
  <1>1. req \in [Requests -> RequestState] /\ LoopInv(req[r]) /\ now \in Nat
    BY DEF Inv, TypeOK
  <1>2. /\ req[r].order \in Orders /\ req[r].target_index \in Positions
        /\ HealthKey(r) \in Keys
    BY TargetExists DEF MoveOnAuth
  <1>3. PICK j \in SkipAccount(req[r].order, req[r].target_index) :
          req' = [req EXCEPT ![r].pc = "loop", ![r].target_index = j,
                             ![r].err = NoError, ![r].fate = AuthFates(r, j)]
    BY DEF MoveOnAuth
  <1> DEFINE fates == AuthFates(r, j)
             q == [req[r] EXCEPT !.pc = "loop", !.target_index = j,
                                 !.err = NoError, !.fate = fates]
  <1>4. req' = [req EXCEPT ![r] = q]
    BY <1>1, <1>3
  <1>5. /\ j \in (req[r].target_index + 1)..(ChainLength + 1)
        /\ fates \in [Positions -> Fates]
        /\ \A i \in 1..(j - 1) : fates[req[r].order[i]] \in Disposed
    BY SkipDisposes DEF MoveOnAuth
  <1> HIDE DEF fates
  <1>6. j \in Nat /\ j \in 2..(ChainLength + 1) /\ req[r].attempt <= j - 1
    BY <1>1, <1>2, <1>5, FallbackAssumption, SMTT(60) DEF LoopInv, MoveOnAuth, RequestState, Positions
  <1>7. q \in RequestState
    <2>1. req[r] \in RequestState /\ j \in Nat /\ fates \in [Positions -> Fates]
      BY <1>1, <1>5, <1>6
    <2> QED
      BY <2>1, NoErrorTyped, Zenon DEF RequestState
  <1>8. LoopInv(q)
    BY <1>1, <1>2, <1>5, <1>6, FallbackAssumption, SMTT(60) DEF LoopInv, MoveOnAuth, RequestState
  <1>9. states' \in [Keys -> TargetHealth]
    <2>1. states \in [Keys -> TargetHealth]
      BY DEF Inv, TypeOK
    <2>2. ApplyCooling(states[HealthKey(r)], now, AuthCooling, "auth_broken") \in TargetHealth
      BY <1>1, <1>2, <2>1, RegistryTypes, FallbackAssumption
    <2> QED
      BY <2>1, <2>2 DEF MoveOnAuth
  <1> HIDE DEF q
  <1> QED
    BY <1>4, <1>7, <1>8, <1>9, OneRequestMoves DEF MoveOnAuth, Inv, TypeOK
-----------------------------------------------------------------------------
LEMMA InitInv == Init => Inv
  <1> SUFFICES ASSUME Init PROVE Inv
    OBVIOUS
  <1>1. Idle \in RequestState
    BY DEF Idle, RequestState, Fates
  <1>2. LoopInv(Idle)
    BY FallbackAssumption DEF LoopInv, Idle
  <1>3. Fresh \in TargetHealth
    BY DEF Fresh, TargetHealth
  <1> QED
    BY <1>1, <1>2, <1>3 DEF Init, Inv, TypeOK

LEMMA NextKeepsInv == Inv /\ [Next]_vars => Inv'
  <1> SUFFICES ASSUME Inv, [Next]_vars PROVE Inv'
    OBVIOUS
  <1>1. CASE Tick
    BY <1>1 DEF Tick, Inv, TypeOK, LoopInv
  <1>2. CASE UNCHANGED vars
    BY <1>2 DEF vars, Inv, TypeOK, LoopInv
  <1>3. ASSUME NEW r \in Requests, RequestStep(r) PROVE Inv'
    BY <1>3, StartKeepsInv, LeaveLoopKeepsInv, SkipUnhealthyKeepsInv, AdmitKeepsInv,
       RecoverOAuthKeepsInv, HopSuccessKeepsInv, HopFailureKeepsInv, DecideFailKeepsInv,
       DecideNextKeepsInv, MoveOnKeepsInv, MoveOnAuthKeepsInv
       DEF RequestStep
  <1> QED
    BY <1>1, <1>2, <1>3 DEF Next

\* The loop's inductive invariant holds in every reachable state of
\* execute_with_fallback, whatever the other requests do to the registry.
THEOREM LoopInvariant == Spec => []Inv
  BY InitInv, NextKeepsInv, PTL DEF Spec

\* Type correctness of the loop and the registry, for every route and every
\* number of requests: the counters stay natural numbers, a request holds an
\* order only of its own chain, an error only of those an executor returns.
THEOREM TypeCorrect == Spec => []TypeOK
  <1>1. Inv => TypeOK
    BY DEF Inv
  <1> QED
    BY <1>1, LoopInvariant, PTL

\* execute_with_fallback reports "exhausted" only after every target of the
\* chain was attempted, found unhealthy at its turn or passed over with its
\* account, for every chain, attempt budget and interleaving.
THEOREM ExhaustionIsComplete == Spec => []ExhaustedMeansAllTried
  <1>1. Inv => ExhaustedMeansAllTried
    BY DEF Inv, LoopInv, ExhaustedMeansAllTried, Disposed
  <1> QED
    BY <1>1, LoopInvariant, PTL

\* The sleep before a repeated attempt (fallback.rs, the RetryPolicy delay) is
\* dead code: no reachable state of the loop satisfies its condition.
THEOREM NoBackoff == Spec => []BackoffUnreachable
  <1>1. Inv => BackoffUnreachable
    BY DEF Inv, TypeOK, RequestState, LoopInv, BackoffUnreachable, InLoop
  <1> QED
    BY <1>1, LoopInvariant, PTL
-----------------------------------------------------------------------------
(* The fates: what a request did with every target of its chain.           *)

Tried == {"executing", "probing", "ok", "failed", "auth_failed"}

TriedOf(f) == {p \in Positions : f[p] \in Tried}

\* A target passed over for its account has one of the same account that
\* failed to authenticate.
Justified(f) ==
  \A p \in Positions : f[p] = "account_skipped" =>
    /\ AccountOf[p] # NoAccount
    /\ \E a \in Positions : f[a] = "auth_failed" /\ AccountOf[a] = AccountOf[p]

\* The targets the loop has not come to are untouched, the one it is at was
\* tried once, and the two counters count what the fates tell.
FateInv(q) ==
  /\ q.attempt = Cardinality(TriedOf(q.fate))
  /\ q.attempt <= MaxTotalAttempts
  /\ IsFiniteSet(q.oauth_recovered)
  /\ q.calls <= q.attempt + Cardinality(q.oauth_recovered)
  /\ Justified(q.fate)
  /\ q.pc = "idle" => \A p \in Positions : q.fate[p] = "pending"
  /\ q.pc = "loop" =>
       \A i \in q.target_index..ChainLength : q.fate[q.order[i]] = "pending"
  /\ q.pc \in {"execute", "classify", "next"} =>
       \A i \in (q.target_index + 1)..ChainLength : q.fate[q.order[i]] = "pending"
  /\ q.pc = "execute" => q.fate[q.order[q.target_index]] \in {"executing", "probing"}
  /\ q.pc \in {"classify", "next"} => q.fate[q.order[q.target_index]] = "failed"
  /\ q.pc = "next" => q.has_error
  /\ ~q.has_error /\ (q.pc \in {"idle", "loop"} \/ q.outcome = "exhausted") =>
       q.calls = 0

LEMMA PositionsFinite == IsFiniteSet(Positions)
  BY FS_Interval, FallbackAssumption DEF Positions

\* One target's fate moves on: the account skips stay justified, and a target
\* is counted as tried when it was tried before or is now.
LEMMA FateMoves ==
  ASSUME NEW f \in [Positions -> Fates], NEW t \in Positions, NEW n \in Fates,
         f[t] # "auth_failed", n # "account_skipped", Justified(f)
  PROVE  LET g == [f EXCEPT ![t] = n]
         IN  /\ Justified(g)
             /\ (f[t] \in Tried <=> n \in Tried) => TriedOf(g) = TriedOf(f)
             /\ f[t] \notin Tried /\ n \in Tried =>
                  Cardinality(TriedOf(g)) = Cardinality(TriedOf(f)) + 1
  <1> DEFINE g == [f EXCEPT ![t] = n]
  <1>1. Justified(g)
    BY DEF Justified
  <1>2. (f[t] \in Tried <=> n \in Tried) => TriedOf(g) = TriedOf(f)
    BY DEF TriedOf
  <1>3. ASSUME f[t] \notin Tried, n \in Tried
        PROVE  Cardinality(TriedOf(g)) = Cardinality(TriedOf(f)) + 1
    <2>1. TriedOf(g) = TriedOf(f) \cup {t} /\ t \notin TriedOf(f)
      BY <1>3 DEF TriedOf
    <2>2. IsFiniteSet(TriedOf(f))
      BY PositionsFinite, FS_Subset DEF TriedOf
    <2> QED
      BY <2>1, <2>2, FS_AddElement
  <1> QED
    BY <1>1, <1>2, <1>3

\* A fate given to the current target leaves the later ones alone.
LEMMA LaterTargets ==
  ASSUME NEW o \in Orders, NEW i \in Positions, NEW f \in [Positions -> Fates],
         NEW n \in Fates,
         \A j \in (i + 1)..ChainLength : f[o[j]] = "pending"
  PROVE  \A j \in (i + 1)..ChainLength : [f EXCEPT ![o[i]] = n][o[j]] = "pending"
  <1> SUFFICES ASSUME NEW j \in (i + 1)..ChainLength
               PROVE  [f EXCEPT ![o[i]] = n][o[j]] = "pending"
    OBVIOUS
  <1>1. j \in Positions /\ j # i
    BY FallbackAssumption DEF Positions
  <1>2. o[j] # o[i] /\ o[j] \in Positions
    BY <1>1 DEF Orders
  <1> QED
    BY <1>2

\* At the head of the loop neither the current target nor a later one was touched.
LEMMA RestIsPending ==
  ASSUME Inv, NEW r \in Requests, FateInv(req[r]), InLoop(r)
  PROVE  /\ req[r].pc = "loop"
         /\ \A i \in req[r].target_index..ChainLength :
              req[r].fate[req[r].order[i]] = "pending"
         /\ req[r].fate[Target(r)] = "pending"
  <1>1. req[r].pc = "loop"
    BY DEF InLoop
  <1>2. \A i \in req[r].target_index..ChainLength :
          req[r].fate[req[r].order[i]] = "pending"
    BY <1>1 DEF FateInv
  <1>3. req[r].target_index \in req[r].target_index..ChainLength
    BY TargetExists, FallbackAssumption DEF Positions
  <1> QED
    BY <1>1, <1>2, <1>3 DEF Target

LEMMA StartKeepsFates ==
  ASSUME Inv, NEW r \in Requests, FateInv(req[r]),
         Start(r) \/ StartPanics(r) \/ Exhaust(r) \/ ExceedDeadline(r)
  PROVE  FateInv(req'[r])
  <1>1. req[r] \in RequestState /\ req \in [Requests -> RequestState] /\ LoopInv(req[r])
    BY DEF Inv, TypeOK
  <1>2. ASSUME Start(r) PROVE FateInv(req'[r])
    <2>1. PICK s \in Strategies : \E o \in StrategyOrders(s) :
            req' = [req EXCEPT ![r].pc = "loop", ![r].order = o,
                               ![r].deadline = now + Deadline]
      BY <1>2 DEF Start
    <2>2. PICK o \in StrategyOrders(s) :
            req' = [req EXCEPT ![r].pc = "loop", ![r].order = o,
                               ![r].deadline = now + Deadline]
      BY <2>1
    <2>3. req'[r] = [req[r] EXCEPT !.pc = "loop", !.order = o, !.deadline = now + Deadline]
      BY <1>1, <2>2
    <2>4. req[r].pc = "idle" /\ req[r].target_index = 1
      BY <1>1, <1>2 DEF Start, LoopInv
    <2>5. \A i \in 1..ChainLength : req[r].fate[o[i]] = "pending"
      BY <2>4, StrategyPermutes, OrderIsTyped DEF FateInv, Positions
    <2> QED
      BY <1>1, <2>3, <2>4, <2>5 DEF FateInv, RequestState
  <1>3. ASSUME StartPanics(r) \/ Exhaust(r) \/ ExceedDeadline(r) PROVE FateInv(req'[r])
    <2>1. PICK out \in {"panicked", "exhausted", "deadline_exceeded"} :
            /\ req'[r] = [req[r] EXCEPT !.pc = "done", !.outcome = out]
            /\ req[r].pc \in {"idle", "loop"}
      BY <1>1, <1>3 DEF StartPanics, Exhaust, ExceedDeadline, InLoop
    <2> QED
      BY <1>1, <2>1 DEF FateInv, RequestState
  <1> QED
    BY <1>2, <1>3

LEMMA SkipUnhealthyKeepsFates ==
  ASSUME Inv, NEW r \in Requests, FateInv(req[r]), SkipUnhealthy(r)
  PROVE  FateInv(req'[r])
  <1>1. req[r] \in RequestState /\ req \in [Requests -> RequestState]
    BY DEF Inv, TypeOK
  <1>2. /\ req[r].order \in Orders /\ req[r].target_index \in Positions
        /\ Target(r) \in Positions
    BY TargetExists DEF SkipUnhealthy
  <1> DEFINE fates == [req[r].fate EXCEPT ![Target(r)] = "unhealthy"]
  <1>3. req'[r] = [req[r] EXCEPT !.fate = fates, !.target_index = req[r].target_index + 1]
    BY <1>1 DEF SkipUnhealthy, Advance
  <1>4. /\ req[r].pc = "loop"
        /\ \A i \in req[r].target_index..ChainLength :
             req[r].fate[req[r].order[i]] = "pending"
        /\ req[r].fate[Target(r)] = "pending"
    BY RestIsPending DEF SkipUnhealthy
  <1>5. req[r].fate \in [Positions -> Fates] /\ "unhealthy" \in Fates
    BY <1>1 DEF RequestState, Fates
  <1>6. Justified(fates) /\ TriedOf(fates) = TriedOf(req[r].fate)
    BY <1>2, <1>4, <1>5, FateMoves DEF FateInv, Tried
  <1>7. \A j \in (req[r].target_index + 1)..ChainLength : fates[req[r].order[j]] = "pending"
    <2>1. \A j \in (req[r].target_index + 1)..ChainLength : j \in req[r].target_index..ChainLength
      BY <1>2, FallbackAssumption DEF Positions
    <2> QED
      BY <1>2, <1>4, <1>5, <2>1, LaterTargets DEF Target
  <1> HIDE DEF fates
  <1> QED
    BY <1>1, <1>2, <1>3, <1>4, <1>6, <1>7 DEF FateInv, RequestState

LEMMA AdmitKeepsFates ==
  ASSUME Inv, NEW r \in Requests, FateInv(req[r]), Admit(r)
  PROVE  FateInv(req'[r])
  <1>1. req[r] \in RequestState /\ req \in [Requests -> RequestState] /\ LoopInv(req[r])
    BY DEF Inv, TypeOK
  <1>2. /\ req[r].order \in Orders /\ req[r].target_index \in Positions
        /\ Target(r) \in Positions
    BY TargetExists DEF Admit
  <1> DEFINE n == IF Open(HealthKey(r)) THEN "probing" ELSE "executing"
             fates == [req[r].fate EXCEPT ![Target(r)] = n]
  <1>3. req'[r] = [req[r] EXCEPT !.pc = "execute", !.attempt = req[r].attempt + 1,
                                 !.calls = req[r].calls + 1, !.fate = fates]
    BY <1>1 DEF Admit
  <1>4. /\ req[r].pc = "loop"
        /\ \A i \in req[r].target_index..ChainLength :
             req[r].fate[req[r].order[i]] = "pending"
        /\ req[r].fate[Target(r)] = "pending"
    BY RestIsPending DEF Admit
  <1>5. req[r].fate \in [Positions -> Fates] /\ n \in Fates /\ n \in {"executing", "probing"}
    BY <1>1 DEF RequestState, Fates
  <1> HIDE DEF n
  <1>6. Justified(fates) /\ Cardinality(TriedOf(fates)) = Cardinality(TriedOf(req[r].fate)) + 1
    <2>1. /\ req[r].fate[Target(r)] # "auth_failed" /\ n # "account_skipped"
          /\ req[r].fate[Target(r)] \notin Tried /\ n \in Tried
          /\ Justified(req[r].fate)
      BY <1>4, <1>5 DEF FateInv, Tried
    <2> QED
      BY <1>2, <1>5, <2>1, FateMoves
  <1>7. \A j \in (req[r].target_index + 1)..ChainLength : fates[req[r].order[j]] = "pending"
    <2>1. \A j \in (req[r].target_index + 1)..ChainLength : j \in req[r].target_index..ChainLength
      BY <1>2, FallbackAssumption DEF Positions
    <2> QED
      BY <1>2, <1>4, <1>5, <2>1, LaterTargets DEF Target
  <1>8. fates[req[r].order[req[r].target_index]] \in {"executing", "probing"}
    BY <1>2, <1>5 DEF Target
  <1>9. req[r].attempt < MaxTotalAttempts /\ req[r].outcome = "none"
    BY <1>1, <1>4 DEF LoopInv
  <1>10. Cardinality(req[r].oauth_recovered) \in Nat
    BY FS_CardinalityType DEF FateInv
  <1> HIDE DEF fates
  <1> QED
    BY <1>1, <1>3, <1>4, <1>6, <1>7, <1>8, <1>9, <1>10, FallbackAssumption, SMTT(60) DEF FateInv, RequestState

LEMMA RecoverOAuthKeepsFates ==
  ASSUME Inv, NEW r \in Requests, FateInv(req[r]), RecoverOAuth(r)
  PROVE  FateInv(req'[r])
  <1>1. req[r] \in RequestState /\ req \in [Requests -> RequestState] /\ LoopInv(req[r])
    BY DEF Inv, TypeOK
  <1> DEFINE rec == req[r].oauth_recovered \cup {HealthKey(r)}
  <1>2. req'[r] = [req[r] EXCEPT !.oauth_recovered = rec, !.calls = req[r].calls + 1]
    BY <1>1 DEF RecoverOAuth
  <1>3. IsFiniteSet(rec) /\ Cardinality(rec) = Cardinality(req[r].oauth_recovered) + 1
    BY FS_AddElement DEF FateInv, RecoverOAuth, CanRecoverOAuth
  <1>4. Cardinality(req[r].oauth_recovered) \in Nat
    BY FS_CardinalityType DEF FateInv
  <1>5. req[r].pc = "execute" /\ req[r].outcome = "none"
    BY <1>1 DEF RecoverOAuth, LoopInv
  <1> HIDE DEF rec
  <1> QED
    BY <1>1, <1>2, <1>3, <1>4, <1>5 DEF FateInv, RequestState

LEMMA HopSuccessKeepsFates ==
  ASSUME Inv, NEW r \in Requests, FateInv(req[r]), HopSuccess(r)
  PROVE  FateInv(req'[r])
  <1>1. req[r] \in RequestState /\ req \in [Requests -> RequestState]
    BY DEF Inv, TypeOK
  <1>2. Target(r) \in Positions
    BY TargetExists DEF HopSuccess
  <1> DEFINE fates == [req[r].fate EXCEPT ![Target(r)] = "ok"]
  <1>3. req'[r] = [req[r] EXCEPT !.pc = "done", !.outcome = "success", !.fate = fates]
    BY <1>1 DEF HopSuccess
  <1>4. req[r].fate[Target(r)] \in {"executing", "probing"}
    BY DEF HopSuccess, FateInv, Target
  <1>5. Justified(fates) /\ TriedOf(fates) = TriedOf(req[r].fate)
    <2>1. /\ req[r].fate[Target(r)] # "auth_failed" /\ req[r].fate[Target(r)] \in Tried
          /\ "ok" \in Tried /\ "ok" \in Fates /\ Justified(req[r].fate)
          /\ req[r].fate \in [Positions -> Fates]
      BY <1>1, <1>4 DEF FateInv, Tried, Fates, RequestState
    <2> QED
      BY <1>2, <2>1, FateMoves
  <1> HIDE DEF fates
  <1> QED
    BY <1>1, <1>3, <1>5 DEF FateInv, RequestState

LEMMA HopFailureKeepsFates ==
  ASSUME Inv, NEW r \in Requests, FateInv(req[r]), NEW e \in UpstreamErrors,
         HopFailure(r, e)
  PROVE  FateInv(req'[r])
  <1>1. req[r] \in RequestState /\ req \in [Requests -> RequestState] /\ LoopInv(req[r])
    BY DEF Inv, TypeOK
  <1>2. /\ req[r].order \in Orders /\ req[r].target_index \in Positions
        /\ Target(r) \in Positions
    BY TargetExists DEF HopFailure
  <1> DEFINE fates == [req[r].fate EXCEPT ![Target(r)] = "failed"]
             rec == RecoveredAfter(r, e)
  <1>3. req'[r] = [req[r] EXCEPT !.pc = "classify", !.err = e,
                                 !.oauth_recovered = rec, !.fate = fates]
    BY <1>1 DEF HopFailure
  <1>4. req[r].pc = "execute" /\ req[r].outcome = "none"
    BY <1>1 DEF HopFailure, LoopInv
  <1>5. /\ req[r].fate[Target(r)] \in {"executing", "probing"}
        /\ \A i \in (req[r].target_index + 1)..ChainLength :
             req[r].fate[req[r].order[i]] = "pending"
    BY <1>4 DEF FateInv, Target
  <1>6. req[r].fate \in [Positions -> Fates] /\ "failed" \in Fates
    BY <1>1 DEF RequestState, Fates
  <1>7. Justified(fates) /\ TriedOf(fates) = TriedOf(req[r].fate)
    <2>1. /\ req[r].fate[Target(r)] # "auth_failed" /\ req[r].fate[Target(r)] \in Tried
          /\ "failed" \in Tried /\ Justified(req[r].fate)
      BY <1>5 DEF FateInv, Tried
    <2> QED
      BY <1>2, <1>6, <2>1, FateMoves
  <1>8. \A j \in (req[r].target_index + 1)..ChainLength : fates[req[r].order[j]] = "pending"
    BY <1>2, <1>5, <1>6, LaterTargets DEF Target
  <1>9. fates[req[r].order[req[r].target_index]] = "failed"
    BY <1>2, <1>6 DEF Target
  <1>10. /\ IsFiniteSet(rec)
         /\ Cardinality(req[r].oauth_recovered) \in Nat /\ Cardinality(rec) \in Nat
         /\ Cardinality(req[r].oauth_recovered) <= Cardinality(rec)
    <2>1. IsFiniteSet(req[r].oauth_recovered)
      BY DEF FateInv
    <2>2. rec = req[r].oauth_recovered \/ rec = req[r].oauth_recovered \cup {HealthKey(r)}
      BY DEF RecoveredAfter
    <2>3. IsFiniteSet(rec)
      BY <2>1, <2>2, FS_AddElement
    <2>4. req[r].oauth_recovered \subseteq rec
      BY <2>2
    <2> HIDE DEF rec
    <2> QED
      BY <2>1, <2>3, <2>4, FS_Subset, FS_CardinalityType
  <1> HIDE DEF fates, rec
  <1> QED
    BY <1>1, <1>3, <1>4, <1>5, <1>7, <1>8, <1>9, <1>10 DEF FateInv, RequestState

LEMMA DecideKeepsFates ==
  ASSUME Inv, NEW r \in Requests, FateInv(req[r]), DecideFail(r) \/ DecideNext(r)
  PROVE  FateInv(req'[r])
  <1>1. req[r] \in RequestState /\ req \in [Requests -> RequestState] /\ LoopInv(req[r])
    BY DEF Inv, TypeOK
  <1>2. CASE DecideFail(r)
    <2>1. req'[r] = [req[r] EXCEPT !.pc = "done", !.outcome = "failed", !.err = NoError]
      BY <1>1, <1>2 DEF DecideFail
    <2> QED
      BY <1>1, <2>1 DEF FateInv, RequestState
  <1>3. CASE DecideNext(r)
    <2>1. /\ req'[r] = [req[r] EXCEPT !.pc = "next", !.has_error = TRUE]
          /\ req[r].pc = "classify"
      BY <1>1, <1>3 DEF DecideNext
    <2> QED
      BY <1>1, <2>1 DEF FateInv, RequestState
  <1> QED
    BY <1>2, <1>3

LEMMA MoveOnKeepsFates ==
  ASSUME Inv, NEW r \in Requests, FateInv(req[r]), MoveOn(r)
  PROVE  FateInv(req'[r])
  <1>1. req[r] \in RequestState /\ req \in [Requests -> RequestState] /\ LoopInv(req[r])
    BY DEF Inv, TypeOK
  <1>2. /\ req'[r] = [req[r] EXCEPT !.pc = "loop", !.err = NoError,
                                    !.target_index = req[r].target_index + 1]
        /\ req[r].pc = "next"
    BY <1>1 DEF MoveOn, Advance
  <1>3. req[r].has_error /\ req[r].outcome = "none"
    BY <1>1, <1>2 DEF FateInv, LoopInv
  <1> QED
    BY <1>1, <1>2, <1>3 DEF FateInv, RequestState

\* The account skip: the target that failed to authenticate stays tried, and the
\* ones passed over were untouched and share its account.
LEMMA MoveOnAuthKeepsFates ==
  ASSUME Inv, NEW r \in Requests, FateInv(req[r]), MoveOnAuth(r)
  PROVE  FateInv(req'[r])
  <1>1. req[r] \in RequestState /\ req \in [Requests -> RequestState] /\ LoopInv(req[r])
    BY DEF Inv, TypeOK
  <1>2. /\ req[r].order \in Orders /\ req[r].target_index \in Positions
        /\ Target(r) \in Positions
    BY TargetExists DEF MoveOnAuth
  <1>3. PICK j \in SkipAccount(req[r].order, req[r].target_index) :
          req' = [req EXCEPT ![r].pc = "loop", ![r].target_index = j,
                             ![r].err = NoError, ![r].fate = AuthFates(r, j)]
    BY DEF MoveOnAuth
  <1> DEFINE fates == AuthFates(r, j)
             i == req[r].target_index
             o == req[r].order
             f == req[r].fate
  <1>4. req'[r] = [req[r] EXCEPT !.pc = "loop", !.target_index = j,
                                 !.err = NoError, !.fate = fates]
    BY <1>1, <1>3
  <1>5. /\ req[r].pc = "next" /\ req[r].has_error /\ req[r].outcome = "none"
        /\ \A m \in (i + 1)..ChainLength : f[o[m]] = "pending"
        /\ f[Target(r)] = "failed"
        /\ Justified(f)
    BY <1>1 DEF MoveOnAuth, FateInv, LoopInv, Target
  <1>6. /\ j \in (i + 1)..(ChainLength + 1)
        /\ \A m \in (i + 1)..(j - 1) : SameAccount(o[i], o[m])
    BY DEF SkipAccount
  <1>7. /\ f \in [Positions -> Fates] /\ i \in 1..ChainLength /\ ChainLength \in Nat
        /\ \A m \in Positions : o[m] \in Positions
        /\ \A m, n \in Positions : m # n => o[m] # o[n]
        /\ Target(r) = o[i]
    BY <1>1, <1>2, FallbackAssumption DEF RequestState, Positions, Orders, Target
  <1> DEFINE Passed(p) == \E m \in (i + 1)..(j - 1) : p = o[m]
  <1>8. \A p \in Positions : Passed(p) =>
          /\ f[p] = "pending" /\ p # Target(r) /\ SameAccount(Target(r), p)
    <2> SUFFICES ASSUME NEW m \in (i + 1)..(j - 1)
                 PROVE  /\ f[o[m]] = "pending" /\ o[m] # Target(r)
                        /\ SameAccount(Target(r), o[m])
      OBVIOUS
    <2>1. m \in (i + 1)..ChainLength /\ m \in Positions /\ i \in Positions /\ m # i
      BY <1>6, <1>7 DEF Positions
    <2> QED
      BY <1>5, <1>6, <1>7, <2>1
  <1>9. \A p \in Positions :
          fates[p] = IF p = Target(r) THEN "auth_failed"
                     ELSE IF Passed(p) THEN "account_skipped" ELSE f[p]
    BY DEF AuthFates
  <1>10. \A m \in j..ChainLength : fates[o[m]] = "pending"
    <2> SUFFICES ASSUME NEW m \in j..ChainLength PROVE fates[o[m]] = "pending"
      OBVIOUS
    <2>1. m \in (i + 1)..ChainLength /\ m \in Positions /\ i \in Positions /\ m # i
      BY <1>6, <1>7 DEF Positions
    <2>2. ~Passed(o[m])
      <3> SUFFICES ASSUME NEW n \in (i + 1)..(j - 1), o[m] = o[n] PROVE FALSE
        OBVIOUS
      <3>1. n \in Positions /\ n # m
        BY <1>6, <1>7 DEF Positions
      <3> QED
        BY <1>7, <2>1, <3>1
    <2>3. o[m] # Target(r) /\ o[m] \in Positions /\ f[o[m]] = "pending"
      BY <1>5, <1>7, <2>1
    <2> QED
      BY <1>9, <2>2, <2>3
  <1> HIDE DEF fates, Passed
  <1>11. TriedOf(fates) = TriedOf(f)
    BY <1>2, <1>5, <1>8, <1>9 DEF TriedOf, Tried
  <1>12. Justified(fates)
    <2> SUFFICES ASSUME NEW p \in Positions, fates[p] = "account_skipped"
                 PROVE  /\ AccountOf[p] # NoAccount
                        /\ \E a \in Positions : fates[a] = "auth_failed" /\ AccountOf[a] = AccountOf[p]
      BY DEF Justified
    <2>1. CASE Passed(p)
      BY <1>2, <1>8, <1>9, <2>1 DEF SameAccount
    <2>2. CASE ~Passed(p)
      <3>1. f[p] = "account_skipped"
        BY <1>9, <2>2
      <3>2. PICK a \in Positions : f[a] = "auth_failed" /\ AccountOf[a] = AccountOf[p]
        BY <1>5, <3>1 DEF Justified
      <3>3. fates[a] = "auth_failed"
        BY <1>8, <1>9, <3>2
      <3> QED
        BY <1>5, <3>1, <3>2, <3>3 DEF Justified
    <2> QED
      BY <2>1, <2>2
  <1> QED
    BY <1>1, <1>4, <1>5, <1>10, <1>11, <1>12 DEF FateInv, RequestState
-----------------------------------------------------------------------------
FullInv == Inv /\ \A r \in Requests : FateInv(req[r])

LEMMA InitFates == Init => \A r \in Requests : FateInv(req[r])
  <1> SUFFICES ASSUME Init, NEW r \in Requests PROVE FateInv(req[r])
    OBVIOUS
  <1>1. req[r] = Idle
    BY DEF Init
  <1>2. TriedOf(Idle.fate) = {}
    BY DEF Idle, TriedOf, Tried
  <1>3. Justified(Idle.fate)
    BY DEF Idle, Justified
  <1>4. IsFiniteSet({}) /\ Cardinality({}) = 0
    BY FS_EmptySet
  <1>5. /\ Idle.pc = "idle" /\ Idle.attempt = 0 /\ Idle.calls = 0
        /\ Idle.oauth_recovered = {} /\ \A p \in Positions : Idle.fate[p] = "pending"
    BY DEF Idle
  <1> QED
    BY <1>1, <1>2, <1>3, <1>4, <1>5, FallbackAssumption DEF FateInv

\* A step of one request leaves the others where they are.
LEMMA OthersStay ==
  ASSUME Inv, NEW r \in Requests, RequestStep(r), NEW s \in Requests, s # r
  PROVE  req'[s] = req[s]
  <1>1. req \in [Requests -> RequestState]
    BY DEF Inv, TypeOK
  <1>2. CASE \/ Start(r) \/ StartPanics(r) \/ Exhaust(r) \/ ExceedDeadline(r)
    BY <1>1, <1>2 DEF Start, StartPanics, Exhaust, ExceedDeadline
  <1>3. CASE \/ SkipUnhealthy(r) \/ Admit(r) \/ RecoverOAuth(r) \/ HopSuccess(r)
    BY <1>1, <1>3 DEF SkipUnhealthy, Admit, RecoverOAuth, HopSuccess
  <1>4. CASE \E e \in UpstreamErrors : HopFailure(r, e)
    BY <1>1, <1>4 DEF HopFailure
  <1>5. CASE \/ DecideFail(r) \/ DecideNext(r) \/ MoveOnAuth(r) \/ MoveOn(r)
    BY <1>1, <1>5 DEF DecideFail, DecideNext, MoveOnAuth, MoveOn
  <1> QED
    BY <1>2, <1>3, <1>4, <1>5 DEF RequestStep

LEMMA NextKeepsFates == FullInv /\ [Next]_vars => FullInv'
  <1> SUFFICES ASSUME FullInv, [Next]_vars PROVE \A s \in Requests : FateInv(req'[s])
    BY NextKeepsInv DEF FullInv, FateInv, TriedOf, Justified
  <1>1. Inv /\ \A s \in Requests : FateInv(req[s])
    BY DEF FullInv
  <1>2. CASE UNCHANGED req
    BY <1>1, <1>2
  <1>3. ASSUME NEW r \in Requests, RequestStep(r), NEW s \in Requests
        PROVE  FateInv(req'[s])
    <2>1. CASE s # r
      BY <1>1, <1>3, <2>1, OthersStay
    <2>2. CASE s = r
      <3>1. FateInv(req'[r])
        BY <1>1, <1>3, StartKeepsFates, SkipUnhealthyKeepsFates, AdmitKeepsFates,
           RecoverOAuthKeepsFates, HopSuccessKeepsFates, HopFailureKeepsFates,
           DecideKeepsFates, MoveOnKeepsFates, MoveOnAuthKeepsFates
           DEF RequestStep
      <3> QED
        BY <2>2, <3>1
    <2> QED
      BY <2>1, <2>2
  <1>4. CASE Tick
    BY <1>2, <1>4 DEF Tick
  <1> QED
    BY <1>2, <1>3, <1>4 DEF Next, vars

\* Every recovery window has a length, whatever the failure count.
LEMMA WindowHasLength ==
  ASSUME NEW n \in Nat
  PROVE  RecoveryDurationFor(n) \in Nat
  <1>1. Len(RecoveryTiers) \in Nat \ {0}
    BY RegistryAssumption
  <1>2. TierIndex(n) \in 1..Len(RecoveryTiers)
    BY <1>1, RegistryAssumption DEF TierIndex
  <1> QED
    BY <1>2, RegistryAssumption DEF RecoveryDurationFor

LEMMA StatusAgrees == TypeOK => StatusAgreesWithHealth
  <1> SUFFICES ASSUME TypeOK, NEW k \in Keys, IsHealthy(states[k], now)
               PROVE  HealthStatus(states[k], now) = "healthy"
    BY DEF StatusAgreesWithHealth
  <1>1. states[k] \in TargetHealth /\ now \in Nat
    BY DEF TypeOK
  <1>2. RecoveryDurationFor(states[k].consecutive_failures) \in Nat
    BY <1>1, WindowHasLength DEF TargetHealth
  <1> QED
    BY <1>1, <1>2, RegistryAssumption DEF IsHealthy, HealthStatus, TargetHealth, Never

LEMMA HealthyFirst == TypeOK => HealthyTargetsFirst
  <1> SUFFICES ASSUME TypeOK, NEW s \in {"cooldown", "latency"}, NEW o \in StrategyOrders(s),
                      NEW i \in Positions, NEW j \in Positions, i < j, Healthy(o[j])
               PROVE  Healthy(o[i])
    BY DEF HealthyTargetsFirst
  <1>1. CASE s = "cooldown"
    <2>1. o \in StableSort(HealthRank)
      BY <1>1 DEF StrategyOrders
    <2>2. o \in Orders /\ HealthRank[o[i]] <= HealthRank[o[j]]
      <3>1. o[i] \in Positions /\ o[j] \in Positions
        BY <2>1 DEF StableSort, Orders
      <3>2. HealthRank[o[i]] \in {0, 1} /\ HealthRank[o[j]] \in {0, 1}
        BY <3>1 DEF HealthRank
      <3> QED
        BY <2>1, <3>2 DEF StableSort
    <2>3. o[i] \in Positions /\ o[j] \in Positions
      BY <2>2, OrderIsTyped
    <2> QED
      BY <2>2, <2>3 DEF HealthRank
  <1>2. CASE s = "latency"
    <2>1. o \in StableSort(LatencyRank)
      BY <1>2 DEF StrategyOrders
    <2>2. o[i] \in Positions /\ o[j] \in Positions
      BY <2>1 DEF StableSort, Orders
    <2> DEFINE ms(p) == IF latencies[KeyOf[p]] = Unobserved THEN 0 ELSE latencies[KeyOf[p]]
    <2>3. \A p \in Positions : ms(p) \in 0..(LatencyShift - 1)
      <3> SUFFICES ASSUME NEW p \in Positions PROVE ms(p) \in 0..(LatencyShift - 1)
        OBVIOUS
      <3>1. latencies[KeyOf[p]] \in LatencyBuckets \cup {Unobserved}
        BY FallbackAssumption DEF TypeOK
      <3>2. latencies[KeyOf[p]] \in LatencyBuckets => latencies[KeyOf[p]] \in 0..(LatencyShift - 1)
        BY FallbackAssumption
      <3>3. 0 \in 0..(LatencyShift - 1)
        BY FallbackAssumption
      <3> QED
        BY <3>1, <3>2, <3>3
    <2>4. \A p \in Positions : LatencyRank[p] = ms(p) + IF Healthy(p) THEN 0 ELSE LatencyShift
      BY DEF LatencyRank
    <2>5. LatencyShift \in Nat /\ LatencyRank[o[j]] = ms(o[j])
      BY <2>2, <2>3, <2>4, FallbackAssumption
    <2>6. LatencyRank[o[i]] \in Int /\ LatencyRank[o[j]] \in Int
      BY <2>2, <2>3, <2>4, <2>5
    <2>7. LatencyRank[o[i]] <= LatencyRank[o[j]]
      BY <2>1, <2>6 DEF StableSort
    <2> HIDE DEF ms
    <2> QED
      BY <2>2, <2>3, <2>4, <2>5, <2>7
  <1> QED
    BY <1>1, <1>2

\* execute_with_fallback and the orders of the strategies, for every route: an
\* account is passed over only after one of its targets failed to authenticate,
\* no target is attempted twice and no call is made beyond the attempts and the
\* recovered keys, a request fails without an error only if it called nobody,
\* health_status agrees with is_healthy, and the two health-aware strategies
\* put every healthy target before every unhealthy one.
THEOREM LoopSound == Spec => []LoopIsSound
  <1>1. Init => FullInv
    BY InitInv, InitFates DEF FullInv
  <1>2. FullInv => LoopIsSound
    <2> SUFFICES ASSUME FullInv PROVE LoopIsSound
      OBVIOUS
    <2>1. AccountSkipJustified
      BY DEF FullInv, FateInv, Justified, AccountSkipJustified
    <2>2. UpstreamCallsBounded
      <3>1. \A r \in Requests : Attempted(r) = TriedOf(req[r].fate)
        BY DEF Attempted, TriedOf, Tried
      <3> QED
        BY <3>1 DEF FullInv, FateInv, UpstreamCallsBounded
    <2>3. ExhaustedWithoutErrorMeansNoCall
      BY DEF FullInv, FateInv, ExhaustedWithoutErrorMeansNoCall
    <2>4. TypeOK
      BY DEF FullInv, Inv
    <2> QED
      BY <2>1, <2>2, <2>3, <2>4, StatusAgrees, HealthyFirst DEF LoopIsSound
  <1> QED
    BY <1>1, <1>2, NextKeepsFates, PTL DEF Spec
=============================================================================
