---------------------------- MODULE QuotaMemory ----------------------------
(***************************************************************************)
(* InMemoryQuota of crates/core/src/quota.rs, for one API key (keys share  *)
(* nothing).  A check holds the mutex from beginning to end: it is one     *)
(* step.                                                                   *)
(***************************************************************************)
EXTENDS Quota

VARIABLES
  now,       \* now_ms
  counter,   \* kind -> WindowCounter; an entry that was never made has start 0
  log,       \* what was charged by the end of every tick
  answer     \* the last decision

vars == <<now, counter, log, answer>>

NoAnswer == [verdict |-> "none", kind |-> "rpm", tokens |-> 0, at |-> 0, retry |-> 0,
             total |-> 0]

Init ==
  /\ now = Start
  /\ counter = [k \in Kinds |-> [start |-> 0, used |-> 0]]
  /\ log = NoCharge
  /\ answer = NoAnswer

\* All that was ever charged to the bucket.
Total(k) == log[k][now]
-----------------------------------------------------------------------------
\* A plausible slip: a window ends one tick late.
BugRolled(k) ==
  IF now - counter[k].start > WindowOf(k) THEN [start |-> now, used |-> 0] ELSE counter[k]

\* WindowCounter::snapshot.
Rolled(k) ==
  IF now - counter[k].start >= WindowOf(k) THEN [start |-> now, used |-> 0] ELSE counter[k]

Remaining(k) == WindowOf(k) - (now - Rolled(k).start)

\* A limit on requests, or on tokens, brings both of its buckets in.
ToConsume ==
  {k \in {"rpm", "rpd"} : Limited("rpm") \/ Limited("rpd")} \cup
  {k \in {"tpm", "tpd"} : Limited("tpm") \/ Limited("tpd")}

Full(k, tokens) == k \in ToConsume /\ Exceeds(k, Rolled(k).used, tokens)

\* Phase 2: every bucket is charged.
Allow(tokens) ==
  /\ \A k \in Kinds : ~Full(k, tokens)
  /\ counter' = [k \in Kinds |->
        IF k \in ToConsume
        THEN [Rolled(k) EXCEPT !.used = @ + Increment(k, tokens)] ELSE counter[k]]
  /\ log' = [k \in Kinds |->
        IF k \in ToConsume
        THEN Charged(log[k], now, Increment(k, tokens)) ELSE log[k]]
  /\ answer' = [NoAnswer EXCEPT !.verdict = "allow", !.tokens = tokens, !.at = now]
  /\ UNCHANGED now

\* A plausible slip: the buckets are charged as they are looked at.
BugDeny(tokens) ==
  \E k \in Kinds :
    /\ Full(k, tokens) /\ \A j \in Kinds : Before(j, k) => ~Full(j, tokens)
    /\ counter' = [j \in Kinds |->
          IF j \in ToConsume /\ Before(j, k)
          THEN [Rolled(j) EXCEPT !.used = @ + Increment(j, tokens)]
          ELSE IF j = k THEN Rolled(j) ELSE counter[j]]
    /\ answer' = [verdict |-> "deny", kind |-> k, tokens |-> tokens, at |-> now,
                  retry |-> Remaining(k), total |-> Total(k)]
    /\ UNCHANGED <<now, log>>

\* Phase 1 stops at the first full bucket; those it has seen are rolled.
Deny(tokens) ==
  \E k \in Kinds :
    /\ Full(k, tokens) /\ \A j \in Kinds : Before(j, k) => ~Full(j, tokens)
    /\ counter' = [j \in Kinds |->
          IF j \in ToConsume /\ (Before(j, k) \/ j = k) THEN Rolled(j) ELSE counter[j]]
    /\ answer' = [verdict |-> "deny", kind |-> k, tokens |-> tokens, at |-> now,
                  retry |-> Remaining(k), total |-> Total(k)]
    /\ UNCHANGED <<now, log>>

\* A plausible slip: a look at the usage begins a new window.
BugCurrentUsage ==
  /\ counter' = [k \in Kinds |-> IF counter[k].start = 0 THEN counter[k]
                                 ELSE [start |-> now, used |-> 0]]
  /\ UNCHANGED <<now, log, answer>>

\* current_usage rolls the entries that exist.
CurrentUsage ==
  /\ counter' = [k \in Kinds |-> IF counter[k].start = 0 THEN counter[k] ELSE Rolled(k)]
  /\ UNCHANGED <<now, log, answer>>

Tick ==
  /\ now < MaxTime
  /\ now' = now + 1
  /\ UNCHANGED <<counter, log, answer>>

Next == Tick \/ CurrentUsage \/ \E tokens \in TokenSizes : Allow(tokens) \/ Deny(tokens)

Spec == Init /\ [][Next]_vars
-----------------------------------------------------------------------------
\* Types of the clock, the buckets and the answer.
TypeOK ==
  /\ now \in Start..MaxTime
  /\ counter \in [Kinds -> [start : 0..MaxTime, used : Nat]]
  /\ log \in Log
  /\ answer \in [verdict : {"none", "allow", "deny"}, kind : Kinds, tokens : Nat,
                 at : Nat, retry : Nat, total : Nat]

\* The bucket holds exactly what was charged since its window began: neither a
\* look at the usage nor a denial adds or loses anything.
UsageIsWhatWasCharged ==
  \A k \in Kinds : counter[k].start # 0 =>
    counter[k].used = ChargedIn(log, k, counter[k].start, now)

\* The time a denial asks the caller to wait is enough: afterwards the bucket
\* refuses the same request only if others were charged since.
RetryAfterIsEnough ==
  LET k == answer.kind IN
  \/ answer.verdict # "deny" \/ now < answer.at + answer.retry
  \/ Increment(k, answer.tokens) > Limit[k]
  \/ ~Full(k, answer.tokens)
  \/ Total(k) > answer.total

\* A step that denies a request uses up nothing of any bucket, the trait's
\* "consume the budget on Allow".
DenialKeepsUsage ==
  answer' # answer /\ answer'.verdict = "deny"
    => \A k \in Kinds : Rolled(k)'.used = Rolled(k).used
=============================================================================
