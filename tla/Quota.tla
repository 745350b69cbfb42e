------------------------------- MODULE Quota -------------------------------
(***************************************************************************)
(* What the two quota counters of crates/core/src/quota.rs share: the      *)
(* kinds of bucket, their windows and what a request costs.  A kind        *)
(* without a limit in the key's QuotaSpec is unlimited.                    *)
(***************************************************************************)
EXTENDS Naturals

CONSTANTS
  Minute, Day,   \* the two windows, in clock ticks
  RpmLimit, RpdLimit, TpmLimit, TpdLimit,  \* the key's QuotaSpec
  Unlimited,     \* None in a QuotaSpec
  TokenSizes,    \* values of the argument tokens
  Start,         \* the time at which the process starts
  MaxTime        \* bound on the clock

Kinds == {"rpm", "rpd", "tpm", "tpd"}
Limit == [rpm |-> RpmLimit, rpd |-> RpdLimit, tpm |-> TpmLimit, tpd |-> TpdLimit]

ASSUME QuotaAssumption ==
  /\ Minute \in Nat \ {0} /\ Day \in Nat \ {0} /\ Minute <= Day
  /\ {RpmLimit, RpdLimit, TpmLimit, TpdLimit} \subseteq Nat \cup {Unlimited} /\ Unlimited \notin Nat
  /\ TokenSizes \subseteq Nat
  /\ Start \in Nat /\ MaxTime \in Nat /\ Day <= Start /\ Start <= MaxTime

\* The order in which the buckets are looked at.
Order == <<"rpm", "rpd", "tpm", "tpd">>
Before(j, k) == \E a, b \in 1..4 : a < b /\ Order[a] = j /\ Order[b] = k

WindowOf(k) == IF k \in {"rpm", "tpm"} THEN Minute ELSE Day
Increment(k, tokens) == IF k \in {"rpm", "rpd"} THEN 1 ELSE tokens
Limited(k) == Limit[k] # Unlimited
Exceeds(k, used, tokens) == Limited(k) /\ used + Increment(k, tokens) > Limit[k]

\* What was charged to each bucket from the start to the end of every tick, for
\* the properties: a charge counts for its tick and for all later ones.
Ticks == Start..MaxTime
Log == [Kinds -> [Ticks -> Nat]]
NoCharge == [k \in Kinds |-> [t \in Ticks |-> 0]]
Charged(total, now, amount) ==
  [t \in Ticks |-> IF t >= now THEN total[t] + amount ELSE total[t]]
Until(total, t) == IF t > Start THEN total[t - 1] ELSE 0
ChargedIn(log, k, from, to) == log[k][to] - Until(log[k], from)

\* Two fixed windows meet in an interval of a window's length: no such interval
\* has charges beyond twice the limit.
TwiceLimitAtMost(log, now) ==
  \A k \in Kinds, t \in Ticks :
    Limited(k) => ChargedIn(log, k, t, IF t + WindowOf(k) - 1 < now
                                       THEN t + WindowOf(k) - 1 ELSE now) <= 2 * Limit[k]
=============================================================================
