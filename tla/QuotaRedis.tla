----------------------------- MODULE QuotaRedis -----------------------------
(***************************************************************************)
(* RedisQuotaImpl of crates/core/src/quota.rs: the counters of one API key *)
(* live in Redis and are shared by all replicas.  A request runs the       *)
(* script for one kind after the other; a script is atomic, the requests   *)
(* interleave between scripts.  Redis is modelled from how the script uses *)
(* it: a key is gone once its time to live has passed.                     *)
(***************************************************************************)
EXTENDS Quota

CONSTANTS
  Requests,
  Faults,      \* "connect", "script"
  MaxRedisTime \* bound on the clock

VARIABLES
  now,
  key,        \* kind -> counter and time of expiry; Never without PEXPIRE
  req,        \* locals of every check_and_consume
  log         \* what was charged by the end of every tick

vars == <<now, key, req, log>>

Never == MaxTime + Day + 1
Absent == [n |-> 0, expires |-> 0]

\* checks: the kinds the caller configured.
Checks == {k \in Kinds : Limited(k)}

Idle == [pc |-> "idle", checks |-> {}, tokens |-> 0, kind |-> "rpm", at |-> 0, total |-> 0]

Init ==
  /\ now = Start
  /\ key = [k \in Kinds |-> Absent]
  /\ req = [r \in Requests |-> Idle]
  /\ log = NoCharge

\* The loop is at kind k, the first of the kinds that are left.
At(r, k) ==
  /\ req[r].pc = "check" /\ k \in req[r].checks
  /\ \A j \in req[r].checks : ~Before(j, k)

Total(k) == log[k][now]
-----------------------------------------------------------------------------
\* Without any limit the request is allowed at once.
Begin(r, tokens) ==
  /\ req[r].pc = "idle"
  /\ Checks # {}
  /\ req' = [req EXCEPT ![r].pc = "connect", ![r].checks = Checks, ![r].tokens = tokens]
  /\ UNCHANGED <<now, key, log>>

Connect(r) ==
  /\ req[r].pc = "connect"
  /\ req' = [req EXCEPT ![r].pc = "check"]
  /\ UNCHANGED <<now, key, log>>

\* The request is allowed when Redis cannot be reached.
ConnectFails(r) ==
  /\ "connect" \in Faults
  /\ req[r].pc = "connect"
  /\ req' = [req EXCEPT ![r] = Idle]
  /\ UNCHANGED <<now, key, log>>

\* INCRBY, and PEXPIRE if the counter was zero.
Charge(k, tokens) ==
  LET new == key[k].n + Increment(k, tokens)
  IN  /\ key' = [key EXCEPT ![k] = [n |-> new,
                  expires |-> IF new = Increment(k, tokens) THEN now + WindowOf(k)
                              ELSE key[k].expires]]
      /\ log' = [log EXCEPT ![k] = Charged(log[k], now, Increment(k, tokens))]

\* The script lets the increment in; after the last kind the request is allowed.
Consume(r, k) ==
  /\ At(r, k)
  /\ ~Exceeds(k, key[k].n, req[r].tokens)
  /\ Charge(k, req[r].tokens)
  /\ req' = [req EXCEPT ![r] = IF req[r].checks = {k} THEN Idle
                                ELSE [req[r] EXCEPT !.checks = @ \ {k}]]
  /\ UNCHANGED now

\* The script returns -1: the first full kind denies.
Deny(r, k) ==
  /\ At(r, k)
  /\ Exceeds(k, key[k].n, req[r].tokens)
  /\ req' = [req EXCEPT ![r].pc = "deny", ![r].kind = k, ![r].at = now,
                        ![r].total = Total(k)]
  /\ UNCHANGED <<now, key, log>>

\* An error allows the request; the script may have run all the same.
ScriptFails(r, k) ==
  /\ "script" \in Faults
  /\ At(r, k)
  /\ \/ UNCHANGED <<key, log>>
     \/ ~Exceeds(k, key[k].n, req[r].tokens) /\ Charge(k, req[r].tokens)
  /\ req' = [req EXCEPT ![r] = Idle]
  /\ UNCHANGED now

\* After a denial the caller may ask again.
Again(r) ==
  /\ req[r].pc = "deny"
  /\ req' = [req EXCEPT ![r] = Idle]
  /\ UNCHANGED <<now, key, log>>

\* Redis drops the keys whose time to live is over.
Tick ==
  /\ now < MaxRedisTime
  /\ now' = now + 1
  /\ key' = [k \in Kinds |-> IF key[k].expires > now' THEN key[k] ELSE Absent]
  /\ UNCHANGED <<req, log>>

Next ==
  \/ Tick
  \/ \E r \in Requests :
       \/ \E tokens \in TokenSizes : Begin(r, tokens)
       \/ Connect(r) \/ ConnectFails(r) \/ Again(r)
       \/ \E k \in Kinds : Consume(r, k) \/ Deny(r, k) \/ ScriptFails(r, k)

Spec == Init /\ [][Next]_vars
-----------------------------------------------------------------------------
\* Types of the counters in Redis and of the requests.
TypeOK ==
  /\ now \in Start..MaxTime
  /\ key \in [Kinds -> [n : Nat, expires : 0..Never]]
  /\ req \in [Requests -> [pc : {"idle", "connect", "check", "deny"}, checks : SUBSET Kinds,
                           tokens : Nat, kind : Kinds, at : Nat, total : Nat]]
  /\ log \in Log

\* No counter lives for ever: each expires within a window from now, so that
\* a key that is at its limit always comes back.
EveryCounterExpires ==
  \A k \in Kinds : key[k] # Absent => key[k].expires <= now + WindowOf(k)

\* After the retry_after of a denial, a whole window, the kind refuses the same
\* request only if others were charged since.
RetryAfterIsEnough ==
  \A r \in Requests :
    LET k == req[r].kind IN
    req[r].pc = "deny" /\ now >= req[r].at + WindowOf(k) =>
      \/ Increment(k, req[r].tokens) > Limit[k]
      \/ ~Exceeds(k, key[k].n, req[r].tokens)
      \/ Total(k) > req[r].total
=============================================================================
