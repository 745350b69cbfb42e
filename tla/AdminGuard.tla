----------------------------- MODULE AdminGuard -----------------------------
(***************************************************************************)
(* The gate before the admin API: require_admin_token asks a limiter       *)
(* whether the client is locked, compares the bearer token, and tells the  *)
(* limiter the outcome.  Three awaits, so requests of one client overlap.  *)
(* The limiter is a table behind a mutex, or a hash in Redis that a script *)
(* updates and that expires by itself.                                     *)
(***************************************************************************)
EXTENDS Naturals, FiniteSets

CONSTANTS
    Clients, Tasks,         \* addresses; requests under way
    MaxFailures,            \* max_failures
    MaxLockouts,            \* max_lockouts
    LockTicks, EscalatedTicks,  \* lockout_secs, escalated_lockout_secs
    MaxFaults               \* bound: calls that do not reach Redis

ASSUME GuardAssumption ==
    /\ MaxFailures \in Nat \ {0} /\ MaxLockouts \in Nat \ {0}
    /\ LockTicks \in Nat \ {0} /\ EscalatedTicks \in Nat /\ EscalatedTicks >= LockTicks

VARIABLES
    backend,    \* "memory" or "redis": build_limiter
    configured, \* TIYGATE_ADMIN_TOKEN is set
    table,      \* client -> [failures, lockouts, lock], lock in ticks to go
    ttl,        \* client -> ticks until Redis drops the hash
    task,       \* request -> [pc, client, token]
    faults,
    wrong,      \* history: failures the limiter heard since the last success it heard
    streak      \* history: lockouts since the last success or escalation

vars == <<backend, configured, table, ttl, task, faults, wrong, streak>>

Blank == [failures |-> 0, lockouts |-> 0, lock |-> 0]
Idle == [pc |-> "idle"]
Locked(c) == table[c].lock > 0

Goto(t, pc) == task' = [task EXCEPT ![t].pc = pc]
Ends(t) == task' = [task EXCEPT ![t] = Idle]

\* A call to Redis that fails is passed over: nobody is locked, nothing is
\* counted.  The table in memory always answers.
Heard == UNCHANGED faults
Unheard == backend = "redis" /\ faults > 0 /\ faults' = faults - 1

-----------------------------------------------------------------------------
(* The limiters.                                                           *)

\* Mutant: an entry is kept for its lock and its failures only.
PurgeForgetsLockouts(st) == IF st.lock > 0 \/ st.failures > 0 THEN st ELSE Blank

\* Entries without a lock, a failure or a lockout are dropped.
purge_expired(st) ==
    IF st.lock > 0 \/ st.failures > 0 \/ st.lockouts > 0 THEN st ELSE Blank

\* The state after one more failure, and whether it locks the client.
Locks(st) == st.failures + 1 >= MaxFailures
Escalates(st) == st.lockouts + 1 >= MaxLockouts
AfterFailure(st) ==
    IF ~Locks(st) THEN [st EXCEPT !.failures = @ + 1]
    ELSE [failures |-> 0,
          lockouts |-> IF Escalates(st) THEN 0 ELSE st.lockouts + 1,
          lock |-> IF Escalates(st) THEN EscalatedTicks ELSE LockTicks]

\* Both limiters leave a client alone that is locked already: requests that
\* were under way when the lock fell are not counted.
Counted(st) == st.lock = 0

\* Redis counts from the moment the script runs, up to a tick after the
\* gateway read its clock.
Expiry(c, st) ==
    IF backend = "memory" THEN ttl' = ttl
    ELSE \E late \in 0..1 :
            ttl' = [ttl EXCEPT ![c] = late + IF st.lock > 0 THEN st.lock
                                             ELSE LockTicks + EscalatedTicks]

Seen(c) == IF backend = "memory" THEN purge_expired(table[c]) ELSE table[c]

\* Mutant: a failure is counted although the client is locked.
RecordFailureAlways(c) ==
    LET st == Seen(c) IN
    /\ table' = [table EXCEPT ![c] = AfterFailure(st)]
    /\ Expiry(c, AfterFailure(st))
    /\ wrong' = [wrong EXCEPT ![c] = IF Locks(st) THEN 0 ELSE @ + 1]
    /\ streak' = [streak EXCEPT ![c] = IF ~Locks(st) THEN @
                                       ELSE IF @ + 1 >= MaxLockouts THEN 0 ELSE @ + 1]

record_failure(c) ==
    LET st == Seen(c) IN
    IF ~Counted(st)
    THEN UNCHANGED <<table, ttl, wrong, streak>>
    ELSE /\ table' = [table EXCEPT ![c] = AfterFailure(st)]
         /\ Expiry(c, AfterFailure(st))
         /\ wrong' = [wrong EXCEPT ![c] = IF Locks(st) THEN 0 ELSE @ + 1]
         /\ streak' = [streak EXCEPT ![c] = IF ~Locks(st) THEN @
                                            ELSE IF @ + 1 >= MaxLockouts THEN 0 ELSE @ + 1]

\* A success clears the counters and, in memory, leaves the lock alone;
\* in Redis the whole hash goes.
record_success(c) ==
    /\ table' = [table EXCEPT ![c] =
           IF backend = "memory" THEN [@ EXCEPT !.failures = 0, !.lockouts = 0] ELSE Blank]
    /\ ttl' = [ttl EXCEPT ![c] = 0]
    /\ wrong' = [wrong EXCEPT ![c] = 0]
    /\ streak' = [streak EXCEPT ![c] = 0]

-----------------------------------------------------------------------------
(* require_admin_token.                                                    *)

Arrive(t, c, token) ==
    /\ task[t] = Idle
    /\ task' = [task EXCEPT ![t] = [pc |-> "gate", client |-> c, token |-> token]]
    /\ UNCHANGED <<backend, configured, table, ttl, faults, wrong, streak>>

is_locked(t) ==
    /\ task[t].pc = "gate"
    /\ \/ Heard /\ IF Locked(task[t].client) THEN Ends(t) ELSE Goto(t, "compare")
       \/ Unheard /\ Goto(t, "compare")
    /\ UNCHANGED <<backend, configured, table, ttl, wrong, streak>>

\* A request without a bearer token is a failure even where no admin token
\* is set; with one, it is turned away uncounted.
Turned(t) ==
    /\ task[t].pc = "compare" /\ task[t].token # "missing" /\ ~configured
    /\ Ends(t)
    /\ UNCHANGED <<backend, configured, table, ttl, faults, wrong, streak>>

Refused(t) ==
    /\ task[t].pc = "compare"
    /\ task[t].token = "missing" \/ (configured /\ task[t].token = "wrong")
    /\ \/ Heard /\ record_failure(task[t].client)
       \/ Unheard /\ UNCHANGED <<table, ttl, wrong, streak>>
    /\ Ends(t)
    /\ UNCHANGED <<backend, configured>>

Admitted(t) ==
    /\ task[t].pc = "compare" /\ configured /\ task[t].token = "right"
    /\ \/ Heard /\ record_success(task[t].client)
       \/ Unheard /\ UNCHANGED <<table, ttl, wrong, streak>>
    /\ Ends(t)
    /\ UNCHANGED <<backend, configured>>

\* The client hangs up: what the request was about to tell is not told.
Dropped(t) ==
    /\ task[t].pc \in {"gate", "compare"}
    /\ Ends(t)
    /\ UNCHANGED <<backend, configured, table, ttl, faults, wrong, streak>>

\* Time passes; Redis drops the hashes whose time has come.
Tick ==
    LET Left(n) == IF n > 0 THEN n - 1 ELSE 0
        Gone(c) == ttl[c] = 1
    IN  /\ \E c \in Clients : table[c].lock > 0 \/ ttl[c] > 0
        /\ ttl' = [c \in Clients |-> Left(ttl[c])]
        /\ table' = [c \in Clients |->
                        IF Gone(c) THEN Blank ELSE [table[c] EXCEPT !.lock = Left(@)]]
        /\ wrong' = [c \in Clients |-> IF Gone(c) THEN 0 ELSE wrong[c]]
        /\ UNCHANGED <<backend, configured, task, faults, streak>>

Init ==
    /\ backend \in {"memory", "redis"}
    /\ configured \in BOOLEAN
    /\ table = [c \in Clients |-> Blank]
    /\ ttl = [c \in Clients |-> 0]
    /\ task = [t \in Tasks |-> Idle]
    /\ faults = MaxFaults
    /\ wrong = [c \in Clients |-> 0]
    /\ streak = [c \in Clients |-> 0]

Next ==
    \/ \E t \in Tasks :
          \/ \E c \in Clients, token \in {"right", "wrong", "missing"} : Arrive(t, c, token)
          \/ is_locked(t) \/ Turned(t) \/ Refused(t) \/ Admitted(t) \/ Dropped(t)
    \/ Tick

Spec == Init /\ [][Next]_vars

-----------------------------------------------------------------------------
(* Properties.                                                             *)

\* While a client is locked nothing is counted against it, so it has all its
\* tries again when the lock ends; and the count of the limiter is the number
\* of failures it really heard since the last success or lock.
TriesAreWhole ==
    \A c \in Clients :
        /\ Locked(c) => table[c].failures = 0
        /\ table[c].failures = wrong[c]

\* The table in memory remembers lockouts across their end: the last of
\* MaxLockouts lockouts without a success between them is the long one.
LockoutsEscalate ==
    backend = "memory" => \A c \in Clients : table[c].lockouts = streak[c]

\* The limiters count what require_admin_token told them, however the requests
\* of a client overlap (record_failure, record_success, purge_expired).
GuardCounts == TriesAreWhole /\ LockoutsEscalate

\* A request of c with the right token ends, and the limiter is told.
Succeeds(c) ==
    \E t \in Tasks : /\ task[t].pc = "compare" /\ task[t].client = c /\ task[t].token = "right"
                     /\ configured /\ task'[t] = Idle /\ UNCHANGED faults

\* What a step may do to the lock of a client: only the clock, which moves no
\* request, takes a tick off it, and only a success deletes it, in Redis.
LockRunsOn(c) ==
    \/ table'[c].lock = table[c].lock
    \/ UNCHANGED task /\ table'[c].lock = table[c].lock - 1
    \/ backend = "redis" /\ Succeeds(c) /\ table'[c].lock = 0

\* A lock runs its course: no failure that overlaps with it lengthens, shortens or
\* deletes it, and Redis does not drop the hash before its time (PEXPIRE); only a
\* success that passed is_locked before the lock fell, and that Redis hears,
\* deletes it (record_failure, record_success).
LocksRunTheirCourse == [][\A c \in Clients : Locked(c) => LockRunsOn(c)]_vars

=============================================================================
