---------------------------- MODULE LimiterProofs ----------------------------
(***************************************************************************)
(* What the two limiters guarantee.  The gate before the admin API: for    *)
(* every number of clients and overlapping requests and for every          *)
(* configured limit.  The quota counters of an API key, in memory and in   *)
(* Redis: for every limit, window, size of request, number of replicas'    *)
(* requests and failure of Redis.                                          *)
(***************************************************************************)
EXTENDS AdminGuard, Quotas, TLAPS

Entry == [failures : Nat, lockouts : Nat, lock : Nat]

InFlight == [pc : {"gate", "compare"}, client : Clients, token : {"right", "wrong", "missing"}]

\* Types; a task that runs has a client, whose entry it will change.
TypeOK ==
    /\ backend \in {"memory", "redis"}
    /\ table \in [Clients -> Entry]
    /\ ttl \in [Clients -> Nat]
    /\ wrong \in [Clients -> Nat]
    /\ streak \in [Clients -> Nat]
    /\ task \in [Tasks -> InFlight \cup {Idle}]

\* Only Redis drops entries by itself: otherwise the lockouts of a client would
\* be forgotten while the history remembers them.
NothingExpiresInMemory == backend = "memory" => \A c \in Clients : ttl[c] = 0

\* Redis keeps a hash at least as long as the lock in it.
LocksFitExpiry ==
    backend = "redis" => \A c \in Clients : table[c].lock > 0 => ttl[c] >= table[c].lock

Inv == TypeOK /\ NothingExpiresInMemory /\ LocksFitExpiry /\ GuardCounts

-----------------------------------------------------------------------------
\* purge_expired drops nothing that counts: an entry it drops is blank.
LEMMA PurgeKeepsEntries ==
    ASSUME NEW st \in Entry
    PROVE  purge_expired(st) = st
    BY DEF purge_expired, Entry, Blank

LEMMA SeenIsTheEntry ==
    ASSUME TypeOK, NEW c \in Clients
    PROVE  Seen(c) = table[c] /\ table[c] \in Entry
    BY PurgeKeepsEntries DEF Seen, TypeOK

LEMMA FailureTypes ==
    ASSUME NEW st \in Entry
    PROVE  AfterFailure(st) \in Entry
    BY GuardAssumption DEF AfterFailure, Entry, Locks, Escalates

\* A task that runs has a client.
LEMMA RunningHasClient ==
    ASSUME TypeOK, NEW t \in Tasks, task[t].pc \in {"gate", "compare"}
    PROVE  task[t] \in InFlight /\ task[t].client \in Clients
    <1>1. task[t] \in InFlight \/ task[t] = Idle
        BY DEF TypeOK
    <1>2. task[t] # Idle
        BY DEF Idle
    <1> QED
        BY <1>1, <1>2 DEF InFlight

LEMMA TaskTypes ==
    ASSUME TypeOK, NEW t \in Tasks
    PROVE  /\ Ends(t) => task' \in [Tasks -> InFlight \cup {Idle}]
           /\ task[t].pc = "gate" /\ Goto(t, "compare") =>
                  task' \in [Tasks -> InFlight \cup {Idle}]
    <1>1. Ends(t) => task' \in [Tasks -> InFlight \cup {Idle}]
        BY DEF TypeOK, Ends
    <1>2. ASSUME task[t].pc = "gate", Goto(t, "compare")
          PROVE  task' \in [Tasks -> InFlight \cup {Idle}]
        <2>1. task[t] \in InFlight
            BY <1>2, RunningHasClient
        <2>2. [task[t] EXCEPT !.pc = "compare"] \in InFlight
            BY <2>1 DEF InFlight
        <2> QED
            BY <1>2, <2>2 DEF Goto, TypeOK
    <1> QED
        BY <1>1, <1>2

-----------------------------------------------------------------------------
\* record_failure counts what it heard and starts over when it locks.
LEMMA FailureKeepsInv ==
    ASSUME Inv, NEW c \in Clients, record_failure(c), backend' = backend,
           task' \in [Tasks -> InFlight \cup {Idle}]
    PROVE  Inv'
    <1>1. Seen(c) = table[c] /\ table[c] \in Entry
        BY SeenIsTheEntry DEF Inv
    <1>2. CASE ~Counted(Seen(c))
        BY <1>2 DEF record_failure, Inv, TypeOK, NothingExpiresInMemory, LocksFitExpiry, GuardCounts,
                    TriesAreWhole, LockoutsEscalate, Locked
    <1>3. CASE Counted(Seen(c))
        <2> DEFINE st == table[c]
        <2>1. /\ table' = [table EXCEPT ![c] = AfterFailure(st)]
              /\ Expiry(c, AfterFailure(st))
              /\ wrong' = [wrong EXCEPT ![c] = IF Locks(st) THEN 0 ELSE @ + 1]
              /\ streak' = [streak EXCEPT ![c] = IF ~Locks(st) THEN @
                                ELSE IF @ + 1 >= MaxLockouts THEN 0 ELSE @ + 1]
            BY <1>1, <1>3 DEF record_failure
        <2>2. AfterFailure(st) \in Entry /\ st.lock = 0
            BY <1>1, <1>3, FailureTypes DEF Counted
        <2>3. /\ table \in [Clients -> Entry] /\ ttl \in [Clients -> Nat]
              /\ wrong \in [Clients -> Nat] /\ streak \in [Clients -> Nat]
              /\ backend \in {"memory", "redis"}
            BY DEF Inv, TypeOK
        <2>4. ttl' \in [Clients -> Nat]
            <3>1. CASE backend = "memory"
                BY <2>1, <2>3, <3>1 DEF Expiry
            <3>2. CASE backend # "memory"
                <4>1. PICK late \in 0..1 :
                          ttl' = [ttl EXCEPT ![c] = late + IF AfterFailure(st).lock > 0
                                      THEN AfterFailure(st).lock
                                      ELSE LockTicks + EscalatedTicks]
                    BY <2>1, <3>2 DEF Expiry
                <4>2. AfterFailure(st).lock \in Nat
                    BY <2>2 DEF Entry
                <4> QED
                    BY <2>3, <4>1, <4>2, GuardAssumption
            <3> QED
                BY <3>1, <3>2
        <2>5. TypeOK'
            <3>1. table' \in [Clients -> Entry]
                BY <2>1, <2>2, <2>3
            <3>2. wrong' \in [Clients -> Nat] /\ streak' \in [Clients -> Nat]
                BY <2>1, <2>3
            <3> QED
                BY <2>3, <2>4, <3>1, <3>2 DEF TypeOK
        <2>6. NothingExpiresInMemory'
            BY <2>1, <2>3 DEF Inv, NothingExpiresInMemory, Expiry
        <2>7. GuardCounts'
            <3> SUFFICES ASSUME NEW d \in Clients
                         PROVE  /\ table'[d].lock > 0 => table'[d].failures = 0
                                /\ table'[d].failures = wrong'[d]
                                /\ backend = "memory" => table'[d].lockouts = streak'[d]
                BY DEF GuardCounts, TriesAreWhole, LockoutsEscalate, Locked
            <3>1. CASE d # c
                BY <2>1, <2>3, <3>1 DEF Inv, GuardCounts, TriesAreWhole, LockoutsEscalate, Locked
            <3>2. CASE d = c
                <4>1. table'[d] = AfterFailure(st) /\ st \in Entry
                    BY <1>1, <2>1, <2>3, <3>2
                <4>2. /\ st.failures = wrong[c]
                      /\ backend = "memory" => st.lockouts = streak[c]
                    BY DEF Inv, GuardCounts, TriesAreWhole, LockoutsEscalate
                <4>3. CASE Locks(st)
                    BY <2>1, <2>3, <3>2, <4>1, <4>2, <4>3 DEF AfterFailure, Entry, Escalates
                <4>4. CASE ~Locks(st)
                    BY <2>1, <2>2, <2>3, <3>2, <4>1, <4>2, <4>4 DEF AfterFailure, Entry
                <4> QED
                    BY <4>3, <4>4
            <3> QED
                BY <3>1, <3>2
        <2>8. LocksFitExpiry'
            <3> SUFFICES ASSUME backend = "redis", NEW d \in Clients, table'[d].lock > 0
                         PROVE  ttl'[d] >= table'[d].lock
                BY DEF LocksFitExpiry
            <3>1. PICK late \in 0..1 :
                      ttl' = [ttl EXCEPT ![c] = late + IF AfterFailure(st).lock > 0
                                  THEN AfterFailure(st).lock
                                  ELSE LockTicks + EscalatedTicks]
                BY <2>1 DEF Expiry
            <3>2. CASE d = c
                <4>1. table'[d] = AfterFailure(st) /\ AfterFailure(st).lock \in Nat
                    BY <2>1, <2>2, <2>3, <3>2 DEF Entry
                <4> QED
                    BY <2>3, <3>1, <3>2, <4>1
            <3>3. CASE d # c
                <4>1. table'[d] = table[d] /\ ttl'[d] = ttl[d]
                    BY <2>1, <2>3, <3>1, <3>3
                <4> QED
                    BY <4>1 DEF Inv, LocksFitExpiry
            <3> QED
                BY <3>2, <3>3
        <2> QED
            BY <2>5, <2>6, <2>7, <2>8 DEF Inv
    <1> QED
        BY <1>2, <1>3

\* record_success forgets in the table and in the history alike.
LEMMA SuccessKeepsInv ==
    ASSUME Inv, NEW c \in Clients, record_success(c), backend' = backend,
           task' \in [Tasks -> InFlight \cup {Idle}]
    PROVE  Inv'
    <1>1. /\ table \in [Clients -> Entry] /\ ttl \in [Clients -> Nat]
          /\ wrong \in [Clients -> Nat] /\ streak \in [Clients -> Nat]
          /\ backend \in {"memory", "redis"}
        BY DEF Inv, TypeOK
    <1> DEFINE new == IF backend = "memory"
                      THEN [table[c] EXCEPT !.failures = 0, !.lockouts = 0] ELSE Blank
    <1>2. /\ table' = [table EXCEPT ![c] = new]
          /\ ttl' = [ttl EXCEPT ![c] = 0]
          /\ wrong' = [wrong EXCEPT ![c] = 0]
          /\ streak' = [streak EXCEPT ![c] = 0]
        BY <1>1 DEF record_success
    <1>3. new \in Entry /\ new.failures = 0 /\ new.lockouts = 0
        BY <1>1 DEF Entry, Blank
    <1> HIDE DEF new
    <1>4. TypeOK'
        BY <1>1, <1>2, <1>3 DEF TypeOK
    <1>5. NothingExpiresInMemory'
        BY <1>1, <1>2 DEF Inv, NothingExpiresInMemory
    <1>6. GuardCounts'
        BY <1>1, <1>2, <1>3 DEF Inv, GuardCounts, TriesAreWhole, LockoutsEscalate, Locked
    <1>7. LocksFitExpiry'
        <2> SUFFICES ASSUME backend = "redis", NEW d \in Clients, table'[d].lock > 0
                     PROVE  ttl'[d] >= table'[d].lock
            BY DEF LocksFitExpiry
        <2>1. d # c
            BY <1>1, <1>2 DEF new, Blank
        <2> QED
            BY <1>1, <1>2, <2>1 DEF Inv, LocksFitExpiry
    <1> QED
        BY <1>4, <1>5, <1>6, <1>7 DEF Inv

LEMMA TickKeepsInv ==
    ASSUME Inv, Tick
    PROVE  Inv'
    <1> DEFINE Left(n) == IF n > 0 THEN n - 1 ELSE 0
    <1>1. /\ table \in [Clients -> Entry] /\ ttl \in [Clients -> Nat]
          /\ wrong \in [Clients -> Nat] /\ streak \in [Clients -> Nat]
          /\ backend \in {"memory", "redis"}
        BY DEF Inv, TypeOK
    <1>2. /\ ttl' = [c \in Clients |-> Left(ttl[c])]
          /\ table' = [c \in Clients |-> IF ttl[c] = 1 THEN Blank
                                         ELSE [table[c] EXCEPT !.lock = Left(table[c].lock)]]
          /\ wrong' = [c \in Clients |-> IF ttl[c] = 1 THEN 0 ELSE wrong[c]]
          /\ backend' = backend /\ task' = task /\ streak' = streak
        BY DEF Tick
    <1>3. \A n \in Nat : Left(n) \in Nat /\ (Left(n) > 0 => n > 0) /\ (n = 0 => Left(n) = 0)
        OBVIOUS
    <1> HIDE DEF Left
    <1>4. TypeOK'
        <2>1. ttl' \in [Clients -> Nat] /\ wrong' \in [Clients -> Nat]
            BY <1>1, <1>2, <1>3
        <2>2. table' \in [Clients -> Entry]
            BY <1>1, <1>2, <1>3 DEF Entry, Blank
        <2> QED
            BY <1>2, <2>1, <2>2 DEF Inv, TypeOK
    <1>5. NothingExpiresInMemory'
        BY <1>1, <1>2, <1>3 DEF Inv, NothingExpiresInMemory
    <1>6. GuardCounts'
        <2> SUFFICES ASSUME NEW c \in Clients
                     PROVE  /\ table'[c].lock > 0 => table'[c].failures = 0
                            /\ table'[c].failures = wrong'[c]
                            /\ backend = "memory" => table'[c].lockouts = streak[c]
            BY <1>2 DEF GuardCounts, TriesAreWhole, LockoutsEscalate, Locked
        <2>1. /\ table[c].lock > 0 => table[c].failures = 0
              /\ table[c].failures = wrong[c]
              /\ backend = "memory" => table[c].lockouts = streak[c] /\ ttl[c] = 0
            BY DEF Inv, NothingExpiresInMemory, GuardCounts, TriesAreWhole, LockoutsEscalate, Locked
        <2>2. CASE ttl[c] = 1
            BY <1>2, <2>1, <2>2 DEF Blank
        <2>3. CASE ttl[c] # 1
            BY <1>1, <1>2, <1>3, <2>1, <2>3 DEF Entry
        <2> QED
            BY <2>2, <2>3
    <1>7. LocksFitExpiry'
        <2> SUFFICES ASSUME backend = "redis", NEW c \in Clients, table'[c].lock > 0
                     PROVE  ttl'[c] >= table'[c].lock
            BY <1>2 DEF LocksFitExpiry
        <2>1. ttl[c] # 1
            BY <1>2 DEF Blank
        <2>2. table'[c].lock = Left(table[c].lock) /\ ttl'[c] = Left(ttl[c])
            BY <1>1, <1>2, <2>1 DEF Entry
        <2>3. table[c].lock \in Nat /\ ttl[c] \in Nat /\ (table[c].lock > 0 => ttl[c] >= table[c].lock)
            BY <1>1 DEF Entry, Inv, LocksFitExpiry
        <2> QED
            BY <2>2, <2>3 DEF Left
    <1> QED
        BY <1>4, <1>5, <1>6, <1>7 DEF Inv

\* Steps of a task that tell the limiter nothing.
LEMMA SilentKeepsInv ==
    ASSUME Inv, UNCHANGED <<backend, table, ttl, wrong, streak>>,
           task' \in [Tasks -> InFlight \cup {Idle}]
    PROVE  Inv'
    BY DEF Inv, TypeOK, NothingExpiresInMemory, LocksFitExpiry, GuardCounts, TriesAreWhole,
           LockoutsEscalate, Locked

-----------------------------------------------------------------------------
LEMMA InvHolds == Spec => []Inv
    <1>1. Init => Inv
        BY GuardAssumption DEF Init, Inv, TypeOK, Entry, Blank, NothingExpiresInMemory, LocksFitExpiry,
            GuardCounts, TriesAreWhole, LockoutsEscalate, Locked
    <1>2. Inv /\ [Next]_vars => Inv'
        <2> SUFFICES ASSUME Inv, [Next]_vars PROVE Inv'
            OBVIOUS
        <2>1. ASSUME NEW t \in Tasks, NEW c \in Clients,
                     NEW token \in {"right", "wrong", "missing"}, Arrive(t, c, token)
              PROVE  Inv'
            <3>1. [pc |-> "gate", client |-> c, token |-> token] \in InFlight
                BY DEF InFlight
            <3>2. task' \in [Tasks -> InFlight \cup {Idle}]
                BY <2>1, <3>1 DEF Arrive, Inv, TypeOK
            <3> QED
                BY <2>1, <3>2, SilentKeepsInv DEF Arrive
        <2>2. ASSUME NEW t \in Tasks, is_locked(t)
              PROVE  Inv'
            <3>1. task[t].pc = "gate" /\ (Ends(t) \/ Goto(t, "compare"))
                BY <2>2 DEF is_locked
            <3>2. task' \in [Tasks -> InFlight \cup {Idle}]
                BY <3>1, TaskTypes DEF Inv
            <3> QED
                BY <2>2, <3>2, SilentKeepsInv DEF is_locked
        <2>3. ASSUME NEW t \in Tasks, Turned(t) \/ Dropped(t)
              PROVE  Inv'
            <3>1. task' \in [Tasks -> InFlight \cup {Idle}]
                BY <2>3, TaskTypes DEF Inv, Turned, Dropped
            <3> QED
                BY <2>3, <3>1, SilentKeepsInv DEF Turned, Dropped
        <2>4. ASSUME NEW t \in Tasks, Refused(t)
              PROVE  Inv'
            <3>1. task[t].client \in Clients
                BY <2>4, RunningHasClient DEF Inv, Refused
            <3>2. task' \in [Tasks -> InFlight \cup {Idle}]
                BY <2>4, TaskTypes DEF Inv, Refused
            <3>3. /\ backend' = backend
                  /\ \/ record_failure(task[t].client)
                     \/ UNCHANGED <<table, ttl, wrong, streak>>
                BY <2>4 DEF Refused
            <3> QED
                BY <3>1, <3>2, <3>3, FailureKeepsInv, SilentKeepsInv
        <2>5. ASSUME NEW t \in Tasks, Admitted(t)
              PROVE  Inv'
            <3>1. task[t].client \in Clients
                BY <2>5, RunningHasClient DEF Inv, Admitted
            <3>2. task' \in [Tasks -> InFlight \cup {Idle}]
                BY <2>5, TaskTypes DEF Inv, Admitted
            <3>3. /\ backend' = backend
                  /\ \/ record_success(task[t].client)
                     \/ UNCHANGED <<table, ttl, wrong, streak>>
                BY <2>5 DEF Admitted
            <3> QED
                BY <3>1, <3>2, <3>3, SuccessKeepsInv, SilentKeepsInv
        <2>6. CASE UNCHANGED vars
            BY <2>6, SilentKeepsInv DEF vars, Inv, TypeOK
        <2> QED
            BY <2>1, <2>2, <2>3, <2>4, <2>5, <2>6, TickKeepsInv DEF Next
    <1> QED
        BY <1>1, <1>2, PTL DEF Spec

\* What the limiters count (GuardCounts) holds in every state, although failures
\* of one client are told concurrently, out of order or not at all.
THEOREM CountsAreWhole == Spec => []GuardCounts
    <1>1. Inv => GuardCounts
        BY DEF Inv
    <1> QED
        BY <1>1, InvHolds, PTL

\* Only time shortens a lock, and only a success deletes it, in Redis:
\* record_failure passes over a locked client.
LEMMA StepsLeaveLocks ==
    ASSUME Inv, [Next]_vars, NEW c \in Clients, Locked(c)
    PROVE  LockRunsOn(c)
    <1>1. table \in [Clients -> Entry] /\ ttl \in [Clients -> Nat]
        BY DEF Inv, TypeOK
    <1>2. CASE table' = table
        BY <1>2 DEF LockRunsOn
    <1>3. ASSUME NEW d \in Clients, record_failure(d)
          PROVE  LockRunsOn(c)
        <2>1. Seen(d) = table[d]
            BY SeenIsTheEntry DEF Inv
        <2>2. CASE d = c
            BY <1>1, <1>3, <2>1, <2>2 DEF record_failure, Counted, Locked, LockRunsOn, Entry
        <2>3. CASE d # c
            BY <1>1, <1>3, <2>1, <2>3 DEF record_failure, LockRunsOn
        <2> QED
            BY <2>2, <2>3
    <1>4. ASSUME NEW d \in Clients, record_success(d), backend = "redis" => Succeeds(d)
          PROVE  LockRunsOn(c)
        <2>1. CASE backend = "memory" \/ d # c
            BY <1>1, <1>4, <2>1 DEF record_success, LockRunsOn, Entry
        <2>2. CASE backend # "memory" /\ d = c
            <3>1. backend = "redis" /\ table'[c].lock = 0
                BY <1>1, <1>4, <2>2 DEF record_success, Blank, Inv, TypeOK
            <3> QED
                BY <1>4, <2>2, <3>1 DEF LockRunsOn
        <2> QED
            BY <2>1, <2>2
    <1>5. CASE Tick
        <2>1. table'[c] = IF ttl[c] = 1 THEN Blank
                          ELSE [table[c] EXCEPT !.lock = IF @ > 0 THEN @ - 1 ELSE 0]
            BY <1>5 DEF Tick
        <2>2. CASE ttl[c] = 1
            <3>1. backend = "redis"
                BY <2>2 DEF Inv, TypeOK, NothingExpiresInMemory
            <3>2. table[c].lock = 1
                BY <1>1, <2>2, <3>1 DEF Inv, LocksFitExpiry, Locked, Entry
            <3>3. table'[c].lock = 0
                BY <2>1, <2>2 DEF Blank
            <3> QED
                BY <1>5, <3>2, <3>3 DEF LockRunsOn, Tick
        <2>3. CASE ttl[c] # 1
            BY <1>1, <1>5, <2>1, <2>3 DEF LockRunsOn, Locked, Entry, Tick
        <2> QED
            BY <2>2, <2>3
    <1>6. ASSUME NEW t \in Tasks, Refused(t)
          PROVE  LockRunsOn(c)
        <2>1. task[t].client \in Clients
            BY <1>6, RunningHasClient DEF Inv, Refused
        <2>2. record_failure(task[t].client) \/ table' = table
            BY <1>6 DEF Refused
        <2> QED
            BY <1>2, <1>3, <2>1, <2>2
    <1>7. ASSUME NEW t \in Tasks, Admitted(t)
          PROVE  LockRunsOn(c)
        <2>1. task[t].client \in Clients
            BY <1>7, RunningHasClient DEF Inv, Admitted
        <2>2. CASE table' = table
            BY <1>2, <2>2
        <2>3. CASE table' # table
            <3>1. Heard /\ record_success(task[t].client)
                BY <1>7, <2>3 DEF Admitted
            <3>2. Succeeds(task[t].client)
                BY <1>7, <3>1 DEF Admitted, Succeeds, Heard, Ends, Inv, TypeOK
            <3> QED
                BY <1>4, <2>1, <3>1, <3>2
        <2> QED
            BY <2>2, <2>3
    <1> QED
        BY <1>2, <1>5, <1>6, <1>7 DEF Next, Arrive, is_locked, Turned, Dropped, vars

\* Locks run their course under every interleaving of the requests of a client:
\* the clock takes a tick off, a success deletes the hash in Redis, and nothing
\* else touches a lock (record_failure, record_success).
THEOREM LocksAreKept == Spec => LocksRunTheirCourse
    <1>1. Inv /\ [Next]_vars => [\A c \in Clients : Locked(c) => LockRunsOn(c)]_vars
        BY StepsLeaveLocks
    <1> QED
        BY <1>1, InvHolds, PTL DEF Spec, LocksRunTheirCourse

-----------------------------------------------------------------------------
(* The quota counters.  Facts about the total charged to one bucket: C is  *)
(* its course over time, W the window and L the limit.                     *)

\* A total never falls, and nothing is charged ahead of the clock.
Steady(C, n) ==
    /\ C \in [Ticks -> Nat]
    /\ \A a, b \in Ticks : a <= b => C[a] <= C[b]
    /\ \A t \in Ticks : t >= n => C[t] = C[n]

\* BurstBounded for one bucket.
Burst(C, n, W, L) ==
    \A t \in Ticks : C[IF t + W - 1 < n THEN t + W - 1 ELSE n] - Until(C, t) <= 2 * L

\* What is left of earlier windows when one begins at s: an interval that
\* reaches into it holds at most a limit from before.
Spill(C, s, W, L) ==
    \A t \in Start..s : t + W > s => Until(C, s) - Until(C, t) <= L

LEMMA TicksAreNat ==
    /\ Start \in Nat /\ MaxTime \in Nat /\ Start >= 1 /\ Start <= MaxTime
    /\ Ticks \subseteq Nat
    /\ \A t \in Nat : t \in Ticks <=> Start <= t /\ t <= MaxTime
    BY QuotaAssumption DEF Ticks

\* Until is the total at the end of the tick before, and never falls either.
LEMMA UntilTypes ==
    ASSUME NEW C, NEW n \in Ticks, Steady(C, n), NEW t \in Ticks
    PROVE  Until(C, t) \in Nat /\ Until(C, t) <= C[t]
    <1>1. CASE t = Start
        BY <1>1, TicksAreNat DEF Until, Steady
    <1>2. CASE t > Start
        <2>1. t - 1 \in Ticks
            BY <1>2, TicksAreNat
        <2> QED
            BY <1>2, <2>1, TicksAreNat DEF Until, Steady
    <1> QED
        BY <1>1, <1>2, TicksAreNat

LEMMA UntilRises ==
    ASSUME NEW C, NEW n \in Ticks, Steady(C, n), NEW t \in Ticks, NEW u \in Ticks
    PROVE  /\ t <= u => Until(C, t) <= Until(C, u)
           /\ t < u => C[t] <= Until(C, u)
           /\ t > n => Until(C, t) = C[n]
    <1>1. \A x \in Ticks : x > Start => x - 1 \in Ticks
        BY TicksAreNat
    <1>2. Until(C, t) \in Nat /\ Until(C, u) \in Nat
        BY UntilTypes
    <1>3. ASSUME t < u PROVE C[t] <= Until(C, u)
        BY <1>1, <1>3, TicksAreNat DEF Until, Steady
    <1>4. ASSUME t <= u PROVE Until(C, t) <= Until(C, u)
        <2>1. CASE t = u
            BY <2>1, <1>2
        <2>2. CASE t < u
            <3>1. C[t] <= Until(C, u) /\ Until(C, t) <= C[t] /\ C[t] \in Nat
                BY <1>3, <2>2, UntilTypes DEF Steady
            <3> QED
                BY <3>1, <1>2
        <2> QED
            BY <2>1, <2>2, <1>4, TicksAreNat
    <1>5. ASSUME t > n PROVE Until(C, t) = C[n]
        BY <1>1, <1>5, TicksAreNat DEF Until, Steady
    <1> QED
        BY <1>3, <1>4, <1>5

\* A charge at the time n.
LEMMA ChargeValues ==
    ASSUME NEW C, NEW n \in Ticks, Steady(C, n), NEW a \in Nat
    PROVE  /\ Charged(C, n, a) \in [Ticks -> Nat]
           /\ \A t \in Ticks : Charged(C, n, a)[t] = IF t >= n THEN C[t] + a ELSE C[t]
           /\ \A t \in Ticks : t <= n => Until(Charged(C, n, a), t) = Until(C, t)
           /\ Charged(C, n, a)[n] = C[n] + a
    <1>1. Charged(C, n, a) \in [Ticks -> Nat]
        BY DEF Charged, Steady
    <1>2. \A t \in Ticks : Charged(C, n, a)[t] = IF t >= n THEN C[t] + a ELSE C[t]
        BY DEF Charged
    <1>3. \A x \in Ticks : x > Start => x - 1 \in Ticks
        BY TicksAreNat
    <1>4. \A t \in Ticks : t <= n => Until(Charged(C, n, a), t) = Until(C, t)
        BY <1>2, <1>3, TicksAreNat DEF Until
    <1> QED
        BY <1>1, <1>2, <1>4, TicksAreNat

LEMMA ChargeSteady ==
    ASSUME NEW C, NEW n \in Ticks, Steady(C, n), NEW a \in Nat
    PROVE  Steady(Charged(C, n, a), n)
    <1> DEFINE D == Charged(C, n, a)
    <1>1. D \in [Ticks -> Nat]
        BY ChargeValues
    <1>2. \A t \in Ticks : D[t] = IF t >= n THEN C[t] + a ELSE C[t]
        BY ChargeValues
    <1>3. \A t \in Ticks : C[t] \in Nat /\ t \in Nat
        BY TicksAreNat DEF Steady
    <1> HIDE DEF D
    <1>4. ASSUME NEW x \in Ticks, NEW y \in Ticks, x <= y PROVE D[x] <= D[y]
        <2>1. C[x] <= C[y]
            BY <1>4 DEF Steady
        <2> QED
            BY <2>1, <1>2, <1>3, <1>4
    <1>5. ASSUME NEW t \in Ticks, t >= n PROVE D[t] = D[n]
        <2>1. C[t] = C[n]
            BY <1>5 DEF Steady
        <2> QED
            BY <2>1, <1>2, <1>3, <1>5
    <1> QED
        BY <1>1, <1>4, <1>5 DEF D, Steady

\* A charge within the window that began at s keeps the bound.
LEMMA ChargeBurst ==
    ASSUME NEW C, NEW n \in Ticks, Steady(C, n), NEW a \in Nat,
           NEW W \in Nat \ {0}, NEW L \in Nat, NEW s \in Ticks, s <= n, n < s + W,
           C[n] + a - Until(C, s) <= L, Spill(C, s, W, L), Burst(C, n, W, L)
    PROVE  Burst(Charged(C, n, a), n, W, L)
    <1> DEFINE D == Charged(C, n, a)
    <1>0. Steady(D, n)
        BY ChargeSteady
    <1> SUFFICES ASSUME NEW t \in Ticks
                 PROVE  D[IF t + W - 1 < n THEN t + W - 1 ELSE n] - Until(D, t) <= 2 * L
        BY DEF Burst
    <1>1. D[n] = C[n] + a /\ C[n] \in Nat /\ Until(C, s) \in Nat
        BY ChargeValues, UntilTypes DEF Steady
    <1>2. CASE t + W - 1 < n
        <2>1. t + W - 1 \in Ticks /\ t <= n
            BY <1>2, TicksAreNat
        <2>2. D[t + W - 1] = C[t + W - 1] /\ Until(D, t) = Until(C, t)
            BY <2>1, <1>2, ChargeValues, TicksAreNat
        <2> QED
            BY <1>2, <2>2 DEF Burst
    <1>3. CASE t + W - 1 >= n /\ t > n
        <2>1. Until(D, t) = D[n]
            BY <1>0, <1>3, UntilRises
        <2> QED
            BY <1>1, <1>3, <2>1, TicksAreNat
    <1>4. CASE t + W - 1 >= n /\ t <= n /\ t > s
        <2>1. Until(D, t) = Until(C, t) /\ Until(C, t) \in Nat /\ Until(C, s) <= Until(C, t)
            BY <1>4, ChargeValues, UntilTypes, UntilRises, TicksAreNat
        <2> QED
            BY <1>1, <1>4, <2>1, TicksAreNat
    <1>5. CASE t + W - 1 >= n /\ t <= s
        <2>1. Until(D, t) = Until(C, t) /\ Until(C, t) \in Nat
            BY <1>5, ChargeValues, UntilTypes, TicksAreNat
        <2>2. Until(C, s) - Until(C, t) <= L
            BY <1>5, TicksAreNat DEF Spill
        <2> QED
            BY <1>1, <1>5, <2>1, <2>2, TicksAreNat
    <1> QED
        BY <1>2, <1>3, <1>4, <1>5, TicksAreNat

\* The clock goes on.
LEMMA TickBurst ==
    ASSUME NEW C, NEW n \in Ticks, Steady(C, n), n + 1 \in Ticks,
           NEW W \in Nat \ {0}, NEW L \in Nat, Burst(C, n, W, L)
    PROVE  Burst(C, n + 1, W, L)
    <1> SUFFICES ASSUME NEW t \in Ticks
                 PROVE  C[IF t + W - 1 < n + 1 THEN t + W - 1 ELSE n + 1] - Until(C, t) <= 2 * L
        BY DEF Burst
    <1>1. C[n + 1] = C[n]
        BY TicksAreNat DEF Steady
    <1>2. C[IF t + W - 1 < n + 1 THEN t + W - 1 ELSE n + 1]
              = C[IF t + W - 1 < n THEN t + W - 1 ELSE n]
        BY <1>1, TicksAreNat
    <1> QED
        BY <1>2 DEF Burst

LEMMA TickSteady ==
    ASSUME NEW C, NEW n \in Ticks, Steady(C, n), n + 1 \in Ticks
    PROVE  Steady(C, n + 1) /\ C[n + 1] = C[n]
    BY TicksAreNat DEF Steady

\* A window that is over leaves at most its limit to the next one.
LEMMA RolledSpill ==
    ASSUME NEW C, NEW n \in Ticks, Steady(C, n), NEW W \in Nat \ {0}, NEW L \in Nat,
           NEW s \in Ticks, s + W <= n, C[n] - Until(C, s) <= L
    PROVE  Spill(C, n, W, L)
    <1> SUFFICES ASSUME NEW t \in Start..n, t + W > n
                 PROVE  Until(C, n) - Until(C, t) <= L
        BY DEF Spill
    <1>1. t \in Ticks /\ s <= t
        BY TicksAreNat
    <1>2. Until(C, s) <= Until(C, t) /\ Until(C, n) <= C[n]
        BY <1>1, UntilRises, UntilTypes
    <1>3. Until(C, s) \in Nat /\ Until(C, t) \in Nat /\ Until(C, n) \in Nat /\ C[n] \in Nat
        BY <1>1, UntilTypes DEF Steady
    <1> QED
        BY <1>2, <1>3

-----------------------------------------------------------------------------
(* The inductive invariant of the quota counters.                          *)

\* WindowCounter c of a bucket whose total is C: it holds what was charged since
\* its window began, nothing was charged after that window's end, and what is
\* left from before its beginning is bounded.
Bucket(C, n, c, W, limited, L) ==
    /\ c.start = 0 => c.used = 0 /\ C[n] = 0
    /\ c.start # 0 =>
         /\ c.start \in Ticks /\ c.start <= n
         /\ c.used = C[n] - Until(C, c.start)
         /\ \A t \in Ticks : t >= c.start + W - 1 /\ t <= n => C[t] = C[n]
         /\ limited => c.used <= L /\ Spill(C, c.start, W, L)

\* A denial under way to its caller: the window that was full ends when the
\* caller may come back, or a later one has begun by then.
DenialHolds ==
    answer.verdict = "deny" =>
      LET k == answer.kind
          end == answer.at + answer.retry
      IN  /\ Limited(k)
          /\ answer.at \in Ticks /\ answer.at <= now /\ answer.at < end
          /\ answer.total <= log[k][answer.at]
          /\ counter[k].start + WindowOf(k) = end \/ counter[k].start >= end

InMemory ==
    /\ key = [k \in Kinds |-> Redis!Absent]
    /\ req = [r \in Requests |-> Redis!Idle]
    /\ \A k \in Kinds :
         Bucket(log[k], now, counter[k], WindowOf(k), Limited(k), Limit[k])
    /\ DenialHolds

\* A counter in Redis with a limit: at zero, nothing was charged at this tick and
\* at most a limit since a window ago; else its window began a window before it
\* expires.
KeyHolds(C, n, e, W, L) ==
    /\ e.n = 0 => C[n] = Until(C, n) /\ Spill(C, n, W, L)
    /\ e.n > 0 => \E s \in Ticks :
         /\ e.expires = s + W /\ s <= n /\ n < s + W
         /\ e.n = C[n] - Until(C, s) /\ e.n <= L
         /\ Spill(C, s, W, L)

InRedis ==
    /\ counter = [k \in Kinds |-> [start |-> 0, used |-> 0]]
    /\ answer = Memory!NoAnswer
    /\ \A k \in Kinds :
         /\ key[k] = Redis!Absent \/ key[k].expires <= now + WindowOf(k)
         /\ Limited(k) => KeyHolds(log[k], now, key[k], WindowOf(k), Limit[k])
    /\ \A r \in Requests :
         /\ \A k \in req[r].checks : Limited(k)
         /\ req[r].pc = "deny" =>
              /\ Limited(req[r].kind)
              /\ req[r].at \in Ticks /\ req[r].at <= now
              /\ req[r].total <= log[req[r].kind][req[r].at]

QuotaInv ==
    /\ QuotaTypeOK
    /\ \A k \in Kinds :
         /\ Steady(log[k], now)
         /\ Limited(k) => Burst(log[k], now, WindowOf(k), Limit[k])
    /\ kept = "memory" => InMemory
    /\ kept = "redis" => InRedis

-----------------------------------------------------------------------------
(* The bucket in memory.                                                   *)

Counter == [start : Nat, used : Nat]

\* WindowCounter::snapshot, on a counter of its own.
Roll(c, n, W) == IF n - c.start >= W THEN [start |-> n, used |-> 0] ELSE c

\* Rolling the window keeps the bucket sound, and leaves it open.
LEMMA RollBucket ==
    ASSUME NEW C, NEW n \in Ticks, Steady(C, n), NEW c \in Counter,
           NEW W \in Nat \ {0}, W <= n, NEW limited, NEW L, limited => L \in Nat,
           Bucket(C, n, c, W, limited, L)
    PROVE  LET r == Roll(c, n, W)
           IN  /\ r \in Counter /\ r.start # 0 /\ n < r.start + W
               /\ Bucket(C, n, r, W, limited, L)
    <1> DEFINE fresh == [start |-> n, used |-> 0]
    <1>0. n \in Nat /\ n # 0 /\ C[n] \in Nat /\ Until(C, n) \in Nat /\ Until(C, n) <= C[n]
        BY UntilTypes, TicksAreNat DEF Steady
    <1>1. ASSUME Until(C, n) = C[n], limited => Spill(C, n, W, L)
          PROVE  /\ fresh \in Counter /\ fresh.start # 0 /\ n < fresh.start + W
                 /\ Bucket(C, n, fresh, W, limited, L)
        <2>1. \A t \in Ticks : t >= n + W - 1 /\ t <= n => C[t] = C[n]
            BY <1>0, TicksAreNat
        <2>2. limited => 0 <= L /\ Spill(C, n, W, L)
            BY <1>1
        <2>3. fresh \in Counter /\ fresh.start = n /\ fresh.used = 0
            BY <1>0 DEF Counter
        <2>4. 0 = C[n] - Until(C, n)
            BY <1>0, <1>1
        <2> HIDE DEF fresh
        <2>5. Bucket(C, n, fresh, W, limited, L)
            BY <1>0, <2>1, <2>2, <2>3, <2>4 DEF Bucket
        <2> QED
            BY <1>0, <2>3, <2>5
    <1>2. CASE c.start = 0
        <2>1. Roll(c, n, W) = fresh
            BY <1>0, <1>2 DEF Roll
        <2>2. C[n] = 0 /\ Until(C, n) = C[n]
            BY <1>0, <1>2 DEF Bucket
        <2>3. \A t \in Start..n : Until(C, t) \in Nat
            BY UntilTypes, TicksAreNat
        <2>4. limited => Spill(C, n, W, L)
            BY <2>2, <2>3 DEF Spill
        <2> QED
            BY <1>1, <2>1, <2>2, <2>4
    <1>3. CASE c.start # 0 /\ n - c.start >= W
        <2>1. Roll(c, n, W) = fresh
            BY <1>3 DEF Roll
        <2>2. /\ c.start \in Ticks /\ c.start <= n
              /\ c.used = C[n] - Until(C, c.start)
              /\ \A t \in Ticks : t >= c.start + W - 1 /\ t <= n => C[t] = C[n]
              /\ limited => c.used <= L
            BY <1>3 DEF Bucket
        <2>0. c.start \in Nat /\ c.start >= Start /\ n <= MaxTime /\ n - c.start >= W
            BY <1>3, <2>2, TicksAreNat
        <2>3. n - 1 \in Ticks /\ n - 1 >= c.start + W - 1 /\ n - 1 <= n /\ n > Start
            BY <1>0, <2>0, TicksAreNat
        <2>4. Until(C, n) = C[n]
            BY <2>2, <2>3 DEF Until
        <2>5. c.start + W <= n
            BY <1>0, <2>0
        <2>6. limited => Spill(C, n, W, L)
            BY <2>2, <2>5, RolledSpill
        <2> QED
            BY <1>1, <2>1, <2>4, <2>6
    <1>4. CASE c.start # 0 /\ ~(n - c.start >= W)
        <2>1. Roll(c, n, W) = c
            BY <1>4 DEF Roll
        <2>2. n < c.start + W
            BY <1>0, <1>4 DEF Counter
        <2> QED
            BY <1>4, <2>1, <2>2
    <1> QED
        BY <1>2, <1>3, <1>4

\* Charging an open bucket within its limit keeps it sound, and the bound on bursts.
LEMMA ChargeBucket ==
    ASSUME NEW C, NEW n \in Ticks, Steady(C, n), NEW r \in Counter,
           NEW W \in Nat \ {0}, NEW limited, NEW L, limited => L \in Nat,
           r.start # 0, n < r.start + W, Bucket(C, n, r, W, limited, L),
           NEW a \in Nat, limited => r.used + a <= L
    PROVE  /\ Bucket(Charged(C, n, a), n, [r EXCEPT !.used = @ + a], W, limited, L)
           /\ limited /\ Burst(C, n, W, L) => Burst(Charged(C, n, a), n, W, L)
    <1> DEFINE D == Charged(C, n, a)
               q == [r EXCEPT !.used = @ + a]
    <1>1. /\ r.start \in Ticks /\ r.start <= n
          /\ r.used = C[n] - Until(C, r.start)
          /\ limited => r.used <= L /\ Spill(C, r.start, W, L)
        BY DEF Bucket
    <1>2. /\ \A t \in Ticks : t <= n => Until(D, t) = Until(C, t)
          /\ D[n] = C[n] + a /\ C[n] \in Nat
        BY ChargeValues DEF Steady
    <1>3. Until(C, r.start) \in Nat
        BY <1>1, UntilTypes
    <1>4. q.start = r.start /\ q.used = r.used + a
        BY DEF Counter
    <1>5. n \in Nat /\ r.start \in Nat
        BY TicksAreNat, <1>1
    <1>6. limited => Spill(D, r.start, W, L)
        <2>1. \A t \in Start..r.start : t \in Ticks /\ t <= n
            BY <1>1, <1>5, TicksAreNat
        <2> QED
            BY <1>1, <1>2, <2>1 DEF Spill
    <1>7. \A t \in Ticks : t >= r.start + W - 1 /\ t <= n => t = n
        BY <1>5, TicksAreNat
    <1>8. r.used + a = D[n] - Until(D, r.start)
        BY <1>1, <1>2, <1>3
    <1>9. limited /\ Burst(C, n, W, L) => Burst(D, n, W, L)
        <2>1. limited => C[n] + a - Until(C, r.start) <= L
            BY <1>1, <1>2, <1>3
        <2> QED
            BY <1>1, <2>1, ChargeBurst
    <1> HIDE DEF q, D
    <1>10. Bucket(D, n, q, W, limited, L)
        BY <1>1, <1>4, <1>6, <1>7, <1>8 DEF Bucket
    <1> QED
        BY <1>9, <1>10 DEF q, D

\* The clock goes on.
LEMMA TickBucket ==
    ASSUME NEW C, NEW n \in Ticks, Steady(C, n), n + 1 \in Ticks, NEW c \in Counter,
           NEW W \in Nat \ {0}, NEW limited, NEW L, Bucket(C, n, c, W, limited, L)
    PROVE  Bucket(C, n + 1, c, W, limited, L)
    <1>1. C[n + 1] = C[n]
        BY TickSteady
    <1>2. n \in Nat
        BY TicksAreNat
    <1>3. \A t \in Ticks : t \in Nat /\ (t <= n + 1 => t <= n \/ t = n + 1)
        BY <1>2, TicksAreNat
    <1> QED
        BY <1>1, <1>2, <1>3 DEF Bucket, Counter

\* A bucket in memory denies for a good reason only: after the window it was
\* denied in, it is full of what was charged since.
LEMMA FullAgain ==
    ASSUME NEW C, NEW n \in Ticks, Steady(C, n), NEW c \in Counter, c.start # 0,
           NEW W \in Nat \ {0}, NEW limited, NEW L, Bucket(C, n, c, W, limited, L),
           NEW at \in Ticks, NEW end \in Nat, at < end, end <= n, end <= c.start, c.used > 0
    PROVE  C[at] < C[n]
    <1>1. c.start \in Ticks /\ c.used = C[n] - Until(C, c.start)
        BY DEF Bucket
    <1>2. C[at] <= Until(C, c.start)
        <2>1. at \in Nat /\ c.start \in Nat
            BY <1>1, TicksAreNat
        <2>2. at < c.start
            BY <2>1
        <2> QED
            BY <1>1, <2>2, UntilRises
    <1>3. C[at] \in Nat /\ C[n] \in Nat /\ Until(C, c.start) \in Nat
        BY <1>1, UntilTypes DEF Steady
    <1> QED
        BY <1>1, <1>2, <1>3 DEF Counter

-----------------------------------------------------------------------------
(* The steps of InMemoryQuota, bucket by bucket.                           *)

LEMMA KindFacts ==
    ASSUME NEW k \in Kinds
    PROVE  /\ WindowOf(k) \in Nat \ {0} /\ WindowOf(k) <= Start
           /\ Limited(k) => Limit[k] \in Nat
           /\ \A tokens \in Nat : Increment(k, tokens) \in Nat
    <1>1. k \in {"rpm", "rpd", "tpm", "tpd"}
        BY DEF Kinds
    <1>2. Limit[k] \in {RpmLimit, RpdLimit, TpmLimit, TpdLimit}
        BY <1>1 DEF Limit
    <1> QED
        BY <1>2, QuotaAssumption DEF WindowOf, Limited, Increment

\* QuotaMemory and QuotaRedis see the definitions of Quota.
LEMMA MemoryTerms ==
    /\ Memory!Kinds = Kinds /\ Memory!Ticks = Ticks /\ Memory!Log = Log
    /\ Memory!NoCharge = NoCharge /\ Memory!Limit = Limit
    /\ \A k : Memory!WindowOf(k) = WindowOf(k) /\ (Memory!Limited(k) <=> Limited(k))
    /\ \A k, tokens : Memory!Increment(k, tokens) = Increment(k, tokens)
    /\ \A k, used, tokens : Memory!Exceeds(k, used, tokens) <=> Exceeds(k, used, tokens)
    /\ \A C, n, a : Memory!Charged(C, n, a) = Charged(C, n, a)
    /\ \A k : Memory!Rolled(k) = Roll(counter[k], now, WindowOf(k))
    BY DEF Memory!Kinds, Kinds, Memory!Ticks, Ticks, Memory!Log, Log, Memory!NoCharge, NoCharge,
           Memory!Limit, Limit, Memory!WindowOf, WindowOf, Memory!Limited, Limited,
           Memory!Increment, Increment, Memory!Exceeds, Exceeds, Memory!Charged, Charged,
           Memory!Rolled, Roll

LEMMA RedisTerms ==
    /\ Redis!Kinds = Kinds /\ Redis!Ticks = Ticks /\ Redis!Log = Log
    /\ Redis!NoCharge = NoCharge /\ Redis!Limit = Limit
    /\ \A k : Redis!WindowOf(k) = WindowOf(k) /\ (Redis!Limited(k) <=> Limited(k))
    /\ \A k, tokens : Redis!Increment(k, tokens) = Increment(k, tokens)
    /\ \A k, used, tokens : Redis!Exceeds(k, used, tokens) <=> Exceeds(k, used, tokens)
    /\ \A C, n, a : Redis!Charged(C, n, a) = Charged(C, n, a)
    BY DEF Redis!Kinds, Kinds, Redis!Ticks, Ticks, Redis!Log, Log, Redis!NoCharge, NoCharge,
           Redis!Limit, Limit, Redis!WindowOf, WindowOf, Redis!Limited, Limited,
           Redis!Increment, Increment, Redis!Exceeds, Exceeds, Redis!Charged, Charged

\* What a step of check_and_consume or current_usage does to one bucket.
Untouched(k) == counter'[k] = counter[k] /\ log'[k] = log[k]
RolledOnly(k) == counter'[k] = Roll(counter[k], now, WindowOf(k)) /\ log'[k] = log[k]
ChargedBy(k, a) ==
    LET r == Roll(counter[k], now, WindowOf(k))
    IN  /\ counter'[k] = [r EXCEPT !.used = @ + a]
        /\ log'[k] = Charged(log[k], now, a)
        /\ Limited(k) => r.used + a <= Limit[k]
BucketNext(k) == Untouched(k) \/ RolledOnly(k) \/ \E a \in Nat : ChargedBy(k, a)

\* The part of the invariant that is about one bucket.
BucketInv(k) ==
    /\ counter[k] \in Counter /\ counter[k].start <= now
    /\ Steady(log[k], now)
    /\ Limited(k) => Burst(log[k], now, WindowOf(k), Limit[k])
    /\ Bucket(log[k], now, counter[k], WindowOf(k), Limited(k), Limit[k])

\* Every such step keeps the bucket sound; a total only rises, and a window
\* begins anew only when the old one is over.
LEMMA BucketStep ==
    ASSUME NEW k \in Kinds, now \in Ticks, now' = now, BucketInv(k), BucketNext(k)
    PROVE  /\ BucketInv(k)'
           /\ \A t \in Ticks : log[k][t] <= log'[k][t]
           /\ \/ counter'[k].start = counter[k].start
              \/ counter'[k].start = now /\ counter[k].start + WindowOf(k) <= now
    <1> DEFINE C == log[k]
               c == counter[k]
               W == WindowOf(k)
               L == Limit[k]
               r == Roll(c, now, W)
    <1>1. /\ W \in Nat \ {0} /\ W <= now /\ (Limited(k) => L \in Nat)
          /\ now \in Nat /\ c \in Counter /\ Steady(C, now)
          /\ Bucket(C, now, c, W, Limited(k), L)
          /\ (Limited(k) => Burst(C, now, W, L))
        BY KindFacts, TicksAreNat DEF BucketInv
    <1>2. r \in Counter /\ r.start # 0 /\ now < r.start + W /\ Bucket(C, now, r, W, Limited(k), L)
        BY <1>1, RollBucket
    <1>3. r.start = c.start \/ (r.start = now /\ c.start + W <= now)
        BY <1>1 DEF Roll, Counter
    <1>4. c.start <= now /\ r.start <= now
        BY <1>1, <1>3 DEF BucketInv
    <1>5. CASE Untouched(k)
        <2>1. counter'[k] = c /\ log'[k] = C
            BY <1>5 DEF Untouched
        <2>2. C \in [Ticks -> Nat]
            BY <1>1 DEF Steady
        <2>3. \A t \in Ticks : C[t] <= C[t]
            BY <2>2
        <2> QED
            BY <2>1, <2>3 DEF BucketInv
    <1>6. CASE RolledOnly(k)
        <2>1. counter'[k] = r /\ log'[k] = C
            BY <1>6 DEF RolledOnly
        <2>2. C \in [Ticks -> Nat]
            BY <1>1 DEF Steady
        <2>3. \A t \in Ticks : C[t] <= C[t]
            BY <2>2
        <2> HIDE DEF r
        <2>4. BucketInv(k)'
            BY <1>1, <1>2, <1>4, <2>1 DEF BucketInv
        <2> QED
            BY <2>1, <2>3, <2>4, <1>3
    <1>7. ASSUME NEW a \in Nat, ChargedBy(k, a)
          PROVE  /\ BucketInv(k)'
                 /\ \A t \in Ticks : log[k][t] <= log'[k][t]
                 /\ counter'[k].start = r.start
        <2> DEFINE q == [r EXCEPT !.used = @ + a]
        <2>1. counter'[k] = q /\ log'[k] = Charged(C, now, a) /\ (Limited(k) => r.used + a <= L)
            BY <1>7 DEF ChargedBy
        <2>2. q \in Counter /\ q.start = r.start
            BY <1>2 DEF Counter
        <2>3. /\ Bucket(Charged(C, now, a), now, q, W, Limited(k), L)
              /\ Limited(k) /\ Burst(C, now, W, L) => Burst(Charged(C, now, a), now, W, L)
            <3> HIDE DEF C, c, W, L, r
            <3> QED
                BY <1>1, <1>2, <2>1, ChargeBucket
        <2>4. Steady(Charged(C, now, a), now)
            BY <1>1, ChargeSteady
        <2>5. \A t \in Ticks : C[t] <= Charged(C, now, a)[t]
            <3>1. \A t \in Ticks : C[t] \in Nat
                BY <1>1 DEF Steady
            <3>2. \A t \in Ticks : Charged(C, now, a)[t] = IF t >= now THEN C[t] + a ELSE C[t]
                BY <1>1, ChargeValues
            <3> QED
                BY <3>1, <3>2
        <2> HIDE DEF q, r
        <2>6. BucketInv(k)'
            BY <1>1, <1>4, <2>1, <2>2, <2>3, <2>4 DEF BucketInv
        <2> QED
            BY <2>1, <2>2, <2>5, <2>6
    <1> QED
        BY <1>3, <1>5, <1>6, <1>7 DEF BucketNext

\* A look at the usage, a denial and an allowed request.
LEMMA CurrentUsageIs ==
    ASSUME Memory!CurrentUsage, NEW k \in Kinds
    PROVE  BucketNext(k)
    <1>1. /\ counter' = [j \in Kinds |-> IF counter[j].start = 0 THEN counter[j]
                                          ELSE Roll(counter[j], now, WindowOf(j))]
          /\ log' = log
        BY MemoryTerms DEF Memory!CurrentUsage
    <1> QED
        BY <1>1 DEF BucketNext, Untouched, RolledOnly

LEMMA AllowIs ==
    ASSUME NEW tokens \in TokenSizes, Memory!Allow(tokens), NEW k \in Kinds,
           counter[k] \in Counter, now \in Nat
    PROVE  BucketNext(k)
    <1> DEFINE a == Increment(k, tokens)
               r == Roll(counter[k], now, WindowOf(k))
    <1>1. /\ counter' = [j \in Kinds |->
                IF j \in Memory!ToConsume
                THEN [Roll(counter[j], now, WindowOf(j)) EXCEPT !.used = @ + Increment(j, tokens)]
                ELSE counter[j]]
          /\ log' = [j \in Kinds |->
                IF j \in Memory!ToConsume THEN Charged(log[j], now, Increment(j, tokens)) ELSE log[j]]
          /\ ~Memory!Full(k, tokens)
        BY MemoryTerms DEF Memory!Allow
    <1>2. a \in Nat /\ (Limited(k) => Limit[k] \in Nat)
        BY KindFacts, QuotaAssumption
    <1>3. r.used \in Nat
        BY DEF Roll, Counter
    <1>4. CASE k \in Memory!ToConsume
        <2>1. Limited(k) => r.used + a <= Limit[k]
            <3>1. ~Exceeds(k, r.used, tokens)
                BY <1>1, <1>4, MemoryTerms DEF Memory!Full
            <3> QED
                BY <3>1, <1>2, <1>3 DEF Exceeds
        <2>2. ChargedBy(k, a)
            BY <1>1, <1>4, <2>1 DEF ChargedBy
        <2> QED
            BY <1>2, <2>2 DEF BucketNext
    <1>5. CASE k \notin Memory!ToConsume
        BY <1>1, <1>5 DEF BucketNext, Untouched
    <1> QED
        BY <1>4, <1>5

LEMMA DenyIs ==
    ASSUME NEW tokens \in TokenSizes, Memory!Deny(tokens)
    PROVE  /\ now' = now /\ log' = log
           /\ \A j \in Kinds : Untouched(j) \/ RolledOnly(j)
           /\ \E k \in Kinds :
                /\ Limited(k) /\ RolledOnly(k)
                /\ answer' = [verdict |-> "deny", kind |-> k, tokens |-> tokens, at |-> now,
                              retry |-> WindowOf(k) - (now - Roll(counter[k], now, WindowOf(k)).start),
                              total |-> log[k][now]]
    <1>1. PICK k \in Kinds :
            /\ Memory!Full(k, tokens)
            /\ counter' = [j \in Kinds |->
                  IF j \in Memory!ToConsume /\ (Memory!Before(j, k) \/ j = k)
                  THEN Roll(counter[j], now, WindowOf(j)) ELSE counter[j]]
            /\ answer' = [verdict |-> "deny", kind |-> k, tokens |-> tokens, at |-> now,
                          retry |-> WindowOf(k) - (now - Roll(counter[k], now, WindowOf(k)).start),
                          total |-> log[k][now]]
            /\ now' = now /\ log' = log
        BY MemoryTerms DEF Memory!Deny, Memory!Remaining, Memory!Total
    <1>2. k \in Memory!ToConsume /\ Limited(k)
        BY <1>1, MemoryTerms DEF Memory!Full, Exceeds
    <1>3. \A j \in Kinds : Untouched(j) \/ RolledOnly(j)
        BY <1>1 DEF Untouched, RolledOnly
    <1>4. RolledOnly(k)
        BY <1>1, <1>2 DEF RolledOnly
    <1> QED
        BY <1>1, <1>2, <1>3, <1>4

-----------------------------------------------------------------------------
(* QuotaInv is inductive: the counters in memory.                          *)

Answer == [verdict : {"none", "allow", "deny"}, kind : Kinds, tokens : Nat,
           at : Nat, retry : Nat, total : Nat]
Key == [n : Nat, expires : 0..Redis!Never]
Check == [pc : {"idle", "connect", "check", "deny"}, checks : SUBSET Kinds,
          tokens : Nat, kind : Kinds, at : Nat, total : Nat]

QuotaShape ==
    /\ kept \in {"memory", "redis"} /\ now \in Ticks
    /\ counter \in [Kinds -> [start : 0..MaxTime, used : Nat]]
    /\ log \in [Kinds -> [Ticks -> Nat]] /\ answer \in Answer
    /\ key \in [Kinds -> Key] /\ req \in [Requests -> Check]

LEMMA QuotaTypes == (QuotaTypeOK <=> QuotaShape) /\ (QuotaTypeOK' <=> QuotaShape')
    <1>1. QuotaTypeOK <=> QuotaShape
        BY MemoryTerms, RedisTerms
           DEF QuotaTypeOK, Memory!TypeOK, Redis!TypeOK, QuotaShape, Answer, Key, Check, Log, Ticks
    <1>2. QuotaTypeOK' <=> QuotaShape'
        BY MemoryTerms, RedisTerms
           DEF QuotaTypeOK, Memory!TypeOK, Redis!TypeOK, QuotaShape, Answer, Key, Check, Log, Ticks
    <1> QED
        BY <1>1, <1>2

LEMMA MemoryBuckets ==
    ASSUME QuotaInv, kept = "memory"
    PROVE  now \in Ticks /\ \A k \in Kinds : BucketInv(k)
    <1>1. now \in Ticks /\ now \in Nat /\ counter \in [Kinds -> [start : 0..MaxTime, used : Nat]]
        BY QuotaTypes, TicksAreNat DEF QuotaInv, QuotaShape
    <1> SUFFICES ASSUME NEW k \in Kinds PROVE BucketInv(k)
        BY <1>1
    <1>2. counter[k] \in Counter
        BY <1>1, TicksAreNat DEF Counter
    <1>3. Bucket(log[k], now, counter[k], WindowOf(k), Limited(k), Limit[k])
        BY DEF QuotaInv, InMemory
    <1>4. counter[k].start <= now
        BY <1>1, <1>3 DEF Bucket
    <1> QED
        BY <1>2, <1>3, <1>4 DEF QuotaInv, BucketInv

\* A step that treats every bucket in one of the three ways.
LEMMA MemoryKeeps ==
    ASSUME QuotaInv, kept = "memory", kept' = kept, redisVars' = redisVars, now' = now,
           counter' = [k \in Kinds |-> counter'[k]], log' = [k \in Kinds |-> log'[k]],
           answer' \in Answer, \A k \in Kinds : BucketNext(k), DenialHolds'
    PROVE  QuotaInv'
    <1>1. now \in Ticks /\ \A k \in Kinds : BucketInv(k)
        BY MemoryBuckets
    <1>2. \A k \in Kinds : BucketInv(k)'
        BY <1>1, BucketStep
    <1>3. \A k \in Kinds : counter'[k] \in Counter /\ counter'[k].start <= now /\ Steady(log'[k], now)
        BY <1>2 DEF BucketInv
    <1>4. \A k \in Kinds : counter'[k] \in [start : 0..MaxTime, used : Nat]
        BY <1>1, <1>3, TicksAreNat DEF Counter
    <1>5. \A k \in Kinds : log'[k] \in [Ticks -> Nat]
        BY <1>3 DEF Steady
    <1>6. key' = key /\ req' = req
        BY DEF redisVars
    <1>7. QuotaTypeOK'
        <2>1. counter' \in [Kinds -> [start : 0..MaxTime, used : Nat]]
            BY <1>4
        <2>2. log' \in [Kinds -> [Ticks -> Nat]]
            BY <1>5
        <2>3. kept \in {"memory", "redis"} /\ key \in [Kinds -> Key] /\ req \in [Requests -> Check]
            BY QuotaTypes DEF QuotaInv, QuotaShape
        <2> QED
            BY <1>1, <1>6, <2>1, <2>2, <2>3, QuotaTypes DEF QuotaShape
    <1>8. InMemory'
        <2>1. /\ key = [k \in Kinds |-> Redis!Absent]
              /\ req = [r \in Requests |-> Redis!Idle]
            BY DEF QuotaInv, InMemory
        <2>2. key' = [k \in Kinds |-> Redis!Absent] /\ req' = [r \in Requests |-> Redis!Idle]
            BY <1>6, <2>1
        <2> QED
            BY <1>2, <2>2 DEF InMemory, BucketInv, Redis!Absent, Redis!Idle
    <1> QED
        BY <1>2, <1>7, <1>8 DEF QuotaInv, BucketInv

\* A denial stays justified while the windows move on.
LEMMA DenialStays ==
    ASSUME QuotaInv, kept = "memory", now' = now, answer' = answer,
           \A k \in Kinds : BucketNext(k)
    PROVE  DenialHolds'
    <1>1. now \in Ticks /\ \A k \in Kinds : BucketInv(k)
        BY MemoryBuckets
    <1> SUFFICES ASSUME answer.verdict = "deny"
                 PROVE  DenialHolds'
        BY DEF DenialHolds
    <1> DEFINE k == answer.kind
               end == answer.at + answer.retry
    <1>2. answer \in Answer
        BY QuotaTypes DEF QuotaInv, QuotaShape
    <1>3. /\ Limited(k)
          /\ answer.at \in Ticks /\ answer.at <= now /\ answer.at < end
          /\ answer.total <= log[k][answer.at]
          /\ counter[k].start + WindowOf(k) = end \/ counter[k].start >= end
        BY DEF QuotaInv, InMemory, DenialHolds
    <1>4. k \in Kinds /\ end \in Nat /\ answer.total \in Nat
        BY <1>2 DEF Answer
    <1>5. /\ \A t \in Ticks : log[k][t] <= log'[k][t]
          /\ \/ counter'[k].start = counter[k].start
             \/ counter'[k].start = now /\ counter[k].start + WindowOf(k) <= now
          /\ BucketInv(k)'
        BY <1>1, <1>4, BucketStep
    <1>6. /\ log[k] \in [Ticks -> Nat] /\ log'[k] \in [Ticks -> Nat] /\ counter[k].start \in Nat
          /\ now \in Nat /\ WindowOf(k) \in Nat
        BY <1>1, <1>4, <1>5, KindFacts, TicksAreNat DEF BucketInv, Steady, Counter
    <1>7. answer.total <= log'[k][answer.at]
        BY <1>3, <1>4, <1>5, <1>6
    <1>8. counter'[k].start + WindowOf(k) = end \/ counter'[k].start >= end
        BY <1>3, <1>4, <1>5, <1>6
    <1> QED
        BY <1>3, <1>7, <1>8 DEF DenialHolds

LEMMA MemoryStep ==
    ASSUME QuotaInv, kept = "memory", Memory!Next, UNCHANGED <<kept, redisVars>>
    PROVE  QuotaInv'
    <1>1. now \in Ticks /\ \A k \in Kinds : BucketInv(k)
        BY MemoryBuckets
    <1>2. answer \in Answer /\ counter = [k \in Kinds |-> counter[k]] /\ log = [k \in Kinds |-> log[k]]
        BY QuotaTypes DEF QuotaInv, QuotaShape
    <1>3. CASE Memory!CurrentUsage
        <2>1. \A k \in Kinds : BucketNext(k)
            BY <1>3, CurrentUsageIs
        <2>2. now' = now /\ answer' = answer /\ log' = log
            BY <1>3 DEF Memory!CurrentUsage
        <2>3. counter' = [k \in Kinds |-> counter'[k]]
            BY <1>3, MemoryTerms DEF Memory!CurrentUsage
        <2>4. DenialHolds'
            BY <2>1, <2>2, DenialStays
        <2> QED
            BY <1>2, <2>1, <2>2, <2>3, <2>4, MemoryKeeps
    <1>4. ASSUME NEW tokens \in TokenSizes, Memory!Allow(tokens) PROVE QuotaInv'
        <2>1. \A k \in Kinds : BucketNext(k)
            BY <1>1, <1>4, AllowIs, TicksAreNat DEF BucketInv
        <2>2. now' = now /\ answer' = [verdict |-> "allow", kind |-> "rpm", tokens |-> tokens,
                                      at |-> now, retry |-> 0, total |-> 0]
            BY <1>4 DEF Memory!Allow, Memory!NoAnswer
        <2>3. counter' = [k \in Kinds |-> counter'[k]] /\ log' = [k \in Kinds |-> log'[k]]
            BY <1>4, MemoryTerms DEF Memory!Allow
        <2>4. answer' \in Answer
            BY <1>1, <2>2, TicksAreNat, QuotaAssumption DEF Answer, Kinds
        <2>5. DenialHolds'
            BY <2>2 DEF DenialHolds
        <2> QED
            BY <2>1, <2>2, <2>3, <2>4, <2>5, MemoryKeeps
    <1>5. ASSUME NEW tokens \in TokenSizes, Memory!Deny(tokens) PROVE QuotaInv'
        <2>1. now' = now /\ log' = log /\ \A j \in Kinds : BucketNext(j)
            BY <1>5, DenyIs DEF BucketNext
        <2>2. PICK k \in Kinds :
                /\ Limited(k) /\ RolledOnly(k)
                /\ answer' = [verdict |-> "deny", kind |-> k, tokens |-> tokens, at |-> now,
                              retry |-> WindowOf(k) - (now - Roll(counter[k], now, WindowOf(k)).start),
                              total |-> log[k][now]]
            BY <1>5, DenyIs
        <2>3. counter' = [j \in Kinds |-> counter'[j]]
            BY <1>5, MemoryTerms DEF Memory!Deny
        <2> DEFINE r == Roll(counter[k], now, WindowOf(k))
        <2>4. /\ WindowOf(k) \in Nat \ {0} /\ WindowOf(k) <= now /\ now \in Nat
              /\ counter[k] \in Counter /\ counter[k].start <= now /\ log[k] \in [Ticks -> Nat]
            BY <1>1, KindFacts, TicksAreNat DEF BucketInv, Steady
        <2>5. r.start \in Nat /\ r.start <= now /\ now < r.start + WindowOf(k)
            BY <2>4 DEF Roll, Counter
        <2>6. counter'[k] = r
            BY <2>2 DEF RolledOnly
        <2> HIDE DEF r
        <2>7. /\ answer'.verdict = "deny" /\ answer'.kind = k /\ answer'.at = now
              /\ answer'.retry = WindowOf(k) - (now - r.start) /\ answer'.total = log[k][now]
            BY <2>2 DEF r
        <2>8. answer' \in Answer
            <3>1. WindowOf(k) - (now - r.start) \in Nat /\ log[k][now] \in Nat /\ tokens \in Nat
                BY <1>1, <2>4, <2>5, QuotaAssumption
            <3> QED
                BY <2>2, <2>4, <3>1 DEF Answer, r
        <2>9. DenialHolds'
            <3>1. answer'.at + answer'.retry = r.start + WindowOf(k)
                BY <2>4, <2>5, <2>7
            <3>2. answer'.at < answer'.at + answer'.retry /\ answer'.at <= now
                BY <2>4, <2>5, <2>7, <3>1
            <3>3. answer'.total <= log'[k][answer'.at]
                BY <1>1, <2>1, <2>4, <2>7
            <3> QED
                BY <1>1, <2>1, <2>2, <2>6, <2>7, <3>1, <3>2, <3>3 DEF DenialHolds
        <2> QED
            BY <1>2, <2>1, <2>3, <2>8, <2>9, MemoryKeeps
    <1>6. CASE Memory!Tick
        <2>1. /\ now < MaxTime /\ now' = now + 1
              /\ counter' = counter /\ log' = log /\ answer' = answer
              /\ key' = key /\ req' = req /\ kept' = kept
            BY <1>6 DEF Memory!Tick, redisVars
        <2>2. now + 1 \in Ticks /\ now \in Nat
            BY <1>1, <2>1, TicksAreNat
        <2>3. QuotaTypeOK'
            BY <2>1, <2>2, QuotaTypes DEF QuotaInv, QuotaShape
        <2>4. ASSUME NEW k \in Kinds
              PROVE  /\ Steady(log[k], now + 1)
                     /\ Limited(k) => Burst(log[k], now + 1, WindowOf(k), Limit[k])
                     /\ Bucket(log[k], now + 1, counter[k], WindowOf(k), Limited(k), Limit[k])
            <3>1. /\ counter[k] \in Counter /\ Steady(log[k], now)
                  /\ Limited(k) => Burst(log[k], now, WindowOf(k), Limit[k])
                  /\ Bucket(log[k], now, counter[k], WindowOf(k), Limited(k), Limit[k])
                BY <1>1 DEF BucketInv
            <3>2. WindowOf(k) \in Nat \ {0} /\ (Limited(k) => Limit[k] \in Nat)
                BY KindFacts
            <3>3. Steady(log[k], now + 1)
                BY <1>1, <2>2, <3>1, TickSteady
            <3>4. Limited(k) => Burst(log[k], now + 1, WindowOf(k), Limit[k])
                BY <1>1, <2>2, <3>1, <3>2, TickBurst
            <3>5. Bucket(log[k], now + 1, counter[k], WindowOf(k), Limited(k), Limit[k])
                BY <1>1, <2>2, <3>1, <3>2, TickBucket
            <3> QED
                BY <3>3, <3>4, <3>5
        <2>5. DenialHolds'
            <3>1. answer.verdict = "deny" => answer.at \in Nat
                BY <1>2 DEF Answer
            <3> QED
                BY <2>1, <2>2, <3>1 DEF QuotaInv, InMemory, DenialHolds
        <2>6. InMemory'
            <3>1. /\ key' = [k \in Kinds |-> Redis!Absent]
                  /\ req' = [r \in Requests |-> Redis!Idle]
                BY <2>1 DEF QuotaInv, InMemory
            <3> QED
                BY <2>1, <2>4, <2>5, <3>1 DEF InMemory, Redis!Absent, Redis!Idle
        <2> QED
            BY <2>1, <2>3, <2>4, <2>6 DEF QuotaInv
    <1> QED
        BY <1>3, <1>4, <1>5, <1>6 DEF Memory!Next

-----------------------------------------------------------------------------
(* QuotaInv is inductive: the counters in Redis.                           *)

RedisEntry == [n : Nat, expires : Nat]

\* INCR_SCRIPT lets an increment in.
Incremented(e, n, a, W) ==
    [n |-> e.n + a, expires |-> IF e.n + a = a THEN n + W ELSE e.expires]

LEMMA IncrementHolds ==
    ASSUME NEW C, NEW n \in Ticks, Steady(C, n), NEW e \in RedisEntry, NEW a \in Nat,
           NEW W \in Nat \ {0}, NEW L \in Nat, KeyHolds(C, n, e, W, L), Burst(C, n, W, L),
           e.n + a <= L
    PROVE  /\ KeyHolds(Charged(C, n, a), n, Incremented(e, n, a, W), W, L)
           /\ Burst(Charged(C, n, a), n, W, L)
    <1> DEFINE D == Charged(C, n, a)
               f == Incremented(e, n, a, W)
    <1>1. e.n \in Nat /\ e.expires \in Nat /\ n \in Nat /\ C \in [Ticks -> Nat] /\ C[n] \in Nat
        BY TicksAreNat DEF RedisEntry, Steady
    <1>2. f.n = e.n + a /\ f.expires = IF e.n = 0 THEN n + W ELSE e.expires
        BY <1>1 DEF Incremented
    <1>3. /\ \A t \in Ticks : t <= n => Until(D, t) = Until(C, t)
          /\ D[n] = C[n] + a /\ D \in [Ticks -> Nat]
          /\ \A t \in Ticks : D[t] = IF t >= n THEN C[t] + a ELSE C[t]
        BY ChargeValues
    <1>4. \A t \in Ticks : Until(C, t) \in Nat
        BY UntilTypes
    <1>5. ASSUME NEW s \in Ticks, s <= n, Spill(C, s, W, L) PROVE Spill(D, s, W, L)
        <2>1. \A t \in Start..s : t \in Ticks /\ t <= n
            BY <1>1, <1>5, TicksAreNat
        <2> QED
            BY <1>3, <1>5, <2>1 DEF Spill
    <1>6. ASSUME e.n = 0, a = 0 PROVE KeyHolds(D, n, f, W, L) /\ Burst(D, n, W, L)
        <2> HIDE DEF f, D
        <2>0. \A t \in Ticks : C[t] \in Nat /\ D[t] = C[t]
            BY <1>1, <1>3, <1>6
        <2>1. D = C
            <3>1. C = [t \in Ticks |-> C[t]]
                BY <1>1
            <3>2. D = [t \in Ticks |-> D[t]]
                BY <1>3
            <3>3. [t \in Ticks |-> C[t]] = [t \in Ticks |-> D[t]]
                BY <2>0
            <3> QED
                BY <3>1, <3>2, <3>3
        <2>2. f.n = 0
            BY <1>2, <1>6
        <2> QED
            BY <1>6, <2>1, <2>2 DEF KeyHolds
    <1>7. ASSUME NEW s \in Ticks, s <= n, n < s + W, Spill(C, s, W, L),
                 e.n = C[n] - Until(C, s), f.expires = s + W, f.n > 0
          PROVE  KeyHolds(D, n, f, W, L) /\ Burst(D, n, W, L)
        <2> HIDE DEF f, D
        <2>0. Spill(D, s, W, L)
            BY <1>5, <1>7
        <2>1. Until(D, s) = Until(C, s) /\ Until(C, s) \in Nat
            BY <1>3, <1>4, <1>7
        <2>2. f.n = D[n] - Until(D, s) /\ f.n <= L /\ C[n] + a - Until(C, s) <= L
            <3>1. f.n = e.n + a /\ D[n] = C[n] + a /\ e.n = C[n] - Until(C, s)
                BY <1>2, <1>3, <1>7
            <3>2. e.n \in Nat /\ C[n] \in Nat
                BY <1>1
            <3> QED
                BY <2>1, <3>1, <3>2
        <2>3. Burst(D, n, W, L)
            BY <1>7, <2>2, ChargeBurst DEF D
        <2> QED
            BY <1>7, <2>0, <2>2, <2>3 DEF KeyHolds
    <1>8. ASSUME e.n = 0, a > 0 PROVE KeyHolds(D, n, f, W, L) /\ Burst(D, n, W, L)
        <2>1. C[n] = Until(C, n) /\ Spill(C, n, W, L)
            BY <1>8 DEF KeyHolds
        <2>2. e.n = C[n] - Until(C, n) /\ f.expires = n + W /\ f.n > 0 /\ n < n + W
            BY <1>1, <1>2, <1>8, <2>1
        <2> QED
            BY <1>1, <1>7, <2>1, <2>2
    <1>9. ASSUME e.n > 0 PROVE KeyHolds(D, n, f, W, L) /\ Burst(D, n, W, L)
        <2>1. PICK s \in Ticks :
                /\ e.expires = s + W /\ s <= n /\ n < s + W
                /\ e.n = C[n] - Until(C, s) /\ Spill(C, s, W, L)
            BY <1>9 DEF KeyHolds
        <2>2. f.expires = s + W /\ f.n > 0
            BY <1>1, <1>2, <1>9, <2>1
        <2> QED
            BY <1>7, <2>1, <2>2
    <1> QED
        BY <1>1, <1>6, <1>8, <1>9

\* Redis drops a key when its time to live is over.
Expired(e, n) == IF e.expires > n THEN e ELSE [n |-> 0, expires |-> 0]

LEMMA ExpiryHolds ==
    ASSUME NEW C, NEW n \in Ticks, Steady(C, n), n + 1 \in Ticks, NEW e \in RedisEntry,
           NEW W \in Nat \ {0}, NEW L \in Nat, KeyHolds(C, n, e, W, L)
    PROVE  KeyHolds(C, n + 1, Expired(e, n + 1), W, L)
    <1> DEFINE f == Expired(e, n + 1)
    <1>1. e.n \in Nat /\ e.expires \in Nat /\ n \in Nat /\ C[n] \in Nat
        BY TicksAreNat DEF RedisEntry, Steady
    <1>2. f = e \/ f.n = 0
        BY DEF Expired
    <1>3. Steady(C, n + 1) /\ C[n + 1] = C[n]
        BY TickSteady
    <1>4. Until(C, n + 1) = C[n]
        BY <1>1, UntilRises
    <1>5. ASSUME e.n = 0 PROVE KeyHolds(C, n + 1, f, W, L)
        <2>1. C[n] = Until(C, n) /\ Spill(C, n, W, L)
            BY <1>5 DEF KeyHolds
        <2>2. ASSUME NEW t \in Start..(n + 1), t + W > n + 1
              PROVE  Until(C, n + 1) - Until(C, t) <= L
            <3>1. CASE t = n + 1
                BY <1>1, <1>4, <3>1
            <3>2. CASE t # n + 1
                <4>1. t \in Start..n /\ t + W > n
                    BY <1>1, <2>2, <3>2, TicksAreNat
                <4> QED
                    BY <1>4, <2>1, <4>1 DEF Spill
            <3> QED
                BY <3>1, <3>2
        <2>3. Spill(C, n + 1, W, L)
            BY <2>2 DEF Spill
        <2>4. f.n = 0
            BY <1>2, <1>5
        <2> HIDE DEF f
        <2> QED
            BY <1>3, <1>4, <2>3, <2>4 DEF KeyHolds
    <1>6. ASSUME e.n > 0 PROVE KeyHolds(C, n + 1, f, W, L)
        <2>1. PICK s \in Ticks :
                /\ e.expires = s + W /\ s <= n /\ n < s + W
                /\ e.n = C[n] - Until(C, s) /\ e.n <= L /\ Spill(C, s, W, L)
            BY <1>6 DEF KeyHolds
        <2>2. s \in Nat
            BY TicksAreNat
        <2>3. CASE e.expires > n + 1
            <3>1. f = e
                BY <2>3 DEF Expired
            <3>2. s <= n + 1 /\ n + 1 < s + W
                BY <1>1, <2>1, <2>2, <2>3
            <3> HIDE DEF f
            <3> QED
                BY <1>1, <1>3, <1>6, <2>1, <3>1, <3>2 DEF KeyHolds
        <2>4. CASE ~(e.expires > n + 1)
            <3>1. f.n = 0
                BY <2>4 DEF Expired
            <3>2. s + W <= n + 1
                BY <1>1, <2>1, <2>2, <2>4
            <3>3. C[n + 1] - Until(C, s) <= L
                BY <1>3, <2>1
            <3>4. Spill(C, n + 1, W, L)
                BY <1>3, <3>2, <3>3, RolledSpill
            <3> HIDE DEF f
            <3> QED
                BY <1>3, <1>4, <3>1, <3>4 DEF KeyHolds
        <2> QED
            BY <2>3, <2>4
    <1> QED
        BY <1>1, <1>5, <1>6

\* The part of the invariant that is about one key.
KeyInv(k) ==
    /\ key[k] \in RedisEntry
    /\ Steady(log[k], now)
    /\ Limited(k) => Burst(log[k], now, WindowOf(k), Limit[k])
    /\ key[k] = [n |-> 0, expires |-> 0] \/ key[k].expires <= now + WindowOf(k)
    /\ Limited(k) => KeyHolds(log[k], now, key[k], WindowOf(k), Limit[k])

\* The part of the invariant that is about one request.
RequestInv(r) ==
    /\ req[r] \in Check
    /\ \A k \in req[r].checks : Limited(k)
    /\ req[r].pc = "deny" =>
         /\ Limited(req[r].kind)
         /\ req[r].at \in Ticks /\ req[r].at <= now
         /\ req[r].total <= log[req[r].kind][req[r].at]

LEMMA RedisParts ==
    ASSUME QuotaInv, kept = "redis"
    PROVE  /\ now \in Ticks
           /\ \A k \in Kinds : KeyInv(k)
           /\ \A r \in Requests : RequestInv(r)
    <1>1. now \in Ticks /\ key \in [Kinds -> Key] /\ req \in [Requests -> Check]
        BY QuotaTypes DEF QuotaInv, QuotaShape
    <1>2. \A k \in Kinds : key[k] \in RedisEntry
        BY <1>1, QuotaAssumption DEF Key, RedisEntry, Redis!Never
    <1> QED
        BY <1>1, <1>2 DEF QuotaInv, InRedis, KeyInv, RequestInv, Redis!Absent

\* The parts make the invariant, as long as the clock stays within its bound.
LEMMA RedisWhole ==
    ASSUME QuotaInv, kept = "redis", kept' = kept, memoryVars' = memoryVars, now' \in Ticks,
           key' = [k \in Kinds |-> key'[k]], log' = [k \in Kinds |-> log'[k]],
           req' = [r \in Requests |-> req'[r]],
           \A k \in Kinds : KeyInv(k)', \A r \in Requests : RequestInv(r)'
    PROVE  QuotaInv'
    <1>1. counter' = counter /\ answer' = answer
        BY DEF memoryVars
    <1>2. ASSUME NEW k \in Kinds PROVE key'[k] \in Key /\ log'[k] \in [Ticks -> Nat]
        <2>1. key'[k] \in RedisEntry /\ log'[k] \in [Ticks -> Nat]
            BY DEF KeyInv, Steady
        <2>2. key'[k].expires = 0 \/ key'[k].expires <= now' + WindowOf(k)
            BY DEF KeyInv
        <2>3. /\ WindowOf(k) \in Nat /\ WindowOf(k) <= Day /\ Day \in Nat
              /\ now' \in Nat /\ now' <= MaxTime /\ MaxTime \in Nat
            BY QuotaAssumption, KindFacts, TicksAreNat DEF WindowOf
        <2>4. key'[k].expires \in 0..Redis!Never
            BY <2>1, <2>2, <2>3 DEF RedisEntry, Redis!Never
        <2> QED
            BY <2>1, <2>4 DEF RedisEntry, Key
    <1>3. QuotaTypeOK'
        <2>1. key' \in [Kinds -> Key] /\ log' \in [Kinds -> [Ticks -> Nat]]
            BY <1>2
        <2>2. req' \in [Requests -> Check]
            BY DEF RequestInv
        <2> QED
            BY <1>1, <2>1, <2>2, QuotaTypes DEF QuotaInv, QuotaShape, Key, Redis!Never
    <1>4. InRedis'
        BY <1>1 DEF QuotaInv, InRedis, KeyInv, RequestInv, Redis!Absent, Memory!NoAnswer
    <1> QED
        BY <1>3, <1>4 DEF QuotaInv, KeyInv

\* The totals after a script that let an increment in, or did nothing.
LogRises == \A j \in Kinds, t \in Ticks : log[j][t] <= log'[j][t]

LEMMA ScriptCharges ==
    ASSUME QuotaInv, kept = "redis", now' = now, NEW k \in Kinds, Limited(k),
           NEW tokens \in Nat, ~Exceeds(k, key[k].n, tokens), Redis!Charge(k, tokens)
    PROVE  /\ \A j \in Kinds : KeyInv(j)'
           /\ key' = [j \in Kinds |-> key'[j]] /\ log' = [j \in Kinds |-> log'[j]]
           /\ LogRises
    <1> DEFINE a == Increment(k, tokens)
               W == WindowOf(k)
               C == log[k]
               e == key[k]
    <1>1. /\ now \in Ticks /\ now \in Nat /\ \A j \in Kinds : KeyInv(j)
          /\ key \in [Kinds -> Key] /\ log \in [Kinds -> [Ticks -> Nat]]
        BY RedisParts, QuotaTypes, TicksAreNat DEF QuotaInv, QuotaShape
    <1>2. a \in Nat /\ Limit[k] \in Nat /\ W \in Nat \ {0} /\ Steady(C, now) /\ e \in RedisEntry
        BY <1>1, KindFacts DEF KeyInv
    <1>3. /\ key' = [key EXCEPT ![k] = Incremented(e, now, a, W)]
          /\ log' = [log EXCEPT ![k] = Charged(C, now, a)]
        BY RedisTerms DEF Redis!Charge, Incremented
    <1>4. /\ key'[k] = Incremented(e, now, a, W) /\ log'[k] = Charged(C, now, a)
          /\ \A j \in Kinds : j # k => key'[j] = key[j] /\ log'[j] = log[j]
          /\ key' = [j \in Kinds |-> key'[j]] /\ log' = [j \in Kinds |-> log'[j]]
        BY <1>1, <1>3
    <1>5. e.n + a <= Limit[k]
        BY <1>2 DEF Exceeds, RedisEntry
    <1>6. KeyHolds(C, now, e, W, Limit[k]) /\ Burst(C, now, W, Limit[k])
        BY <1>1 DEF KeyInv
    <1>7. /\ KeyHolds(Charged(C, now, a), now, Incremented(e, now, a, W), W, Limit[k])
          /\ Burst(Charged(C, now, a), now, W, Limit[k])
        BY <1>1, <1>2, <1>5, <1>6, IncrementHolds
    <1>8. Steady(Charged(C, now, a), now)
        BY <1>1, <1>2, ChargeSteady
    <1>9. Incremented(e, now, a, W) \in RedisEntry
        BY <1>1, <1>2 DEF Incremented, RedisEntry
    <1>10. Incremented(e, now, a, W).expires <= now + W
        <2>1. CASE e.n + a = a
            BY <1>1, <1>2, <2>1 DEF Incremented
        <2>2. CASE e.n + a # a
            <3>1. Incremented(e, now, a, W).expires = e.expires
                BY <2>2 DEF Incremented
            <3>2. e # [n |-> 0, expires |-> 0]
                BY <1>2, <2>2
            <3>3. e.expires <= now + W
                BY <1>1, <3>2 DEF KeyInv
            <3> QED
                BY <3>1, <3>3
        <2> QED
            BY <2>1, <2>2
    <1> HIDE DEF a, W, C, e
    <1>11. KeyInv(k)'
        BY <1>4, <1>7, <1>8, <1>9, <1>10 DEF KeyInv, W, C, e
    <1>12. \A j \in Kinds : j # k => KeyInv(j)'
        BY <1>1, <1>4 DEF KeyInv
    <1>13. LogRises
        <2> SUFFICES ASSUME NEW j \in Kinds, NEW t \in Ticks PROVE log[j][t] <= log'[j][t]
            BY DEF LogRises
        <2>1. log[j][t] \in Nat
            BY <1>1
        <2>2. CASE j # k
            BY <1>4, <2>1, <2>2
        <2>3. CASE j = k
            <3>1. Charged(C, now, a)[t] = IF t >= now THEN C[t] + a ELSE C[t]
                BY <1>1, <1>2, ChargeValues
            <3>2. C[t] \in Nat
                BY <2>1, <2>3 DEF C
            <3>3. C[t] <= Charged(C, now, a)[t]
                BY <1>2, <3>1, <3>2
            <3> QED
                BY <1>4, <2>3, <3>3 DEF C
        <2> QED
            BY <2>2, <2>3
    <1> QED
        BY <1>4, <1>11, <1>12, <1>13

\* Nothing happens to the counters.
LEMMA ScriptRests ==
    ASSUME QuotaInv, kept = "redis", now' = now, key' = key, log' = log
    PROVE  /\ \A j \in Kinds : KeyInv(j)'
           /\ key' = [j \in Kinds |-> key'[j]] /\ log' = [j \in Kinds |-> log'[j]]
           /\ LogRises
    <1>1. \A j \in Kinds : KeyInv(j)
        BY RedisParts
    <1>2. key \in [Kinds -> Key] /\ log \in [Kinds -> [Ticks -> Nat]]
        BY QuotaTypes DEF QuotaInv, QuotaShape
    <1>3. \A j \in Kinds, t \in Ticks : log[j][t] \in Nat
        BY <1>2
    <1>4. LogRises
        BY <1>3 DEF LogRises
    <1>5. key' = [j \in Kinds |-> key'[j]] /\ log' = [j \in Kinds |-> log'[j]]
        BY <1>2
    <1> QED
        BY <1>1, <1>4, <1>5 DEF KeyInv

\* A step of request r, whatever it did to the counters.
LEMMA RequestKeeps ==
    ASSUME QuotaInv, kept = "redis", kept' = kept, memoryVars' = memoryVars, now' = now,
           \A j \in Kinds : KeyInv(j)', LogRises,
           key' = [j \in Kinds |-> key'[j]], log' = [j \in Kinds |-> log'[j]],
           NEW r \in Requests, NEW q, req' = [req EXCEPT ![r] = q], q \in Check,
           \A k \in q.checks : Limited(k),
           q.pc = "deny" => /\ Limited(q.kind) /\ q.at = now
                            /\ q.total = log'[q.kind][now]
    PROVE  QuotaInv'
    <1>1. now \in Ticks /\ now \in Nat /\ \A x \in Requests : RequestInv(x)
        BY RedisParts, TicksAreNat
    <1>2. req \in [Requests -> Check] /\ log \in [Kinds -> [Ticks -> Nat]]
        BY QuotaTypes DEF QuotaInv, QuotaShape
    <1>3. \A k \in Kinds : log'[k] \in [Ticks -> Nat]
        BY DEF KeyInv, Steady
    <1>4. /\ req' = [x \in Requests |-> req'[x]] /\ req'[r] = q
          /\ \A x \in Requests : x # r => req'[x] = req[x]
        BY <1>2
    <1>5. RequestInv(r)'
        <2>1. q.kind \in Kinds
            BY DEF Check
        <2>2. log'[q.kind][now] \in Nat
            BY <1>1, <1>3, <2>1
        <2>3. q.pc = "deny" => q.at \in Ticks /\ q.at <= now /\ q.total <= log'[q.kind][q.at]
            BY <1>1, <2>2
        <2> QED
            BY <1>4, <2>3 DEF RequestInv
    <1>6. ASSUME NEW x \in Requests, x # r PROVE RequestInv(x)'
        <2>1. req'[x] = req[x] /\ req[x] \in Check /\ RequestInv(x)
            BY <1>1, <1>2, <1>4, <1>6
        <2> DEFINE k == req[x].kind
                   t == req[x].at
        <2>2. k \in Kinds /\ req[x].total \in Nat
            BY <2>1 DEF Check
        <2>3. ASSUME req[x].pc = "deny" PROVE req[x].total <= log'[k][t]
            <3>1. t \in Ticks /\ req[x].total <= log[k][t]
                BY <2>1, <2>3 DEF RequestInv
            <3>2. log[k][t] <= log'[k][t] /\ log[k][t] \in Nat /\ log'[k][t] \in Nat
                BY <1>2, <1>3, <2>2, <3>1 DEF LogRises
            <3> HIDE DEF k, t
            <3> QED
                BY <2>2, <3>1, <3>2
        <2> QED
            BY <2>1, <2>3 DEF RequestInv
    <1> QED
        BY <1>1, <1>4, <1>5, <1>6, RedisWhole

LEMMA RedisStep ==
    ASSUME QuotaInv, kept = "redis", Redis!Next, UNCHANGED <<kept, memoryVars>>
    PROVE  QuotaInv'
    <1>1. /\ now \in Ticks /\ now \in Nat
          /\ \A k \in Kinds : KeyInv(k)
          /\ \A r \in Requests : RequestInv(r)
        BY RedisParts, TicksAreNat
    <1>2. key \in [Kinds -> Key] /\ log \in [Kinds -> [Ticks -> Nat]] /\ req \in [Requests -> Check]
        BY QuotaTypes DEF QuotaInv, QuotaShape
    <1>3. Redis!Idle \in Check /\ Redis!Idle.checks = {} /\ Redis!Idle.pc = "idle"
        BY DEF Redis!Idle, Check, Kinds
    <1>4. ASSUME NEW r \in Requests, key' = key, log' = log, now' = now,
                 req' = [req EXCEPT ![r] = Redis!Idle]
          PROVE  QuotaInv'
        <2>1. \A j \in Kinds : KeyInv(j)' /\ LogRises
            BY <1>4, ScriptRests
        <2> QED
            BY <1>3, <1>4, <2>1, ScriptRests, RequestKeeps
    <1>5. ASSUME NEW r \in Requests, NEW tokens \in TokenSizes, Redis!Begin(r, tokens)
          PROVE  QuotaInv'
        <2> DEFINE q == [req[r] EXCEPT !.pc = "connect", !.checks = Redis!Checks, !.tokens = tokens]
        <2>1. key' = key /\ log' = log /\ now' = now /\ req' = [req EXCEPT ![r] = q]
            BY <1>2, <1>5 DEF Redis!Begin, Check
        <2>2. \A k \in Redis!Checks : k \in Kinds /\ Limited(k)
            BY RedisTerms DEF Redis!Checks
        <2>3. q \in Check /\ q.checks = Redis!Checks /\ q.pc = "connect"
            BY <1>2, <2>2, QuotaAssumption DEF Check
        <2> HIDE DEF q
        <2> QED
            BY <2>1, <2>2, <2>3, ScriptRests, RequestKeeps
    <1>6. ASSUME NEW r \in Requests, Redis!Connect(r) PROVE QuotaInv'
        <2> DEFINE q == [req[r] EXCEPT !.pc = "check"]
        <2>1. key' = key /\ log' = log /\ now' = now /\ req' = [req EXCEPT ![r] = q]
            BY <1>2, <1>6 DEF Redis!Connect, Check
        <2>2. q \in Check /\ q.checks = req[r].checks /\ q.pc = "check"
            BY <1>2 DEF Check
        <2>3. \A k \in q.checks : Limited(k)
            BY <1>1, <2>2 DEF RequestInv
        <2> HIDE DEF q
        <2> QED
            BY <2>1, <2>2, <2>3, ScriptRests, RequestKeeps
    <1>7. ASSUME NEW r \in Requests, Redis!ConnectFails(r) \/ Redis!Again(r) PROVE QuotaInv'
        BY <1>4, <1>7 DEF Redis!ConnectFails, Redis!Again
    <1>8. ASSUME NEW r \in Requests, NEW k \in Kinds, Redis!At(r, k)
          PROVE  Limited(k) /\ req[r].tokens \in Nat
        BY <1>1, <1>2, <1>8 DEF Redis!At, RequestInv, Check
    <1>9. ASSUME NEW r \in Requests, NEW k \in Kinds, Redis!Consume(r, k) PROVE QuotaInv'
        <2> DEFINE rest == [req[r] EXCEPT !.checks = @ \ {k}]
                   q == IF req[r].checks = {k} THEN Redis!Idle ELSE rest
        <2>1. /\ ~Exceeds(k, key[k].n, req[r].tokens) /\ Redis!Charge(k, req[r].tokens)
              /\ now' = now /\ req' = [req EXCEPT ![r] = q] /\ req[r].pc = "check"
              /\ Limited(k) /\ req[r].tokens \in Nat
            BY <1>8, <1>9, RedisTerms DEF Redis!Consume, Redis!At
        <2>2. rest \in Check /\ rest.checks \subseteq req[r].checks /\ rest.pc = "check"
            BY <1>2, <2>1 DEF Check
        <2>3. q \in Check /\ q.pc # "deny" /\ \A j \in q.checks : Limited(j)
            BY <1>1, <1>3, <2>2 DEF RequestInv
        <2>4. /\ \A j \in Kinds : KeyInv(j)'
              /\ key' = [j \in Kinds |-> key'[j]] /\ log' = [j \in Kinds |-> log'[j]]
              /\ LogRises
            BY <2>1, ScriptCharges
        <2> HIDE DEF q
        <2> QED
            BY <2>1, <2>3, <2>4, RequestKeeps
    <1>10. ASSUME NEW r \in Requests, NEW k \in Kinds, Redis!Deny(r, k) PROVE QuotaInv'
        <2> DEFINE q == [req[r] EXCEPT !.pc = "deny", !.kind = k, !.at = now, !.total = log[k][now]]
        <2>1. key' = key /\ log' = log /\ now' = now /\ req' = [req EXCEPT ![r] = q] /\ Limited(k)
            BY <1>2, <1>8, <1>10 DEF Redis!Deny, Redis!Total, Check
        <2>2. /\ q \in Check /\ q.checks = req[r].checks /\ q.pc = "deny" /\ q.kind = k
              /\ q.at = now /\ q.total = log[k][now]
            BY ZenonT(60), <1>1, <1>2 DEF Check
        <2>3. \A j \in q.checks : Limited(j)
            BY <1>1, <2>2 DEF RequestInv
        <2> HIDE DEF q
        <2> QED
            BY <2>1, <2>2, <2>3, ScriptRests, RequestKeeps
    <1>11. ASSUME NEW r \in Requests, NEW k \in Kinds, Redis!ScriptFails(r, k) PROVE QuotaInv'
        <2>1. now' = now /\ req' = [req EXCEPT ![r] = Redis!Idle] /\ Limited(k) /\ req[r].tokens \in Nat
            BY <1>8, <1>11 DEF Redis!ScriptFails
        <2>2. CASE key' = key /\ log' = log
            BY <1>4, <2>1, <2>2
        <2>3. CASE ~Exceeds(k, key[k].n, req[r].tokens) /\ Redis!Charge(k, req[r].tokens)
            <3>1. /\ \A j \in Kinds : KeyInv(j)'
                  /\ key' = [j \in Kinds |-> key'[j]] /\ log' = [j \in Kinds |-> log'[j]]
                  /\ LogRises
                BY <2>1, <2>3, ScriptCharges
            <3> QED
                BY <1>3, <2>1, <3>1, RequestKeeps
        <2> QED
            BY <1>11, <2>2, <2>3, RedisTerms DEF Redis!ScriptFails
    <1>12. CASE Redis!Tick
        <2>1. /\ now < MaxRedisTime /\ now' = now + 1
              /\ key' = [k \in Kinds |-> Expired(key[k], now + 1)]
              /\ req' = req /\ log' = log
            BY <1>12, RedisTerms DEF Redis!Tick, Redis!Absent, Expired
        <2>2. now + 1 \in Ticks
            BY <1>1, <2>1, RedisAssumption, TicksAreNat
        <2>3. ASSUME NEW k \in Kinds PROVE KeyInv(k)'
            <3> DEFINE f == Expired(key[k], now + 1)
            <3>1. /\ key[k] \in RedisEntry /\ Steady(log[k], now)
                  /\ Limited(k) => Burst(log[k], now, WindowOf(k), Limit[k])
                  /\ key[k] = [n |-> 0, expires |-> 0] \/ key[k].expires <= now + WindowOf(k)
                  /\ Limited(k) => KeyHolds(log[k], now, key[k], WindowOf(k), Limit[k])
                BY <1>1 DEF KeyInv
            <3>2. WindowOf(k) \in Nat \ {0} /\ (Limited(k) => Limit[k] \in Nat)
                BY KindFacts
            <3>3. Steady(log[k], now + 1)
                BY <1>1, <2>2, <3>1, TickSteady
            <3>4. Limited(k) => Burst(log[k], now + 1, WindowOf(k), Limit[k])
                BY <1>1, <2>2, <3>1, <3>2, TickBurst
            <3>5. Limited(k) => KeyHolds(log[k], now + 1, f, WindowOf(k), Limit[k])
                BY <1>1, <2>2, <3>1, <3>2, ExpiryHolds
            <3>6. f \in RedisEntry /\ (f = [n |-> 0, expires |-> 0] \/ f.expires <= now + 1 + WindowOf(k))
                BY <1>1, <3>1, <3>2 DEF Expired, RedisEntry
            <3>7. key'[k] = f /\ log'[k] = log[k]
                BY <2>1
            <3> HIDE DEF f
            <3> QED
                BY <2>1, <3>3, <3>4, <3>5, <3>6, <3>7 DEF KeyInv
        <2>4. ASSUME NEW r \in Requests PROVE RequestInv(r)'
            <3>1. req[r].pc = "deny" => req[r].at \in Nat
                BY <1>2 DEF Check
            <3> QED
                BY <1>1, <2>1, <3>1 DEF RequestInv
        <2>5. /\ key' = [k \in Kinds |-> key'[k]] /\ log' = [k \in Kinds |-> log'[k]]
              /\ req' = [r \in Requests |-> req'[r]]
            BY <1>2, <2>1
        <2> QED
            BY <2>1, <2>2, <2>3, <2>4, <2>5, RedisWhole
    <1> QED
        BY <1>5, <1>6, <1>7, <1>9, <1>10, <1>11, <1>12, RedisTerms DEF Redis!Next

LEMMA QuotaInvHolds == QuotaSpec => []QuotaInv
    <1>1. QuotaInit => QuotaInv
        <2> SUFFICES ASSUME QuotaInit PROVE QuotaInv
            OBVIOUS
        <2>1. /\ kept \in {"memory", "redis"} /\ now = Start /\ log = NoCharge
              /\ counter = [k \in Kinds |-> [start |-> 0, used |-> 0]]
              /\ answer = Memory!NoAnswer
              /\ key = [k \in Kinds |-> Redis!Absent] /\ req = [r \in Requests |-> Redis!Idle]
            BY MemoryTerms, RedisTerms DEF QuotaInit, Memory!Init, Redis!Init
        <2>2. Start \in Ticks /\ Start \in Nat
            BY TicksAreNat
        <2>3. QuotaTypeOK
            <3>1. Redis!Absent \in Key /\ Redis!Idle \in Check /\ Memory!NoAnswer \in Answer
                BY QuotaAssumption DEF Redis!Absent, Key, Redis!Never, Redis!Idle, Check, Kinds,
                                       Memory!NoAnswer, Answer
            <3>2. NoCharge \in [Kinds -> [Ticks -> Nat]]
                BY DEF NoCharge
            <3>3. [k \in Kinds |-> [start |-> 0, used |-> 0]] \in [Kinds -> [start : 0..MaxTime, used : Nat]]
                BY TicksAreNat
            <3> QED
                BY <2>1, <2>2, <3>1, <3>2, <3>3, QuotaTypes DEF QuotaShape
        <2>4. ASSUME NEW k \in Kinds
              PROVE  /\ log[k][now] = 0 /\ Until(log[k], now) = 0 /\ Steady(log[k], now)
                     /\ Limited(k) => /\ Burst(log[k], now, WindowOf(k), Limit[k])
                                      /\ Spill(log[k], now, WindowOf(k), Limit[k])
            <3>1. log[k] = [t \in Ticks |-> 0]
                BY <2>1 DEF NoCharge
            <3>2. \A t \in Ticks : log[k][t] = 0
                BY <3>1
            <3>3. Steady(log[k], now)
                BY <2>1, <2>2, <3>1, <3>2 DEF Steady
            <3>4. \A t \in Ticks : Until(log[k], t) = 0
                BY <3>2, TicksAreNat DEF Until
            <3>5. Limited(k) => Limit[k] \in Nat
                BY KindFacts
            <3>6. Limited(k) => Spill(log[k], now, WindowOf(k), Limit[k])
                <4>1. \A t \in Start..now : t \in Ticks
                    BY <2>1, <2>2, TicksAreNat
                <4> QED
                    BY <2>1, <2>2, <3>4, <3>5, <4>1 DEF Spill
            <3>7. Limited(k) => Burst(log[k], now, WindowOf(k), Limit[k])
                <4> SUFFICES ASSUME NEW t \in Ticks, Limited(k)
                             PROVE  log[k][IF t + WindowOf(k) - 1 < now THEN t + WindowOf(k) - 1 ELSE now]
                                      - Until(log[k], t) <= 2 * Limit[k]
                    BY DEF Burst
                <4>1. (IF t + WindowOf(k) - 1 < now THEN t + WindowOf(k) - 1 ELSE now) \in Ticks
                    BY <2>1, <2>2, KindFacts, TicksAreNat
                <4> QED
                    BY <3>2, <3>4, <3>5, <4>1
            <3> QED
                BY <2>1, <2>2, <3>2, <3>3, <3>4, <3>6, <3>7
        <2>5. InMemory
            BY <2>1, <2>4 DEF InMemory, Bucket, DenialHolds, Memory!NoAnswer
        <2>6. InRedis
            <3>1. \A k \in Kinds : key[k].n = 0 /\ key[k] = Redis!Absent
                BY <2>1 DEF Redis!Absent
            <3>2. \A k \in Kinds : Limited(k) => KeyHolds(log[k], now, key[k], WindowOf(k), Limit[k])
                BY <2>4, <3>1 DEF KeyHolds
            <3>3. \A r \in Requests : req[r].checks = {} /\ req[r].pc = "idle"
                BY <2>1 DEF Redis!Idle
            <3> QED
                BY <2>1, <3>1, <3>2, <3>3 DEF InRedis
        <2> QED
            BY <2>3, <2>4, <2>5, <2>6 DEF QuotaInv
    <1>2. QuotaInv /\ [QuotaNext]_quotaVars => QuotaInv'
        <2> SUFFICES ASSUME QuotaInv, [QuotaNext]_quotaVars PROVE QuotaInv'
            OBVIOUS
        <2>1. CASE kept = "memory" /\ Memory!Next /\ UNCHANGED <<kept, redisVars>>
            BY <2>1, MemoryStep
        <2>2. CASE kept = "redis" /\ Redis!Next /\ UNCHANGED <<kept, memoryVars>>
            BY <2>2, RedisStep
        <2>3. CASE UNCHANGED quotaVars
            <3>1. /\ kept' = kept /\ now' = now /\ log' = log /\ counter' = counter
                  /\ answer' = answer /\ key' = key /\ req' = req
                BY <2>3 DEF quotaVars, memoryVars, redisVars
            <3>2. QuotaTypeOK'
                BY <3>1, QuotaTypes DEF QuotaInv, QuotaShape
            <3>3. (kept = "memory" => InMemory') /\ (kept = "redis" => InRedis')
                BY <3>1 DEF QuotaInv, InMemory, InRedis, DenialHolds,
                            Redis!Absent, Redis!Idle, Memory!NoAnswer
            <3> QED
                BY <3>1, <3>2, <3>3 DEF QuotaInv
        <2> QED
            BY <2>1, <2>2, <2>3 DEF QuotaNext
    <1> QED
        BY <1>1, <1>2, PTL DEF QuotaSpec

-----------------------------------------------------------------------------
(* What the quota counters guarantee.                                      *)

LEMMA InvBoundsBursts ==
    ASSUME QuotaInv
    PROVE  BurstBounded
    <1> SUFFICES ASSUME NEW k \in Kinds, NEW t \in Ticks, Limited(k)
                 PROVE  ChargedIn(log, k, t, IF t + WindowOf(k) - 1 < now
                                             THEN t + WindowOf(k) - 1 ELSE now) <= 2 * Limit[k]
        BY DEF BurstBounded, TwiceLimitAtMost
    <1> QED
        BY DEF QuotaInv, Burst, ChargedIn

LEMMA MemoryRetryIsEnough ==
    ASSUME QuotaInv, kept = "memory"
    PROVE  Memory!RetryAfterIsEnough
    <1> DEFINE k == answer.kind
               end == answer.at + answer.retry
               a == Increment(k, answer.tokens)
               c == counter[k]
    <1> SUFFICES ASSUME answer.verdict = "deny", ~(now < end), ~(a > Limit[k]),
                        Memory!Full(k, answer.tokens)
                 PROVE  log[k][now] > answer.total
        BY MemoryTerms DEF Memory!RetryAfterIsEnough, Memory!Total
    <1>1. answer \in Answer /\ now \in Ticks /\ now \in Nat /\ \A j \in Kinds : BucketInv(j)
        BY MemoryBuckets, QuotaTypes, TicksAreNat DEF QuotaInv, QuotaShape
    <1>2. k \in Kinds /\ end \in Nat /\ answer.at \in Nat /\ answer.tokens \in Nat /\ answer.total \in Nat
        BY <1>1 DEF Answer
    <1>3. /\ Limited(k) /\ answer.at \in Ticks /\ answer.at < end
          /\ answer.total <= log[k][answer.at]
          /\ c.start + WindowOf(k) = end \/ c.start >= end
        BY DEF QuotaInv, InMemory, DenialHolds
    <1>4. /\ a \in Nat /\ Limit[k] \in Nat /\ WindowOf(k) \in Nat \ {0}
          /\ c \in Counter /\ Steady(log[k], now)
          /\ Bucket(log[k], now, c, WindowOf(k), Limited(k), Limit[k])
        BY <1>1, <1>2, <1>3, KindFacts DEF BucketInv
    <1>5. Roll(c, now, WindowOf(k)).used + a > Limit[k]
        BY MemoryTerms DEF Memory!Full, Exceeds
    <1>6. c.used > 0 /\ ~(now - c.start >= WindowOf(k)) /\ c.start \in Nat
        BY <1>4, <1>5 DEF Roll, Counter
    <1>7. c.start >= end /\ c.start # 0
        BY <1>1, <1>2, <1>3, <1>4, <1>6
    <1>8. log[k][answer.at] < log[k][now]
        <2>1. end <= now /\ end <= c.start
            BY <1>1, <1>2, <1>6, <1>7
        <2> HIDE DEF end, c, k
        <2> QED
            BY <1>1, <1>2, <1>3, <1>4, <1>6, <1>7, <2>1, FullAgain
    <1>9. log[k][answer.at] \in Nat /\ log[k][now] \in Nat
        BY <1>1, <1>3, <1>4 DEF Steady
    <1> QED
        BY <1>2, <1>3, <1>8, <1>9

LEMMA RedisRetryIsEnough ==
    ASSUME QuotaInv, kept = "redis"
    PROVE  Redis!RetryAfterIsEnough
    <1> SUFFICES ASSUME NEW r \in Requests, req[r].pc = "deny",
                        now >= req[r].at + WindowOf(req[r].kind),
                        ~(Increment(req[r].kind, req[r].tokens) > Limit[req[r].kind]),
                        Exceeds(req[r].kind, key[req[r].kind].n, req[r].tokens)
                 PROVE  log[req[r].kind][now] > req[r].total
        BY RedisTerms DEF Redis!RetryAfterIsEnough, Redis!Total
    <1> DEFINE k == req[r].kind
               W == WindowOf(k)
               C == log[k]
               at == req[r].at
    <1>1. now \in Ticks /\ now \in Nat /\ RequestInv(r) /\ req[r] \in Check
        BY RedisParts, TicksAreNat DEF RequestInv
    <1>2. k \in Kinds /\ req[r].tokens \in Nat /\ req[r].total \in Nat
        BY <1>1 DEF Check
    <1>3. Limited(k) /\ at \in Ticks /\ at \in Nat /\ at <= now /\ req[r].total <= C[at]
        BY <1>1, TicksAreNat DEF RequestInv
    <1>4. /\ KeyInv(k) /\ key[k] \in RedisEntry /\ Steady(C, now)
          /\ KeyHolds(C, now, key[k], W, Limit[k])
          /\ W \in Nat \ {0} /\ Limit[k] \in Nat /\ Increment(k, req[r].tokens) \in Nat
        BY <1>2, <1>3, RedisParts, KindFacts DEF KeyInv
    <1>5. key[k].n > 0
        BY <1>4 DEF Exceeds, RedisEntry
    <1>6. PICK s \in Ticks : s <= now /\ now < s + W /\ key[k].n = C[now] - Until(C, s)
        BY <1>4, <1>5 DEF KeyHolds
    <1>7. s \in Nat
        BY TicksAreNat
    <1>8. at < s
        BY <1>1, <1>3, <1>4, <1>6, <1>7
    <1>9. C[at] <= Until(C, s)
        BY <1>1, <1>3, <1>4, <1>8, UntilRises
    <1>10. C[at] \in Nat /\ C[now] \in Nat /\ Until(C, s) \in Nat
        BY <1>1, <1>3, <1>4, UntilTypes DEF Steady
    <1> HIDE DEF C
    <1>11. C[now] > req[r].total
        BY <1>2, <1>3, <1>4, <1>5, <1>6, <1>9, <1>10 DEF RedisEntry
    <1> QED
        BY <1>11 DEF C

\* Both counters keep their limits, with any limits, windows, requests and
\* replicas: check_and_consume charges at most twice the limit in any interval of
\* a window's length, and the Retry-After of a denial is enough.  What a failing
\* Redis lets through is charged nowhere (quota.rs:469, 503) and not bounded.
THEOREM LimitsAreKept == QuotaSpec => []LimitsHold
    <1>1. QuotaInv => LimitsHold
        <2> SUFFICES ASSUME QuotaInv PROVE LimitsHold
            OBVIOUS
        <2>1. QuotaTypeOK /\ kept \in {"memory", "redis"}
            BY QuotaTypes DEF QuotaInv, QuotaShape
        <2>2. Memory!RetryAfterIsEnough
            <3>1. CASE kept = "memory"
                BY <3>1, MemoryRetryIsEnough
            <3>2. CASE kept = "redis"
                <4>1. answer.verdict = "none"
                    BY <3>2 DEF QuotaInv, InRedis, Memory!NoAnswer
                <4> QED
                    BY <4>1 DEF Memory!RetryAfterIsEnough
            <3> QED
                BY <2>1, <3>1, <3>2
        <2>3. Redis!RetryAfterIsEnough
            <3>1. CASE kept = "redis"
                BY <3>1, RedisRetryIsEnough
            <3>2. CASE kept = "memory"
                <4>1. \A r \in Requests : req[r].pc = "idle"
                    BY <3>2 DEF QuotaInv, InMemory, Redis!Idle
                <4> QED
                    BY <4>1 DEF Redis!RetryAfterIsEnough
            <3> QED
                BY <2>1, <3>1, <3>2
        <2> QED
            BY <2>1, <2>2, <2>3, InvBoundsBursts DEF LimitsHold, RetryAfterIsEnough
    <1> QED
        BY <1>1, QuotaInvHolds, PTL

\* What a counter reports was charged within its window, and every counter in
\* Redis has a time to live of at most a window, whichever script created it.
THEOREM UsageStaysHonest == QuotaSpec => []UsageIsHonest
    <1>1. QuotaInv => UsageIsHonest
        <2> SUFFICES ASSUME QuotaInv PROVE UsageIsHonest
            OBVIOUS
        <2>1. kept \in {"memory", "redis"}
            BY QuotaTypes DEF QuotaInv, QuotaShape
        <2>2. kept = "memory" => Memory!UsageIsWhatWasCharged
            <3> SUFFICES ASSUME kept = "memory", NEW k \in Kinds, counter[k].start # 0
                         PROVE  counter[k].used = log[k][now] - Until(log[k], counter[k].start)
                BY MemoryTerms
                   DEF Memory!UsageIsWhatWasCharged, Memory!ChargedIn, Memory!Until, Until
            <3> QED
                BY DEF QuotaInv, InMemory, Bucket
        <2>3. Redis!EveryCounterExpires
            <3> SUFFICES ASSUME NEW k \in Kinds, key[k] # Redis!Absent
                         PROVE  key[k].expires <= now + WindowOf(k)
                BY RedisTerms DEF Redis!EveryCounterExpires
            <3>1. kept # "memory"
                BY DEF QuotaInv, InMemory
            <3> QED
                BY <2>1, <3>1 DEF QuotaInv, InRedis
        <2> QED
            BY <2>2, <2>3 DEF UsageIsHonest, UsageIsWhatWasCharged, EveryCounterExpires
    <1> QED
        BY <1>1, QuotaInvHolds, PTL

\* A denial by InMemoryQuota charges no bucket, whichever of the four is full.
THEOREM DenialsAreFree == QuotaSpec => DeniedConsumesNothing
    <1>1. QuotaInv /\ [QuotaNext]_quotaVars => [Memory!DenialKeepsUsage]_quotaVars
        <2> SUFFICES ASSUME QuotaInv, QuotaNext, answer' # answer, answer'.verdict = "deny",
                            NEW k \in Kinds
                     PROVE  Memory!Rolled(k)'.used = Memory!Rolled(k).used
            BY MemoryTerms DEF Memory!DenialKeepsUsage
        <2>1. kept = "memory" /\ Memory!Next
            BY DEF QuotaNext, memoryVars
        <2>2. PICK tokens \in TokenSizes : Memory!Deny(tokens)
            BY <2>1 DEF Memory!Next, Memory!Tick, Memory!CurrentUsage, Memory!Allow, Memory!NoAnswer
        <2>3. now' = now /\ (Untouched(k) \/ RolledOnly(k))
            BY <2>2, DenyIs
        <2>4. /\ now \in Nat /\ counter[k] \in Counter /\ counter[k].start <= now
              /\ WindowOf(k) \in Nat \ {0}
            BY <2>1, MemoryBuckets, KindFacts, TicksAreNat DEF BucketInv
        <2> DEFINE r == Roll(counter[k], now, WindowOf(k))
        <2>5. Roll(r, now, WindowOf(k)) = r
            BY <2>4 DEF Roll, Counter
        <2>6. Roll(counter'[k], now', WindowOf(k)) = r
            BY <2>3, <2>5 DEF Untouched, RolledOnly
        <2>7. Memory!Rolled(k) = r /\ Memory!Rolled(k)' = Roll(counter'[k], now', WindowOf(k))
            BY DEF Memory!Rolled, Roll, Memory!WindowOf, WindowOf
        <2> QED
            BY <2>6, <2>7
    <1> QED
        BY <1>1, QuotaInvHolds, PTL DEF QuotaSpec, DeniedConsumesNothing
=============================================================================
