----------------------------- MODULE OAuthProofs -----------------------------
(***************************************************************************)
(* The OAuth token lifecycle for every number of instances, tasks, tokens  *)
(* and logins: refresh tokens are spent by one task at a time, what the    *)
(* tables say of a credential is so, and no refresh undoes another.        *)
(***************************************************************************)
EXTENDS OAuthRefresh, WellFoundedInduction, TLAPS

-----------------------------------------------------------------------------
(* The inductive invariant.                                                *)

\* A token that was handed out; and one that the server refuses or has refused.
Known(tok) == tok = NoToken \/ (tok.cred \in Creds /\ tok.n \in 1..issued)
Dead(tok) == tok # NoToken /\ (~Valid(tok) \/ tok \in ghost.refused)

\* Where a task holds the lock of its instance, and where it also holds the
\* advisory lock, if there is one.
LocalStages == {"recheck", "rechecked", "tx", "polled", "decide", "grant", "answered",
                "seed", "failed", "status", "mutate", "reset", "invalidate"}
LockedStages == {"decide", "grant", "answered", "failed", "mutate", "reset"}

LocksAreHeld ==
    \A t \in Tasks :
        /\ task[t].pc \in LocalStages => local[Here(t)] = t
        /\ task[t].pc \in LockedStages /\ scenario.kind = "postgres" => adv = t

\* What brings a task to a stage.
OpFits(r) ==
    /\ r.pc \in {"peek", "peeked", "recheck", "rechecked"} => r.op \in IfNeeded
    /\ r.pc = "polled" => r.op \in {"request", "recover", "force"}
    /\ r.pc \in {"lock", "tx"} => r.op \in Operations \ {"edit"}
    /\ r.pc \in {"decide", "grant", "failed", "status"} => r.op \in RefreshOps
    /\ r.pc \in {"answered", "seed"} => r.op \in RefreshOps \cup {"install"}
    /\ r.pc \in {"mutate", "reset", "invalidate"} => r.op = "mutate"
    /\ r.pc \in {"flow", "exchange"} => r.op = "install"
    /\ r.pc \in {"tx", "polled"} => scenario.kind = "postgres"

\* The tokens a task has copied or was given.
TokensFit(r) ==
    /\ Known(r.prov.rt) /\ Known(r.newrt)
    /\ r.prov.status = "invalid" => Dead(r.prov.rt)
    /\ r.pc \in {"failed", "status"} /\ r.failure = "invalid" => Dead(r.prov.rt)
    /\ r.pc = "grant" => r.prov.rt # NoToken

\* A login that is not stored yet.
Pending(r) == r.op = "install" /\ r.pc \in {"lock", "tx", "answered"}

\* What a refresh or an install brings back.
AnswerFits(r) ==
    /\ r.pc = "answered" \/ Pending(r) => r.newrt # NoToken /\ r.at.cred = r.newrt.cred
    /\ r.pc = "answered" /\ r.op # "install" =>
          \/ r.newrt = r.prov.rt
          \/ r.newrt.cred = r.prov.rt.cred /\ r.newrt.n > r.prov.rt.n

Spends(r) == r.pc = "grant" \/ (r.pc = "answered" /\ r.op # "install")

\* The token a task spends is the one in the provider's row, which nobody else
\* replaces meanwhile; with SQLite this holds from the moment it is read.
SpendsCurrent(r) ==
    /\ \/ Spends(r)
       \/ scenario.kind = "sqlite" /\ r.pc \in {"recheck", "rechecked", "decide"}
    => ghost.stale_edit \/ r.prov.rt = provider.rt

ValidUnlessLost(r) ==
    /\ r.pc = "grant" => ghost.lost \/ ghost.stale_edit \/ Valid(r.prov.rt)
    /\ r.pc = "answered" => ghost.lost \/ Valid(r.newrt)
    /\ Pending(r) => Valid(r.newrt)

\* With SQLite the row that was read under the lock is still the row.
RereadIsCurrent(r) ==
    scenario.kind = "sqlite" =>
        /\ r.pc = "rechecked" => r.seen = row.at
        /\ r.pc = "decide" /\ r.op \in IfNeeded => ~Usable(row.at, r.rejected)

TaskFits(r) ==
    /\ OpFits(r) /\ TokensFit(r) /\ AnswerFits(r)
    /\ SpendsCurrent(r) /\ ValidUnlessLost(r) /\ RereadIsCurrent(r)

\* Copies of the provider's row: one version of the metadata, one content.
Rows == {provider, NoProvider} \cup {task[t].prov : t \in Tasks}

RowsAreVersions ==
    /\ \A p, q \in Rows : p.meta = q.meta => p = q
    /\ \E b \in Nat : \A p \in Rows : p.meta <= b

\* A login that waits to be stored is nobody else's credential.
PendingIsPrivate ==
    \A t \in Tasks : Pending(task[t]) =>
        /\ \A p \in Rows : p.rt.cred # task[t].newrt.cred
        /\ \A s \in Tasks : s # t /\ Pending(task[s]) =>
              task[s].newrt.cred # task[t].newrt.cred

\* The stored token is honoured, or its successor is with the task that asked.
StoredIsValid ==
    \/ ghost.lost \/ ghost.stale_edit
    \/ provider.rt = NoToken \/ Valid(provider.rt)
    \/ \E t \in Tasks : Rotated(t)

StoredFits ==
    /\ server[1] # 0
    /\ Known(provider.rt)
    /\ provider.status = "invalid" => Dead(provider.rt)
    /\ StoredIsValid

Inv ==
    /\ TypeOK
    /\ LocksAreHeld
    /\ \A t \in Tasks : TaskFits(task[t])
    /\ RowsAreVersions
    /\ PendingIsPrivate
    /\ StoredFits
    /\ NoReuseWithoutLoss
    /\ SharedRowMatchesCredential

-----------------------------------------------------------------------------
(* Least and greatest elements of sets of numbers.                         *)

LEMMA LeastExists ==
    ASSUME NEW T, T \subseteq Nat, T # {}
    PROVE  \E x \in T : \A y \in T : x <= y
    <1> DEFINE R == OpToRel(<, Nat)
    <1>1. IsWellFoundedOn(R, Nat)
        BY NatLessThanWellFounded
    <1>2. ASSUME NEW x \in Nat, NEW y \in Nat, x < y
          PROVE  <<x, y>> \in R
        BY <1>2 DEF OpToRel
    <1> HIDE DEF R
    <1>3. PICK x \in T : \A y \in T : ~(<<y, x>> \in R)
        BY <1>1, WFMin
    <1>4. ASSUME NEW y \in T
          PROVE  ~(y < x)
        BY <1>2, <1>3
    <1>5. \A y \in T : x <= y
        BY <1>4
    <1> QED
        BY <1>5

\* The least upper bound of a bounded set of numbers is one of them.
LEMMA GreatestExists ==
    ASSUME NEW T, T \subseteq Nat, T # {}, NEW b \in Nat, \A x \in T : x <= b
    PROVE  \E x \in T : \A y \in T : y <= x
    <1> DEFINE U == {u \in Nat : \A x \in T : x <= u}
    <1>1. b \in U
        OBVIOUS
    <1>2. PICK u \in U : \A v \in U : u <= v
        BY <1>1, LeastExists
    <1>3. u \in T
        <2> SUFFICES ASSUME u \notin T
                     PROVE  FALSE
            OBVIOUS
        <2>1. \A x \in T : x < u
            OBVIOUS
        <2>2. PICK x \in T : TRUE
            OBVIOUS
        <2>3. u \in Nat /\ x \in Nat /\ x < u
            BY <2>1
        <2>4. u - 1 \in Nat
            BY <2>3
        <2>5. \A y \in T : y <= u - 1
            BY <2>1, <2>3
        <2> QED
            BY <1>2, <2>3, <2>4, <2>5
    <1> QED
        BY <1>3

LEMMA MaxIsGreatest ==
    ASSUME NEW T, T \subseteq Nat, T # {}, NEW b \in Nat, \A x \in T : x <= b
    PROVE  Max(T) \in T /\ \A y \in T : y <= Max(T)
    <1>1. PICK x \in T : \A y \in T : x >= y
        BY GreatestExists
    <1> QED
        BY <1>1 DEF Max

\* A login is given a number that no earlier login has.
LEMMA NextCredIsNew ==
    ASSUME TypeOK, server[1] # 0
    PROVE  NextCred \in Nat \ {0} /\ NextCred \notin Creds
    <1>1. Creds \subseteq Nat /\ 1 \in Creds /\ \A c \in Creds : c <= MaxCred
        BY OAuthAssumption DEF Creds, TypeOK
    <1>2. MaxCred \in Nat
        BY OAuthAssumption
    <1>3. PICK c \in Creds : \A d \in Creds : d <= c
        BY <1>1, <1>2, GreatestExists
    <1> DEFINE top == CHOOSE d \in Creds : \A e \in Creds : e <= d
    <1>4. top \in Creds /\ \A e \in Creds : e <= top
        BY <1>3
    <1>5. NextCred = 1 + top
        BY DEF NextCred
    <1> HIDE DEF top
    <1> QED
        BY <1>1, <1>4, <1>5

-----------------------------------------------------------------------------
(* What lasts.                                                             *)

\* How the server, the clocks and the history move in every step.
Grows ==
    /\ scenario' = scenario
    /\ issued <= issued'
    /\ \A c \in 1..MaxCred : server'[c] = server[c] \/ server'[c] > issued
    /\ expired \subseteq expired'
    /\ ghost.lost => ghost'.lost
    /\ ghost.stale_edit => ghost'.stale_edit
    /\ ghost.refused \subseteq ghost'.refused

LEMMA TokensLast ==
    ASSUME TypeOK, TypeOK', Grows, NEW tok \in Token, Known(tok)
    PROVE  Known(tok)' /\ (Dead(tok) => Dead(tok)')
    <1>1. CASE tok = NoToken
        BY <1>1 DEF Known, Dead
    <1>2. CASE tok # NoToken
        <2>1. tok.cred \in 1..MaxCred /\ server[tok.cred] # 0 /\ tok.n \in 1..issued
            BY <1>2 DEF Known, Creds
        <2>2. issued \in Nat /\ issued' \in Nat /\ issued <= issued'
            BY OAuthAssumption DEF TypeOK, Grows
        <2>3. server'[tok.cred] = server[tok.cred] \/ server'[tok.cred] > issued
            BY <2>1 DEF Grows
        <2>4. server[tok.cred] \in Nat /\ server'[tok.cred] \in Nat
            BY <2>1, OAuthAssumption DEF TypeOK
        <2>5. server'[tok.cred] # 0 /\ tok.n \in 1..issued'
            BY <2>1, <2>2, <2>3, <2>4
        <2>6. Known(tok)'
            BY <2>1, <2>5 DEF Known, Creds
        <2>7. Dead(tok) => Dead(tok)'
            BY <2>1, <2>2, <2>3, <2>4 DEF Dead, Valid, Grows
        <2> QED
            BY <2>6, <2>7
    <1> QED
        BY <1>1, <1>2

\* What a task relies on that others could change.
Relies(r) ==
    \/ Spends(r)
    \/ scenario.kind = "sqlite" /\ r.pc \in {"recheck", "rechecked", "decide"}

\* A task that is not the one at work keeps what it relies on.
LEMMA TaskLasts ==
    ASSUME TypeOK, TypeOK', Grows, NEW r \in TaskState, TaskFits(r),
           Relies(r) => ghost'.stale_edit \/ provider'.rt = provider.rt,
           r.pc = "grant" => ghost'.lost \/ ghost'.stale_edit
                             \/ server'[r.prov.rt.cred] = server[r.prov.rt.cred],
           r.pc = "answered" => ghost'.lost \/ server'[r.newrt.cred] = server[r.newrt.cred],
           Pending(r) => server'[r.newrt.cred] = server[r.newrt.cred],
           scenario.kind = "sqlite" /\ r.pc \in {"rechecked", "decide"} => row'.at = row.at
    PROVE  TaskFits(r)'
    <1>1. OpFits(r)'
        BY DEF TaskFits, OpFits, Grows
    <1>2. TokensFit(r)'
        <2>1. r.prov.rt \in Token /\ r.newrt \in Token
            BY DEF TaskState, ProviderRow
        <2>2. Known(r.prov.rt)' /\ (Dead(r.prov.rt) => Dead(r.prov.rt)')
            BY <2>1, TokensLast DEF TaskFits, TokensFit
        <2>3. Known(r.newrt)'
            BY <2>1, TokensLast DEF TaskFits, TokensFit
        <2> QED
            BY <2>2, <2>3 DEF TaskFits, TokensFit
    <1>3. AnswerFits(r)'
        BY DEF TaskFits, AnswerFits, Pending
    <1>4. SpendsCurrent(r)'
        BY DEF TaskFits, SpendsCurrent, Relies, Spends, Grows
    <1>5. ValidUnlessLost(r)'
        BY DEF TaskFits, ValidUnlessLost, Grows, Pending, Valid
    <1>6. RereadIsCurrent(r)'
        BY DEF TaskFits, RereadIsCurrent, Grows, Usable
    <1> QED
        BY <1>1, <1>2, <1>3, <1>4, <1>5, <1>6 DEF TaskFits

LEMMA RowTypes ==
    ASSUME TypeOK
    PROVE  /\ \A p \in Rows : p \in ProviderRow /\ p.meta \in Nat
           /\ NoProvider \in ProviderRow /\ NoToken \in Token /\ Fresh \in TaskState
    <1>1. NoToken \in Token
        BY OAuthAssumption DEF NoToken, Token
    <1>2. NoProvider \in ProviderRow
        BY <1>1 DEF NoProvider, ProviderRow
    <1>3. Fresh \in TaskState
        BY <1>1, <1>2 DEF Fresh, TaskState, Stages
    <1>4. \A p \in Rows : p \in ProviderRow
        BY <1>2 DEF Rows, TypeOK, TaskState
    <1>5. \A p \in ProviderRow : p.meta \in Nat
        BY DEF ProviderRow
    <1> QED
        BY <1>1, <1>2, <1>3, <1>4, <1>5

\* A new ciphertext is one that nobody remembers.
LEMMA NextMetaIsNew ==
    ASSUME TypeOK, RowsAreVersions
    PROVE  NextMeta \in Nat /\ \A p \in Rows : p.meta < NextMeta
    <1> DEFINE M == {provider.meta} \cup {task[t].prov.meta : t \in Tasks}
    <1>1. PICK b \in Nat : \A p \in Rows : p.meta <= b
        BY DEF RowsAreVersions
    <1>2. \A t \in Tasks : task[t].prov \in Rows /\ task[t].prov.meta \in Nat
        BY RowTypes DEF Rows
    <1>3. provider \in Rows /\ provider.meta \in Nat
        BY RowTypes DEF Rows
    <1>4. M \subseteq Nat /\ provider.meta \in M /\ \A x \in M : x <= b
        BY <1>1, <1>2, <1>3
    <1>5. Max(M) \in M /\ \A x \in M : x <= Max(M)
        BY <1>4, MaxIsGreatest
    <1>6. NextMeta = 1 + Max(M)
        BY DEF NextMeta
    <1>7. \A p \in Rows : p.meta \in M \/ p.meta = 0
        BY DEF Rows, NoProvider
    <1> DEFINE top == Max(M)
    <1>8. top \in Nat /\ \A x \in M : x <= top
        BY <1>4, <1>5
    <1>9. NextMeta = 1 + top
        BY <1>6
    <1> HIDE DEF M, top
    <1>10. \A p \in Rows : p.meta <= top
        BY <1>7, <1>8
    <1>11. \A p \in Rows : p.meta \in Nat
        BY RowTypes
    <1> QED
        BY <1>8, <1>9, <1>10, <1>11

LEMMA RowsStay ==
    ASSUME Inv, Rows' \subseteq Rows
    PROVE  RowsAreVersions'
    BY DEF Inv, RowsAreVersions

\* A row that is written anew has a version of its own.
LEMMA RowIsAdded ==
    ASSUME Inv, NEW p, p.meta = NextMeta, Rows' \subseteq Rows \cup {p}
    PROVE  RowsAreVersions'
    <1>1. NextMeta \in Nat /\ \A q \in Rows : q.meta < NextMeta
        BY NextMetaIsNew DEF Inv
    <1>2. \A q \in Rows : q.meta \in Nat
        BY RowTypes DEF Inv
    <1>3. \A q, r \in Rows : q.meta = r.meta => q = r
        BY DEF Inv, RowsAreVersions
    <1>4. \A q, r \in Rows \cup {p} : q.meta = r.meta => q = r
        BY <1>1, <1>2, <1>3
    <1>5. \A q \in Rows \cup {p} : q.meta <= NextMeta
        BY <1>1, <1>2
    <1>6. \A q, r \in Rows' : q.meta = r.meta => q = r
        BY <1>4
    <1>7. \E b \in Nat : \A q \in Rows' : q.meta <= b
        BY <1>1, <1>5
    <1> QED
        BY <1>6, <1>7 DEF RowsAreVersions

LEMMA RowsFit ==
    ASSUME Inv, NEW p \in Rows
    PROVE  /\ p \in ProviderRow /\ p.rt \in Token /\ Known(p.rt)
           /\ p.status = "invalid" => Dead(p.rt)
    <1>1. p \in ProviderRow /\ p.rt \in Token
        BY RowTypes DEF Inv, ProviderRow
    <1>2. CASE p = provider
        BY <1>1, <1>2 DEF Inv, StoredFits
    <1>3. CASE p = NoProvider
        BY <1>1, <1>3 DEF NoProvider, Known
    <1>4. ASSUME NEW t \in Tasks, p = task[t].prov
          PROVE  Known(p.rt) /\ (p.status = "invalid" => Dead(p.rt))
        BY <1>4 DEF Inv, TaskFits, TokensFit
    <1> QED
        BY <1>1, <1>2, <1>3, <1>4 DEF Rows

-----------------------------------------------------------------------------
(* A step of one task that leaves the tokens as they are.                  *)

Alone(t) == \A s \in Tasks \ {t} : task'[s] = task[s]

LEMMA CalmStep ==
    ASSUME Inv, NEW t \in Tasks, TypeOK', LocksAreHeld', Alone(t),
           UNCHANGED <<scenario, server, issued, expired>>,
           RowsAreVersions',
           \A p \in Rows' : \E q \in Rows : p.rt = q.rt,
           provider'.status = "invalid" => Dead(provider'.rt),
           provider'.rt = provider.rt \/ ghost'.stale_edit,
           row'.at = row.at,
           ghost.lost => ghost'.lost,
           ghost.stale_edit => ghost'.stale_edit,
           ghost.interrupted => ghost'.interrupted,
           ghost.refused \subseteq ghost'.refused,
           TaskFits(task[t])',
           Pending(task'[t]) => Pending(task[t]) /\ task'[t].newrt = task[t].newrt,
           Rotated(t) => Rotated(t)' \/ ghost'.lost,
           Replacing(t) => Replacing(t)' \/ ghost'.interrupted,
           NoReuseWithoutLoss'
    PROVE  Inv'
    <1>1. Grows
        BY OAuthAssumption DEF Grows, Inv, TypeOK
    <1>2. ASSUME NEW s \in Tasks
          PROVE  TaskFits(task[s])'
        <2>1. CASE s = t
            BY <2>1
        <2>2. CASE s # t
            <3>1. task'[s] = task[s]
                BY <2>2 DEF Alone
            <3>2. PICK r \in TaskState : r = task[s]
                BY DEF Inv, TypeOK
            <3>3. TaskFits(r)
                BY <3>2 DEF Inv
            <3>4. TaskFits(r)'
                BY <1>1, <3>3, TaskLasts DEF Inv
            <3> QED
                BY <3>1, <3>2, <3>4
        <2> QED
            BY <2>1, <2>2
    <1>3. PendingIsPrivate'
        <2> SUFFICES ASSUME NEW s \in Tasks, Pending(task'[s])
                     PROVE  /\ \A p \in Rows' : p.rt.cred # task'[s].newrt.cred
                            /\ \A u \in Tasks : u # s /\ Pending(task'[u]) =>
                                  task'[u].newrt.cred # task'[s].newrt.cred
            BY DEF PendingIsPrivate
        <2>1. \A u \in Tasks : Pending(task'[u]) =>
                  Pending(task[u]) /\ task'[u].newrt = task[u].newrt
            BY DEF Alone
        <2>2. \A p \in Rows : p.rt.cred # task[s].newrt.cred
            BY <2>1 DEF Inv, PendingIsPrivate
        <2>3. \A p \in Rows' : p.rt.cred # task'[s].newrt.cred
            BY <2>1, <2>2
        <2>4. \A u \in Tasks : u # s /\ Pending(task[u]) =>
                  task[u].newrt.cred # task[s].newrt.cred
            BY <2>1 DEF Inv, PendingIsPrivate
        <2> QED
            BY <2>1, <2>3, <2>4
    <1>4. StoredFits'
        <2>1. server'[1] # 0
            BY DEF Inv, StoredFits
        <2>2. Known(provider'.rt)
            <3>1. PICK q \in Rows : provider'.rt = q.rt
                BY DEF Rows
            <3> QED
                BY <3>1, RowsFit
        <2>3. Known(provider.rt)' /\ (provider.status = "invalid" => Dead(provider.rt))'
            BY <2>2 DEF Known, Dead, Valid, Creds
        <2>4. StoredIsValid'
            <3>1. CASE ghost'.lost \/ ghost'.stale_edit
                BY <3>1 DEF StoredIsValid
            <3>2. CASE ~ghost'.lost /\ ~ghost'.stale_edit
                <4>1. provider'.rt = provider.rt /\ ~ghost.lost /\ ~ghost.stale_edit
                    BY <3>2
                <4>2. provider.rt = NoToken \/ Valid(provider.rt) \/ \E s \in Tasks : Rotated(s)
                    BY <4>1 DEF Inv, StoredFits, StoredIsValid
                <4>3. ASSUME NEW s \in Tasks, Rotated(s)
                      PROVE  Rotated(s)'
                    BY <3>2, <4>3 DEF Alone, Rotated
                <4> QED
                    BY <4>1, <4>2, <4>3 DEF StoredIsValid, Valid
            <3> QED
                BY <3>1, <3>2
        <2> QED
            BY <2>1, <2>3, <2>4 DEF StoredFits
    <1>5. SharedRowMatchesCredential'
        <2>1. ASSUME NEW s \in Tasks, Replacing(s)
              PROVE  Replacing(s)' \/ ghost'.interrupted
            BY <2>1 DEF Alone, Replacing
        <2> QED
            BY <2>1 DEF Inv, SharedRowMatchesCredential
    <1> QED
        BY <1>2, <1>3, <1>4, <1>5 DEF Inv

\* Where another task works under the lock nobody else does.
LEMMA Exclusion ==
    ASSUME Inv, NEW s \in Tasks, NEW t \in Tasks
    PROVE  /\ task[s].pc \in LockedStages /\ task[t].pc \in LockedStages => s = t
           /\ task[s].pc \in LocalStages /\ task[t].pc \in LocalStages
                 /\ scenario.kind = "sqlite" => s = t
    <1>1. LockedStages \subseteq LocalStages
        BY DEF LockedStages, LocalStages
    <1>2. scenario.kind = "sqlite" => Here(s) = Here(t)
        BY OAuthAssumption DEF Inv, TypeOK, Here
    <1>3. scenario.kind \in {"sqlite", "postgres"}
        BY OAuthAssumption DEF Inv, TypeOK
    <1> QED
        BY <1>1, <1>2, <1>3 DEF Inv, LocksAreHeld

LEMMA LocksKept ==
    ASSUME Inv, NEW t \in Tasks, Alone(t), UNCHANGED <<scenario, local, adv>>,
           task'[t].pc \in LocalStages => task[t].pc \in LocalStages,
           task'[t].pc \in LockedStages => task[t].pc \in LockedStages
                                           \/ scenario.kind = "sqlite"
    PROVE  LocksAreHeld'
    <1> SUFFICES ASSUME NEW s \in Tasks
                 PROVE  /\ task'[s].pc \in LocalStages => local'[scenario'.home[s]] = s
                        /\ task'[s].pc \in LockedStages /\ scenario'.kind = "postgres" => adv' = s
        BY DEF LocksAreHeld, Here
    <1>1. CASE s = t
        BY <1>1 DEF Inv, LocksAreHeld, Here
    <1>2. CASE s # t
        BY <1>2 DEF Inv, LocksAreHeld, Here, Alone
    <1> QED
        BY <1>1, <1>2

\* A task that ends, or commits, lets go of what is its own only.
LEMMA AdvisoryReleased ==
    ASSUME Inv, NEW t \in Tasks, Alone(t), UNCHANGED <<scenario, local>>,
           adv' = IF adv = t THEN None ELSE adv,
           task'[t].pc \in LocalStages => task[t].pc \in LocalStages,
           task'[t].pc \notin LockedStages
    PROVE  LocksAreHeld'
    <1> SUFFICES ASSUME NEW s \in Tasks
                 PROVE  /\ task'[s].pc \in LocalStages => local'[scenario'.home[s]] = s
                        /\ task'[s].pc \in LockedStages /\ scenario'.kind = "postgres" => adv' = s
        BY DEF LocksAreHeld, Here
    <1>1. CASE s = t
        BY <1>1 DEF Inv, LocksAreHeld, Here
    <1>2. CASE s # t
        BY <1>2 DEF Inv, LocksAreHeld, Here, Alone
    <1> QED
        BY <1>1, <1>2

LEMMA LocksReleased ==
    ASSUME Inv, NEW t \in Tasks, Alone(t), scenario' = scenario, Release(t),
           task'[t].pc \notin LocalStages
    PROVE  LocksAreHeld' /\ local' \in [Instances -> Tasks \cup {None}]
                         /\ adv' \in Tasks \cup {None}
    <1>1. LockedStages \subseteq LocalStages
        BY DEF LockedStages, LocalStages
    <1>2. ASSUME NEW s \in Tasks
          PROVE  /\ task'[s].pc \in LocalStages => local'[scenario'.home[s]] = s
                 /\ task'[s].pc \in LockedStages /\ scenario'.kind = "postgres" => adv' = s
        <2>1. scenario.home[s] \in Instances
            BY OAuthAssumption DEF Inv, TypeOK
        <2>2. CASE s = t
            BY <1>1, <2>2
        <2>3. CASE s # t
            BY <2>1, <2>3 DEF Inv, LocksAreHeld, Here, Alone, Release
        <2> QED
            BY <2>2, <2>3
    <1>3. local' \in [Instances -> Tasks \cup {None}] /\ adv' \in Tasks \cup {None}
        BY DEF Inv, TypeOK, Release
    <1> QED
        BY <1>2, <1>3 DEF LocksAreHeld, Here

Ends(t) == End(t) \/ EndWithError(t) \/ \E tok \in Token : EndWithToken(t, tok)

LEMMA EndFits ==
    ASSUME Inv, NEW t \in Tasks, Ends(t)
    PROVE  /\ task' \in [Tasks -> TaskState] /\ Alone(t)
           /\ task'[t].prov = NoProvider /\ task'[t].newrt = NoToken
           /\ task'[t].pc \in {"done", "sent", "preflight"}
           /\ TaskFits(task[t])'
    <1>1. Fresh \in TaskState /\ task \in [Tasks -> TaskState]
        BY RowTypes DEF Inv, TypeOK
    <1> DEFINE Ended(r) == /\ r \in TaskState /\ r.prov = NoProvider /\ r.newrt = NoToken
                           /\ r.pc \in {"done", "sent", "preflight"}
    <1>2. ASSUME NEW op \in Operations \cup {"none"}, NEW pc \in {"done", "sent", "preflight"},
                 NEW tok \in Token
          PROVE  /\ Ended([Fresh EXCEPT !.op = op, !.pc = pc])
                 /\ Ended([Fresh EXCEPT !.op = op, !.pc = pc, !.at = tok])
        BY <1>1 DEF TaskState, Stages, Fresh
    <1>3. PICK rec : Ended(rec) /\ task' = [task EXCEPT ![t] = rec]
        <2>1. task[t].op \in Operations \cup {"none"}
            BY <1>1 DEF TaskState
        <2>2. {"request", "keepalive"} \subseteq Operations
            BY DEF Operations, RefreshOps
        <2>3. NoToken \in Token
            BY RowTypes, SMTT(60) DEF Inv
        <2> HIDE DEF Ended
        <2>4. CASE End(t)
            BY <1>2, <2>1, <2>3, <2>4, ZenonT(60) DEF End
        <2>5. CASE EndWithError(t) /\ task[t].op = "keepalive"
            BY <1>2, <2>2, <2>3, <2>5, ZenonT(60) DEF EndWithError
        <2>6. CASE \E tok \in Token : EndWithToken(t, tok) /\ task[t].op = "request"
            BY <1>2, <2>2, <2>6 DEF EndWithToken
        <2> QED
            BY <2>4, <2>5, <2>6 DEF Ends, EndWithError, EndWithToken
    <1>4. task'[t] = rec
        BY <1>1, <1>3
    <1>5. task' \in [Tasks -> TaskState] /\ Alone(t)
        BY <1>1, <1>3 DEF Alone
    <1>6. TaskFits(task[t])'
        <2> SUFFICES TaskFits(rec)'
            BY <1>4
        <2>1. rec.pc \in {"done", "sent", "preflight"}
            BY <1>3
        <2> QED
            BY <1>3, <2>1 DEF TaskFits, OpFits, TokensFit, AnswerFits, SpendsCurrent, Spends,
               ValidUnlessLost, RereadIsCurrent, Pending, Known, Dead, NoProvider
    <1> QED
        BY <1>3, <1>4, <1>5, <1>6

SharedRow == [at : Token, backoff : {"none", "transient", "invalid"}, due : BOOLEAN]
History == [lost : BOOLEAN, reused : BOOLEAN, interrupted : BOOLEAN, stale_edit : BOOLEAN,
            refused : SUBSET Token]

\* The history only grows.
HistoryGrows ==
    /\ ghost' \in History
    /\ ghost.lost => ghost'.lost
    /\ ghost.stale_edit => ghost'.stale_edit
    /\ ghost.interrupted => ghost'.interrupted
    /\ ghost.refused \subseteq ghost'.refused
    /\ ghost'.reused => ghost.reused \/ ghost'.lost \/ ghost'.stale_edit

LEMMA RowsOfOneStep ==
    ASSUME Inv, NEW t \in Tasks, Alone(t), task'[t].prov \in Rows, provider' \in Rows
    PROVE  Rows' \subseteq Rows
    <1> SUFFICES ASSUME NEW p \in Rows', p # provider', p # NoProvider
                 PROVE  p \in Rows
        BY DEF Rows
    <1>1. PICK s \in Tasks : p = task'[s].prov
        BY DEF Rows
    <1> QED
        BY <1>1 DEF Alone, Rows

\* A step of a task that leaves the provider's row alone.
LEMMA TaskMoves ==
    ASSUME Inv, NEW t \in Tasks, task' \in [Tasks -> TaskState], Alone(t), LocksAreHeld',
           local' \in [Instances -> Tasks \cup {None}], adv' \in Tasks \cup {None},
           UNCHANGED <<scenario, provider, server, issued, expired>>,
           row' \in SharedRow, row'.at = row.at, cache' \in [Instances -> Token], HistoryGrows,
           task'[t].prov \in Rows, TaskFits(task[t])',
           Pending(task'[t]) => Pending(task[t]) /\ task'[t].newrt = task[t].newrt,
           Rotated(t) => Rotated(t)' \/ ghost'.lost,
           Replacing(t) => Replacing(t)' \/ ghost'.interrupted
    PROVE  Inv'
    <1>1. TypeOK'
        BY DEF Inv, TypeOK, SharedRow, HistoryGrows, History
    <1>2. provider' \in Rows
        BY DEF Rows
    <1>3. Rows' \subseteq Rows
        BY <1>2, RowsOfOneStep
    <1>4. RowsAreVersions'
        BY <1>3, RowsStay
    <1>5. provider'.status = "invalid" => Dead(provider'.rt)
        BY <1>2, RowsFit
    <1>6. NoReuseWithoutLoss'
        BY DEF Inv, NoReuseWithoutLoss, HistoryGrows
    <1> QED
        BY <1>1, <1>3, <1>4, <1>5, <1>6, CalmStep DEF HistoryGrows

\* A task ends; what it had in hand is lost.
LEMMA TaskEnds ==
    ASSUME Inv, NEW t \in Tasks, Ends(t),
           Release(t) \/ (UNCHANGED <<local, adv>>),
           UNCHANGED <<scenario, provider, server, issued, expired>>,
           row' \in SharedRow, row'.at = row.at, cache' \in [Instances -> Token], HistoryGrows,
           Rotated(t) => ghost'.lost, Replacing(t) => ghost'.interrupted
    PROVE  Inv'
    <1>1. /\ task' \in [Tasks -> TaskState] /\ Alone(t)
          /\ task'[t].prov = NoProvider /\ task'[t].newrt = NoToken
          /\ task'[t].pc \in {"done", "sent", "preflight"}
          /\ TaskFits(task[t])'
        BY EndFits
    <1>2. task'[t].pc \notin LocalStages /\ task'[t].pc \notin LockedStages /\ ~Pending(task'[t])
        BY <1>1 DEF LocalStages, LockedStages, Pending
    <1>3. /\ LocksAreHeld' /\ local' \in [Instances -> Tasks \cup {None}]
          /\ adv' \in Tasks \cup {None}
        <2>1. CASE Release(t)
            BY <1>1, <1>2, <2>1, LocksReleased
        <2>2. CASE UNCHANGED <<local, adv>>
            BY <1>1, <1>2, <2>2, LocksKept DEF Inv, TypeOK
        <2> QED
            BY <2>1, <2>2
    <1>4. task'[t].prov \in Rows
        BY <1>1 DEF Rows
    <1> QED
        BY <1>1, <1>2, <1>3, <1>4, TaskMoves

\* What the leaves below need of a state.
LEMMA Types ==
    ASSUME Inv, NEW t \in Tasks
    PROVE  /\ task[t] \in TaskState /\ task \in [Tasks -> TaskState]
           /\ task[t].at \in Token /\ task[t].seen \in Token /\ task[t].newrt \in Token
           /\ task[t].prov \in Rows /\ provider \in Rows
           /\ Here(t) \in Instances /\ cache \in [Instances -> Token]
           /\ row \in SharedRow /\ row.at \in Token /\ ghost \in History
           /\ local \in [Instances -> Tasks \cup {None}] /\ adv \in Tasks \cup {None}
           /\ scenario.kind \in {"sqlite", "postgres"}
           /\ TaskFits(task[t])
           /\ (UNCHANGED ghost => HistoryGrows)
    <1>1. task[t] \in TaskState /\ task \in [Tasks -> TaskState]
        BY DEF Inv, TypeOK
    <1>2. task[t].at \in Token /\ task[t].seen \in Token /\ task[t].newrt \in Token
        BY <1>1 DEF TaskState
    <1>3. task[t].prov \in Rows /\ provider \in Rows
        BY DEF Rows
    <1>4. Here(t) \in Instances /\ scenario.kind \in {"sqlite", "postgres"}
        BY OAuthAssumption DEF Inv, TypeOK, Here
    <1>5. row \in SharedRow /\ row.at \in Token /\ ghost \in History
        BY DEF Inv, TypeOK, SharedRow, History
    <1>6. UNCHANGED ghost => HistoryGrows
        BY <1>5 DEF HistoryGrows
    <1> QED
        BY <1>1, <1>2, <1>3, <1>4, <1>5, <1>6 DEF Inv, TypeOK

\* Every way in which a task ends without having changed a table.
LEMMA EndingsKeepInv ==
    ASSUME Inv, NEW t \in Tasks, scenario' = scenario,
           \/ Accepted(t) \/ SeedShared(t) \/ GiveUpAdvisory(t) \/ ReuseUnderLock(t)
           \/ Defer(t) \/ NoRefreshToken(t) \/ PersistFails(t) \/ SeedResult(t)
           \/ Preflight(t) \/ ResetFails(t) \/ Invalidate(t) \/ Cancel(t)
    PROVE  Inv'
    <1> USE Types
    <1>1. CASE Accepted(t)
        BY <1>1, TaskEnds DEF Accepted, Ends, Rotated, Replacing
    <1>2. CASE SeedShared(t)
        BY <1>2, TaskEnds DEF SeedShared, Ends, Rotated, Replacing
    <1>3. CASE GiveUpAdvisory(t)
        BY <1>3, TaskEnds DEF GiveUpAdvisory, Ends, Rotated, Replacing
    <1>4. CASE ReuseUnderLock(t)
        BY <1>4, TaskEnds DEF ReuseUnderLock, Ends, Rotated, Replacing
    <1>5. CASE Defer(t)
        BY <1>5, TaskEnds DEF Defer, Ends, Rotated, Replacing
    <1>6. CASE NoRefreshToken(t)
        BY <1>6, TaskEnds DEF NoRefreshToken, Ends, Rotated, Replacing
    <1>7. CASE PersistFails(t)
        <2>1. HistoryGrows /\ (Rotated(t) => ghost'.lost)
            BY <1>7 DEF PersistFails, HistoryGrows, History
        <2> QED
            BY <1>7, <2>1, TaskEnds DEF PersistFails, Ends, Replacing
    <1>8. CASE SeedResult(t)
        BY <1>8, TaskEnds DEF SeedResult, Ends, Rotated, Replacing
    <1>9. CASE Preflight(t)
        <2>1. row' \in SharedRow /\ row'.at = row.at
            BY <1>9 DEF Preflight, SharedRow
        <2> QED
            BY <1>9, <2>1, TaskEnds DEF Preflight, Ends, Rotated, Replacing
    <1>10. CASE ResetFails(t)
        <2>1. HistoryGrows /\ ghost'.interrupted
            BY <1>10 DEF ResetFails, HistoryGrows, History
        <2> QED
            BY <1>10, <2>1, TaskEnds DEF ResetFails, Ends, Rotated
    <1>11. CASE Invalidate(t)
        BY <1>11, TaskEnds, RowTypes DEF Invalidate, Ends, Rotated, Replacing, Inv
    <1>12. CASE Cancel(t)
        <2>1. ghost' = Dropped({t})
            BY <1>12 DEF Cancel
        <2>2. HistoryGrows /\ (Rotated(t) => ghost'.lost) /\ (Replacing(t) => ghost'.interrupted)
            BY <2>1 DEF Dropped, HistoryGrows, History, Replacing
        <2> QED
            BY <1>12, <2>2, TaskEnds DEF Cancel, Ends
    <1> QED
        BY <1>1, <1>2, <1>3, <1>4, <1>5, <1>6, <1>7, <1>8, <1>9, <1>10, <1>11, <1>12

-----------------------------------------------------------------------------
(* Steps in which a task goes on without having changed a table.           *)

\* The fit of a record depends on the shared state only through these.
LEMMA SameShared ==
    ASSUME UNCHANGED <<scenario, provider, server, issued, expired>>, row'.at = row.at,
           ghost'.lost = ghost.lost, ghost'.stale_edit = ghost.stale_edit,
           ghost'.refused = ghost.refused, NEW r, TaskFits(r)
    PROVE  TaskFits(r)'
    <1>1. OpFits(r)' /\ AnswerFits(r)'
        BY DEF TaskFits, OpFits, AnswerFits, Pending
    <1>2. TokensFit(r)'
        BY DEF TaskFits, TokensFit, Known, Dead, Valid, Creds
    <1>3. SpendsCurrent(r)' /\ ValidUnlessLost(r)' /\ RereadIsCurrent(r)'
        BY DEF TaskFits, SpendsCurrent, Spends, ValidUnlessLost, RereadIsCurrent, Pending,
               Valid, Usable
    <1> QED
        BY <1>1, <1>2, <1>3 DEF TaskFits

\* The operations begin.
LEMMA StartsKeepInv ==
    ASSUME Inv, NEW t \in Tasks, scenario' = scenario,
           \/ StartRequest(t) \/ start_oauth(t) \/ callback_oauth(t) \/ StartEdit(t)
           \/ \E op \in {"force", "keepalive", "mutate"} : StartLocked(t, op)
    PROVE  Inv'
    <1> USE Types
    <1>1. CASE callback_oauth(t) /\ End(t)
        BY <1>1, TaskEnds DEF callback_oauth, Ends, Rotated, Replacing
    <1>2. CASE ~(callback_oauth(t) /\ End(t))
        <2>1. UNCHANGED <<provider, row, cache, local, adv, server, issued, expired, ghost>>
            BY <1>2 DEF StartRequest, start_oauth, callback_oauth, StartEdit, StartLocked
        <2>2. /\ task[t].pc \in {"idle", "flow"}
              /\ task[t].pc = "flow" => task[t].op = "install"
            BY DEF StartRequest, start_oauth, callback_oauth, StartEdit, StartLocked,
                   TaskFits, OpFits
        <2>3. /\ task' \in [Tasks -> TaskState] /\ Alone(t)
              /\ task'[t].prov \in {task[t].prov, provider} /\ task'[t].newrt = task[t].newrt
              /\ \/ task'[t].op = "request" /\ task'[t].pc \in {"sent", "peek"}
                 \/ task'[t].op \in {"force", "keepalive", "mutate"} /\ task'[t].pc = "lock"
                 \/ task'[t].op = "install" /\ task'[t].pc \in {"flow", "exchange"}
                 \/ task'[t].op = "edit" /\ task'[t].pc = "edit"
            <3> USE DEF TaskState, Operations, RefreshOps, Stages, Alone
            <3>1. CASE StartRequest(t)
                BY <3>1, RowTypes DEF StartRequest, Inv
            <3>2. CASE start_oauth(t)
                BY <3>2 DEF start_oauth
            <3>3. CASE callback_oauth(t)
                BY <3>3, <1>2, <2>2 DEF callback_oauth, Goto
            <3>4. CASE StartEdit(t)
                BY <3>4 DEF StartEdit, Inv, TypeOK
            <3>5. CASE \E op \in {"force", "keepalive", "mutate"} : StartLocked(t, op)
                BY <3>5 DEF StartLocked
            <3> QED
                BY <3>1, <3>2, <3>3, <3>4, <3>5
        <2>4. task'[t].prov \in Rows
            BY <2>3
        <2>5. Known(task'[t].prov.rt) /\ (task'[t].prov.status = "invalid" => Dead(task'[t].prov.rt))
            BY <2>4, RowsFit
        <2>6. PICK r \in TaskState : r = task'[t]
            BY <2>3
        <2>7. TaskFits(r)
            BY <2>3, <2>5, <2>6 DEF TaskFits, OpFits, TokensFit, AnswerFits, SpendsCurrent, Spends,
               ValidUnlessLost, RereadIsCurrent, Pending, Operations, RefreshOps, IfNeeded
        <2>8. TaskFits(task[t])'
            BY <2>1, <2>6, <2>7, SameShared
        <2>9. LocksAreHeld'
            BY <2>1, <2>3, LocksKept DEF LocalStages, LockedStages
        <2> QED
            BY <2>1, <2>2, <2>3, <2>4, <2>8, <2>9, TaskMoves DEF Pending, Rotated, Replacing
    <1> QED
        BY <1>1, <1>2

\* A task goes on: what remains to be shown is that its new record fits.
LEMMA GoesOn ==
    ASSUME Inv, NEW t \in Tasks, task' \in [Tasks -> TaskState], Alone(t), LocksAreHeld',
           local' \in [Instances -> Tasks \cup {None}], adv' \in Tasks \cup {None},
           UNCHANGED <<scenario, provider, server, issued, expired, ghost>>,
           row' \in SharedRow, row'.at = row.at, cache' \in [Instances -> Token],
           task'[t].prov \in Rows, TaskFits(task'[t]),
           Pending(task'[t]) => Pending(task[t]) /\ task'[t].newrt = task[t].newrt,
           ~Rotated(t), ~Replacing(t)
    PROVE  Inv'
    <1>1. PICK r \in TaskState : r = task'[t]
        OBVIOUS
    <1>2. TaskFits(r)'
        BY <1>1, SameShared
    <1> QED
        BY <1>1, <1>2, TaskMoves, Types

LEMMA WaitsKeepInv ==
    ASSUME Inv, NEW t \in Tasks, scenario' = scenario,
           \/ Unauthorized(t) \/ ReadShared(t) \/ SharedUnusable(t)
           \/ AcquireLocal(t) \/ TryAdvisory(t)
    PROVE  Inv'
    <1> USE Types DEF Rotated, Replacing
    <1>1. CASE Unauthorized(t)
        <2>1. /\ task' \in [Tasks -> TaskState] /\ Alone(t)
              /\ task'[t].op = "recover" /\ task'[t].pc \in {"done", "peek"}
              /\ task'[t].prov = NoProvider /\ task'[t].newrt = NoToken
              /\ cache' \in [Instances -> Token] /\ task[t].pc = "sent"
            <3>1. NoToken \in Token /\ Fresh \in TaskState
                BY RowTypes DEF Inv
            <3> QED
                BY <1>1, <3>1, ZenonT(60) DEF Unauthorized, Alone, TaskState, Operations, RefreshOps, Stages, Fresh
        <2>2. TaskFits(task'[t])
            BY <2>1 DEF TaskFits, OpFits, TokensFit, AnswerFits, SpendsCurrent, Spends,
               ValidUnlessLost, RereadIsCurrent, Pending, IfNeeded, Known, NoProvider
        <2>3. LocksAreHeld'
            BY <1>1, <2>1, LocksKept DEF Unauthorized, LocalStages, LockedStages
        <2>4. task'[t].prov \in Rows /\ ~Pending(task'[t])
            BY <2>1 DEF Rows, Pending
        <2> QED
            BY <1>1, <2>1, <2>2, <2>3, <2>4, GoesOn DEF Unauthorized
    <1>2. CASE ReadShared(t)
        <2>1. /\ task' \in [Tasks -> TaskState] /\ Alone(t)
              /\ task'[t].seen = row.at
              /\ task'[t].op = task[t].op /\ task'[t].rejected = task[t].rejected
              /\ task'[t].prov = task[t].prov /\ task'[t].newrt = task[t].newrt
              /\ \/ task[t].pc = "peek" /\ task'[t].pc = "peeked"
                 \/ task[t].pc = "recheck" /\ task'[t].pc = "rechecked"
                 \/ /\ task[t].pc = "tx" /\ task'[t].pc = "polled"
                    /\ task[t].op \in {"request", "recover", "force"}
            BY <1>2 DEF ReadShared, Alone, TaskState, Stages
        <2>2. TaskFits(task'[t])
            BY <2>1 DEF TaskFits, OpFits, TokensFit, AnswerFits, SpendsCurrent, Spends,
               ValidUnlessLost, RereadIsCurrent, Pending
        <2>3. LocksAreHeld'
            BY <1>2, <2>1, LocksKept DEF ReadShared, LocalStages, LockedStages
        <2> QED
            BY <1>2, <2>1, <2>2, <2>3, GoesOn DEF ReadShared, Pending
    <1>3. CASE SharedUnusable(t)
        <2>1. /\ task' \in [Tasks -> TaskState] /\ Alone(t)
              /\ task'[t].seen = task[t].seen
              /\ task'[t].op = task[t].op /\ task'[t].rejected = task[t].rejected
              /\ task'[t].prov = task[t].prov /\ task'[t].newrt = task[t].newrt
              /\ task[t].pc \in {"peeked", "rechecked", "polled"}
              /\ task'[t].pc = IF task[t].pc = "peeked" THEN "lock" ELSE Coordinate
              /\ ~Usable(task[t].seen, task[t].rejected)
            BY <1>3 DEF SharedUnusable, Goto, Alone, TaskState, Stages, Coordinate
        <2>2. task[t].op \in RefreshOps
            BY <2>1 DEF TaskFits, OpFits, IfNeeded, RefreshOps
        <2>3. TaskFits(task'[t])
            BY <2>1, <2>2 DEF TaskFits, OpFits, TokensFit, AnswerFits, SpendsCurrent, Spends,
               ValidUnlessLost, RereadIsCurrent, Pending, Coordinate, Operations, RefreshOps
        <2>4. LocksAreHeld'
            BY <1>3, <2>1, LocksKept, SMTT(60) DEF SharedUnusable, LocalStages, LockedStages, Coordinate
        <2> QED
            BY <1>3, <2>1, <2>2, <2>3, <2>4, GoesOn DEF SharedUnusable, Pending, RefreshOps
    <1>4. CASE AcquireLocal(t)
        <2>1. task[t].pc = "lock" /\ task[t].op \in Operations \ {"edit"}
            BY <1>4 DEF AcquireLocal, TaskFits, OpFits
        <2>2. /\ task' \in [Tasks -> TaskState] /\ Alone(t)
              /\ task'[t].op = task[t].op /\ task'[t].at = task[t].at
              /\ task'[t].prov = provider /\ task'[t].newrt = task[t].newrt
              /\ \/ task[t].op \in IfNeeded /\ task'[t].pc = "recheck"
                 \/ task[t].op \in {"force", "keepalive"} /\ task'[t].pc = Coordinate
                 \/ task[t].op = "mutate" /\ task'[t].pc \in {"tx", "mutate"}
                       /\ (task'[t].pc = "tx" <=> scenario.kind = "postgres")
                 \/ task[t].op = "install" /\ task'[t].pc = install_tokens
            <3> DEFINE next == CASE task[t].op \in IfNeeded -> "recheck"
                      [] task[t].op \in {"force", "keepalive"} -> Coordinate
                      [] task[t].op = "mutate" -> IF scenario.kind = "postgres" THEN "tx" ELSE "mutate"
                      [] task[t].op = "install" -> install_tokens
            <3>1. /\ next \in Stages
                  /\ \/ task[t].op \in IfNeeded /\ next = "recheck"
                     \/ task[t].op \in {"force", "keepalive"} /\ next = Coordinate
                     \/ task[t].op = "mutate" /\ next \in {"tx", "mutate"}
                           /\ (next = "tx" <=> scenario.kind = "postgres")
                     \/ task[t].op = "install" /\ next = install_tokens
                BY <2>1 DEF Operations, RefreshOps, IfNeeded, Coordinate, install_tokens, Stages
            <3>2. task' = [task EXCEPT ![t].pc = next, ![t].prov = provider]
                BY <1>4 DEF AcquireLocal
            <3>3. provider \in ProviderRow
                BY DEF Inv, TypeOK
            <3> HIDE DEF next
            <3> QED
                BY <3>1, <3>2, <3>3 DEF Alone, TaskState
        <2>3. Known(provider.rt) /\ (provider.status = "invalid" => Dead(provider.rt))
            BY RowsFit
        <2>4. TaskFits(task'[t])
            <3>1. task[t].op = "install" =>
                     task[t].newrt # NoToken /\ Valid(task[t].newrt)
                     /\ task[t].at.cred = task[t].newrt.cred
                BY <2>1 DEF TaskFits, AnswerFits, ValidUnlessLost, Pending
            <3> QED
                BY <2>1, <2>2, <2>3, <3>1 DEF TaskFits, OpFits, TokensFit, AnswerFits, SpendsCurrent,
                   Spends, ValidUnlessLost, RereadIsCurrent, Pending, Coordinate, Operations,
                   RefreshOps, IfNeeded, install_tokens
        <2>5. LocksAreHeld' /\ local' \in [Instances -> Tasks \cup {None}]
            <3>1. local' = [local EXCEPT ![Here(t)] = t] /\ local[Here(t)] = None /\ adv' = adv
                BY <1>4 DEF AcquireLocal
            <3>2. task'[t].pc \in LockedStages => scenario.kind # "postgres"
                BY <2>2 DEF LockedStages, Coordinate, install_tokens
            <3>3. ASSUME NEW s \in Tasks
                  PROVE  /\ task'[s].pc \in LocalStages => local'[scenario'.home[s]] = s
                         /\ task'[s].pc \in LockedStages /\ scenario'.kind = "postgres" => adv' = s
                <4>1. CASE s = t
                    BY <3>1, <3>2, <4>1 DEF Here
                <4>2. CASE s # t
                    <5>1. task'[s] = task[s]
                        BY <2>2, <4>2 DEF Alone
                    <5>2. task[s].pc \in LocalStages => local[Here(s)] = s /\ Here(s) # Here(t)
                        BY <3>1, OAuthAssumption DEF Inv, LocksAreHeld
                    <5> QED
                        BY <3>1, <5>1, <5>2 DEF Inv, LocksAreHeld, Here
                <4> QED
                    BY <4>1, <4>2
            <3> QED
                BY <3>1, <3>3 DEF LocksAreHeld, Here
        <2> QED
            BY <1>4, <2>1, <2>2, <2>4, <2>5, GoesOn, ZenonT(60) DEF AcquireLocal, Pending
    <1>5. CASE TryAdvisory(t)
        <2>1. task[t].pc = "tx" /\ task[t].op \in Operations \ {"edit"} /\ adv = None
              /\ scenario.kind = "postgres"
            BY <1>5 DEF TryAdvisory, TaskFits, OpFits
        <2>2. /\ task' \in [Tasks -> TaskState] /\ Alone(t)
              /\ task'[t].op = task[t].op /\ task'[t].at = task[t].at
              /\ task'[t].prov = task[t].prov /\ task'[t].newrt = task[t].newrt
              /\ \/ task[t].op = "mutate" /\ task'[t].pc = "mutate"
                 \/ task[t].op = "install" /\ task'[t].pc = "answered"
                 \/ task[t].op \in RefreshOps /\ task'[t].pc = "decide"
            <3> DEFINE next == CASE task[t].op = "mutate" -> "mutate"
                                 [] task[t].op = "install" -> "answered"
                                 [] OTHER -> "decide"
            <3>1. /\ next \in Stages
                  /\ \/ task[t].op = "mutate" /\ next = "mutate"
                     \/ task[t].op = "install" /\ next = "answered"
                     \/ task[t].op \in RefreshOps /\ next = "decide"
                BY <2>1 DEF Operations, RefreshOps, Stages
            <3>2. task' = [task EXCEPT ![t].pc = next]
                BY <1>5 DEF TryAdvisory, Goto
            <3> HIDE DEF next
            <3> QED
                BY <3>1, <3>2 DEF Alone, TaskState
        <2>3. TaskFits(task'[t])
            BY <2>1, <2>2 DEF TaskFits, OpFits, TokensFit, AnswerFits, SpendsCurrent, Spends,
               ValidUnlessLost, RereadIsCurrent, Pending, RefreshOps
        <2>4. LocksAreHeld'
            <3>1. adv' = t /\ local' = local
                BY <1>5 DEF TryAdvisory
            <3>2. ASSUME NEW s \in Tasks
                  PROVE  /\ task'[s].pc \in LocalStages => local'[scenario'.home[s]] = s
                         /\ task'[s].pc \in LockedStages /\ scenario'.kind = "postgres" => adv' = s
                <4>1. CASE s = t
                    BY <2>1, <3>1, <4>1 DEF Here, Inv, LocksAreHeld, LocalStages
                <4>2. CASE s # t
                    <5>1. task'[s] = task[s]
                        BY <2>2, <4>2 DEF Alone
                    <5>2. task[s].pc \notin LockedStages
                        BY <2>1, OAuthAssumption DEF Inv, LocksAreHeld
                    <5> QED
                        BY <3>1, <5>1, <5>2 DEF Inv, LocksAreHeld, Here
                <4> QED
                    BY <4>1, <4>2
            <3> QED
                BY <3>2 DEF LocksAreHeld, Here
        <2> QED
            BY <1>5, <2>1, <2>2, <2>3, <2>4, GoesOn DEF TryAdvisory, Pending, RefreshOps
    <1> QED
        BY <1>1, <1>2, <1>3, <1>4, <1>5

-----------------------------------------------------------------------------
(* The grant and what becomes of it.                                       *)

\* The token that a task is about to spend under the lock is the stored one,
\* and nobody holds a successor of it.
LEMMA SubmitKeepsInv ==
    ASSUME Inv, NEW t \in Tasks, scenario' = scenario, Submit(t)
    PROVE  Inv'
    <1> USE Types
    <1>1. /\ task' \in [Tasks -> TaskState] /\ Alone(t)
          /\ task[t].pc = "decide" /\ task'[t].pc = "grant"
          /\ task'[t].op = task[t].op /\ task'[t].newrt = task[t].newrt
          /\ task'[t].prov = CurrentProvider(t)
        <2>1. CurrentProvider(t) \in ProviderRow
            BY RowTypes DEF CurrentProvider, Inv
        <2> QED
            BY <2>1 DEF Submit, Alone, TaskState, Stages
    <1>2. /\ CurrentProvider(t) \in Rows /\ CurrentProvider(t).rt # NoToken
          /\ ghost.stale_edit \/ CurrentProvider(t).rt = provider.rt
        BY <1>1 DEF CurrentProvider, Submit, TaskFits, SpendsCurrent
    <1>3. /\ Known(CurrentProvider(t).rt)
          /\ CurrentProvider(t).status = "invalid" => Dead(CurrentProvider(t).rt)
        BY <1>2, RowsFit
    <1>4. ghost.lost \/ ghost.stale_edit \/ Valid(CurrentProvider(t).rt)
        <2>1. \A s \in Tasks : ~Rotated(s)
            BY <1>1, Exclusion DEF Rotated, LockedStages
        <2> QED
            BY <1>2, <2>1 DEF Inv, StoredFits, StoredIsValid
    <1>5. TaskFits(task'[t])
        <2>1. task[t].op \in RefreshOps
            BY <1>1 DEF TaskFits, OpFits
        <2> QED
            BY <1>1, <1>2, <1>3, <1>4, <2>1 DEF TaskFits, OpFits, TokensFit, AnswerFits, SpendsCurrent,
               Spends, ValidUnlessLost, RereadIsCurrent, Pending, RefreshOps
    <1>6. LocksAreHeld'
        BY <1>1, LocksKept DEF Submit, LocalStages, LockedStages
    <1> QED
        BY <1>1, <1>2, <1>5, <1>6, GoesOn DEF Submit, Pending, Rotated, Replacing

LEMMA FailuresKeepInv ==
    ASSUME Inv, NEW t \in Tasks, scenario' = scenario,
           Reject(t) \/ Unreachable(t) \/ AnswerLost(t) \/ RecordFailure(t)
    PROVE  Inv'
    <1> USE Types
    <1>1. /\ task' \in [Tasks -> TaskState] /\ Alone(t)
          /\ task'[t].op = task[t].op /\ task'[t].newrt = task[t].newrt
          /\ task'[t].prov = task[t].prov
          /\ \/ Reject(t) /\ task'[t].failure = "invalid" /\ task'[t].pc = "failed"
             \/ (Unreachable(t) \/ AnswerLost(t))
                   /\ task'[t].failure = "transient" /\ task'[t].pc = "failed"
             \/ RecordFailure(t) /\ task'[t].failure = task[t].failure /\ task'[t].pc = "status"
        BY DEF Reject, Unreachable, AnswerLost, RecordFailure, Goto, Alone, TaskState, Stages
    <1>2. /\ UNCHANGED <<provider, server, issued, expired, cache, local>>
          /\ task[t].op \in RefreshOps /\ task[t].op # "install"
          /\ Reject(t) => /\ task[t].prov.rt # NoToken
                          /\ ~Valid(task[t].prov.rt) \/ task[t].prov.rt \in ghost'.refused
          /\ Reject(t) \/ Unreachable(t) => task[t].pc = "grant"
          /\ AnswerLost(t) => task[t].pc = "answered"
          /\ RecordFailure(t) => task[t].pc = "failed"
        <2>1. UNCHANGED <<provider, server, issued, expired, cache, local>>
            BY DEF Reject, Unreachable, AnswerLost, RecordFailure
        <2>2. /\ Reject(t) \/ Unreachable(t) => task[t].pc = "grant"
              /\ AnswerLost(t) => task[t].pc = "answered" /\ task[t].op # "install"
              /\ RecordFailure(t) => task[t].pc = "failed"
            BY DEF Reject, Unreachable, AnswerLost, RecordFailure
        <2>3. task[t].op \in RefreshOps /\ task[t].op # "install"
            BY <2>2 DEF TaskFits, OpFits, RefreshOps
        <2>4. ASSUME Reject(t)
              PROVE  /\ task[t].prov.rt # NoToken
                     /\ ~Valid(task[t].prov.rt) \/ task[t].prov.rt \in ghost'.refused
            <3>1. task[t].prov.rt # NoToken
                BY <2>2, <2>4 DEF TaskFits, TokensFit
            <3>2. CASE Valid(task[t].prov.rt)
                <4>1. ghost' = [ghost EXCEPT !.refused = ghost.refused \cup {task[t].prov.rt}]
                    BY <2>4, <3>2 DEF Reject
                <4> QED
                    BY <3>1, <4>1 DEF History
            <3> QED
                BY <3>1, <3>2
        <2> QED
            BY <2>1, <2>2, <2>3, <2>4
    <1>3. HistoryGrows /\ (Rotated(t) => ghost'.lost) /\ ~Replacing(t)
        <2>1. CASE Reject(t)
            <3>1. task[t].prov.rt \in Token
                BY DEF TaskState, ProviderRow
            <3>2. ~Valid(task[t].prov.rt) => ghost.lost \/ ghost.stale_edit
                BY <1>2, <2>1 DEF TaskFits, ValidUnlessLost
            <3>3. ~Rotated(t) /\ ~Replacing(t)
                BY <1>2, <2>1 DEF Rotated, Replacing
            <3>4. CASE ~Valid(task[t].prov.rt)
                BY <2>1, <3>2, <3>3, <3>4 DEF Reject, HistoryGrows, History
            <3>5. CASE Valid(task[t].prov.rt)
                BY <2>1, <3>1, <3>3, <3>5 DEF Reject, HistoryGrows, History
            <3> QED
                BY <3>4, <3>5
        <2>2. CASE AnswerLost(t)
            BY <1>2, <2>2 DEF AnswerLost, HistoryGrows, History, Replacing
        <2>3. CASE Unreachable(t) \/ RecordFailure(t)
            BY <1>2, <2>3 DEF Unreachable, RecordFailure, Rotated, Replacing
        <2> QED
            BY <2>1, <2>2, <2>3
    <1>4. Known(task[t].prov.rt)' /\ Known(task[t].newrt)'
        BY <1>1, <1>2 DEF TaskFits, TokensFit, Known, Creds
    <1>5. TaskFits(task[t])'
        <2>1. PICK r \in TaskState : r = task'[t]
            BY <1>1
        <2>2. r.pc \in {"failed", "status"} /\ r.op \in RefreshOps
              /\ r.prov = task[t].prov /\ r.newrt = task[t].newrt
            BY <1>1, <1>2, <2>1
        <2>3. Dead(task[t].prov.rt) => Dead(r.prov.rt)'
            BY <1>2, <1>3, <2>2 DEF Dead, Valid, HistoryGrows
        <2>4. r.failure = "invalid" => Dead(r.prov.rt)'
            <3>1. CASE Reject(t)
                BY <1>2, <2>2, <3>1 DEF Dead, Valid
            <3>2. CASE RecordFailure(t)
                BY <1>1, <1>2, <2>1, <2>3, <3>2 DEF TaskFits, TokensFit
            <3> QED
                BY <1>1, <2>1, <3>1, <3>2
        <2>5. TokensFit(r)'
            BY <1>1, <1>4, <2>1, <2>2, <2>3, <2>4 DEF TaskFits, TokensFit
        <2>6. OpFits(r)'
            BY <2>2 DEF OpFits
        <2>7. AnswerFits(r)' /\ SpendsCurrent(r)' /\ ValidUnlessLost(r)' /\ RereadIsCurrent(r)'
            BY <2>2 DEF AnswerFits, SpendsCurrent, Spends, ValidUnlessLost, RereadIsCurrent,
               Pending, RefreshOps
        <2> QED
            BY <2>1, <2>5, <2>6, <2>7 DEF TaskFits
    <1>6. row' \in SharedRow /\ row'.at = row.at
        <2>1. task[t].failure \in {"none", "transient", "invalid"}
            BY DEF TaskState
        <2> QED
            BY <2>1 DEF Reject, Unreachable, AnswerLost, RecordFailure, SharedRow
    <1>7. LocksAreHeld' /\ adv' \in Tasks \cup {None}
        <2>1. CASE RecordFailure(t)
            BY <1>1, <1>2, <2>1, AdvisoryReleased DEF RecordFailure, LocalStages, LockedStages
        <2>2. CASE ~RecordFailure(t)
            <3>1. adv' = adv
                BY <2>2 DEF Reject, Unreachable, AnswerLost
            <3> QED
                BY <1>1, <1>2, <2>2, <3>1, LocksKept DEF LocalStages, LockedStages
        <2> QED
            BY <2>1, <2>2
    <1>8. task'[t].prov \in Rows
        BY <1>1
    <1> QED
        BY <1>1, <1>2, <1>3, <1>5, <1>6, <1>7, <1>8, TaskMoves DEF Pending

\* The edit writes an old copy back: the history knows when it differs.
LEMMA WriteBackKeepsInv ==
    ASSUME Inv, NEW t \in Tasks, scenario' = scenario, WriteBack(t)
    PROVE  Inv'
    <1> USE Types
    <1>1. Ends(t) /\ task[t].pc = "edit" /\ provider' = task[t].prov
          /\ UNCHANGED <<row, cache, local, adv, server, issued, expired>>
        BY DEF WriteBack, Ends
    <1>2. /\ task' \in [Tasks -> TaskState] /\ Alone(t)
          /\ task'[t].prov = NoProvider
          /\ task'[t].pc \in {"done", "sent", "preflight"}
          /\ TaskFits(task[t])'
        BY <1>1, EndFits
    <1>3. LocksAreHeld'
        BY <1>1, <1>2, LocksKept DEF LocalStages, LockedStages
    <1>4. /\ ghost' \in History /\ ghost'.lost = ghost.lost /\ ghost'.reused = ghost.reused
          /\ ghost'.interrupted = ghost.interrupted /\ ghost'.refused = ghost.refused
          /\ ghost'.stale_edit = (ghost.stale_edit \/ task[t].prov.rt # provider.rt)
        BY DEF WriteBack, History
    <1>5. task[t].prov \in ProviderRow
        BY RowTypes DEF Inv
    <1>6. TypeOK'
        BY <1>1, <1>2, <1>4, <1>5 DEF Inv, TypeOK, History
    <1>7. Rows' \subseteq Rows
        <2>1. NoProvider \in Rows
            BY DEF Rows
        <2> QED
            BY <1>1, <1>2, <2>1, RowsOfOneStep
    <1>8. RowsAreVersions'
        BY <1>7, RowsStay
    <1>9. provider'.status = "invalid" => Dead(provider'.rt)
        BY <1>1, RowsFit
    <1>10. NoReuseWithoutLoss'
        BY <1>4 DEF Inv, NoReuseWithoutLoss
    <1>11. ~Pending(task'[t]) /\ ~Rotated(t) /\ ~Replacing(t)
        BY <1>1, <1>2 DEF Pending, Rotated, Replacing
    <1> QED
        BY <1>1, <1>2, <1>3, <1>4, <1>6, <1>7, <1>8, <1>9, <1>10, <1>11, CalmStep

\* The report of a failure leaves the token as it is: the versions are compared.
LEMMA SetStatusKeepsInv ==
    ASSUME Inv, NEW t \in Tasks, scenario' = scenario, SetStatus(t)
    PROVE  Inv' /\ provider'.rt = provider.rt
    <1> USE Types
    <1>1. Ends(t) /\ task[t].pc = "status" /\ Release(t)
          /\ UNCHANGED <<row, cache, server, issued, expired, ghost>>
        BY DEF SetStatus, Ends
    <1>2. /\ task' \in [Tasks -> TaskState] /\ Alone(t)
          /\ task'[t].prov = NoProvider
          /\ task'[t].pc \in {"done", "sent", "preflight"}
          /\ TaskFits(task[t])'
        BY <1>1, EndFits
    <1>3. LocksAreHeld' /\ local' \in [Instances -> Tasks \cup {None}] /\ adv' \in Tasks \cup {None}
        BY <1>1, <1>2, LocksReleased DEF LocalStages
    <1>4. ~Pending(task'[t]) /\ ~Rotated(t) /\ ~Replacing(t)
        BY <1>1, <1>2 DEF Pending, Rotated, Replacing
    <1>5. CASE ~MetaUnchanged(t)
        BY <1>1, <1>5, TaskEnds DEF SetStatus, Rotated, Replacing
    <1>6. CASE MetaUnchanged(t)
        <2> DEFINE new == [rt |-> task[t].prov.rt, status |-> FailureStatus(t), meta |-> NextMeta]
        <2>1. provider' = new
            BY <1>6 DEF SetStatus
        <2>2. task[t].prov = provider
            BY <1>6 DEF MetaUnchanged, Inv, RowsAreVersions
        <2>3. task[t].prov.rt \in Token /\ NextMeta \in Nat
            BY RowsFit, NextMetaIsNew DEF Inv
        <2>4. new \in ProviderRow /\ new.rt = provider.rt /\ new.meta = NextMeta
            BY <2>2, <2>3 DEF ProviderRow, FailureStatus
        <2>5. TypeOK'
            BY <1>1, <1>2, <1>3, <2>1, <2>4 DEF Inv, TypeOK
        <2>6. new.status = "invalid" => Dead(new.rt)
            BY <1>1 DEF FailureStatus, TaskFits, TokensFit
        <2> HIDE DEF new
        <2>7. Rows' \subseteq Rows \cup {new}
            <3> SUFFICES ASSUME NEW p \in Rows', p # new, p # NoProvider
                         PROVE  p \in Rows
                BY DEF Rows
            <3>1. PICK s \in Tasks : p = task'[s].prov
                BY <2>1 DEF Rows
            <3> QED
                BY <1>2, <3>1 DEF Alone, Rows
        <2>8. RowsAreVersions'
            BY <2>4, <2>7, RowIsAdded
        <2>9. \A p \in Rows' : \E q \in Rows : p.rt = q.rt
            BY <2>4, <2>7
        <2>10. provider'.rt = provider.rt
            BY <2>1, <2>4
        <2>11. NoReuseWithoutLoss'
            BY <1>1 DEF Inv, NoReuseWithoutLoss
        <2> QED
            BY <1>1, <1>2, <1>3, <1>4, <2>1, <2>5, <2>6, <2>8, <2>9, <2>10, <2>11, CalmStep
    <1> QED
        BY <1>5, <1>6 DEF SetStatus

-----------------------------------------------------------------------------
(* Steps that change what the server honours or what the tables hold.      *)

\* Under the lock a task disturbs nobody, but for a login that waits.
LEMMA OthersLast ==
    ASSUME Inv, TypeOK', Grows, NEW t \in Tasks, task[t].pc \in LockedStages,
           NEW s \in Tasks, s # t, task'[s] = task[s],
           Pending(task[s]) => server'[task[s].newrt.cred] = server[task[s].newrt.cred]
    PROVE  TaskFits(task[s])'
    <1>1. task[s].pc \notin LockedStages
        BY Exclusion
    <1>2. scenario.kind = "sqlite" => task[s].pc \notin LocalStages
        BY Exclusion DEF LockedStages, LocalStages
    <1>3. PICK r \in TaskState : r = task[s]
        BY Types
    <1>4. TaskFits(r)
        BY <1>3 DEF Inv
    <1>5. ~Relies(r) /\ r.pc \notin {"grant", "answered"}
          /\ ~(scenario.kind = "sqlite" /\ r.pc \in {"rechecked", "decide"})
        BY <1>1, <1>2, <1>3 DEF Relies, Spends, LockedStages, LocalStages
    <1>6. TaskFits(r)'
        BY <1>3, <1>4, <1>5, TaskLasts DEF Inv
    <1> QED
        BY <1>3, <1>6

\* The tokens of a login are new, and nobody has them.
LEMMA LoginIsNew ==
    ASSUME Inv, CanLogIn, LogIn, NEW new, new = NewLogin
    PROVE  /\ server' \in [1..MaxCred -> 0..(MaxToken + 1)] /\ issued' \in 0..MaxToken
           /\ issued <= issued'
           /\ \A c \in 1..MaxCred : server'[c] = server[c] \/ server'[c] > issued
           /\ \A c \in Creds : server'[c] = server[c]
           /\ new \in Token /\ new # NoToken /\ new.cred \notin Creds /\ new.cred # 0
           /\ Known(new)' /\ Valid(new)'
           /\ \A tok \in Token : Known(tok) => tok.cred # new.cred
    <1>1. NextCred \in 1..MaxCred /\ NextCred \notin Creds
        BY NextCredIsNew DEF Inv, StoredFits, CanLogIn
    <1>2. issued \in Nat /\ MaxToken \in Nat /\ issued < MaxToken /\ issued' = issued + 1
          /\ issued + 1 \in 0..MaxToken /\ issued + 1 \in 0..(MaxToken + 1)
        BY OAuthAssumption DEF Inv, TypeOK, CanLogIn, LogIn
    <1>3. server \in [1..MaxCred -> 0..(MaxToken + 1)]
        BY DEF Inv, TypeOK
    <1>4. server' = [server EXCEPT ![NextCred] = issued + 1]
        BY DEF LogIn
    <1>5. /\ server' \in [1..MaxCred -> 0..(MaxToken + 1)]
          /\ server'[NextCred] = issued + 1
          /\ \A c \in 1..MaxCred : c # NextCred => server'[c] = server[c]
        BY <1>1, <1>2, <1>3, <1>4
    <1>6. new.cred = NextCred /\ new.n = issued + 1 /\ new \in Token
        BY <1>1, <1>2 DEF NewLogin, Token
    <1>7. Known(new)' /\ Valid(new)'
        BY <1>1, <1>2, <1>5, <1>6 DEF Known, Valid, Creds
    <1>8. \A c \in Creds : server'[c] = server[c]
        BY <1>1, <1>5 DEF Creds
    <1>9. \A tok \in Token : Known(tok) => tok.cred # new.cred
        BY <1>1, <1>6 DEF Known, NoToken
    <1>10. \A c \in 1..MaxCred : server'[c] = server[c] \/ server'[c] > issued
        BY <1>2, <1>5
    <1> QED
        BY <1>1, <1>2, <1>5, <1>6, <1>7, <1>8, <1>9, <1>10 DEF NoToken

\* The tokens of a login arrive and wait for the lock, or get lost.
LEMMA ExchangeKeepsInv ==
    ASSUME Inv, NEW t \in Tasks, scenario' = scenario, exchange_code(t)
    PROVE  Inv'
    <1> USE Types
    <1>1. task[t].pc = "exchange" /\ task[t].op = "install"
          /\ UNCHANGED <<provider, row, cache, local, adv, expired, ghost>>
        BY DEF exchange_code, TaskFits, OpFits
    <1>2. CASE UNCHANGED <<server, issued>> /\ End(t)
        BY <1>1, <1>2, TaskEnds DEF Ends, Rotated, Replacing
    <1>3. CASE CanLogIn /\ LogIn /\ parse_token_response(t)
        <2>1. PICK new : new = NewLogin
            OBVIOUS
        <2>2. /\ server' \in [1..MaxCred -> 0..(MaxToken + 1)] /\ issued' \in 0..MaxToken
              /\ issued <= issued'
              /\ \A c \in 1..MaxCred : server'[c] = server[c] \/ server'[c] > issued
              /\ \A c \in Creds : server'[c] = server[c]
              /\ new \in Token /\ new # NoToken /\ new.cred \notin Creds /\ new.cred # 0
              /\ Known(new)' /\ Valid(new)'
              /\ \A tok \in Token : Known(tok) => tok.cred # new.cred
            BY <1>3, <2>1, LoginIsNew
        <2>3. /\ task' \in [Tasks -> TaskState] /\ Alone(t)
              /\ \/ /\ task'[t].pc = "lock" /\ task'[t].at = new /\ task'[t].newrt = new
                    /\ task'[t].op = "install" /\ task'[t].prov = task[t].prov
                 \/ ~Pending(task'[t]) /\ TaskFits(task[t])' /\ task'[t].prov = NoProvider
                       /\ task'[t].pc \in {"done", "sent", "preflight"}
            <3>1. CASE End(t)
                BY <3>1, EndFits DEF Ends, Pending
            <3>2. CASE task' = [task EXCEPT ![t].pc = "lock", ![t].at = new, ![t].newrt = new]
                <4>1. /\ task' \in [Tasks -> TaskState]
                      /\ task'[t].pc = "lock" /\ task'[t].at = new /\ task'[t].newrt = new
                      /\ task'[t].op = "install" /\ task'[t].prov = task[t].prov
                    <5>1. new \in Token
                        BY <2>2
                    <5> QED
                        BY <1>1, <3>2, <5>1, SMTT(60) DEF TaskState, Stages
                <4>2. Alone(t)
                    BY <3>2 DEF Alone
                <4> QED
                    BY <4>1, <4>2
            <3> QED
                BY <1>3, <2>1, <3>1, <3>2 DEF parse_token_response
        <2>4. TypeOK' /\ Grows
            BY <1>1, <2>2, <2>3 DEF Inv, TypeOK, Grows
        <2>5. LocksAreHeld'
            BY <1>1, <2>3, LocksKept DEF LocalStages, LockedStages
        <2>6. \A s \in Tasks : Known(task[s].prov.rt) /\ Known(task[s].newrt)
            BY DEF Inv, TaskFits, TokensFit
        <2>7. ASSUME NEW s \in Tasks
              PROVE  TaskFits(task[s])'
            <3>1. PICK r \in TaskState : r = task[s]
                OBVIOUS
            <3>2. TaskFits(r) /\ Known(r.prov.rt) /\ Known(r.newrt)
                BY <2>6, <3>1 DEF Inv
            <3>3. TaskFits(r)'
                <4>1. r.pc = "grant" => r.prov.rt.cred \in Creds
                    BY <3>2 DEF TaskFits, TokensFit, Known
                <4>2. r.pc = "answered" \/ Pending(r) => r.newrt.cred \in Creds
                    BY <3>2 DEF TaskFits, AnswerFits, Known
                <4> QED
                    BY <1>1, <2>2, <2>4, <3>2, <4>1, <4>2, TaskLasts DEF Inv
            <3>4. CASE s # t
                BY <2>3, <3>1, <3>3, <3>4 DEF Alone
            <3>5. CASE s = t /\ task'[t].pc = "lock"
                <4>1. PICK q \in TaskState : q = task'[t]
                    BY <2>3
                <4>2. /\ q.pc = "lock" /\ q.at = new /\ q.newrt = new
                      /\ q.op = "install" /\ q.prov = r.prov
                    BY <2>3, <3>1, <3>5, <4>1
                <4>3. TaskFits(q)'
                    BY <2>2, <3>3, <4>2 DEF TaskFits, OpFits, TokensFit, AnswerFits, SpendsCurrent,
                       Spends, ValidUnlessLost, RereadIsCurrent, Pending, Operations
                <4> QED
                    BY <3>5, <4>1, <4>3
            <3>6. CASE s = t /\ task'[t].pc # "lock"
                BY <2>3, <3>6
            <3> QED
                BY <3>4, <3>5, <3>6
        <2>8. Rows' \subseteq Rows
            <3>1. NoProvider \in Rows
                BY DEF Rows
            <3> QED
                BY <1>1, <2>3, <3>1, RowsOfOneStep
        <2>9. RowsAreVersions'
            BY <2>8, RowsStay
        <2>10. PendingIsPrivate'
            <3>1. \A p \in Rows : p.rt.cred # new.cred
                BY <2>2, RowsFit
            <3>2. \A s \in Tasks : task[s].newrt.cred # new.cred
                BY <2>2, <2>6
            <3>3. \A s \in Tasks : Pending(task'[s]) =>
                     \/ s = t /\ task'[s].newrt = new
                     \/ s # t /\ Pending(task[s]) /\ task'[s].newrt = task[s].newrt
                BY <2>3 DEF Alone
            <3>4. \A s \in Tasks : Pending(task[s]) =>
                      /\ \A p \in Rows : p.rt.cred # task[s].newrt.cred
                      /\ \A u \in Tasks : u # s /\ Pending(task[u]) =>
                            task[u].newrt.cred # task[s].newrt.cred
                BY DEF Inv, PendingIsPrivate
            <3>5. ASSUME NEW s \in Tasks, Pending(task'[s])
                  PROVE  /\ \A p \in Rows' : p.rt.cred # task'[s].newrt.cred
                         /\ \A u \in Tasks : u # s /\ Pending(task'[u]) =>
                               task'[u].newrt.cred # task'[s].newrt.cred
                BY <2>8, <3>1, <3>2, <3>3, <3>4, <3>5
            <3> QED
                BY <3>5 DEF PendingIsPrivate
        <2>11. StoredFits'
            <3>1. Known(provider.rt) /\ provider.rt \in Token
                BY RowsFit
            <3>2. Known(provider.rt)' /\ (Dead(provider.rt) => Dead(provider.rt)')
                <4>1. PICK tok \in Token : tok = provider.rt
                    BY <3>1
                <4> QED
                    BY <1>1, <2>4, <3>1, <4>1, TokensLast DEF Inv
            <3>3. Valid(provider.rt) /\ provider.rt # NoToken => Valid(provider.rt)'
                BY <1>1, <2>2, <3>1 DEF Valid, Known
            <3>4. \A s \in Tasks : Rotated(s) => Rotated(s)'
                BY <1>1, <2>3 DEF Rotated, Alone
            <3>5. StoredIsValid'
                BY <1>1, <3>3, <3>4 DEF Inv, StoredFits, StoredIsValid
            <3>6. server'[1] # 0
                BY <2>2, OAuthAssumption DEF Inv, StoredFits, Creds
            <3> QED
                BY <1>1, <3>2, <3>5, <3>6 DEF Inv, StoredFits
        <2>12. NoReuseWithoutLoss' /\ SharedRowMatchesCredential'
            <3>1. \A s \in Tasks : Replacing(s) => Replacing(s)'
                BY <1>1, <2>3 DEF Replacing, Alone
            <3> QED
                BY <1>1, <3>1 DEF Inv, NoReuseWithoutLoss, SharedRowMatchesCredential
        <2> QED
            BY <2>4, <2>5, <2>7, <2>9, <2>10, <2>11, <2>12 DEF Inv
    <1> QED
        BY <1>2, <1>3 DEF exchange_code

LEMMA LockedStep ==
    ASSUME Inv, TypeOK', Grows, NEW t \in Tasks, task[t].pc \in LockedStages, Alone(t),
           LocksAreHeld', RowsAreVersions', TaskFits(task[t])', ~Pending(task'[t]),
           \A s \in Tasks \ {t} : Pending(task[s]) =>
               /\ server'[task[s].newrt.cred] = server[task[s].newrt.cred]
               /\ \A p \in Rows' : p.rt.cred # task[s].newrt.cred,
           StoredFits', NoReuseWithoutLoss', SharedRowMatchesCredential'
    PROVE  Inv'
    <1>1. ASSUME NEW s \in Tasks
          PROVE  TaskFits(task[s])'
        BY OthersLast DEF Alone
    <1>2. ASSUME NEW s \in Tasks, Pending(task'[s])
          PROVE  /\ \A p \in Rows' : p.rt.cred # task'[s].newrt.cred
                 /\ \A u \in Tasks : u # s /\ Pending(task'[u]) =>
                       task'[u].newrt.cred # task'[s].newrt.cred
        <2>1. s # t /\ task'[s] = task[s]
            BY <1>2 DEF Alone
        <2>2. \A u \in Tasks : Pending(task'[u]) => u # t /\ task'[u] = task[u]
            BY DEF Alone
        <2>3. \A u \in Tasks : u # s /\ Pending(task[u]) =>
                  task[u].newrt.cred # task[s].newrt.cred
            BY <1>2, <2>1 DEF Inv, PendingIsPrivate
        <2> QED
            BY <1>2, <2>1, <2>2, <2>3
    <1> QED
        BY <1>1, <1>2 DEF Inv, PendingIsPrivate

\* The server honours the grant; the answer is with the task that asked.
LEMMA GrantKeepsInv ==
    ASSUME Inv, NEW t \in Tasks, scenario' = scenario, NEW rotate \in BOOLEAN, Grant(t, rotate)
    PROVE  Inv'
    <1> USE Types
    <1> DEFINE c == task[t].prov.rt.cred
               new == [cred |-> c, n |-> issued + 1]
    <1>1. /\ task[t].pc = "grant" /\ Valid(task[t].prov.rt) /\ issued < MaxToken
          /\ issued' = issued + 1
          /\ server' = IF rotate THEN [server EXCEPT ![c] = issued + 1] ELSE server
          /\ task' = [task EXCEPT ![t].pc = "answered", ![t].at = new,
                                  ![t].newrt = IF rotate THEN new ELSE task[t].prov.rt]
          /\ UNCHANGED <<provider, row, cache, local, adv, expired, ghost>>
        BY DEF Grant
    <1>2. /\ task[t].prov.rt \in Token /\ task[t].prov.rt # NoToken /\ Known(task[t].prov.rt)
          /\ task[t].op \in RefreshOps
        BY <1>1, RowsFit DEF TaskFits, TokensFit, OpFits
    <1>3. /\ c \in 1..MaxCred /\ server[c] # 0 /\ task[t].prov.rt.n \in 1..issued
          /\ issued \in Nat /\ MaxToken \in Nat
          /\ server \in [1..MaxCred -> 0..(MaxToken + 1)]
        BY <1>2, OAuthAssumption DEF Inv, TypeOK, Known, Creds
    <1>4. new \in Token /\ new.cred = c /\ new.n = issued + 1
        BY <1>1, <1>3, SMTT(60) DEF Token
    <1> HIDE DEF new
    <1>5. /\ task' \in [Tasks -> TaskState] /\ Alone(t)
          /\ task'[t].pc = "answered" /\ task'[t].at = new /\ task'[t].op = task[t].op
          /\ task'[t].newrt = (IF rotate THEN new ELSE task[t].prov.rt)
          /\ task'[t].prov = task[t].prov
        <2>1. (IF rotate THEN new ELSE task[t].prov.rt) \in Token
            BY <1>2, <1>4
        <2> DEFINE got == IF rotate THEN new ELSE task[t].prov.rt
        <2> HIDE DEF got
        <2>2. task' = [task EXCEPT ![t].pc = "answered", ![t].at = new, ![t].newrt = got]
            BY <1>1 DEF got
        <2>3. got \in Token
            BY <2>1 DEF got
        <2>4. /\ task' \in [Tasks -> TaskState] /\ Alone(t)
              /\ task'[t].pc = "answered" /\ task'[t].at = new /\ task'[t].op = task[t].op
              /\ task'[t].newrt = got /\ task'[t].prov = task[t].prov
            BY <1>4, <2>2, <2>3, SMTT(60) DEF Alone, TaskState, Stages
        <2> QED
            BY <2>4 DEF got
    <1>6. /\ server' \in [1..MaxCred -> 0..(MaxToken + 1)] /\ issued' \in 0..MaxToken
          /\ \A d \in 1..MaxCred : server'[d] = server[d] \/ (d = c /\ server'[d] = issued + 1)
          /\ rotate => server'[c] = issued + 1
          /\ ~rotate => server' = server
        BY <1>1, <1>3
    <1>7. TypeOK'
        BY <1>1, <1>5, <1>6 DEF Inv, TypeOK
    <1>8. Grows
        BY <1>1, <1>3, <1>6 DEF Grows
    <1>9. LocksAreHeld'
        BY <1>1, <1>5, LocksKept DEF LocalStages, LockedStages
    <1>10. Rows' \subseteq Rows
        BY <1>1, <1>5, RowsOfOneStep
    <1>11. RowsAreVersions'
        BY <1>10, RowsStay
    <1>12. TaskFits(task[t])'
        <2>1. PICK r \in TaskState : r = task'[t]
            BY <1>5
        <2>2. PICK p \in Token : p = task[t].prov.rt
            BY <1>2
        <2>3. Known(p)' /\ (Dead(p) => Dead(p)')
            BY <1>2, <1>7, <1>8, <2>2, TokensLast DEF Inv
        <2>4. /\ r.pc = "answered" /\ r.op \in RefreshOps /\ r.prov.rt = p /\ r.at.cred = r.newrt.cred
              /\ \/ r.newrt = p
                 \/ r.newrt.cred = p.cred /\ r.newrt.n > p.n
              /\ r.newrt # NoToken /\ r.prov = task[t].prov
            BY <1>2, <1>3, <1>4, <1>5, <2>1, <2>2 DEF NoToken
        <2>5. server'[r.newrt.cred] = r.newrt.n
            BY <1>1, <1>4, <1>5, <1>6, <2>1 DEF Valid
        <2>6. r.newrt.cred \in Creds' /\ r.newrt.n \in 1..issued'
            <3>1. r.newrt.cred = c /\ r.newrt.n \in 1..(issued + 1)
                BY <1>3, <1>4, <1>5, <2>1
            <3> QED
                BY <1>1, <1>3, <2>5, <3>1 DEF Creds
        <2>7. OpFits(r)' /\ AnswerFits(r)' /\ RereadIsCurrent(r)'
            BY <2>4 DEF OpFits, AnswerFits, RereadIsCurrent, RefreshOps, Pending
        <2>8. TokensFit(r)'
            <3>1. r.prov.status = "invalid" => Dead(p)
                BY <2>2, <2>4 DEF TaskFits, TokensFit
            <3> QED
                BY <2>3, <2>4, <2>6, <3>1 DEF TokensFit, Known
        <2>9. SpendsCurrent(r)'
            BY <1>1, <2>2, <2>4 DEF TaskFits, SpendsCurrent, Spends
        <2>10. ValidUnlessLost(r)'
            BY <2>4, <2>5 DEF ValidUnlessLost, Pending, Valid, RefreshOps
        <2>11. TaskFits(r)'
            BY <2>7, <2>8, <2>9, <2>10 DEF TaskFits
        <2> QED
            BY <2>1, <2>11
    <1>13. ASSUME NEW s \in Tasks \ {t}, Pending(task[s])
           PROVE  /\ server'[task[s].newrt.cred] = server[task[s].newrt.cred]
                  /\ \A p \in Rows' : p.rt.cred # task[s].newrt.cred
        <2>1. \A p \in Rows : p.rt.cred # task[s].newrt.cred
            BY <1>13 DEF Inv, PendingIsPrivate
        <2>2. task[s].newrt.cred # c
            BY <2>1
        <2>3. task[s].newrt.cred \in 1..MaxCred
            BY <1>13 DEF Inv, TaskFits, TokensFit, AnswerFits, Known, Creds
        <2> QED
            BY <1>6, <1>10, <2>1, <2>2, <2>3
    <1>14. StoredFits'
        <2>1. PICK tok \in Token : tok = provider.rt
            BY RowsFit
        <2>2. Known(tok)' /\ (Dead(tok) => Dead(tok)')
            BY <1>7, <1>8, <2>1, TokensLast DEF Inv, StoredFits
        <2>3. server'[1] # 0
            BY <1>3, <1>6, OAuthAssumption DEF Inv, StoredFits
        <2>4. StoredIsValid'
            <3>1. CASE rotate
                <4>1. Rotated(t)'
                    BY <1>3, <1>4, <1>5, <3>1, <1>2 DEF Rotated, RefreshOps
                <4> QED
                    BY <4>1 DEF StoredIsValid
            <3>2. CASE ~rotate
                <4>1. \A s \in Tasks : ~Rotated(s)
                    BY <1>1, Exclusion DEF Rotated, LockedStages
                <4> QED
                    BY <1>1, <1>6, <3>2, <4>1 DEF Inv, StoredFits, StoredIsValid, Valid
            <3> QED
                BY <3>1, <3>2
        <2> QED
            BY <1>1, <2>1, <2>2, <2>3, <2>4 DEF Inv, StoredFits
    <1>15. NoReuseWithoutLoss' /\ SharedRowMatchesCredential'
        <2>1. \A s \in Tasks : Replacing(s) => Replacing(s)'
            BY <1>1, <1>5 DEF Replacing, Alone
        <2> QED
            BY <1>1, <2>1 DEF Inv, NoReuseWithoutLoss, SharedRowMatchesCredential
    <1>16. ~Pending(task'[t]) /\ task[t].pc \in LockedStages
        BY <1>1, <1>2, <1>5 DEF Pending, RefreshOps, LockedStages
    <1> QED
        BY <1>5, <1>7, <1>8, <1>9, <1>11, <1>12, <1>13, <1>14, <1>15, <1>16, LockedStep

\* A row that is written under the lock, with a token the server honours.
LEMMA RowWritten ==
    ASSUME Inv, NEW t \in Tasks, Alone(t), task'[t].prov \in Rows,
           NEW tok \in Token, provider' = [rt |-> tok, status |-> "healthy", meta |-> NextMeta]
    PROVE  /\ provider' \in ProviderRow /\ provider'.rt = tok /\ provider'.status = "healthy"
           /\ RowsAreVersions'
           /\ \A p \in Rows' : p \in Rows \/ p.rt = tok
    <1>1. NextMeta \in Nat
        BY NextMetaIsNew DEF Inv
    <1>2. /\ provider' \in ProviderRow /\ provider'.rt = tok /\ provider'.status = "healthy"
          /\ provider'.meta = NextMeta
        BY <1>1 DEF ProviderRow
    <1>3. PICK new : new = provider'
        OBVIOUS
    <1>4. Rows' \subseteq Rows \cup {new}
        <2> SUFFICES ASSUME NEW p \in Rows', p # new, p # NoProvider
                     PROVE  p \in Rows
            BY DEF Rows
        <2>1. PICK s \in Tasks : p = task'[s].prov
            BY <1>3 DEF Rows
        <2> QED
            BY <2>1 DEF Alone, Rows
    <1>5. RowsAreVersions'
        BY <1>2, <1>3, <1>4, RowIsAdded
    <1> QED
        BY <1>2, <1>3, <1>4, <1>5

\* commit_success stores both tokens.
LEMMA PersistKeepsInv ==
    ASSUME Inv, NEW t \in Tasks, scenario' = scenario, Persist(t)
    PROVE  Inv'
    <1> USE Types
    <1>1. /\ task[t].pc = "answered"
          /\ provider' = [rt |-> task[t].newrt, status |-> "healthy", meta |-> NextMeta]
          /\ row' = [at |-> task[t].at, backoff |-> "none", due |-> FALSE]
          /\ adv' = IF adv = t THEN None ELSE adv
          /\ UNCHANGED <<cache, local, server, issued, expired, ghost>>
        BY DEF Persist
    <1>2. /\ task' \in [Tasks -> TaskState] /\ Alone(t)
          /\ task'[t].pc = "seed" /\ task'[t].op = task[t].op
          /\ task'[t].newrt = task[t].newrt /\ task'[t].prov = task[t].prov
        BY DEF Persist, Goto, Alone, TaskState, Stages
    <1>3. /\ task[t].newrt # NoToken /\ task[t].at.cred = task[t].newrt.cred
          /\ Known(task[t].newrt) /\ (ghost.lost \/ Valid(task[t].newrt))
          /\ task[t].op # "install" => task[t].newrt.cred = task[t].prov.rt.cred
          /\ task[t].op \in RefreshOps \cup {"install"}
        BY <1>1 DEF TaskFits, AnswerFits, TokensFit, ValidUnlessLost, OpFits
    <1>4. /\ provider' \in ProviderRow /\ provider'.rt = task[t].newrt
          /\ provider'.status = "healthy" /\ RowsAreVersions'
          /\ \A p \in Rows' : p \in Rows \/ p.rt = task[t].newrt
        BY <1>1, <1>2, RowWritten
    <1>5. row' \in SharedRow /\ row'.at = task[t].at
        BY <1>1 DEF SharedRow
    <1>6. TypeOK' /\ Grows
        <2>1. TypeOK'
            BY <1>1, <1>2, <1>4, <1>5 DEF Inv, TypeOK, SharedRow
        <2> QED
            BY <1>1, <2>1, OAuthAssumption DEF Grows, Inv, TypeOK
    <1>7. LocksAreHeld'
        BY <1>1, <1>2, AdvisoryReleased DEF LocalStages, LockedStages
    <1>8. TaskFits(task[t])'
        <2>1. PICK r \in TaskState : r = task'[t]
            BY <1>2
        <2>2. /\ r.pc = "seed" /\ r.op = task[t].op
              /\ r.newrt = task[t].newrt /\ r.prov = task[t].prov
            BY <1>2, <2>1
        <2>3. TaskFits(r)'
            BY <1>1, <1>3, <2>2 DEF TaskFits, OpFits, TokensFit, AnswerFits, SpendsCurrent,
               Spends, ValidUnlessLost, RereadIsCurrent, Pending, Dead, Known, Valid, Creds
        <2> QED
            BY <2>1, <2>3
    <1>9. ASSUME NEW s \in Tasks \ {t}, Pending(task[s])
          PROVE  /\ server'[task[s].newrt.cred] = server[task[s].newrt.cred]
                 /\ \A p \in Rows' : p.rt.cred # task[s].newrt.cred
        <2>1. /\ \A p \in Rows : p.rt.cred # task[s].newrt.cred
              /\ Pending(task[t]) => task[t].newrt.cred # task[s].newrt.cred
            BY <1>9 DEF Inv, PendingIsPrivate
        <2>2. task[t].newrt.cred # task[s].newrt.cred
            BY <1>1, <1>3, <2>1 DEF Pending
        <2> QED
            BY <1>1, <1>4, <2>1, <2>2
    <1>10. StoredFits'
        BY <1>1, <1>3, <1>4 DEF Inv, StoredFits, StoredIsValid, Known, Creds, Valid
    <1>11. NoReuseWithoutLoss' /\ SharedRowMatchesCredential'
        BY <1>1, <1>3, <1>4, <1>5 DEF Inv, NoReuseWithoutLoss, SharedRowMatchesCredential
    <1>12. ~Pending(task'[t]) /\ task[t].pc \in LockedStages
        BY <1>1, <1>2 DEF Pending, LockedStages
    <1> QED
        BY <1>2, <1>4, <1>6, <1>7, <1>8, <1>9, <1>10, <1>11, <1>12, LockedStep

\* A task of the administrator that is past its write fits whatever it wrote.
LEMMA MutatorFits ==
    ASSUME Inv, TypeOK', Grows, NEW t \in Tasks, task[t].op = "mutate",
           task' \in [Tasks -> TaskState],
           task'[t].op = "mutate", task'[t].pc \in {"reset", "invalidate"},
           task'[t].prov = task[t].prov, task'[t].newrt = task[t].newrt
    PROVE  TaskFits(task[t])'
    <1>1. PICK r \in TaskState : r = task'[t]
        OBVIOUS
    <1>2. PICK p \in Token, q \in Token : p = task[t].prov.rt /\ q = task[t].newrt
        BY Types, RowsFit
    <1>3. Known(p)' /\ (Dead(p) => Dead(p)') /\ Known(q)'
        BY <1>2, TokensLast DEF Inv, TaskFits, TokensFit
    <1>4. r.prov.status = "invalid" => Dead(p)
        BY <1>1, <1>2 DEF Inv, TaskFits, TokensFit
    <1>5. TokensFit(r)'
        BY <1>1, <1>2, <1>3, <1>4 DEF TokensFit
    <1>6. TaskFits(r)'
        BY <1>1, <1>5 DEF TaskFits, OpFits, AnswerFits, SpendsCurrent, Spends, ValidUnlessLost,
           RereadIsCurrent, Pending
    <1> QED
        BY <1>1, <1>6

\* The administrator's write: another login, none, or a failure.
LEMMA MutateKeepsInv ==
    ASSUME Inv, NEW t \in Tasks, scenario' = scenario, Mutate(t)
    PROVE  Inv'
    <1> USE Types
    <1>1. task[t].pc = "mutate" /\ task[t].op = "mutate"
          /\ UNCHANGED <<row, cache, local, adv, expired, ghost>>
        BY DEF Mutate, TaskFits, OpFits
    <1>2. /\ task' \in [Tasks -> TaskState] /\ Alone(t)
          /\ task'[t].pc = "reset" /\ task'[t].op = task[t].op
          /\ task'[t].newrt = task[t].newrt /\ task'[t].prov = task[t].prov
        BY DEF Mutate, Goto, Alone, TaskState, Stages
    <1>3. /\ ~Pending(task'[t]) /\ task[t].pc \in LockedStages /\ Replacing(t)'
          /\ \A s \in Tasks : ~Rotated(s)
        <2>1. task[t].pc \in LockedStages /\ ~Rotated(t)
            BY <1>1 DEF LockedStages, Rotated
        <2>2. \A s \in Tasks : ~Rotated(s)
            BY <1>1, <2>1, Exclusion DEF Rotated, LockedStages
        <2> QED
            BY <1>1, <1>2, <2>1, <2>2 DEF Pending, Replacing
    <1>4. LocksAreHeld'
        BY <1>1, <1>2, LocksKept DEF LocalStages, LockedStages
    <1>5. NoReuseWithoutLoss' /\ SharedRowMatchesCredential'
        BY <1>1, <1>3 DEF Inv, NoReuseWithoutLoss, SharedRowMatchesCredential
    <1>6. \A s \in Tasks : Pending(task[s]) =>
              /\ task[s].newrt \in Token /\ task[s].newrt # NoToken /\ Known(task[s].newrt)
              /\ \A p \in Rows : p.rt.cred # task[s].newrt.cred
        BY DEF Inv, PendingIsPrivate, TaskFits, TokensFit, AnswerFits
    <1>7. CASE UNCHANGED <<provider, server, issued>>
        <2>1. TypeOK' /\ Grows
            <3>1. TypeOK'
                BY <1>1, <1>2, <1>7 DEF Inv, TypeOK
            <3> QED
                BY <1>1, <1>7, <3>1, OAuthAssumption DEF Grows, Inv, TypeOK
        <2>2. Rows' \subseteq Rows
            BY <1>2, <1>7, RowsOfOneStep
        <2>3. RowsAreVersions'
            BY <2>2, RowsStay
        <2>4. StoredFits'
            BY <1>1, <1>3, <1>7 DEF Inv, StoredFits, StoredIsValid, Known, Creds, Valid, Dead
        <2>5. TaskFits(task[t])'
            BY <1>1, <1>2, <2>1, MutatorFits
        <2> QED
            BY <1>2, <1>3, <1>4, <1>5, <1>6, <1>7, <2>1, <2>2, <2>3, <2>4, <2>5, LockedStep
    <1>8. CASE /\ provider' = [rt |-> NoToken, status |-> "healthy", meta |-> NextMeta]
               /\ UNCHANGED <<server, issued>>
        <2>1. NoToken \in Token
            BY RowTypes DEF Inv
        <2>2. /\ provider' \in ProviderRow /\ provider'.rt = NoToken
              /\ provider'.status = "healthy" /\ RowsAreVersions'
              /\ \A p \in Rows' : p \in Rows \/ p.rt = NoToken
            BY <1>2, <1>8, <2>1, RowWritten
        <2>3. TypeOK' /\ Grows
            <3>1. TypeOK'
                BY <1>1, <1>2, <1>8, <2>2 DEF Inv, TypeOK
            <3> QED
                BY <1>1, <1>8, <3>1, OAuthAssumption DEF Grows, Inv, TypeOK
        <2>4. StoredFits'
            BY <1>8, <2>2 DEF Inv, StoredFits, StoredIsValid, Known
        <2>5. TaskFits(task[t])'
            BY <1>1, <1>2, <2>3, MutatorFits
        <2>6. ASSUME NEW s \in Tasks \ {t}, Pending(task[s])
              PROVE  /\ server'[task[s].newrt.cred] = server[task[s].newrt.cred]
                     /\ \A p \in Rows' : p.rt.cred # task[s].newrt.cred
            <3>1. NoToken.cred # task[s].newrt.cred
                BY <1>6, <2>6 DEF Known, NoToken, Creds
            <3> QED
                BY <1>6, <1>8, <2>2, <2>6, <3>1
        <2> QED
            BY <1>2, <1>3, <1>4, <1>5, <2>2, <2>3, <2>4, <2>5, <2>6, LockedStep
    <1>9. CASE /\ CanLogIn /\ LogIn
               /\ provider' = [rt |-> NewLogin, status |-> "healthy", meta |-> NextMeta]
        <2>1. PICK new : new = NewLogin
            OBVIOUS
        <2>2. /\ server' \in [1..MaxCred -> 0..(MaxToken + 1)] /\ issued' \in 0..MaxToken
              /\ issued <= issued'
              /\ \A c \in 1..MaxCred : server'[c] = server[c] \/ server'[c] > issued
              /\ \A c \in Creds : server'[c] = server[c]
              /\ new \in Token /\ new # NoToken /\ new.cred \notin Creds /\ new.cred # 0
              /\ Known(new)' /\ Valid(new)'
              /\ \A tok \in Token : Known(tok) => tok.cred # new.cred
            BY <1>9, <2>1, LoginIsNew
        <2>3. /\ provider' \in ProviderRow /\ provider'.rt = new
              /\ provider'.status = "healthy" /\ RowsAreVersions'
              /\ \A p \in Rows' : p \in Rows \/ p.rt = new
            BY <1>2, <1>9, <2>1, <2>2, RowWritten
        <2>4. TypeOK' /\ Grows
            <3>1. TypeOK'
                BY <1>1, <1>2, <2>2, <2>3 DEF Inv, TypeOK
            <3> QED
                BY <1>1, <2>2, <3>1 DEF Grows
        <2>5. StoredFits'
            <3>1. server'[1] # 0
                BY <2>2, OAuthAssumption DEF Inv, StoredFits, Creds
            <3>2. Known(provider.rt)' /\ Valid(provider.rt)'
                BY <2>2, <2>3
            <3> QED
                BY <2>3, <3>1, <3>2 DEF StoredFits, StoredIsValid
        <2>6. TaskFits(task[t])'
            BY <1>1, <1>2, <2>4, MutatorFits
        <2>7. ASSUME NEW s \in Tasks \ {t}, Pending(task[s])
              PROVE  /\ server'[task[s].newrt.cred] = server[task[s].newrt.cred]
                     /\ \A p \in Rows' : p.rt.cred # task[s].newrt.cred
            <3>1. task[s].newrt.cred \in Creds
                BY <1>6, <2>7 DEF Known
            <3> QED
                BY <1>6, <2>2, <2>3, <2>7, <3>1
        <2> QED
            BY <1>2, <1>3, <1>4, <1>5, <2>3, <2>4, <2>5, <2>6, <2>7, LockedStep
    <1> QED
        BY <1>7, <1>8, <1>9 DEF Mutate

\* The row of the old credential goes before anybody else gets the lock.
LEMMA ResetKeepsInv ==
    ASSUME Inv, NEW t \in Tasks, scenario' = scenario, Reset(t)
    PROVE  Inv'
    <1> USE Types
    <1>1. /\ task[t].pc = "reset" /\ task[t].op = "mutate" /\ row' = NoRow
          /\ adv' = IF adv = t THEN None ELSE adv
          /\ UNCHANGED <<provider, cache, local, server, issued, expired, ghost>>
        BY DEF Reset, TaskFits, OpFits
    <1>2. /\ task' \in [Tasks -> TaskState] /\ Alone(t)
          /\ task'[t].pc = "invalidate" /\ task'[t].op = task[t].op
          /\ task'[t].newrt = task[t].newrt /\ task'[t].prov = task[t].prov
        BY DEF Reset, Goto, Alone, TaskState, Stages
    <1>3. ~Pending(task'[t]) /\ task[t].pc \in LockedStages /\ \A s \in Tasks : ~Rotated(s)
        <2>1. task[t].pc \in LockedStages /\ ~Rotated(t)
            BY <1>1 DEF LockedStages, Rotated
        <2>2. \A s \in Tasks : ~Rotated(s)
            BY <1>1, <2>1, Exclusion DEF Rotated, LockedStages
        <2> QED
            BY <1>1, <1>2, <2>1, <2>2 DEF Pending
    <1>4. LocksAreHeld'
        BY <1>1, <1>2, AdvisoryReleased DEF LocalStages, LockedStages
    <1>5. row' \in SharedRow /\ row'.at = NoToken
        BY <1>1, RowTypes DEF NoRow, SharedRow, Inv
    <1>6. TypeOK' /\ Grows
        <2>1. TypeOK'
            BY <1>1, <1>2, <1>5 DEF Inv, TypeOK, SharedRow
        <2> QED
            BY <1>1, <2>1, OAuthAssumption DEF Grows, Inv, TypeOK
    <1>7. Rows' \subseteq Rows
        BY <1>1, <1>2, RowsOfOneStep
    <1>8. RowsAreVersions'
        BY <1>7, RowsStay
    <1>9. StoredFits'
        BY <1>1, <1>3 DEF Inv, StoredFits, StoredIsValid, Known, Creds, Valid, Dead
    <1>10. TaskFits(task[t])'
        BY <1>1, <1>2, <1>6, MutatorFits
    <1>11. NoReuseWithoutLoss' /\ SharedRowMatchesCredential'
        BY <1>1, <1>5 DEF Inv, NoReuseWithoutLoss, SharedRowMatchesCredential
    <1>12. ASSUME NEW s \in Tasks \ {t}, Pending(task[s])
           PROVE  /\ server'[task[s].newrt.cred] = server[task[s].newrt.cred]
                  /\ \A p \in Rows' : p.rt.cred # task[s].newrt.cred
        BY <1>1, <1>7, <1>12 DEF Inv, PendingIsPrivate
    <1> QED
        BY <1>2, <1>3, <1>4, <1>6, <1>8, <1>9, <1>10, <1>11, <1>12, LockedStep

-----------------------------------------------------------------------------
(* The environment.                                                        *)

LEMMA OutsideKeepsInv ==
    ASSUME Inv, scenario' = scenario,
           \/ \E c \in 1..MaxCred : Revoke(c)
           \/ \E tok \in Token : Expire(tok)
           \/ TimePasses
    PROVE  Inv'
    <1>1. UNCHANGED <<provider, cache, local, adv, issued, task>>
        BY DEF Revoke, Expire, TimePasses
    <1>2. row' \in SharedRow /\ row'.at = row.at
        BY DEF Revoke, Expire, TimePasses, Inv, TypeOK, SharedRow
    <1>3. /\ ghost' \in History /\ ghost'.reused = ghost.reused
          /\ ghost'.stale_edit = ghost.stale_edit /\ ghost'.interrupted = ghost.interrupted
          /\ ghost.lost => ghost'.lost
          /\ ghost'.refused = ghost.refused
        BY DEF Revoke, Expire, TimePasses, Inv, TypeOK, History
    <1>4. expired \subseteq expired' /\ expired' \subseteq Token
        BY DEF Revoke, Expire, TimePasses, Inv, TypeOK
    <1>5. /\ server' \in [1..MaxCred -> 0..(MaxToken + 1)]
          /\ \/ server' = server
             \/ /\ ghost'.lost
                /\ \A c \in 1..MaxCred : server'[c] = server[c] \/
                      (c = provider.rt.cred /\ server'[c] = MaxToken + 1)
        <2>1. CASE \E c \in 1..MaxCred : Revoke(c)
            <3>1. PICK c \in 1..MaxCred : Revoke(c)
                BY <2>1
            <3>2. MaxToken + 1 \in 0..(MaxToken + 1)
                BY OAuthAssumption
            <3> QED
                BY <3>1, <3>2 DEF Revoke, Inv, TypeOK
        <2>2. CASE TimePasses \/ \E tok \in Token : Expire(tok)
            BY <2>2 DEF TimePasses, Expire, Inv, TypeOK
        <2> QED
            BY <2>1, <2>2
    <1>6. TypeOK'
        BY <1>1, <1>2, <1>3, <1>4, <1>5 DEF Inv, TypeOK, SharedRow, History
    <1>7. Grows
        <2>1. issued \in 0..MaxToken /\ MaxToken \in Nat
            BY OAuthAssumption DEF Inv, TypeOK
        <2>2. \A c \in 1..MaxCred : server'[c] = server[c] \/ server'[c] > issued
            <3>1. MaxToken + 1 > issued
                BY <2>1
            <3> QED
                BY <1>5, <3>1
        <2>3. issued <= issued'
            BY <1>1, <2>1
        <2> QED
            BY <1>3, <1>4, <2>2, <2>3 DEF Grows
    <1>8. \A s \in Tasks : Pending(task[s]) =>
              server'[task[s].newrt.cred] = server[task[s].newrt.cred]
        <2> SUFFICES ASSUME NEW s \in Tasks, Pending(task[s])
                     PROVE  server'[task[s].newrt.cred] = server[task[s].newrt.cred]
            OBVIOUS
        <2>1. task[s].newrt.cred # provider.rt.cred
            BY DEF Inv, PendingIsPrivate, Rows
        <2>2. task[s].newrt.cred \in 1..MaxCred
            BY DEF Inv, TaskFits, TokensFit, AnswerFits, Known, Creds
        <2> QED
            BY <1>5, <2>1, <2>2
    <1>9. ASSUME NEW s \in Tasks
          PROVE  TaskFits(task[s])'
        <2>1. PICK r \in TaskState : r = task[s]
            BY DEF Inv, TypeOK
        <2>2. TaskFits(r)
            BY <2>1 DEF Inv
        <2>3. TaskFits(r)'
            BY <1>1, <1>2, <1>5, <1>6, <1>7, <1>8, <2>1, <2>2, TaskLasts DEF Inv
        <2> QED
            BY <1>1, <2>1, <2>3
    <1>10. LocksAreHeld'
        BY <1>1 DEF Inv, LocksAreHeld, Here
    <1>11. RowsAreVersions' /\ PendingIsPrivate'
        BY <1>1 DEF Inv, RowsAreVersions, PendingIsPrivate, Rows, Pending
    <1>12. StoredFits'
        <2>1. PICK tok \in Token : tok = provider.rt
            BY RowsFit DEF Rows
        <2>2. Known(tok)' /\ (Dead(tok) => Dead(tok)')
            BY <1>6, <1>7, <2>1, TokensLast DEF Inv, StoredFits
        <2>3. server'[1] # 0
            BY <1>5, OAuthAssumption DEF Inv, StoredFits
        <2>4. StoredIsValid'
            BY <1>1, <1>3, <1>5 DEF Inv, StoredFits, StoredIsValid, Rotated, Valid
        <2> QED
            BY <1>1, <2>1, <2>2, <2>3, <2>4 DEF Inv, StoredFits
    <1>13. NoReuseWithoutLoss' /\ SharedRowMatchesCredential'
        BY <1>1, <1>2, <1>3 DEF Inv, NoReuseWithoutLoss, SharedRowMatchesCredential, Replacing
    <1> QED
        BY <1>6, <1>9, <1>10, <1>11, <1>12, <1>13 DEF Inv

\* The process dies with all its tasks and both kinds of lock.
LEMMA CrashKeepsInv ==
    ASSUME Inv, NEW i \in Instances, scenario' = scenario, Crash(i)
    PROVE  Inv'
    <1> DEFINE S == {t \in Tasks : Here(t) = i /\ task[t].pc \notin {"idle", "done"}}
               Gone(t) == [Fresh EXCEPT !.op = task[t].op, !.pc = "done"]
    <1>1. /\ ghost' = Dropped(S)
          /\ task' = [t \in Tasks |-> IF t \in S THEN Gone(t) ELSE task[t]]
          /\ adv' = IF adv \in S THEN None ELSE adv
          /\ local' = [local EXCEPT ![i] = None]
          /\ cache' = [cache EXCEPT ![i] = NoToken]
          /\ UNCHANGED <<provider, row, server, issued, expired>>
        BY DEF Crash
    <1>2. \A t \in Tasks : /\ Gone(t) \in TaskState /\ Gone(t).pc = "done"
                           /\ Gone(t).prov = NoProvider /\ Gone(t).newrt = NoToken
        BY RowTypes DEF Inv, TypeOK, Fresh, TaskState, Stages
    <1> HIDE DEF Gone
    <1>3. /\ task' \in [Tasks -> TaskState]
          /\ \A t \in Tasks : \/ t \notin S /\ task'[t] = task[t]
                              \/ /\ t \in S /\ task'[t].pc = "done" /\ task'[t].prov = NoProvider
                                 /\ task'[t].newrt = NoToken
        BY <1>1, <1>2 DEF Inv, TypeOK
    <1>4. /\ ghost' \in History /\ ghost'.reused = ghost.reused
          /\ ghost'.stale_edit = ghost.stale_edit /\ ghost'.refused = ghost.refused
          /\ ghost.lost => ghost'.lost
          /\ ghost.interrupted => ghost'.interrupted
          /\ \A t \in S : Rotated(t) => ghost'.lost
          /\ \A t \in S : task[t].pc = "reset" => ghost'.interrupted
        BY <1>1 DEF Dropped, Inv, TypeOK, History
    <1>5. TypeOK'
        <2>1. local' \in [Instances -> Tasks \cup {None}] /\ cache' \in [Instances -> Token]
              /\ adv' \in Tasks \cup {None}
            BY <1>1, RowTypes DEF Inv, TypeOK
        <2> QED
            BY <1>1, <1>3, <1>4, <2>1 DEF Inv, TypeOK, History
    <1>6. LocksAreHeld'
        <2>1. ASSUME NEW t \in Tasks
              PROVE  /\ task'[t].pc \in LocalStages => local'[scenario'.home[t]] = t
                     /\ task'[t].pc \in LockedStages /\ scenario'.kind = "postgres" => adv' = t
            <3>1. CASE t \in S
                BY <1>3, <3>1 DEF LocalStages, LockedStages
            <3>2. CASE t \notin S
                <4>1. task'[t] = task[t]
                    BY <1>3, <3>2
                <4>2. task[t].pc \in LocalStages \/ task[t].pc \in LockedStages => Here(t) # i
                    BY <3>2 DEF LocalStages, LockedStages
                <4>3. Here(t) \in Instances /\ local \in [Instances -> Tasks \cup {None}]
                    BY Types
                <4> QED
                    BY <1>1, <3>2, <4>1, <4>2, <4>3 DEF Inv, LocksAreHeld, Here
            <3> QED
                BY <3>1, <3>2
        <2> QED
            BY <2>1 DEF LocksAreHeld, Here
    <1>7. Grows
        <2>1. issued <= issued'
            BY <1>1, OAuthAssumption DEF Inv, TypeOK
        <2> QED
            BY <1>1, <1>4, <2>1 DEF Grows
    <1>8. ASSUME NEW t \in Tasks
          PROVE  TaskFits(task[t])'
        <2>1. PICK r \in TaskState : r = task'[t]
            BY <1>3
        <2>2. CASE t \in S
            <3>1. r.pc = "done" /\ r.prov = NoProvider /\ r.newrt = NoToken
                BY <1>3, <2>1, <2>2
            <3>2. TaskFits(r)'
                BY <3>1 DEF TaskFits, OpFits, TokensFit, AnswerFits, SpendsCurrent, Spends,
                   ValidUnlessLost, RereadIsCurrent, Pending, Known, Dead, NoProvider
            <3> QED
                BY <2>1, <3>2
        <2>3. CASE t \notin S
            <3>1. TaskFits(r)
                BY <1>3, <2>1, <2>3 DEF Inv
            <3>2. TaskFits(r)'
                BY <1>1, <1>5, <1>7, <3>1, TaskLasts DEF Inv
            <3> QED
                BY <2>1, <3>2
        <2> QED
            BY <2>2, <2>3
    <1>9. Rows' \subseteq Rows
        <2> SUFFICES ASSUME NEW p \in Rows', p # provider, p # NoProvider
                     PROVE  p \in Rows
            BY <1>1 DEF Rows
        <2>1. PICK s \in Tasks : p = task'[s].prov
            BY <1>1 DEF Rows
        <2> QED
            BY <1>3, <2>1 DEF Rows
    <1>10. RowsAreVersions'
        BY <1>9, RowsStay
    <1>11. PendingIsPrivate'
        <2>1. \A t \in Tasks : Pending(task'[t]) => task'[t] = task[t]
            BY <1>3 DEF Pending
        <2>2. \A t \in Tasks : Pending(task[t]) =>
                  /\ \A p \in Rows : p.rt.cred # task[t].newrt.cred
                  /\ \A s \in Tasks : s # t /\ Pending(task[s]) =>
                        task[s].newrt.cred # task[t].newrt.cred
            BY DEF Inv, PendingIsPrivate
        <2>3. \A t \in Tasks : Pending(task'[t]) =>
                  /\ \A p \in Rows' : p.rt.cred # task'[t].newrt.cred
                  /\ \A s \in Tasks : s # t /\ Pending(task'[s]) =>
                        task'[s].newrt.cred # task'[t].newrt.cred
            BY <1>9, <2>1, <2>2
        <2> QED
            BY <2>3 DEF PendingIsPrivate
    <1>12. StoredFits'
        <2>1. \A t \in Tasks : Rotated(t) => Rotated(t)' \/ ghost'.lost
            BY <1>3, <1>4 DEF Rotated
        <2>2. StoredIsValid'
            BY <1>1, <1>4, <2>1 DEF Inv, StoredFits, StoredIsValid, Valid
        <2> QED
            BY <1>1, <1>4, <2>2 DEF Inv, StoredFits, Known, Creds, Dead, Valid
    <1>13. NoReuseWithoutLoss' /\ SharedRowMatchesCredential'
        <2>1. \A t \in Tasks : Replacing(t) => Replacing(t)' \/ ghost'.interrupted
            BY <1>3, <1>4 DEF Replacing
        <2> QED
            BY <1>1, <1>4, <2>1 DEF Inv, NoReuseWithoutLoss, SharedRowMatchesCredential
    <1> QED
        BY <1>5, <1>6, <1>8, <1>10, <1>11, <1>12, <1>13 DEF Inv

-----------------------------------------------------------------------------
LEMMA InitInv ==
    ASSUME Init
    PROVE  Inv
    <1> DEFINE first == [cred |-> 1, n |-> 1]
    <1>1. /\ first \in Token /\ first # NoToken
          /\ NoToken \in Token /\ NoProvider \in ProviderRow /\ Fresh \in TaskState
        BY OAuthAssumption DEF Token, NoToken, NoProvider, ProviderRow, Fresh, TaskState, Stages
    <1>2. /\ provider \in ProviderRow /\ provider.rt = first /\ provider.status = "healthy"
          /\ provider.meta = 1
        BY <1>1 DEF Init, ProviderRow
    <1>3. /\ server \in [1..MaxCred -> 0..(MaxToken + 1)] /\ server[1] = 1 /\ issued = 1
          /\ issued \in 0..MaxToken
        BY OAuthAssumption DEF Init
    <1>4. row \in SharedRow /\ (row.at = NoToken \/ row.at = first)
        <2>1. CASE row = NoRow
            BY <1>1, <2>1 DEF NoRow, SharedRow
        <2>2. CASE row = [at |-> first, backoff |-> "none", due |-> FALSE]
            BY <1>1, <2>2 DEF SharedRow
        <2> QED
            BY <2>1, <2>2 DEF Init
    <1>5. TypeOK
        BY <1>1, <1>2, <1>3, <1>4 DEF Init, TypeOK, SharedRow
    <1>6. ASSUME NEW t \in Tasks
          PROVE  /\ task[t].pc = "idle" /\ task[t].prov = NoProvider /\ task[t].newrt = NoToken
        BY <1>6 DEF Init, Fresh
    <1>7. LocksAreHeld
        BY <1>6 DEF LocksAreHeld, LocalStages, LockedStages
    <1>8. \A t \in Tasks : TaskFits(task[t])
        BY <1>6 DEF TaskFits, OpFits, TokensFit, AnswerFits, SpendsCurrent, Spends,
           ValidUnlessLost, RereadIsCurrent, Pending, Known, Dead, NoProvider
    <1>9. RowsAreVersions
        <2>1. Rows \subseteq {provider, NoProvider}
            BY <1>6 DEF Rows
        <2>2. NoProvider.meta = 0
            BY DEF NoProvider
        <2> QED
            BY <1>2, <2>1, <2>2 DEF RowsAreVersions
    <1>10. PendingIsPrivate
        BY <1>6 DEF PendingIsPrivate, Pending
    <1>11. StoredFits
        BY <1>2, <1>3, OAuthAssumption DEF StoredFits, StoredIsValid, Known, Creds, Valid
    <1>12. NoReuseWithoutLoss /\ SharedRowMatchesCredential
        BY <1>2, <1>4 DEF Init, NoReuseWithoutLoss, SharedRowMatchesCredential
    <1> QED
        BY <1>5, <1>7, <1>8, <1>9, <1>10, <1>11, <1>12 DEF Inv

LEMMA StutterKeepsInv ==
    ASSUME Inv, UNCHANGED vars
    PROVE  Inv'
    <1>1. UNCHANGED <<scenario, provider, row, cache, local, adv, server, issued, expired, task, ghost>>
        BY DEF vars
    <1>2. TypeOK' /\ LocksAreHeld' /\ RowsAreVersions' /\ PendingIsPrivate'
        BY <1>1 DEF Inv, TypeOK, LocksAreHeld, Here, RowsAreVersions, PendingIsPrivate, Rows, Pending
    <1>3. ASSUME NEW t \in Tasks
          PROVE  TaskFits(task[t])'
        <2>1. PICK r : r = task[t]
            OBVIOUS
        <2>2. TaskFits(r)'
            BY <1>1, <2>1, SameShared DEF Inv
        <2> QED
            BY <1>1, <2>1, <2>2
    <1>4. StoredFits' /\ NoReuseWithoutLoss' /\ SharedRowMatchesCredential'
        BY <1>1 DEF Inv, StoredFits, StoredIsValid, Known, Creds, Dead, Valid, Rotated,
           NoReuseWithoutLoss, SharedRowMatchesCredential, Replacing
    <1> QED
        BY <1>2, <1>3, <1>4 DEF Inv

\* Every step of the code keeps the invariant.
LEMMA StepKeepsInv ==
    ASSUME Inv, [Next]_vars
    PROVE  Inv'
    <1>1. ASSUME NEW t \in Tasks, StartStep(t), scenario' = scenario
          PROVE  Inv'
        BY <1>1, StartsKeepInv, ExchangeKeepsInv DEF StartStep
    <1>2. ASSUME NEW t \in Tasks, TaskStep(t)
          PROVE  Inv'
        <2>1. WorkStep(t) /\ scenario' = scenario
            BY <1>2 DEF TaskStep
        <2>2. ASSUME NEW rotate \in BOOLEAN, Grant(t, rotate)
              PROVE  Inv'
            BY <2>1, <2>2, GrantKeepsInv
        <2> QED
            BY <2>1, <2>2, EndingsKeepInv, WaitsKeepInv, SubmitKeepsInv, FailuresKeepInv,
               WriteBackKeepsInv, SetStatusKeepsInv, PersistKeepsInv,
               MutateKeepsInv, ResetKeepsInv DEF WorkStep
    <1>3. ASSUME Environment, scenario' = scenario
          PROVE  Inv'
        BY <1>3, EndingsKeepInv, CrashKeepsInv, OutsideKeepsInv DEF Environment
    <1>4. ASSUME UNCHANGED vars
          PROVE  Inv'
        BY <1>4, StutterKeepsInv
    <1> QED
        BY <1>1, <1>2, <1>3, <1>4 DEF Next, Finished

LEMMA InvHolds == Spec => []Inv
    BY InitInv, StepKeepsInv, PTL DEF Spec

\* However many instances and tasks share a credential, its refresh token is
\* spent by one task at a time, and a revoked one is submitted only after a loss
\* or a stale edit (refresh_coordinated).
THEOREM SpentByOne == Spec => []GrantsAreSingle
    <1>1. Inv => GrantsAreSingle
        BY Exclusion DEF GrantsAreSingle, SingleGrant, Granting, LockedStages, Inv
    <1> QED
        BY <1>1, InvHolds, PTL

\* A provider is called invalid only while its row holds a token that the server
\* does not honour or once answered with a 401 or 403, never for a token that was
\* replaced since, and the shared access token is one of the provider's own
\* credential (classify_refresh_failure, record_refresh_failure,
\* mutate_credentials_locked).
THEOREM TablesTellTheTruth == Spec => []CredentialStateIsTrue
    <1>1. Inv => CredentialStateIsTrue
        BY SMTT(60) DEF CredentialStateIsTrue, InvalidStatusIsTrue, Inv, StoredFits, Dead
    <1> QED
        BY <1>1, InvHolds, PTL

-----------------------------------------------------------------------------
(* What a step may never do.                                               *)

\* Which steps change the stored refresh token.
LEMMA TokenChanges ==
    ASSUME Inv, [Next]_vars, provider'.rt # provider.rt
    PROVE  \E t \in Tasks : WriteBack(t) \/ Persist(t) \/ Mutate(t)
    <1>1. ASSUME UNCHANGED provider
          PROVE  FALSE
        BY <1>1
    <1>2. ~Environment /\ ~Finished /\ ~(UNCHANGED vars)
        BY <1>1, ZenonT(60) DEF Environment, Cancel, Crash, Revoke, Expire, TimePasses, Finished, vars
    <1>3. PICK t \in Tasks : TaskStep(t)
        BY <1>1, <1>2, ZenonT(60) DEF Next, StartStep, StartRequest, StartLocked, start_oauth, callback_oauth,
           exchange_code, StartEdit
    <1>4. ~SetStatus(t)
        BY <1>3, SetStatusKeepsInv DEF TaskStep
    <1>5. WorkStep(t)
        BY <1>3 DEF TaskStep
    <1> QED
        BY <1>1, <1>4, <1>5 DEF WorkStep, Accepted, Unauthorized, ReadShared,
           SeedShared, SharedUnusable, AcquireLocal, TryAdvisory, GiveUpAdvisory, ReuseUnderLock,
           Defer, NoRefreshToken, Submit, Grant, Reject, Unreachable, AnswerLost, PersistFails,
           SeedResult, RecordFailure, Preflight, Reset, ResetFails, Invalidate

LEMMA RotationStep ==
    ASSUME Inv, [Next]_vars, provider'.rt # provider.rt
    PROVE  \/ Superseded \/ ghost.stale_edit
           \/ \E t \in Tasks : task[t].pc = "edit" /\ task'[t].pc = "done"
    <1>1. PICK t \in Tasks : WriteBack(t) \/ Persist(t) \/ Mutate(t)
        BY TokenChanges
    <1>2. task[t] \in TaskState /\ task \in [Tasks -> TaskState] /\ TaskFits(task[t])
        BY Types
    <1>3. CASE WriteBack(t)
        <2>1. task[t].pc = "edit" /\ task'[t].pc = "done"
            BY <1>2, <1>3 DEF WriteBack, End, Fresh
        <2> QED
            BY <2>1
    <1>4. CASE Mutate(t)
        <2>1. /\ task[t].pc = "mutate" /\ task[t].op = "mutate" /\ task'[t].pc = "reset"
            BY <1>2, <1>4 DEF Mutate, Goto, TaskState, TaskFits, OpFits
        <2> QED
            BY <2>1 DEF Superseded, Installs
    <1>5. CASE Persist(t)
        <2>1. task[t].pc = "answered" /\ task'[t].pc = "seed" /\ provider'.rt = task[t].newrt
            BY <1>2, <1>5 DEF Persist, Goto, TaskState
        <2>2. CASE task[t].op = "install"
            BY <2>1, <2>2 DEF Superseded, Installs
        <2>3. CASE task[t].op # "install"
            <3>1. \/ task[t].newrt = task[t].prov.rt
                  \/ /\ task[t].newrt.cred = task[t].prov.rt.cred
                     /\ task[t].newrt.n > task[t].prov.rt.n
                BY <1>2, <2>1, <2>3 DEF TaskFits, AnswerFits
            <3>2. ghost.stale_edit \/ task[t].prov.rt = provider.rt
                BY <1>2, <2>1, <2>3 DEF TaskFits, SpendsCurrent, Spends
            <3> QED
                BY <2>1, <3>1, <3>2 DEF Superseded
        <2> QED
            BY <2>2, <2>3
    <1> QED
        BY <1>1, <1>3, <1>4, <1>5

\* Only Submit spends a refresh token.
LEMMA OthersDoNotSpend ==
    ASSUME Inv, NEW t \in Tasks, StartStep(t) \/ WorkStep(t), ~Submit(t)
    PROVE  Alone(t) /\ task'[t].pc # "grant"
    <1>1. task[t] \in TaskState /\ task \in [Tasks -> TaskState] /\ TaskFits(task[t])
        BY Types
    <1>2. ASSUME Ends(t)
          PROVE  Alone(t) /\ task'[t].pc # "grant"
        BY <1>2, EndFits
    <1>3. CASE StartStep(t)
        <2>1. CASE callback_oauth(t)
            BY <1>1, <1>2, <2>1 DEF callback_oauth, Goto, Alone, Ends, TaskState
        <2>2. CASE StartRequest(t)
            BY <1>1, <2>2 DEF StartRequest, Alone, TaskState
        <2>3. CASE exchange_code(t)
            BY <1>1, <1>2, <2>3 DEF exchange_code, parse_token_response, Alone, Ends, TaskState
        <2> QED
            BY <1>1, <1>3, <2>1, <2>2, <2>3 DEF StartStep, StartLocked, start_oauth, StartEdit, Alone, TaskState
    <1>4. CASE \/ Accepted(t) \/ SeedShared(t) \/ GiveUpAdvisory(t) \/ ReuseUnderLock(t)
               \/ Defer(t) \/ NoRefreshToken(t) \/ PersistFails(t) \/ SeedResult(t)
               \/ Preflight(t) \/ ResetFails(t) \/ Invalidate(t) \/ SetStatus(t) \/ WriteBack(t)
        <2>1. task[t].seen \in Token /\ task[t].at \in Token /\ row.at \in Token
            BY Types
        <2>2. Ends(t)
            BY <1>4, <2>1 DEF Accepted, SeedShared, GiveUpAdvisory, ReuseUnderLock, Defer, NoRefreshToken,
               PersistFails, SeedResult, Preflight, ResetFails, Invalidate, SetStatus, WriteBack, Ends
        <2> QED
            BY <1>2, <2>2
    <1>5. CASE Unauthorized(t)
        BY <1>1, <1>5 DEF Unauthorized, Alone, Fresh
    <1>7. CASE ReadShared(t) \/ SharedUnusable(t)
        BY <1>1, <1>7 DEF ReadShared, SharedUnusable, Goto, Coordinate, Alone, TaskState
    <1>8. CASE AcquireLocal(t)
        <2>1. task[t].op \in Operations \ {"edit"}
            BY <1>1, <1>8 DEF AcquireLocal, TaskFits, OpFits
        <2> DEFINE next == CASE task[t].op \in IfNeeded -> "recheck"
                      [] task[t].op \in {"force", "keepalive"} -> Coordinate
                      [] task[t].op = "mutate" -> IF scenario.kind = "postgres" THEN "tx" ELSE "mutate"
                      [] task[t].op = "install" -> install_tokens
        <2>2. next # "grant"
            BY <2>1 DEF Operations, RefreshOps, IfNeeded, Coordinate, install_tokens
        <2>3. task' = [task EXCEPT ![t].pc = next, ![t].prov = provider]
            BY <1>8 DEF AcquireLocal
        <2> HIDE DEF next
        <2> QED
            BY <1>1, <2>2, <2>3 DEF Alone, TaskState
    <1>9. CASE TryAdvisory(t)
        <2> DEFINE next == CASE task[t].op = "mutate" -> "mutate"
                             [] task[t].op = "install" -> "answered"
                             [] OTHER -> "decide"
        <2>1. next # "grant"
            OBVIOUS
        <2>2. task' = [task EXCEPT ![t].pc = next]
            BY <1>9 DEF TryAdvisory, Goto
        <2> HIDE DEF next
        <2> QED
            BY <1>1, <2>1, <2>2 DEF Alone, TaskState
    <1>10. CASE \E rotate \in BOOLEAN : Grant(t, rotate)
        BY <1>1, <1>10 DEF Grant, Alone, TaskState
    <1>11. CASE \/ Reject(t) \/ Unreachable(t) \/ AnswerLost(t) \/ Persist(t) \/ RecordFailure(t)
                \/ Mutate(t) \/ Reset(t)
        BY <1>1, <1>11 DEF Reject, Unreachable, AnswerLost, Persist, RecordFailure, Mutate, Reset,
           Goto, Alone, TaskState
    <1> QED
        BY <1>3, <1>4, <1>5, <1>7, <1>8, <1>9, <1>10, <1>11 DEF WorkStep

LEMMA RefreshStep ==
    ASSUME Inv, [Next]_vars, NEW t \in Tasks, task[t].op \in IfNeeded,
           task[t].pc # "grant", task'[t].pc = "grant"
    PROVE  ~Usable(row.at, task[t].rejected)
    <1>1. Submit(t)
        <2>1. task'[t] # task[t]
            OBVIOUS
        <2>2. PICK s \in Tasks : StartStep(s) \/ WorkStep(s) \/ Cancel(s) \/ \E i \in Instances : Crash(i)
            BY <2>1 DEF Next, TaskStep, Environment, Revoke, Expire, TimePasses, Finished, vars
        <2>3. ASSUME Cancel(s)
              PROVE  FALSE
            <3>1. Ends(s)
                BY <2>3 DEF Cancel, Ends
            <3> QED
                BY <2>1, <3>1, EndFits DEF Alone
        <2>4. ASSUME NEW i \in Instances, Crash(i)
              PROVE  FALSE
            <3>1. task'[t] = [Fresh EXCEPT !.op = task[t].op, !.pc = "done"]
                BY <2>1, <2>4 DEF Crash
            <3> QED
                BY <3>1 DEF Fresh
        <2>5. Submit(s)
            BY <2>1, <2>2, <2>3, <2>4, OthersDoNotSpend DEF Alone
        <2>6. Alone(s)
            BY <2>5, Types DEF Submit, Alone
        <2> QED
            BY <2>1, <2>5, <2>6 DEF Alone
    <1>2. task[t].pc = "decide" /\ ~SharedUsable(t) /\ TaskFits(task[t])
          /\ scenario.kind \in {"sqlite", "postgres"}
        BY <1>1, Types DEF Submit
    <1> QED
        BY <1>2 DEF SharedUsable, TaskFits, RereadIsCurrent

\* Neither a refresh nor the report of a failure undoes a rotation or brings a
\* replaced credential back, and no request spends the refresh token while the
\* shared row has an access token it could use (persist_token_result,
\* record_refresh_failure, refresh_coordinated).
THEOREM RefreshesKeepToTheirOrder == Spec => RefreshesAreSound
    <1>1. ASSUME Inv, [Next]_vars
          PROVE  /\ [provider'.rt # provider.rt =>
                       \/ Superseded \/ ghost.stale_edit
                       \/ \E t \in Tasks : task[t].pc = "edit" /\ task'[t].pc = "done"]_vars
                 /\ [\A t \in Tasks :
                       task[t].op \in IfNeeded /\ task[t].pc # "grant" /\ task'[t].pc = "grant"
                          => ~Usable(row.at, task[t].rejected)]_vars
        BY <1>1, RotationStep, RefreshStep
    <1> QED
        BY <1>1, InvHolds, PTL DEF Spec, RefreshesAreSound, RotationUndoneOnlyByEdit,
           NoNeedlessRefresh

=============================================================================
