---------------------------- MODULE OAuthRefresh ----------------------------
(***************************************************************************)
(* The OAuth token lifecycle of one provider credential:                   *)
(* crates/server/src/oauth_manager.rs over crates/store/src/oauth_token.rs *)
(* and the cache of crates/auth/src/provider_oauth.rs.                     *)
(*                                                                         *)
(* Gateway instances share one database.  In each of them tasks (requests, *)
(* recoveries from a 401, the keepalive worker, the admin's refresh, edit  *)
(* and reconnect) use and renew the access token.  A step is what a task   *)
(* does between two awaits at which another task can change what it uses.  *)
(* The authorization server rotates refresh tokens: it revokes the one it  *)
(* is given.  Tokens are numbered in the order in which they are issued    *)
(* and carry the credential (the login) they descend from; every credential*)
(* of the provider has the same cache label.  A version of the metadata    *)
(* stands for its ciphertext, which is different for every encryption.     *)
(***************************************************************************)
EXTENDS Naturals, FiniteSetsExt

CONSTANTS
  Instances,
  Tasks,
  Scenarios,     \* deployments, with the operations and faults to consider
  MaxToken,      \* bound on the tokens issued
  MaxCred,       \* bound on the credentials created
  None           \* no task

RefreshOps == {"request", "recover", "force", "keepalive"}
IfNeeded == {"request", "recover"}
Operations == RefreshOps \cup {"mutate", "install", "edit"}
Faults == {"unreachable", "answer_lost", "refused", "database", "cancel", "crash", "revoke"}

ASSUME OAuthAssumption ==
  /\ Scenarios \subseteq [kind : {"sqlite", "postgres"},   \* OAuthTokenStore::kind
                          home : [Tasks -> Instances],     \* who runs a task
                          ops : SUBSET Operations, faults : SUBSET Faults]
  \* Instances can share a database only with PostgreSQL.
  /\ \A d \in Scenarios : d.kind = "sqlite" =>
       \A s, t \in Tasks : d.home[s] = d.home[t]
  /\ MaxToken \in Nat \ {0} /\ MaxCred \in Nat \ {0}
  /\ None \notin Tasks

NoToken == [cred |-> 0, n |-> 0]
Token == [cred : 0..MaxCred, n : 0..MaxToken]

VARIABLES
  scenario,   \* the one of this behaviour
  provider,   \* providers row: refresh token, status, version of the metadata
  row,        \* oauth_access_tokens row of the provider
  cache,      \* OAuthTokenCache of every instance
  local,      \* local_refresh_locks: the holder, per instance
  adv,        \* holder of the PostgreSQL advisory lock
  server,     \* authorization server: valid refresh token of every credential
  issued,     \* number of the last token issued
  expired,    \* access tokens past their expiry (less the leeway)
  task,       \* locals of every task
  ghost       \* what the properties remember of the past:
              \*   lost: a rotated token never reached the provider's row,
              \*   reused: a token that the server refuses was submitted,
              \*   interrupted: an edit of the credential stopped half way,
              \*   stale_edit: another edit wrote an older token back,
              \*   refused: valid tokens to which the server answered as if not

vars == <<scenario, provider, row, cache, local, adv, server, issued, expired, task, ghost>>

NoRow == [at |-> NoToken, backoff |-> "none", due |-> TRUE]

NoProvider == [rt |-> NoToken, status |-> "healthy", meta |-> 0]

Fresh == [op |-> "none", pc |-> "idle", rejected |-> NoToken,
          seen |-> NoToken, prov |-> NoProvider, at |-> NoToken,
          newrt |-> NoToken, failure |-> "none"]

Init ==
  LET first == [cred |-> 1, n |-> 1] IN
  /\ scenario \in Scenarios
  /\ provider = [rt |-> first, status |-> "healthy", meta |-> 1]
  /\ row \in {NoRow, [at |-> first, backoff |-> "none", due |-> FALSE]}
  /\ cache = [i \in Instances |-> NoToken]
  /\ local = [i \in Instances |-> None]
  /\ adv = None
  /\ server = [c \in 1..MaxCred |-> IF c = 1 THEN 1 ELSE 0]
  /\ issued = 1
  /\ expired = {}
  /\ task = [t \in Tasks |-> Fresh]
  /\ ghost = [lost |-> FALSE, reused |-> FALSE, interrupted |-> FALSE,
              stale_edit |-> FALSE, refused |-> {}]
-----------------------------------------------------------------------------
Here(t) == scenario.home[t]

\* shared_token_is_usable, and is_expiring of the local cache.
Usable(tok, rejected) == tok # NoToken /\ tok # rejected /\ tok \notin expired

BackoffActive == row.backoff # "none"

Creds == {c \in 1..MaxCred : server[c] # 0}

\* Another login at the authorization server, with its first tokens.
NextCred == 1 + CHOOSE c \in Creds : \A d \in Creds : d <= c
CanLogIn == NextCred <= MaxCred /\ issued < MaxToken
LogIn == /\ server' = [server EXCEPT ![NextCred] = issued + 1]
         /\ issued' = issued + 1
NewLogin == [cred |-> NextCred, n |-> issued + 1]

\* A plausible slip: the lock of the instance outlives the task.
BugRelease(t) == local' = local /\ adv' = IF adv = t THEN None ELSE adv

\* A task ends: its guard of the local lock and its transaction are dropped.
Release(t) ==
  /\ local' = [i \in Instances |-> IF local[i] = t THEN None ELSE local[i]]
  /\ adv' = IF adv = t THEN None ELSE adv

End(t) == task' = [task EXCEPT ![t] = [Fresh EXCEPT !.op = task[t].op, !.pc = "done"]]

\* The token is in the cache: a request sends it upstream.
EndWithToken(t, tok) ==
  IF task[t].op = "request"
  THEN task' = [task EXCEPT ![t] = [Fresh EXCEPT !.op = "request", !.pc = "sent", !.at = tok]]
  ELSE End(t)

\* try_keepalive_provider goes on after an error.
EndWithError(t) ==
  IF task[t].op = "keepalive"
  THEN task' = [task EXCEPT ![t] = [Fresh EXCEPT !.op = "keepalive", !.pc = "preflight"]]
  ELSE End(t)

Goto(t, pc) == task' = [task EXCEPT ![t].pc = pc]
-----------------------------------------------------------------------------
(* Entry points.                                                           *)

\* apply: the zero-I/O fast path, or on to ensure_provider_token.
StartRequest(t) ==
  /\ task[t].pc = "idle" /\ "request" \in scenario.ops
  /\ LET cached == cache[Here(t)] IN
     task' = [task EXCEPT ![t].op = "request",
                          ![t].pc = IF Usable(cached, NoToken) THEN "sent" ELSE "peek",
                          ![t].at = IF Usable(cached, NoToken) THEN cached ELSE NoToken]
  /\ UNCHANGED <<provider, row, cache, local, adv, server, issued, expired, ghost>>

\* The upstream takes the access token.
Accepted(t) ==
  /\ task[t].pc = "sent" /\ End(t)
  /\ UNCHANGED <<provider, row, cache, local, adv, server, issued, expired, ghost>>

\* It answers 401: refresh_after_unauthorized.
Unauthorized(t) ==
  /\ task[t].pc = "sent" /\ "recover" \in scenario.ops
  /\ LET rejected == task[t].at
         cached == cache[Here(t)]
         replaced == cached # NoToken /\ cached # rejected
     IN  /\ task' = [task EXCEPT ![t] =
              [Fresh EXCEPT !.op = "recover", !.pc = IF replaced THEN "done" ELSE "peek",
                            !.rejected = IF replaced THEN NoToken ELSE rejected]]
         /\ cache' = [cache EXCEPT ![Here(t)] = IF @ = rejected THEN NoToken ELSE @]
  /\ UNCHANGED <<provider, row, local, adv, server, issued, expired, ghost>>

\* force_refresh, try_keepalive_provider of the worker, mutate_provider_credentials.
StartLocked(t, op) ==
  /\ task[t].pc = "idle" /\ op \in scenario.ops
  /\ op = "keepalive" => row.due /\ ~BackoffActive    \* list_due_provider_ids
  /\ task' = [task EXCEPT ![t].op = op, ![t].pc = "lock"]
  /\ UNCHANGED <<provider, row, cache, local, adv, server, issued, expired, ghost>>

\* The admin's login: start_oauth leaves the verifier in the memory of this
\* instance, under a fresh state, for as long as the operator likes.
start_oauth(t) ==
  /\ task[t].pc = "idle" /\ "install" \in scenario.ops
  /\ task' = [task EXCEPT ![t].op = "install", ![t].pc = "flow"]
  /\ UNCHANGED <<provider, row, cache, local, adv, server, issued, expired, ghost>>

\* The operator comes back.  The entry is taken out; a callback that lands on
\* another instance finds none.
callback_oauth(t) ==
  /\ task[t].pc = "flow"
  /\ \/ Goto(t, "exchange")
     \/ scenario.kind = "postgres" /\ End(t)
  /\ UNCHANGED <<provider, row, cache, local, adv, server, issued, expired, ghost>>

\* The tokens of an answer go on to install_tokens.  An answer that is lost, or
\* lacks the refresh token or the account, leaves the login with the server.
parse_token_response(t) ==
  \/ task' = [task EXCEPT ![t].pc = "lock", ![t].at = NewLogin, ![t].newrt = NewLogin]
  \/ "answer_lost" \in scenario.faults /\ End(t)

\* The client of the exchange has no timeout: a silent server keeps the task.
exchange_code(t) ==
  /\ task[t].pc = "exchange"
  /\ \/ CanLogIn /\ LogIn /\ parse_token_response(t)
     \/ /\ "unreachable" \in scenario.faults /\ End(t)
        /\ UNCHANGED <<server, issued>>
  /\ UNCHANGED <<provider, row, cache, local, adv, expired, ghost>>

\* An edit of the provider that leaves its credential alone takes no lock: it
\* reads the row and later writes it back, the metadata included.
StartEdit(t) ==
  /\ task[t].pc = "idle" /\ "edit" \in scenario.ops
  /\ task' = [task EXCEPT ![t].op = "edit", ![t].pc = "edit", ![t].prov = provider]
  /\ UNCHANGED <<provider, row, cache, local, adv, server, issued, expired, ghost>>

WriteBack(t) ==
  /\ task[t].pc = "edit"
  /\ provider' = task[t].prov
  /\ ghost' = [ghost EXCEPT !.stale_edit = @ \/ task[t].prov.rt # provider.rt]
  /\ End(t)
  /\ UNCHANGED <<row, cache, local, adv, server, issued, expired>>
-----------------------------------------------------------------------------
(* ensure_provider_token.                                                  *)

\* reuse_shared_token reads the row without any lock, three times: before the
\* local lock, under it, and while another instance holds the advisory lock.
ReadShared(t) ==
  /\ \/ task[t].pc = "peek"
     \/ task[t].pc = "recheck"
     \/ task[t].pc = "tx" /\ adv # None /\ task[t].op \in {"request", "recover", "force"}
  /\ task' = [task EXCEPT ![t].seen = row.at,
                          ![t].pc = CASE task[t].pc = "peek" -> "peeked"
                                      [] task[t].pc = "recheck" -> "rechecked"
                                      [] task[t].pc = "tx" -> "polled"]
  /\ UNCHANGED <<provider, row, cache, local, adv, server, issued, expired, ghost>>

\* seed_shared: the token that was read goes into the cache.
SeedShared(t) ==
  /\ task[t].pc \in {"peeked", "rechecked", "polled"}
  /\ Usable(task[t].seen, task[t].rejected)
  /\ cache' = [cache EXCEPT ![Here(t)] = task[t].seen]
  /\ Release(t) /\ EndWithToken(t, task[t].seen)
  /\ UNCHANGED <<provider, row, server, issued, expired, ghost>>

\* Where refresh_coordinated goes once it holds the local lock.
Coordinate == IF scenario.kind = "postgres" THEN "tx" ELSE "decide"

SharedUnusable(t) ==
  /\ task[t].pc \in {"peeked", "rechecked", "polled"}
  /\ ~Usable(task[t].seen, task[t].rejected)
  /\ Goto(t, IF task[t].pc = "peeked" THEN "lock" ELSE Coordinate)
  /\ UNCHANGED <<provider, row, cache, local, adv, server, issued, expired, ghost>>

\* install_tokens asks for the advisory lock only where there is one, and then
\* stores what it was given.
install_tokens == IF scenario.kind = "postgres" THEN "tx" ELSE "answered"

\* The lock of the instance; the provider is read under it.
AcquireLocal(t) ==
  /\ task[t].pc = "lock" /\ local[Here(t)] = None
  /\ local' = [local EXCEPT ![Here(t)] = t]
  /\ task' = [task EXCEPT
        ![t].pc = CASE task[t].op \in IfNeeded -> "recheck"
                    [] task[t].op \in {"force", "keepalive"} -> Coordinate
                    [] task[t].op = "mutate" -> IF scenario.kind = "postgres" THEN "tx" ELSE "mutate"
                    [] task[t].op = "install" -> install_tokens,
        ![t].prov = provider]
  /\ UNCHANGED <<provider, row, cache, adv, server, issued, expired, ghost>>

\* A plausible slip: the answer of pg_try_advisory_xact_lock is ignored.
BugTryAdvisory(t) ==
  /\ task[t].pc = "tx"
  /\ adv' = t
  /\ Goto(t, CASE task[t].op = "mutate" -> "mutate"
               [] task[t].op = "install" -> "answered"
               [] OTHER -> "decide")
  /\ UNCHANGED <<provider, row, cache, local, server, issued, expired, ghost>>

\* try_begin_postgres_refresh.
TryAdvisory(t) ==
  /\ task[t].pc = "tx" /\ adv = None
  /\ adv' = t
  /\ Goto(t, CASE task[t].op = "mutate" -> "mutate"
               [] task[t].op = "install" -> "answered"
               [] OTHER -> "decide")
  /\ UNCHANGED <<provider, row, cache, local, server, issued, expired, ghost>>

\* REFRESH_LOCK_WAIT has passed; the keepalive worker does not wait at all.
GiveUpAdvisory(t) ==
  /\ \/ task[t].pc = "polled" /\ ~Usable(task[t].seen, task[t].rejected)
     \/ task[t].pc = "tx" /\ adv # None /\ task[t].op \in {"keepalive", "mutate", "install"}
  /\ Release(t) /\ End(t)
  /\ UNCHANGED <<provider, row, cache, server, issued, expired, ghost>>
-----------------------------------------------------------------------------
(* refresh_coordinated, holding the lock or locks.                         *)

\* The provider whose token is spent: with PostgreSQL read in the transaction.
CurrentProvider(t) == IF scenario.kind = "postgres" THEN provider ELSE task[t].prov

\* The second look at the row; SQLite's was ReadShared, under the local lock.
SharedUsable(t) == /\ scenario.kind = "postgres" /\ task[t].op \in IfNeeded
                   /\ Usable(row.at, task[t].rejected)
Deferred(t) == /\ task[t].op # "force"
               /\ BackoffActive \/ (task[t].op = "keepalive" /\ ~row.due)

ReuseUnderLock(t) ==
  /\ task[t].pc = "decide" /\ SharedUsable(t)
  /\ cache' = [cache EXCEPT ![Here(t)] = row.at]
  /\ Release(t) /\ EndWithToken(t, row.at)
  /\ UNCHANGED <<provider, row, server, issued, expired, ghost>>

\* Backed off: an error to a request, a skip for the worker; or not yet due.
Defer(t) ==
  /\ task[t].pc = "decide" /\ ~SharedUsable(t) /\ Deferred(t)
  /\ Release(t) /\ End(t)
  /\ UNCHANGED <<provider, row, cache, server, issued, expired, ghost>>

NoRefreshToken(t) ==
  /\ task[t].pc = "decide" /\ ~SharedUsable(t) /\ ~Deferred(t)
  /\ CurrentProvider(t).rt = NoToken
  /\ Release(t) /\ EndWithError(t)
  /\ UNCHANGED <<provider, row, cache, server, issued, expired, ghost>>

Submit(t) ==
  /\ task[t].pc = "decide" /\ ~SharedUsable(t) /\ ~Deferred(t)
  /\ CurrentProvider(t).rt # NoToken
  /\ task' = [task EXCEPT ![t].pc = "grant", ![t].prov = CurrentProvider(t)]
  /\ UNCHANGED <<provider, row, cache, local, adv, server, issued, expired, ghost>>
-----------------------------------------------------------------------------
(* perform_refresh, persist_token_result and record_refresh_failure.       *)

Valid(tok) == server[tok.cred] = tok.n

\* A new ciphertext: none that anybody remembers.
NextMeta == 1 + Max({provider.meta} \cup {task[t].prov.meta : t \in Tasks})

\* The answer t waits for or holds replaces the token it spent.
Rotated(t) == task[t].pc = "answered" /\ task[t].op # "install" /\ task[t].newrt # task[t].prov.rt

\* The authorization server honours the grant; a rotated token replaces the
\* one submitted, which is revoked.
Grant(t, rotate) ==
  /\ task[t].pc = "grant" /\ Valid(task[t].prov.rt) /\ issued < MaxToken
  /\ LET c == task[t].prov.rt.cred
         new == [cred |-> c, n |-> issued + 1]
     IN  /\ issued' = issued + 1
         /\ server' = IF rotate THEN [server EXCEPT ![c] = issued + 1] ELSE server
         /\ task' = [task EXCEPT ![t].pc = "answered", ![t].at = new,
                                 ![t].newrt = IF rotate THEN new ELSE task[t].prov.rt]
  /\ UNCHANGED <<provider, row, cache, local, adv, expired, ghost>>

\* classify_refresh_failure takes an answer for the credential's rejection by
\* its text: invalid_grant, because the token was spent before, but any 401 or
\* 403 as well, which a server may give to a token it still honours.
Reject(t) ==
  /\ task[t].pc = "grant"
  /\ \/ /\ ~Valid(task[t].prov.rt)
        /\ ghost' = [ghost EXCEPT !.reused = TRUE]
     \/ /\ "refused" \in scenario.faults /\ Valid(task[t].prov.rt)
        /\ ghost' = [ghost EXCEPT !.refused = @ \cup {task[t].prov.rt}]
  /\ task' = [task EXCEPT ![t].pc = "failed", ![t].failure = "invalid"]
  /\ UNCHANGED <<provider, row, cache, local, adv, server, issued, expired>>

Unreachable(t) ==
  /\ "unreachable" \in scenario.faults
  /\ task[t].pc = "grant"
  /\ task' = [task EXCEPT ![t].pc = "failed", ![t].failure = "transient"]
  /\ UNCHANGED <<provider, row, cache, local, adv, server, issued, expired, ghost>>

\* The answer of the server does not arrive within token_request_timeout.
AnswerLost(t) ==
  /\ "answer_lost" \in scenario.faults
  /\ task[t].pc = "answered" /\ task[t].op # "install"
  /\ task' = [task EXCEPT ![t].pc = "failed", ![t].failure = "transient"]
  /\ ghost' = [ghost EXCEPT !.lost = @ \/ Rotated(t)]
  /\ UNCHANGED <<provider, row, cache, local, adv, server, issued, expired>>

\* commit_success: both tokens in one transaction, which the advisory lock ends with.
Persist(t) ==
  /\ task[t].pc = "answered"
  /\ provider' = [rt |-> task[t].newrt, status |-> "healthy", meta |-> NextMeta]
  /\ row' = [at |-> task[t].at, backoff |-> "none", due |-> FALSE]
  /\ adv' = IF adv = t THEN None ELSE adv
  /\ Goto(t, "seed")
  /\ UNCHANGED <<cache, local, server, issued, expired, ghost>>

PersistFails(t) ==
  /\ "database" \in scenario.faults
  /\ task[t].pc = "answered"
  /\ ghost' = [ghost EXCEPT !.lost = @ \/ Rotated(t)]
  /\ Release(t) /\ EndWithError(t)
  /\ UNCHANGED <<provider, row, cache, server, issued, expired>>

SeedResult(t) ==
  /\ task[t].pc = "seed"
  /\ cache' = [cache EXCEPT ![Here(t)] = task[t].at]
  /\ Release(t) /\ EndWithToken(t, task[t].at)
  /\ UNCHANGED <<provider, row, server, issued, expired, ghost>>

\* The access token stays; the next automatic attempt is put off.
RecordFailure(t) ==
  /\ task[t].pc = "failed"
  /\ \/ row' = [row EXCEPT !.backoff = task[t].failure]
     \/ "database" \in scenario.faults /\ row' = row
  /\ adv' = IF adv = t THEN None ELSE adv
  /\ Goto(t, "status")
  /\ UNCHANGED <<provider, cache, local, server, issued, expired, ghost>>

\* A plausible slip: the status is patched without the comparison.
BugMetaUnchanged(t) == TRUE

MetaUnchanged(t) == provider.meta = task[t].prov.meta

FailureStatus(t) == IF task[t].failure = "invalid" THEN "invalid" ELSE "error"

\* set_provider_oauth_status_if_unchanged writes the metadata as it was read,
\* the refresh token included, with a new status.
SetStatus(t) ==
  /\ task[t].pc = "status"
  /\ provider' = IF MetaUnchanged(t)
                 THEN [rt |-> task[t].prov.rt, status |-> FailureStatus(t), meta |-> NextMeta]
                 ELSE provider
  /\ Release(t) /\ EndWithError(t)
  /\ UNCHANGED <<row, cache, server, issued, expired, ghost>>

\* ensure_keepalive_preflight_backoff: only for a provider without a token.
Preflight(t) ==
  /\ task[t].pc = "preflight" /\ local[Here(t)] = None
  /\ row' = IF adv = None /\ provider.rt = NoToken /\ ~BackoffActive
            THEN [row EXCEPT !.backoff = "transient"] ELSE row
  /\ End(t)
  /\ UNCHANGED <<provider, cache, local, adv, server, issued, expired, ghost>>
-----------------------------------------------------------------------------
(* mutate_credentials_locked.                                              *)

\* The admin's write of the provider, on a connection of its own.
Mutate(t) ==
  /\ task[t].pc = "mutate"
  /\ \/ /\ CanLogIn /\ LogIn
        /\ provider' = [rt |-> NewLogin, status |-> "healthy", meta |-> NextMeta]
     \/ /\ provider' = [rt |-> NoToken, status |-> "healthy", meta |-> NextMeta]
        /\ UNCHANGED <<server, issued>>
     \/ "database" \in scenario.faults /\ UNCHANGED <<provider, server, issued>>
  /\ Goto(t, "reset")
  /\ UNCHANGED <<row, cache, local, adv, expired, ghost>>

\* A plausible slip: the row survives the edit.
BugReset(t) ==
  /\ task[t].pc = "reset"
  /\ adv' = IF adv = t THEN None ELSE adv
  /\ Goto(t, "invalidate")
  /\ UNCHANGED <<provider, row, cache, local, server, issued, expired, ghost>>

\* The deletion of the row is committed; the advisory lock is released.
Reset(t) ==
  /\ task[t].pc = "reset"
  /\ row' = NoRow
  /\ adv' = IF adv = t THEN None ELSE adv
  /\ Goto(t, "invalidate")
  /\ UNCHANGED <<provider, cache, local, server, issued, expired, ghost>>

\* The row stays; the error leaves the cache alone as well.
ResetFails(t) ==
  /\ "database" \in scenario.faults
  /\ task[t].pc = "reset"
  /\ ghost' = [ghost EXCEPT !.interrupted = TRUE]
  /\ Release(t) /\ End(t)
  /\ UNCHANGED <<provider, row, cache, server, issued, expired>>

\* invalidate_provider, on this instance only.
Invalidate(t) ==
  /\ task[t].pc = "invalidate"
  /\ cache' = [cache EXCEPT ![Here(t)] = NoToken]
  /\ Release(t) /\ End(t)
  /\ UNCHANGED <<provider, row, server, issued, expired, ghost>>
-----------------------------------------------------------------------------
(* The environment.                                                        *)

\* What is lost when tasks disappear in the middle of their work.
Dropped(S) ==
  [ghost EXCEPT !.lost = @ \/ \E t \in S : Rotated(t),
                !.interrupted = @ \/ \E t \in S : task[t].pc = "reset"]

\* The task is dropped at an await: its client went away, or it was aborted.
Cancel(t) ==
  /\ "cancel" \in scenario.faults
  /\ task[t].pc \notin {"idle", "sent", "done"}
  /\ ghost' = Dropped({t})
  /\ Release(t) /\ End(t)
  /\ UNCHANGED <<provider, row, cache, server, issued, expired>>

\* The process dies: its tasks, its lock and its cache go; PostgreSQL rolls the
\* open transaction back.
Crash(i) ==
  /\ "crash" \in scenario.faults
  /\ LET S == {t \in Tasks : Here(t) = i /\ task[t].pc \notin {"idle", "done"}}
     IN  /\ S # {}
         /\ ghost' = Dropped(S)
         /\ task' = [t \in Tasks |->
                       IF t \in S THEN [Fresh EXCEPT !.op = task[t].op, !.pc = "done"]
                       ELSE task[t]]
         /\ adv' = IF adv \in S THEN None ELSE adv
  /\ local' = [local EXCEPT ![i] = None]
  /\ cache' = [cache EXCEPT ![i] = NoToken]
  /\ UNCHANGED <<provider, row, server, issued, expired>>

\* The authorization server stops honouring the login (expiry, logout elsewhere).
Revoke(c) ==
  /\ "revoke" \in scenario.faults
  /\ c = provider.rt.cred /\ Valid(provider.rt)
  /\ server' = [server EXCEPT ![c] = MaxToken + 1]
  /\ ghost' = [ghost EXCEPT !.lost = TRUE]
  /\ UNCHANGED <<provider, row, cache, local, adv, issued, expired, task>>

Expire(tok) ==
  /\ tok.n <= issued /\ tok \notin expired
  /\ tok \in {row.at} \cup {cache[i] : i \in Instances} /\ tok # NoToken
  /\ expired' = expired \cup {tok}
  /\ UNCHANGED <<provider, row, cache, local, adv, server, issued, task, ghost>>

\* next_retry_at or next_keepalive_at passes; a rejected credential waits for
\* ten years.
TimePasses ==
  /\ \/ row.backoff = "transient" /\ row' = [row EXCEPT !.backoff = "none"]
     \/ ~row.due /\ row' = [row EXCEPT !.due = TRUE]
  /\ UNCHANGED <<provider, cache, local, adv, server, issued, expired, task, ghost>>

StartStep(t) ==
  \/ StartRequest(t)
  \/ \E op \in {"force", "keepalive", "mutate"} : StartLocked(t, op)
  \/ start_oauth(t) \/ callback_oauth(t) \/ exchange_code(t) \/ StartEdit(t)

WorkStep(t) ==
  \/ Accepted(t) \/ Unauthorized(t)
  \/ ReadShared(t) \/ SeedShared(t) \/ SharedUnusable(t)
  \/ AcquireLocal(t) \/ TryAdvisory(t) \/ GiveUpAdvisory(t)
  \/ ReuseUnderLock(t) \/ Defer(t) \/ NoRefreshToken(t) \/ Submit(t)
  \/ \E rotate \in BOOLEAN : Grant(t, rotate)
  \/ Reject(t) \/ Unreachable(t) \/ AnswerLost(t)
  \/ Persist(t) \/ PersistFails(t) \/ SeedResult(t)
  \/ RecordFailure(t) \/ SetStatus(t) \/ Preflight(t)
  \/ Mutate(t) \/ Reset(t) \/ ResetFails(t) \/ Invalidate(t)
  \/ WriteBack(t)

TaskStep(t) == WorkStep(t) /\ UNCHANGED scenario

Environment ==
  \/ \E t \in Tasks : Cancel(t)
  \/ \E i \in Instances : Crash(i)
  \/ \E c \in 1..MaxCred : Revoke(c)
  \/ \E tok \in Token : Expire(tok)
  \/ TimePasses

\* Every task of this behaviour has ended.
Finished == (\A t \in Tasks : task[t].pc = "done") /\ UNCHANGED vars

Next ==
  \/ \E t \in Tasks : (StartStep(t) /\ UNCHANGED scenario) \/ TaskStep(t)
  \/ Environment /\ UNCHANGED scenario
  \/ Finished

Spec == Init /\ [][Next]_vars

\* The runtime polls every task that can go on; tokio's mutex is fair, the token
\* request of a refresh and the wait for the advisory lock have deadlines.  The
\* operator's part of a login and its exchange_code have none: StartStep is not fair.
FairSpec == Spec /\ \A t \in Tasks : WF_vars(TaskStep(t))
-----------------------------------------------------------------------------
Stages == {"idle", "sent", "peek", "peeked", "lock", "recheck", "rechecked",
           "tx", "polled", "decide", "grant", "answered", "seed", "failed", "status",
           "preflight", "mutate", "reset", "invalidate", "edit", "flow", "exchange", "done"}

ProviderRow == [rt : Token, status : {"healthy", "error", "invalid"}, meta : Nat]

TaskState ==
  [op : Operations \cup {"none"}, pc : Stages,
   rejected : Token, seen : Token, prov : ProviderRow,
   at : Token, newrt : Token, failure : {"none", "transient", "invalid"}]

\* Types of the tables, the caches, the locks and the tasks.
TypeOK ==
  /\ scenario \in Scenarios
  /\ provider \in ProviderRow
  /\ row \in [at : Token, backoff : {"none", "transient", "invalid"}, due : BOOLEAN]
  /\ cache \in [Instances -> Token]
  /\ local \in [Instances -> Tasks \cup {None}]
  /\ adv \in Tasks \cup {None}
  /\ server \in [1..MaxCred -> 0..(MaxToken + 1)]
  /\ issued \in 0..MaxToken
  /\ expired \subseteq Token
  /\ task \in [Tasks -> TaskState]
  /\ ghost \in [lost : BOOLEAN, reused : BOOLEAN, interrupted : BOOLEAN,
                stale_edit : BOOLEAN, refused : SUBSET Token]

Granting(t) == task[t].op \in RefreshOps /\ task[t].pc \in {"grant", "answered"}

\* Of all instances at most one task spends the credential's refresh token or
\* holds an answer that is not stored yet (refresh_coordinated).
SingleGrant == \A s, t \in Tasks : Granting(s) /\ Granting(t) => s = t

\* A refresh token that the server has revoked is submitted only if an answer
\* of the server was lost, the login was ended there or an edit put an older
\* token back: never because two tasks race.
NoReuseWithoutLoss == ghost.reused => ghost.lost \/ ghost.stale_edit

\* Refresh tokens are spent by one task at a time and never twice for want of a
\* lock (refresh_coordinated).
GrantsAreSingle == SingleGrant /\ NoReuseWithoutLoss

Installs(t) ==
  /\ task[t].op \in {"mutate", "install"} /\ task[t].pc \in {"mutate", "answered"}
  /\ task'[t].pc # task[t].pc

Superseded == \/ provider'.rt.cred = provider.rt.cred /\ provider'.rt.n > provider.rt.n
              \/ \E t \in Tasks : Installs(t)

\* A stored refresh token is replaced by a later one of the same login, or by
\* the administrator: neither a refresh nor the report of a failure undoes a
\* rotation, or brings back a credential that was replaced; only the edit that
\* takes no lock does, and a refresh that is under way when such an edit puts an
\* older credential back (persist_token_result, record_refresh_failure).
RotationUndoneOnlyByEdit ==
  [][provider'.rt # provider.rt =>
        \/ Superseded \/ ghost.stale_edit
        \/ \E t \in Tasks : task[t].pc = "edit" /\ task'[t].pc = "done"]_vars

\* A provider is reported invalid only while the refresh token in its row is
\* one that the server does not honour, or to which it gave a 401 or 403 all the
\* same: never for the refusal of a token that was replaced since
\* (classify_refresh_failure, set_provider_oauth_status_if_unchanged).
InvalidStatusIsTrue ==
  provider.status = "invalid" =>
    provider.rt # NoToken /\ (~Valid(provider.rt) \/ provider.rt \in ghost.refused)

Replacing(t) == task[t].op = "mutate" /\ task[t].pc = "reset"

\* Outside the critical section of a change of the credential that was not cut
\* short, the shared access token belongs to the provider's present credential
\* (mutate_credentials_locked), unless an edit put an older credential back.
SharedRowMatchesCredential ==
  \/ row.at = NoToken \/ row.at.cred = provider.rt.cred
  \/ ghost.interrupted \/ ghost.stale_edit \/ \E t \in Tasks : Replacing(t)

\* A request does not spend the refresh token while the shared row holds an
\* access token it could use, another instance's answer to the same 401 for one.
NoNeedlessRefresh ==
  [][\A t \in Tasks : task[t].op \in IfNeeded /\ task[t].pc # "grant" /\ task'[t].pc = "grant"
        => ~Usable(row.at, task[t].rejected)]_vars

\* Every task that was started ends: no lock is kept and nobody waits for ever,
\* but a login that waits for its operator or, without a timeout, for the token
\* endpoint (callback_oauth); it keeps nobody else waiting meanwhile.
EveryTaskEnds ==
  \A t \in Tasks : task[t].pc \notin {"idle", "flow", "exchange"} ~> task[t].pc = "done"

\* What the tables say of a credential is so: the status in the provider's row,
\* and whose access token the shared row holds.
CredentialStateIsTrue == TypeOK /\ InvalidStatusIsTrue /\ SharedRowMatchesCredential

\* No refresh undoes a rotation, and none is made for nothing.
RefreshesAreSound == RotationUndoneOnlyByEdit /\ NoNeedlessRefresh
=============================================================================
