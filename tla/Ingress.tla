------------------------------ MODULE Ingress -------------------------------
(***************************************************************************)
(* The HTTP handlers of the data plane, up to the call of an upstream: the *)
(* permit, the size limit, the API key, the decoder, the quota, the models *)
(* a key may use, the embedding cache, the route, and the one log event of *)
(* the request.  Every endpoint goes through these stages in an order of   *)
(* its own.  Several requests run at once; at every await the client may   *)
(* leave, an admin may change the key rows, and the tunables may be        *)
(* reloaded.  The upstream call itself is modules Fallback and Executor.   *)
(***************************************************************************)
EXTENDS Naturals, Sequences, FiniteSets

CONSTANTS
    Requests,       \* request ids
    Inputs,         \* what clients send: [end, cred, model, words, big, body]
    NoCred,         \* no credential in any of the three headers
    KeyIds, InitKeys,   \* rows of api_keys
    KeyEdits,       \* the admin requests of this instance
    Routed,         \* virtual models with a route
    Permits,        \* semaphore size, fixed at boot
    Tunables,       \* [inflight, depth, require]: what settings may say
    Absent, Anyone, \* no row; no restriction to models
    Blank,          \* a model name of blanks only
    MaxKeyEdits, MaxReloads, MaxFaults      \* bounds

Endpoints == {"chat", "messages", "embeddings", "responses", "gemini", "images", "edits"}

ASSUME PermitsAssumption == Permits \in Nat \ {0}
ASSUME InputsAssumption == \A in \in Inputs : in.end \in Endpoints

VARIABLES
    req,        \* request -> its handler
    log,        \* request -> statuses of its events, in order
    keys,       \* key id -> row
    used,       \* key id -> requests charged to its quota
    cache,      \* embedding entries: key -> whose answer it is
    tun,        \* the tunables in force
    granted,    \* history: requests that were allowed at some time they ran
    keyEdits, reloads, faults   \* what is left of the bounds

vars == <<req, log, keys, used, cache, tun, granted, keyEdits, reloads, faults>>
admin == <<keys, tun, keyEdits, reloads>>

-----------------------------------------------------------------------------
(* The handlers: which stages, in which order.  Of gemini, the path is     *)
(* taken apart before a permit is asked for.  Embeddings look into the     *)
(* cache before they decode; image edits are not decoded at all.           *)

handle_chat_completions == <<"permit", "limit", "auth", "decode", "policy", "route", "call">>
handle_messages == <<"permit", "auth", "decode", "policy", "route", "call">>
\* Mutant: the cache is asked before the key's policy.
EmbeddingsCacheFirst == <<"permit", "auth", "cache", "policy", "decode", "route", "call">>

handle_embeddings == <<"permit", "auth", "policy", "cache", "decode", "route", "call">>
handle_responses == <<"permit", "limit", "auth", "decode", "policy", "route", "call">>
handle_gemini_generate ==
    <<"path", "permit", "limit", "auth", "decode", "policy", "route", "call">>
handle_images_generations ==
    <<"permit", "limit", "auth", "decode", "policy", "route", "call">>
handle_images_edits == <<"permit", "limit", "auth", "policy", "route", "call">>

Handler(end) ==
    CASE end = "chat" -> handle_chat_completions
      [] end = "messages" -> handle_messages
      [] end = "embeddings" -> handle_embeddings
      [] end = "responses" -> handle_responses
      [] end = "gemini" -> handle_gemini_generate
      [] end = "images" -> handle_images_generations
      [] end = "edits" -> handle_images_edits

Anonymous == [id |-> Absent, allow |-> Anyone, quota |-> Absent]
Out == [life |-> "out"]

\* A handler starts with an armed scope: it has not emitted its event.
NewScope(in) ==
    [life |-> "in", in |-> in, todo |-> Handler(in.end), key |-> Anonymous,
     queued |-> FALSE, permit |-> FALSE, waiting |-> FALSE, answer |-> 0,
     hit |-> Absent]

In(q, stage) == req[q].life = "in" /\ Head(req[q].todo) = stage

-----------------------------------------------------------------------------
(* How a handler ends.  Returning drops the permit and the scope; a scope  *)
(* that is still armed emits the event of a client that left.              *)

DropStatus(q) == IF req[q].waiting THEN 499 ELSE 500

\* emit_ok, emit_error and emit_early_error file the status and disarm the
\* scope; the handler returns it to its client.
Replies(q, s) ==
    /\ req' = [req EXCEPT ![q].life = "answered", ![q].answer = s, ![q].permit = FALSE]
    /\ log' = [log EXCEPT ![q] = Append(@, s)]

GoesOn(q) ==
    /\ req' = [req EXCEPT ![q].todo = Tail(@)]
    /\ UNCHANGED log

Fault == faults > 0 /\ faults' = faults - 1
NoFault == UNCHANGED faults

\* The client leaves at an await: axum drops the handler.
Awaits == {"permit", "auth", "policy", "cache", "call"}
Dropped(q) ==
    /\ req[q].life = "in"
    /\ Head(req[q].todo) \in Awaits
    /\ req' = [req EXCEPT ![q].life = "left", ![q].permit = FALSE]
    /\ log' = [log EXCEPT ![q] = Append(@, DropStatus(q))]
    /\ UNCHANGED <<used, cache, granted, faults>> /\ UNCHANGED admin

-----------------------------------------------------------------------------
(* Who may use what.                                                       *)

find_api_key_by_secret(cred) == {k \in KeyIds : keys[k] # Absent /\ keys[k].hash = cred}

\* What the rows and the tunables say of a request now.
Entitled(in, rows, t) ==
    \/ ~t.require
    \/ \E k \in KeyIds :
          /\ rows[k] # Absent /\ rows[k].hash = in.cred /\ rows[k].active
          /\ rows[k].allow = Anyone \/ in.model \in rows[k].allow

\* Recorded at the arrival and whenever the rows or the tunables change.
Grants(rows, t) ==
    granted' = granted \cup {q \in Requests : req[q].life = "in" /\ Entitled(req[q].in, rows, t)}

Arrive(q, in) ==
    /\ req[q].life = "out"
    /\ req' = [req EXCEPT ![q] = NewScope(in)]
    /\ granted' = IF Entitled(in, keys, tun) THEN granted \cup {q} ELSE granted
    /\ UNCHANGED <<log, used, cache, faults>> /\ UNCHANGED admin

-----------------------------------------------------------------------------
(* The stages.                                                             *)

\* A capture with an unknown method, or with a colon in the model.
split_gemini_capture(q) ==
    /\ In(q, "path")
    /\ IF req[q].in.body = "badpath" THEN Replies(q, 400) ELSE GoesOn(q)
    /\ UNCHANGED <<used, cache, granted, faults>> /\ UNCHANGED admin

Holders == {q \in Requests : req[q].life = "in" /\ req[q].permit}
Available == Permits - Cardinality(Holders)

\* What the code calls waiting: the inflight limit of the settings less the
\* permits that are free in a semaphore sized at boot.
Waiting == IF tun.inflight > Available THEN tun.inflight - Available ELSE 0

acquire_permit(q) ==
    /\ In(q, "permit") /\ ~req[q].queued
    /\ IF Waiting > tun.depth
       THEN Replies(q, 503)
       ELSE req' = [req EXCEPT ![q].queued = TRUE] /\ UNCHANGED log
    /\ UNCHANGED <<used, cache, granted, faults>> /\ UNCHANGED admin

PermitGranted(q) ==
    /\ In(q, "permit") /\ req[q].queued
    /\ Available > 0
    /\ req' = [req EXCEPT ![q].permit = TRUE, ![q].todo = Tail(@)]
    /\ UNCHANGED <<log, used, cache, granted, faults>> /\ UNCHANGED admin

PermitTimeout(q) ==
    /\ In(q, "permit") /\ req[q].queued
    /\ Available = 0
    /\ Replies(q, 503)
    /\ UNCHANGED <<used, cache, granted, faults>> /\ UNCHANGED admin

enforce_body_limit(q) ==
    /\ In(q, "limit")
    /\ IF req[q].in.big THEN Replies(q, 413) ELSE GoesOn(q)
    /\ UNCHANGED <<used, cache, granted, faults>> /\ UNCHANGED admin

\* The row is read from the database on every request.  A lookup that fails
\* looks like a credential nobody has.
Lookup(in, failed) ==
    LET rows == find_api_key_by_secret(in.cred) IN
    CASE in.cred = NoCred -> "none"
      [] failed \/ rows = {} -> "unknown"
      [] \E k \in rows : ~keys[k].active -> "disabled"
      [] OTHER -> "active"

Resolved(in, outcome) ==
    IF outcome # "active" THEN Anonymous
    ELSE LET k == CHOOSE k \in find_api_key_by_secret(in.cred) : TRUE
         IN  [id |-> k, allow |-> keys[k].allow, quota |-> keys[k].quota]

enforce_auth(outcome) ==
    CASE ~tun.require \/ outcome = "active" -> 200
      [] outcome = "disabled" -> 403
      [] OTHER -> 401

resolve_api_key(q) ==
    /\ In(q, "auth")
    /\ \E failed \in BOOLEAN :
          LET outcome == Lookup(req[q].in, failed)
              status == enforce_auth(outcome)
          IN  /\ IF failed THEN Fault /\ req[q].in.cred # NoCred ELSE NoFault
              /\ IF status # 200 THEN Replies(q, status)
                 ELSE /\ req' = [req EXCEPT ![q].key = Resolved(req[q].in, outcome),
                                            ![q].todo = Tail(@)]
                      /\ UNCHANGED log
    /\ UNCHANGED <<used, cache, granted>> /\ UNCHANGED admin

decode_request(q) ==
    /\ In(q, "decode")
    /\ IF req[q].in.body = "bad" THEN Replies(q, 400) ELSE GoesOn(q)
    /\ UNCHANGED <<used, cache, granted, faults>> /\ UNCHANGED admin

\* The quota comes first, so a request for a model the key may not use is
\* charged all the same.  A failing quota store lets the request through.
enforce_model_access(key, model) == key.allow = Anyone \/ model \in key.allow

check_quota(q) ==
    LET key == req[q].key IN
    IF key.id # Absent
    THEN used' = [used EXCEPT ![key.id] = @ + 1]
    ELSE UNCHANGED used

Exceeded(key) == key.id # Absent /\ key.quota # Absent /\ used[key.id] >= key.quota

enforce_api_key_policy(q) ==
    LET key == req[q].key IN
    /\ In(q, "policy")
    /\ \/ /\ NoFault /\ Exceeded(key)
          /\ Replies(q, 429)
          /\ UNCHANGED used
       \/ /\ \/ NoFault /\ ~Exceeded(key) /\ check_quota(q)
             \/ Fault /\ UNCHANGED used
          /\ IF enforce_model_access(key, req[q].in.model) THEN GoesOn(q) ELSE Replies(q, 403)
    /\ UNCHANGED <<cache, granted>> /\ UNCHANGED admin

\* The key of an entry: the model and the input, runs of blanks made one.
\* The dimensions and the encoding of the request are not part of it.
CacheKey(in) == <<in.model, in.words>>

\* Mutant: the hit returns with its scope still armed.
CacheLookupArmed(q) ==
    LET k == CacheKey(req[q].in) IN
    /\ In(q, "cache")
    /\ \/ /\ k \in DOMAIN cache
          /\ req' = [req EXCEPT ![q].life = "answered", ![q].answer = 200,
                                ![q].permit = FALSE, ![q].hit = cache[k]]
          /\ log' = [log EXCEPT ![q] = Append(@, 200) \o <<DropStatus(q)>>]
       \/ k \notin DOMAIN cache /\ GoesOn(q)
    /\ UNCHANGED <<used, cache, granted, faults>> /\ UNCHANGED admin

\* A hit emits its event itself and disarms the scope.
embedding_cache_lookup(q) ==
    LET k == CacheKey(req[q].in) IN
    /\ In(q, "cache")
    /\ \/ /\ k \in DOMAIN cache
          /\ req' = [req EXCEPT ![q].life = "answered", ![q].answer = 200,
                                ![q].permit = FALSE, ![q].hit = cache[k]]
          /\ log' = [log EXCEPT ![q] = Append(@, 200)]
       \/ k \notin DOMAIN cache /\ GoesOn(q)
    /\ UNCHANGED <<used, cache, granted, faults>> /\ UNCHANGED admin

\* The route is looked up in the snapshot of the moment; from here on a
\* dropped handler counts as a client that left.
RouteFound(q) ==
    /\ In(q, "route")
    /\ IF req[q].in.model \notin Routed THEN Replies(q, 404)
       ELSE /\ req' = [req EXCEPT ![q].waiting = TRUE, ![q].todo = Tail(@)]
            /\ UNCHANGED log
    /\ UNCHANGED <<used, cache, granted, faults>> /\ UNCHANGED admin

\* execute_with_fallback comes back with a response or with an error.  An
\* embedding that worked is cached before it is returned.
UpstreamEnds(q) ==
    LET in == req[q].in IN
    /\ In(q, "call")
    /\ \E s \in {200, 502} :
          /\ Replies(q, s)
          /\ cache' = IF s = 200 /\ in.end = "embeddings"
                      THEN [k \in DOMAIN cache \cup {CacheKey(in)} |->
                              IF k = CacheKey(in) THEN [model |-> in.model, words |-> in.words]
                              ELSE cache[k]]
                      ELSE cache
    /\ UNCHANGED <<used, granted, faults>> /\ UNCHANGED admin

\* Time to live and capacity.
Evict(k) ==
    /\ cache' = [x \in DOMAIN cache \ {k} |-> cache[x]]
    /\ UNCHANGED <<req, log, used, granted, faults>> /\ UNCHANGED admin

-----------------------------------------------------------------------------
(* The admin API on the key rows.  Requests read the rows themselves, so a *)
(* change is in force for the next lookup, never for one that was made.    *)

\* An empty name among the allowed models refuses the whole change.
normalize_allowed_models(allow) == IF allow = Anyone THEN TRUE ELSE Blank \notin allow

WriteKey(id, row) ==
    /\ keyEdits > 0 /\ keyEdits' = keyEdits - 1
    /\ keys' = [keys EXCEPT ![id] = row]
    /\ Grants(keys', tun)
    /\ UNCHANGED <<req, log, used, cache, tun, reloads, faults>>

\* key_hash is UNIQUE: a secret that is taken fails the INSERT.
create_api_key(id, row) ==
    /\ keys[id] = Absent /\ find_api_key_by_secret(row.hash) = {}
    /\ normalize_allowed_models(row.allow)
    /\ WriteKey(id, [row EXCEPT !.active = TRUE])

delete_api_key(id) == keys[id] # Absent /\ WriteKey(id, Absent)

disable_api_key(id) ==
    keys[id] # Absent /\ WriteKey(id, [keys[id] EXCEPT !.active = FALSE])

update_api_key_quota(id, quota) ==
    keys[id] # Absent /\ WriteKey(id, [keys[id] EXCEPT !.quota = quota])

update_api_key_model_access(id, allow) ==
    /\ keys[id] # Absent
    /\ normalize_allowed_models(allow)
    /\ WriteKey(id, [keys[id] EXCEPT !.allow = allow])

\* A row whose secret belongs to another key is skipped.  A file of the
\* first schema has no model lists: the key it replaces loses its own.
import_api_key(id, row, schema) ==
    /\ find_api_key_by_secret(row.hash) \subseteq {id}
    /\ schema >= 2 => normalize_allowed_models(row.allow)
    /\ WriteKey(id, IF schema >= 2 THEN row ELSE [row EXCEPT !.allow = Anyone])

EditKey(e) ==
    \/ e.op = "create" /\ create_api_key(e.id, e.row)
    \/ e.op = "delete" /\ delete_api_key(e.id)
    \/ e.op = "disable" /\ disable_api_key(e.id)
    \/ e.op = "quota" /\ update_api_key_quota(e.id, e.row.quota)
    \/ e.op = "models" /\ update_api_key_model_access(e.id, e.row.allow)
    \/ e.op = "import" /\ import_api_key(e.id, e.row, e.schema)

\* The reloader swaps the tunables; the semaphore keeps its size.
Reload(t) ==
    /\ t # tun
    /\ reloads > 0 /\ reloads' = reloads - 1
    /\ tun' = t
    /\ Grants(keys, t)
    /\ UNCHANGED <<req, log, used, cache, keys, keyEdits, faults>>

-----------------------------------------------------------------------------
Init ==
    /\ req = [q \in Requests |-> Out]
    /\ log = [q \in Requests |-> <<>>]
    /\ keys = InitKeys
    /\ used = [k \in KeyIds |-> 0]
    /\ cache = <<>>
    /\ tun \in {t \in Tunables : t.inflight = Permits}
    /\ granted = {}
    /\ keyEdits = MaxKeyEdits /\ reloads = MaxReloads /\ faults = MaxFaults

Step(q) ==
    \/ split_gemini_capture(q) \/ acquire_permit(q) \/ PermitGranted(q) \/ PermitTimeout(q)
    \/ enforce_body_limit(q) \/ resolve_api_key(q) \/ decode_request(q)
    \/ enforce_api_key_policy(q) \/ embedding_cache_lookup(q) \/ RouteFound(q)
    \/ UpstreamEnds(q)

Next ==
    \/ \E q \in Requests : Step(q) \/ Dropped(q) \/ \E in \in Inputs : Arrive(q, in)
    \/ \E k \in DOMAIN cache : Evict(k)
    \/ \E e \in KeyEdits : EditKey(e)
    \/ \E t \in Tunables : Reload(t)

\* The runtime polls every handler that can go on: the wait for a permit has
\* a timer, the upstream call its own (module Executor), a query the pool's.
Spec == Init /\ [][Next]_vars /\ \A q \in Requests : WF_vars(Step(q))

-----------------------------------------------------------------------------
(* Properties.                                                             *)

\* A request that was let through was allowed at some moment between its
\* arrival and its answer: by an active key of its credential that may use
\* its model, or by a gateway that asked for none.  A row that changed after
\* it was read, a failed lookup, a cache hit or a reload never add up to an
\* access that nobody ever granted.
AccessWasGranted ==
    \A q \in Requests :
        req[q].life = "answered" /\ req[q].answer = 200 => q \in granted

\* A hit of the embedding cache is the answer to the same model and the same
\* input, whoever asked first and whatever was evicted since.
HitsAreTheirs ==
    \A q \in Requests :
        req[q].life = "answered" /\ req[q].hit # Absent =>
            req[q].hit = [model |-> req[q].in.model, words |-> req[q].in.words]

\* Nobody is served what no key row allowed, nor another input's embedding.
ServedAsAllowed == AccessWasGranted /\ HitsAreTheirs

\* What handlers answer with.
AnswerStatuses == {200, 400, 401, 403, 404, 413, 429, 502, 503}

Accounts == INSTANCE Accounting WITH
    life <- [q \in Requests |-> req[q].life],
    answer <- [q \in Requests |-> IF req[q].life = "out" THEN 0 ELSE req[q].answer],
    log <- log,
    busy <- Holders,
    Statuses <- AnswerStatuses

\* The handlers implement the abstract specification of request accounting:
\* under every order of stages, every early return, every client that leaves
\* and every reload, a request ends, works under one of the gateway's permits
\* and gives it back, and leaves exactly one event, with the status its
\* client was sent.
AccountsForEveryRequest == Accounts!Spec

=============================================================================
