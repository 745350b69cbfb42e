-------------------------------- MODULE Executor --------------------------------
(***************************************************************************)
(* One upstream attempt: what an executor of ingress/executors.rs does     *)
(* from the choice of a target to a response or an AppError.  The chat,    *)
(* messages, responses and gemini executors prepare any body for any       *)
(* protocol and may speak to a Codex subscription over a WebSocket, with   *)
(* HTTP as the way out when the upgrade is refused; the embeddings and     *)
(* image executors are simpler and differ in what they pass on.            *)
(*                                                                         *)
(* The request, the target and the configured timeouts are chosen in Init; *)
(* the upstream answers, stays silent or breaks off as it likes.           *)
(***************************************************************************)
EXTENDS EgressBody, EgressHeaders, CodexSocket

CONSTANTS Requests,   \* attempts: a request, a target, timeouts
          Answers     \* what the upstream may answer over HTTP

\* The executors that know the profiles of subscriptions and of providers.
ChatLike == {"chat", "messages", "responses", "gemini"}
Executors == ChatLike \cup {"embeddings", "images", "edits"}

Targets == [suite : Suites, profile : {None, "codex", "anthropic"}, websocket : BOOLEAN, deepseek : BOOLEAN,
            takesMax : BOOLEAN, opencode : BOOLEAN]
Attempts == [exec : Executors, ingress : Suites, body : Bodies, target : Targets,
             stream : BOOLEAN, raw : BOOLEAN, lossy : BOOLEAN, ttfb : BOOLEAN,
             deadline : BOOLEAN, lite : BOOLEAN, session : {None, "session"},
             caller : STRING, signatures : Seq(Ciphers \cup {None}), client : SUBSET RequestNames,
             denyRequest : SUBSET Seq(Seq(STRING)), denyResponse : SUBSET Seq(Seq(STRING))]

\* An input is one string or a list of items; embeddings are not streamed; the
\* names of response headers are those of EgressHeaders.
ASSUME ExecutorAssumption ==
  /\ Requests \subseteq Attempts
  /\ \A r \in Requests : r.body.input = StringInput
       \/ \A k \in DOMAIN r.body.input : r.body.input[k].type # "string"
  /\ \A r \in Requests : r.exec = "embeddings" => ~r.stream
  /\ Answers \subseteq [status : Nat, body : STRING, names : SUBSET ResponseNames]

VARIABLES req,        \* the attempt
          pc,         \* its stage
          body,       \* upstream_body
          verbatim,   \* pass_through_verbatim
          hdrs,       \* upstream_headers
          record,     \* egress_body_capture
          wire,       \* the exchanges begun: what the upstream was sent
          answered,   \* the statuses it answered them with
          captures,   \* what spawn_capture was given
          answer,     \* the response whose body is being read
          result      \* the response or the AppError

attemptVars == <<req, pc, body, verbatim, hdrs, record, wire, answered, captures,
                 answer, result>>
vars == <<attemptVars, socketVars>>

NoAnswer == [status |-> 0, body |-> "none", names |-> {}]
NoResult == [ok |-> FALSE, status |-> 0, upstream |-> 0, retry |-> FALSE,
             limits |-> FALSE, cause |-> "none", headers |-> {}]

Init ==
  /\ req \in Requests
  /\ pc = "build"
  /\ body = req.body /\ verbatim = FALSE /\ hdrs = NoHeaders /\ record = None
  /\ wire = <<>> /\ answered = <<>> /\ captures = <<>>
  /\ answer = NoAnswer /\ result = NoResult
  /\ SocketIdle

--------------------------------------------------------------------------------
(* Outcomes *)

\* AppError::new(status) with upstream_status and the headers kept for the client.
Refused(status, upstream, retry, limits, cause) ==
  [NoResult EXCEPT !.status = status, !.upstream = upstream, !.retry = retry,
                   !.limits = limits, !.cause = cause]

\* A request the gateway itself cannot send to this target.
BadRequest == Refused(400, 0, FALSE, FALSE, "prepare")
\* execute_with_ttfb_timeout and nonstream_timeout_error: a deadline is a 504 of
\* the upstream for the fallback loop.
TimedOut == Refused(504, 504, FALSE, FALSE, "timeout")
BadGateway(cause) == Refused(502, 0, FALSE, FALSE, cause)

\* The upstream's headers as the policy lets them pass; kept are the names that
\* are put back after it.  (The rate limit headers are looked up in the headers
\* that passed, and so are never put back.)
Served(names, kept) ==
  LET headers == KeepHeaders(names \cap kept, ForwardResponseHeaders(names, req.denyResponse))
  IN  [NoResult EXCEPT !.ok = TRUE, !.status = 200, !.upstream = 200, !.cause = "served",
         !.retry = RetryAfter \in DOMAIN headers, !.limits = Limits \in DOMAIN headers,
         !.headers = headers]

Finish(r) == pc' = "done" /\ result' = r

\* spawn_capture: the body as it was recorded before sending.
Capture(status) == Append(captures, [status |-> status, sent |-> record])

--------------------------------------------------------------------------------
(* Bodies and headers *)

Codex == req.target.profile = "codex" /\ req.target.suite = "responses"
AnthropicOAuth == req.target.profile = "anthropic" /\ req.target.suite = "messages"
Websocket == Codex /\ req.target.websocket
Cross == req.ingress # req.target.suite

\* The codecs' own work is modelled elsewhere: an encoded body is written in the
\* target's protocol and has lost the fields no codec knows.
Encoded ==
  [req.body EXCEPT !.suite = req.target.suite,
     !.model = IF req.target.suite = "gemini" THEN None ELSE req.body.model,
     !.fields = @ \cap {"temperature", "stop"}, !.key = None, !.include = None,
     !.store = None, !.tier = None, !.billing = None,
     !.thinking = IF req.target.suite = "messages" THEN @ ELSE None,
     !.input = IF @ = StringInput THEN <<Item("message", "user")>>
               ELSE [k \in DOMAIN @ |-> [@[k] EXCEPT !.breakpoint = FALSE]]]

CodecHeaders == [NoHeaders EXCEPT ![ContentType] = "codec",
                   ![Version] = IF req.target.suite = "messages" THEN "codec" ELSE Absent]

\* The client's bytes are eligible for a target of its own protocol.
PassThrough == req.raw /\ ~Cross
FirstBody == IF PassThrough THEN req.body ELSE Encoded

\* The body of the four chat-like executors, and whether it was touched.
JsonBody ==
  LET named == OverrideModel(FirstBody)
      provider == PrepareProvider(named.body, req.target, req.caller)
      codex == IF Codex
               THEN PrepareCodexEgress(provider.body, Websocket, req.ingress = "messages",
                      req.signatures, req.lite,
                      IF req.ingress = "messages" THEN req.session ELSE None)
               ELSE Prepared(provider.body, provider.body)
      oauth == IF AnthropicOAuth THEN PrepareAnthropic(codex.body)
                                 ELSE Prepared(codex.body, codex.body)
  IN  [body |-> oauth.body,
       changed |-> named.changed \/ provider.changed \/ codex.changed \/ oauth.changed]

JsonRefuses ==
  \/ Cross /\ req.lossy
  \/ ProviderRefuses(OverrideModel(FirstBody).body, req.target)
  \/ Codex /\ CodexRefuses(FirstBody)

\* Begin an attempt with a body, the client's headers merged into the codec's.
Begin(b, raw, headers, recorded) ==
  /\ body' = b /\ verbatim' = raw /\ record' = recorded
  /\ hdrs' = MergeClientHeaders(req.client, headers, req.denyRequest)
  /\ pc' = "auth"
  /\ UNCHANGED <<req, wire, answered, captures, answer, result, socketVars>>

PrepareJson ==
  /\ pc = "build"
  /\ \/ /\ JsonRefuses
        /\ Finish(BadRequest)
        /\ UNCHANGED <<req, body, verbatim, hdrs, record, wire, answered, captures,
                       answer, socketVars>>
     \/ /\ ~JsonRefuses
        /\ LET raw == PassThrough /\ ~JsonBody.changed
           IN  Begin(JsonBody.body, raw, CodecHeaders,
                     IF raw THEN req.body ELSE JsonBody.body)

ChatPrepare      == req.exec = "chat" /\ PrepareJson
MessagesPrepare  == req.exec = "messages" /\ PrepareJson
ResponsesPrepare == req.exec = "responses" /\ PrepareJson
GeminiPrepare    == req.exec = "gemini" /\ PrepareJson

\* Embeddings are always encoded; nothing but the model is changed.
EmbeddingsPrepare ==
  /\ req.exec = "embeddings" /\ pc = "build"
  /\ LET b == OverrideModel(Encoded).body IN Begin(b, FALSE, CodecHeaders, b)

\* Image generations know the cache key and the model, and no profile.
ImagesPrepare ==
  /\ req.exec = "images" /\ pc = "build"
  /\ LET keyed == InjectCacheKey(FirstBody, req.caller)
         named == OverrideModel(keyed.body)
         raw == PassThrough /\ ~named.changed /\ ~keyed.changed
     IN  Begin(named.body, raw, CodecHeaders, IF raw THEN req.body ELSE named.body)

\* A multipart edit goes as it came, and is not recorded.
EditsPrepare ==
  /\ req.exec = "edits" /\ pc = "build"
  /\ Begin(req.body, TRUE, NoHeaders, None)

--------------------------------------------------------------------------------
(* Credentials *)

\* The profile's headers come after the credential, the identity last.
ProfileHeaders(h) ==
  LET codex == IF Codex THEN ApplyCodexHeaders(h, Websocket, req.session # None, TRUE) ELSE h
  IN  IF AnthropicOAuth THEN ApplyAnthropicHeaders(codex) ELSE codex

Identified(h) ==
  ApplyIdentity(req.client, h, req.denyRequest, req.target.profile # None, FALSE)

Authorized(h) == ApplyProviderAuth(h, req.target.suite, req.target.opencode)

AuthorizeWith(headers, next) ==
  /\ pc = "auth"
  /\ \/ hdrs' = headers /\ pc' = next /\ UNCHANGED result
     \/ Finish(Refused(500, 0, FALSE, FALSE, "auth")) /\ UNCHANGED hdrs
  /\ UNCHANGED <<req, body, verbatim, record, wire, answered, captures, answer, socketVars>>

AuthorizeJson ==
  AuthorizeWith(Identified(ProfileHeaders(Authorized(hdrs))),
                IF Websocket THEN "connect" ELSE "send")

ChatAuthorize      == req.exec = "chat" /\ AuthorizeJson
MessagesAuthorize  == req.exec = "messages" /\ AuthorizeJson
ResponsesAuthorize == req.exec = "responses" /\ AuthorizeJson
GeminiAuthorize    == req.exec = "gemini" /\ AuthorizeJson

SimpleAuthorize ==
  /\ req.exec \in {"embeddings", "images", "edits"}
  /\ AuthorizeWith(Identified(Authorized(hdrs)), "send")

--------------------------------------------------------------------------------
(* The WebSocket of a Codex subscription *)

\* connect_async: the create message is built, and recorded, before the upgrade.
Connect ==
  /\ pc = "connect"
  /\ wire' = Append(wire, [by |-> "socket", body |-> body,
                           headers |-> InjectTrace(ApplyWebsocketHeaders(hdrs))])
  /\ record' = body
  /\ pc' = "handshake"
  /\ UNCHANGED <<req, body, verbatim, hdrs, answered, captures, answer, result, socketVars>>

\* The upgrade is refused with an answer, of which only the status is kept, or
\* the connection fails without one.
NoConnection == [NoAnswer EXCEPT !.status = 502]

HandshakeFails ==
  /\ pc = "handshake"
  /\ \E a \in Answers \cup {NoConnection} :
       /\ a.status \notin {101, 426}
       /\ answer' = a
       /\ answered' = Append(answered, a.status)
       /\ captures' = Capture(a.status)
       /\ Finish(Refused(a.status, a.status, FALSE, FALSE, "handshake"))
  /\ UNCHANGED <<req, body, verbatim, hdrs, record, wire, socketVars>>

HandshakeExpires ==
  /\ pc = "handshake" /\ req.ttfb
  /\ answered' = Append(answered, 504)
  /\ captures' = Capture(504)
  /\ Finish([TimedOut EXCEPT !.cause = "handshake"])
  /\ UNCHANGED <<req, body, verbatim, hdrs, record, wire, answer, socketVars>>

UpgradeKeepsRecord ==
  /\ pc = "handshake"
  /\ answered' = Append(answered, 426)
  /\ captures' = Capture(426)
  /\ body' = PrepareCodex(body, FALSE).body
  /\ hdrs' = ApplyCodexHeaders(hdrs, FALSE, req.session # None, TRUE)
  /\ pc' = "send"
  /\ UNCHANGED <<req, verbatim, record, wire, answer, result, socketVars>>

\* 426: the attempt goes on over HTTP with the body and the headers of HTTP.
UpgradeRequired ==
  /\ pc = "handshake"
  /\ answered' = Append(answered, 426)
  /\ captures' = Capture(426)
  /\ body' = PrepareCodex(body, FALSE).body
  /\ hdrs' = ApplyCodexHeaders(hdrs, FALSE, req.session # None, TRUE)
  /\ record' = PrepareCodex(body, FALSE).body
  /\ pc' = "send"
  /\ UNCHANGED <<req, verbatim, wire, answer, result, socketVars>>

ChatUpgrade      == req.exec = "chat" /\ UpgradeRequired
MessagesUpgrade  == req.exec = "messages" /\ UpgradeRequired
ResponsesUpgrade == req.exec = "responses" /\ UpgradeRequired
GeminiUpgrade    == req.exec = "gemini" /\ UpgradeRequired

\* The upgrade is granted; from here on no timer of the socket runs.
Open ==
  /\ pc = "handshake"
  /\ answered' = Append(answered, 101)
  /\ pc' = "create" /\ sock' = "open"
  /\ UNCHANGED <<req, body, verbatim, hdrs, record, wire, captures, answer, result,
                 pump, held, chan, heard, seen, receiver>>

\* The create message is on its way, or cannot be sent.
Create ==
  /\ pc = "create"
  /\ \/ /\ captures' = Capture(101)
        /\ Finish(BadGateway("create")) /\ sock' = "dropped"
        /\ UNCHANGED pump
     \/ /\ req.stream                  \* handed to drive_upstream_stream
        /\ captures' = Capture(101)
        /\ Finish(Served({}, {}))
        /\ pump' = "recv"
        /\ UNCHANGED sock
     \/ /\ ~req.stream
        /\ pc' = "collect"
        /\ UNCHANGED <<captures, result, sock, pump>>
  /\ UNCHANGED <<req, body, verbatim, hdrs, record, wire, answered, answer,
                 held, chan, heard, seen, receiver>>

\* collect_codex_websocket_response: "done" and "error" do not end it.
Collect ==
  /\ pc = "collect" /\ Len(heard) < MaxFrames
  /\ \E f \in Frames :
       /\ heard' = Append(heard, f)
       /\ \/ /\ f = "completed"
             /\ answer' = [NoAnswer EXCEPT !.status = 101, !.body = "json"]
             /\ pc' = "deliver" /\ sock' = "dropped"
             /\ UNCHANGED <<captures, result>>
          \/ /\ f \in {"failed", "close"} \cup FaultFrames
             /\ captures' = Capture(101)
             /\ Finish(BadGateway("collect")) /\ sock' = "dropped"
             /\ UNCHANGED answer
          \/ /\ f \in {"delta", "done", "error", "ping"}
             /\ UNCHANGED <<answer, pc, sock, captures, result>>
  /\ UNCHANGED <<req, body, verbatim, hdrs, record, wire, answered,
                 pump, held, chan, seen, receiver>>

--------------------------------------------------------------------------------
(* HTTP *)

\* The request is frozen and sent: the client's bytes or the body as JSON.
Send ==
  /\ pc = "send"
  /\ wire' = Append(wire, [by |-> "http",
                           body |-> IF verbatim THEN req.body ELSE body,
                           headers |-> InjectTrace([hdrs EXCEPT ![ContentType] = "gateway"])])
  /\ pc' = "wait"
  /\ UNCHANGED <<req, body, verbatim, hdrs, record, answered, captures, answer, result,
                 socketVars>>

\* No response headers in time (streams), or not the whole answer (the rest).
Deadline == req.deadline \/ req.exec \in {"images", "edits"}

TtfbExpires ==
  /\ pc = "wait" /\ req.stream /\ req.ttfb
  /\ Finish(TimedOut)
  /\ UNCHANGED <<req, body, verbatim, hdrs, record, wire, answered, captures, answer,
                 socketVars>>

DeadlineOnlyBeforeHeaders ==
  /\ ~req.stream /\ Deadline
  /\ pc = "wait"
  /\ Finish(TimedOut)
  /\ UNCHANGED <<req, body, verbatim, hdrs, record, wire, answered, captures, answer,
                 socketVars>>

DeadlineExpires ==
  /\ ~req.stream /\ Deadline
  /\ pc \in {"handshake", "create", "collect", "wait", "read"}
  /\ Finish(TimedOut)
  /\ sock' = IF pc \in {"create", "collect"} THEN "dropped" ELSE sock
  /\ UNCHANGED <<req, body, verbatim, hdrs, record, wire, answered, captures, answer,
                 pump, held, chan, heard, seen, receiver>>

\* The connection breaks, before the headers or while the body is read.
Breaks ==
  /\ pc = "wait" \/ (pc = "read" /\ ~req.stream)
  /\ Finish(BadGateway("transport"))
  /\ UNCHANGED <<req, body, verbatim, hdrs, record, wire, answered, captures, answer,
                 socketVars>>

\* A stream opens and the relay takes over, with the capture of the exchange; or
\* it is refused, and the text of the refusal has to be read.
OpenStream ==
  /\ pc = "wait" /\ req.stream
  /\ \E a \in Answers :
       /\ answered' = Append(answered, a.status)
       /\ \/ /\ a.status = 200
             /\ captures' = Capture(a.status)
             /\ Finish(Served(a.names, {RetryAfter}))
             /\ UNCHANGED answer
          \/ /\ a.status # 200
             /\ answer' = a /\ pc' = "refused"
             /\ UNCHANGED <<captures, result>>
  /\ UNCHANGED <<req, body, verbatim, hdrs, record, wire, socketVars>>

\* response.text().await: no timer runs, and a broken connection is an empty text.
\* limits: the error keeps the rate limit headers.
ReadRefusal(limits) ==
  /\ pc = "refused"
  /\ captures' = Capture(answer.status)
  /\ Finish(Refused(answer.status, answer.status, RetryAfter \in answer.names,
                    limits /\ Limits \in answer.names, "status"))
  /\ UNCHANGED <<req, body, verbatim, hdrs, record, wire, answered, answer, socketVars>>

ChatRefusal      == req.exec = "chat" /\ ReadRefusal(TRUE)
MessagesRefusal  == req.exec = "messages" /\ ReadRefusal(FALSE)
ResponsesRefusal == req.exec = "responses" /\ ReadRefusal(FALSE)
GeminiRefusal    == req.exec = "gemini" /\ ReadRefusal(FALSE)
ImagesRefusal    == req.exec = "images" /\ ReadRefusal(TRUE)
EditsRefusal     == req.exec = "edits" /\ ReadRefusal(TRUE)

Headers ==
  /\ pc = "wait" /\ ~req.stream
  /\ \E a \in Answers : answer' = a /\ answered' = Append(answered, a.status)
  /\ pc' = "read"
  /\ UNCHANGED <<req, body, verbatim, hdrs, record, wire, captures, result, socketVars>>

\* parse_nonstream_upstream_body: an error answer is always readable; Codex
\* answers with a stream, whose terminal event is the answer.
Parsed(a) ==
  IF a.status # 200 THEN "error"
  ELSE IF a.body \in {"json", "error", "mixed"} THEN a.body
  ELSE IF Codex /\ a.body = "completed" THEN "json"
  ELSE "unreadable"

\* The image executors take what is not JSON for the message of an error.
ParsedImages(a) == IF a.body \in {"json", "mixed"} /\ a.status = 200 THEN a.body ELSE "error"

\* Embeddings are read as JSON whatever the status.
ParsedEmbeddings(a) ==
  IF a.body \notin {"json", "error", "mixed"} THEN "unreadable"
  ELSE IF a.status # 200 THEN "error" ELSE a.body

ReadBodyTrusts200(parsed, retries, limits) ==
  /\ pc = "read"
  /\ \/ /\ answer.status # 200 /\ parsed # "unreadable"
        /\ Finish(Refused(answer.status, answer.status, FALSE, FALSE, "status"))
     \/ /\ answer.status = 200
        /\ pc' = "deliver" /\ UNCHANGED result
  /\ UNCHANGED <<req, body, verbatim, hdrs, record, wire, answered, answer, captures,
                 socketVars>>

\* Once the body is there: refusals, errors in a 200, or on to the delivery.
\* retries and limits: the error keeps Retry-After and the rate limit headers.
ReadBody(parsed, retries, limits) ==
  /\ pc = "read"
  /\ LET err(cause) == Refused(answer.status, answer.status,
                        retries /\ RetryAfter \in answer.names,
                        limits /\ Limits \in answer.names, cause)
     IN  \/ /\ parsed = "unreadable"
            /\ Finish(BadGateway("parse")) /\ UNCHANGED captures
         \/ /\ answer.status # 200 /\ parsed # "unreadable"
            /\ captures' = Capture(answer.status)
            /\ Finish(err("status"))
         \/ /\ answer.status = 200 /\ parsed = "error"  \* check_nonstream_error_body
            /\ captures' = Capture(answer.status)
            /\ Finish(err("body"))
         \/ /\ answer.status = 200 /\ parsed \in {"json", "mixed"}
            /\ pc' = "deliver" /\ UNCHANGED <<captures, result>>
  /\ UNCHANGED <<req, body, verbatim, hdrs, record, wire, answered, answer, socketVars>>

ChatRead       == req.exec = "chat" /\ ReadBody(Parsed(answer), TRUE, TRUE)
MessagesRead   == req.exec = "messages" /\ ReadBody(Parsed(answer), TRUE, TRUE)
ResponsesRead  == req.exec = "responses" /\ ReadBody(Parsed(answer), TRUE, TRUE)
GeminiRead     == req.exec = "gemini" /\ ReadBody(Parsed(answer), TRUE, TRUE)
ImagesRead     == req.exec = "images" /\ ReadBody(ParsedImages(answer), TRUE, TRUE)
EditsRead      == req.exec = "edits" /\ ReadBody(ParsedImages(answer), TRUE, TRUE)
EmbeddingsRead == req.exec = "embeddings" /\ ReadBody(ParsedEmbeddings(answer), FALSE, FALSE)

\* The answer is translated for the client, whose model name it gets back.
Deliver(kept) ==
  /\ pc = "deliver"
  /\ \/ /\ Cross
        /\ Finish(Refused(500, 0, FALSE, FALSE, "translate"))
        /\ UNCHANGED captures
     \/ /\ captures' = Capture(answer.status)
        /\ Finish(Served(answer.names, kept))
  /\ UNCHANGED <<req, body, verbatim, hdrs, record, wire, answered, answer, socketVars>>

ChatDeliver       == req.exec = "chat" /\ Deliver({RetryAfter})
MessagesDeliver   == req.exec = "messages" /\ Deliver({RetryAfter})
ResponsesDeliver  == req.exec = "responses" /\ Deliver({RetryAfter})
GeminiDeliver     == req.exec = "gemini" /\ Deliver({RetryAfter})
ImagesDeliver     == req.exec = "images" /\ Deliver({RetryAfter})
EditsDeliver      == req.exec = "edits" /\ Deliver({RetryAfter})
EmbeddingsDeliver == req.exec = "embeddings" /\ Deliver({})

--------------------------------------------------------------------------------
Prepare ==
  \/ ChatPrepare \/ MessagesPrepare \/ ResponsesPrepare \/ GeminiPrepare
  \/ EmbeddingsPrepare \/ ImagesPrepare \/ EditsPrepare
Authorize ==
  \/ ChatAuthorize \/ MessagesAuthorize \/ ResponsesAuthorize \/ GeminiAuthorize
  \/ SimpleAuthorize
Upgrade == ChatUpgrade \/ MessagesUpgrade \/ ResponsesUpgrade \/ GeminiUpgrade
Refusal ==
  \/ ChatRefusal \/ MessagesRefusal \/ ResponsesRefusal \/ GeminiRefusal
  \/ ImagesRefusal \/ EditsRefusal
Read ==
  \/ ChatRead \/ MessagesRead \/ ResponsesRead \/ GeminiRead
  \/ ImagesRead \/ EditsRead \/ EmbeddingsRead
Deliveries ==
  \/ ChatDeliver \/ MessagesDeliver \/ ResponsesDeliver \/ GeminiDeliver
  \/ ImagesDeliver \/ EditsDeliver \/ EmbeddingsDeliver

\* What the gateway does by itself, and what the upstream does to it.
Exchange ==
  \/ Connect \/ Send \/ Read \/ Deliveries
  \/ HandshakeExpires \/ TtfbExpires \/ DeadlineExpires
Upstream ==
  \/ HandshakeFails \/ Upgrade \/ Open \/ Create \/ Collect
  \/ OpenStream \/ Refusal \/ Headers \/ Breaks

Next ==
  \/ Prepare \/ Authorize
  \/ Exchange
  \/ Upstream
  \/ SocketNext /\ UNCHANGED attemptVars

\* Timers fire and tasks run; the upstream owes nothing.
Spec ==
  /\ Init /\ [][Next]_vars
  /\ WF_vars(Exchange)
  /\ WF_vars(PumpSteps /\ UNCHANGED attemptVars)

--------------------------------------------------------------------------------
(* Properties *)

\* The k-th exchange is the HTTP one after a refused upgrade.
AfterUpgrade(k) == k > 1

\* What Codex accepts of a body over either transport: prepare_body and
\* normalize_reasoning_and_ids promise it.
CodexReads(b) ==
  /\ b.stream /\ b.instructions /\ b.store = "false" /\ b.include = "encrypted"
  /\ b.fields \cap CodexStripped = {}
  /\ b.tier \in {None, "priority"}
  /\ "long" \notin b.tools
  /\ \A k \in DOMAIN b.input :
       LET i == b.input[k]
       IN  /\ i.type # "string" /\ i.role # "system" /\ i.id # "long" /\ ~i.breakpoint
           /\ i.type = "reasoning" =>
                \/ i.enc = "gpt"
                \/ i.enc = None /\ i.text = "summary" /\ i.id = None

\* normalize_parallel_tool_calls
CallsAsAllowed(b) ==
  b.parallel = (IF req.lite THEN "false" ELSE IF b.tools = {} THEN None ELSE "true")

\* Fields of the socket's protocol, which the HTTP endpoint refuses.
FitForHttp(b) == b.fields \cap HttpStripped = {}

\* What DeepSeek would ignore without a word is never sent to it.
DeepSeekUnderstands(b) ==
  /\ b.key = None /\ b.include = None
  /\ b.fields \cap (DeepSeekStripped \cup DeepSeekRefused) = {}
  /\ b.store # "true" /\ b.parallel # "false" /\ b.tools \subseteq DeepSeekTools
  /\ \A k \in DOMAIN b.input :
       b.input[k].type = "reasoning" => b.input[k].enc = None /\ b.input[k].text = "content"

CodexAccepts(k) ==
  LET b == wire[k].body
  IN  /\ CodexReads(b)
      /\ CallsAsAllowed(b) \/ AfterUpgrade(k)
      /\ wire[k].by = "http" => FitForHttp(b) \/ (AfterUpgrade(k) /\ verbatim)

Accepted(k) ==
  LET b == wire[k].body
  IN  /\ Codex /\ req.exec \in ChatLike => CodexAccepts(k)
      /\ req.target.deepseek /\ ~Codex /\ b.suite = "responses" /\ req.exec \in ChatLike
           => DeepSeekUnderstands(b)
      /\ req.exec # "edits" => b.model # "client"

\* However a body reaches an upstream (the client's bytes, a translation, over
\* the socket or HTTP), it is one that upstream's profile accepts, and names its
\* model.  Embeddings and images know no profile, and a target of a Codex
\* subscription is one whatever its address.  The HTTP exchange after a refused
\* upgrade falls short in two ways (executors.rs:2131): prepare_body sets
\* parallel_tool_calls again and normalize_parallel_tool_calls is not called, and
\* the client's bytes go out with the fields that prepare_body takes off.
UpstreamsGetWhatTheyAccept == \A k \in DOMAIN wire : Accepted(k)

\* The request log is true to the wire: every exchange the upstream answered is
\* captured once, with its status and the body that was sent (a multipart edit's
\* is left out), unless its answer could not be read or translated.  The client's
\* bytes sent after a refused upgrade are the one exception: the log shows them
\* as prepare_body rewrites them (executors.rs:2143), which the wire does not.
CapturesTellTheExchange ==
  /\ pc = "done" /\ result.cause \notin {"timeout", "transport", "parse", "translate"} =>
       [k \in DOMAIN captures |-> captures[k].status] = answered
  /\ \A k \in DOMAIN captures :
       \/ captures[k].sent = wire[k].body
       \/ req.exec = "edits"
       \/ /\ AfterUpgrade(k) /\ verbatim
          /\ captures[k].sent = PrepareCodex(wire[k].body, FALSE).body

\* Every header has its owner: the credential is the provider's, whatever the
\* client sent and however often the request was built; an upgrade has no entity
\* headers; a client's header the operator denies is not sent; and no header of
\* the upstream the built-in list or the operator denies is served, but for
\* Retry-After, which is put back after the operator's list (executors.rs:856).
HeadersHaveTheirOwner ==
  /\ \A k \in DOMAIN wire :
       LET h == wire[k].headers
       IN  /\ h[Authorization] = "provider" /\ h[TraceParent] = "gateway"
           /\ h[Handshake] = Absent
           /\ h[ContentType] = (IF wire[k].by = "socket" THEN Absent ELSE "gateway")
           /\ req.target.profile # None => h[Title] = Absent
           /\ \A n \in RequestNames : h[n] = "client" => ~Denied(req.denyRequest, n)
  /\ result.ok => \A n \in DOMAIN result.headers :
       result.headers[n] = "provider" =>
         /\ n # ContentType /\ Head(n) # "cf" /\ Last(n) # "request-id"
         /\ \A w \in DOMAIN n : n[w] # "trace"
         /\ n = RetryAfter \/ ~Denied(req.denyResponse, n)

\* A refusal the upstream gave reaches the fallback loop as what it is: its
\* status, that of a refused upgrade too, and over HTTP its Retry-After, which
\* embeddings do not pass on and a refused upgrade loses (executors.rs:2584); and
\* a whole answer with an error in it is no success.
RefusalsAreHeard ==
  pc = "done" =>
    /\ result.cause \in {"status", "handshake"} =>
         result.upstream = answered[Len(answered)] /\ result.status = result.upstream
    /\ result.cause = "status" =>
         /\ answer \in Answers /\ answer.status = result.status
         /\ result.retry <=> RetryAfter \in answer.names /\ req.exec # "embeddings"
    /\ result.ok => answer.body \notin {"error", "text", "failed"}

\* While the relay listens it gets the events of the socket, all of them and in
\* order; nothing follows a terminal event; and a finished task holds no socket.
SocketEventsArrive ==
  pump # "idle" =>
    /\ receiver => seen \o chan \o (IF held = "none" THEN <<>> ELSE <<held>>) = EventsOf(heard)
    /\ \A k \in 1..(Len(heard) - 1) :
         heard[k] \notin {"completed", "done", "failed", "error", "fault", "close"}
    /\ pump = "gone" => sock # "open"

\* Two waits for the upstream are under no timer: the text of a refused stream
\* (executors.rs:752) and a stream's create message (executors.rs:2623).
Untimed == req.stream /\ pc \in {"refused", "create"}

\* With its timeouts configured an attempt, once it is to be sent, ends although
\* the upstream is silent, unless it is silent in one of the untimed waits; and a
\* socket is given up once nobody listens.
AttemptsEnd ==
  /\ (pc \in {"connect", "send"} /\ req.ttfb /\ req.deadline) ~> (pc = "done" \/ Untimed)
  /\ (pump # "idle" /\ ~receiver) ~> (pump = "gone")

\* What goes out is acceptable: the body to its upstream, the headers to both
\* sides.
RequestsAreAcceptable == UpstreamsGetWhatTheyAccept /\ HeadersHaveTheirOwner
================================================================================
