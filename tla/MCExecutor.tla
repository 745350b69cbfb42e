------------------------------ MODULE MCExecutor ------------------------------
(***************************************************************************)
(* Attempts for Executor: the bodies clients send in each protocol, the    *)
(* kinds of targets, and what upstreams answer.                            *)
(***************************************************************************)
EXTENDS Executor

Reasoning(enc, text, id) ==
  [Item("reasoning", None) EXCEPT !.enc = enc, !.text = text, !.id = id]

\* A body as the Codex command line itself sends it.
NativeBody ==
  [Body("responses") EXCEPT !.model = "real", !.key = "client", !.stream = TRUE,
     !.instructions = TRUE, !.store = "false", !.include = "encrypted",
     !.parallel = "true", !.tools = {"function"}, !.fields = {"previous_response_id"},
     !.input = <<Item("message", "user"), Reasoning("gpt", None, "short")>>]

ResponsesBodies ==
  { NativeBody,
    [NativeBody EXCEPT !.fields = {}, !.store = None, !.model = "client"],
    [Body("responses") EXCEPT !.input = StringInput],
    [Body("responses") EXCEPT !.effort = "max", !.tier = "flex", !.tools = {"function"},
       !.fields = {"metadata", "temperature"},
       !.input = <<[Item("message", "system") EXCEPT !.breakpoint = TRUE],
                   Reasoning("foreign", "summary", "long"),
                   Reasoning("foreign", None, "short"), Reasoning(None, "content", "short"),
                   [Item("call", None) EXCEPT !.id = "long"]>>],
    [Body("responses") EXCEPT !.tools = {"long"}],
    [Body("responses") EXCEPT !.tools = {"custom"}],
    [Body("responses") EXCEPT !.input = <<[Item("message", "user") EXCEPT !.part = "file"]>>],
    [Body("responses") EXCEPT !.parallel = "false", !.tools = {"patch"}] }

ChatBodies ==
  { Body("chat"),
    [Body("chat") EXCEPT !.model = "real", !.key = "client", !.effort = "max"],
    [Body("chat") EXCEPT !.fields = {"metadata", "temperature"}, !.tools = {"function"},
       !.input = <<Item("message", "system")>>] }

MessagesBodies ==
  { [Body("messages") EXCEPT !.thinking = "plain", !.billing = "stale",
       !.input = <<Reasoning(None, "summary", None), Item("message", "user"),
                   Reasoning(None, "summary", None)>>],
    [Body("messages") EXCEPT !.model = "real"] }

GeminiBodies == {Body("gemini")}

Target(suite, profile, websocket, deepseek) ==
  [suite |-> suite, profile |-> profile, websocket |-> websocket, deepseek |-> deepseek,
   takesMax |-> deepseek, opencode |-> suite = "chat"]

MCTargets ==
  { Target("chat", None, FALSE, FALSE), Target("messages", None, FALSE, FALSE),
    Target("messages", "anthropic", FALSE, FALSE), Target("gemini", None, FALSE, FALSE),
    Target("responses", None, FALSE, TRUE), Target("responses", "codex", FALSE, FALSE),
    Target("responses", "codex", TRUE, FALSE) }

SomeClient == {Authorization, ContentType, Title, Handshake, Custom, TraceParent}

Attempt(exec, ingress, b, target, stream, variant) ==
  [exec |-> exec, ingress |-> ingress, body |-> b, target |-> target, stream |-> stream,
   raw |-> variant # 2, lossy |-> variant = 3, ttfb |-> variant # 2, deadline |-> variant # 2,
   lite |-> variant = 1, session |-> IF variant = 1 THEN "session" ELSE None,
   caller |-> IF variant = 2 THEN "anonymous" ELSE "key",
   signatures |-> IF variant = 1 THEN <<"gpt", "foreign">> ELSE <<None>>,
   client |-> IF variant = 2 THEN {Title, Custom, Beta} ELSE SomeClient,
   denyRequest |-> IF variant = 2 THEN {Prefix(<<"x">>)} ELSE {},
   denyResponse |-> IF variant = 2 THEN {Exact(Custom), Exact(RetryAfter)} ELSE {}]

Json(exec, bodies) ==
  {Attempt(exec, exec, b, t, s, v) : b \in bodies, t \in MCTargets, s \in BOOLEAN, v \in 0..3}

MCRequests ==
  Json("chat", ChatBodies) \cup Json("messages", MessagesBodies)
  \cup Json("responses", ResponsesBodies) \cup Json("gemini", GeminiBodies)
  \cup {Attempt(e, "chat", b, t, s, v) : e \in {"images", "edits"}, b \in ChatBodies,
          t \in {Target("chat", None, FALSE, FALSE)}, s \in BOOLEAN, v \in {0, 2}}
  \cup {Attempt("embeddings", "chat", Body("chat"), t, FALSE, v) :
          t \in {Target("chat", None, FALSE, FALSE)}, v \in {0, 2}}

Ans(status, kind, names) == [status |-> status, body |-> kind, names |-> names]

MCAnswers ==
  { Ans(200, "json", {ContentType, RequestId, TraceParent, CdnId, Custom, Limits}),
    Ans(200, "error", {ContentType}), Ans(200, "mixed", {RetryAfter}),
    Ans(200, "text", {}), Ans(200, "completed", {}), Ans(200, "failed", {}),
    Ans(429, "error", {RetryAfter, Limits}), Ans(500, "text", {}) }
================================================================================
