------------------------------- MODULE EgressBody -------------------------------
(***************************************************************************)
(* What the gateway does to a request body between the codec and the wire: *)
(* the model name, the prompt cache key, the reasoning effort, and the     *)
(* profiles of the official DeepSeek endpoint, of a Codex subscription and *)
(* of an Anthropic subscription.                                           *)
(*                                                                         *)
(* A body is the record of the fields those functions look at.  The other  *)
(* top-level fields are the set `fields'.  Every preparation returns the   *)
(* body and the flag "changed", from which the executor concludes whether  *)
(* the client's bytes may still be forwarded as they came.                 *)
(***************************************************************************)
EXTENDS Naturals, Sequences, SequencesExt

CONSTANT None

Suites == {"chat", "messages", "responses", "gemini"}

\* An item of a Responses conversation.  id: "short", "long" (over 64
\* characters) or "cut" (shortened); enc: reasoning ciphertext of GPT shape or
\* of another provider; text: the reasoning's plain text and where it stands.
Item(type, role) ==
  [type |-> type, role |-> role, id |-> None, enc |-> None, text |-> None,
   part |-> "text", breakpoint |-> FALSE]

Ids == {"short", "long", "cut"}
Ciphers == {"gpt", "foreign"}
Items == [type : {"string", "message", "reasoning", "call", "output", "patch", "other"},
          role : {None, "user", "assistant", "system", "developer"},
          id : Ids \cup {None}, enc : Ciphers \cup {None},
          text : {None, "summary", "content"},
          part : {"text", "image", "file", "other"}, breakpoint : BOOLEAN]

\* What a field may hold when it is there.  model: the virtual name or the
\* target's; key: of the client, the caller or the session; tier, effort:
\* the values that are treated apart, and others.
Models == {"client", "real"}
Keys == {"client", "caller", "session"}
Flags == {"true", "false"}
Bodies == [suite : Suites, model : Models \cup {None}, key : Keys \cup {None},
           effort : {None, "max", "xhigh", "other"}, stream : BOOLEAN,
           instructions : BOOLEAN, store : Flags \cup {None},
           include : {None, "encrypted", "other"}, parallel : Flags \cup {None},
           tier : {None, "priority", "flex"}, fields : SUBSET STRING,
           tools : SUBSET STRING, input : Seq(Items),
           thinking : {None, "plain", "displayed"}, billing : {None, "stale", "signed"}]

ASSUME NoneAssumption ==
  None \notin Models \cup Keys \cup Flags \cup Ids \cup Ciphers
    \cup {"system", "summary", "content", "priority", "plain"}

\* The body of a request: what the functions below read or write.
Body(suite) ==
  [suite |-> suite, model |-> IF suite = "gemini" THEN None ELSE "client",
   key |-> None, effort |-> None, stream |-> FALSE, instructions |-> FALSE,
   store |-> None, include |-> None, parallel |-> None, tier |-> None,
   fields |-> {}, tools |-> {}, input |-> <<>>, thinking |-> None,
   billing |-> None]

Prepared(before, after) == [body |-> after, changed |-> after # before]

--------------------------------------------------------------------------------
(* Every target *)

\* The virtual model name gives way to the target's; a Gemini body has none.
OverrideModel(b) ==
  Prepared(b, [b EXCEPT !.model = IF @ = None THEN None ELSE "real"])

\* Requests of one API key go to the same machine of an OpenAI-like upstream.
InjectCacheKey(b, caller) ==
  LET wanted == /\ b.suite \in {"chat", "responses"}
                /\ b.key = None
                /\ caller # "anonymous"
  IN  Prepared(b, [b EXCEPT !.key = IF wanted THEN "caller" ELSE @])

\* "max" is the deepest effort of the codecs, which few models accept.
NormalizeReasoning(b, target) ==
  Prepared(b, [b EXCEPT !.effort =
    IF b.suite \in {"chat", "responses"} /\ ~target.takesMax /\ @ = "max"
    THEN "xhigh" ELSE @])

--------------------------------------------------------------------------------
(* The official DeepSeek Responses endpoint, which ignores what it does not  *)
(* know: what can be dropped without loss is dropped, the rest is refused.   *)

DeepSeekStripped == {"metadata", "verbosity", "summary"}
DeepSeekRefused  == {"previous_response_id", "stream_options", "client_metadata", "stop"}
DeepSeekTools    == {"function", "patch"}

\* Reasoning is replayed as plain text; ciphertext alone is dropped.
DeepSeekReasoning(item) ==
  IF item.enc # None /\ item.text = None
  THEN <<>>
  ELSE <<[item EXCEPT !.text = "content", !.enc = None]>>

DeepSeekRefusesReasoning(item) ==
  \/ item.enc = None /\ item.text = None
  \/ item.text = "content" /\ item.part # "text"

\* Files and unknown parts of a message or of a tool's result.
DeepSeekRefusesContent(item) == item.part \notin {"text", "image"}

DeepSeekRefusesItem(item) ==
  CASE item.type = "reasoning" -> DeepSeekRefusesReasoning(item)
    [] item.type \in {"message", "output"} -> DeepSeekRefusesContent(item)
    [] item.type \in {"string", "call", "patch"} -> FALSE
    [] OTHER -> TRUE

DeepSeekRefuses(b) ==
  \/ b.fields \cap DeepSeekRefused # {}
  \/ b.tier # None
  \/ b.store = "true"
  \/ b.parallel = "false"
  \/ ~ b.tools \subseteq DeepSeekTools
  \/ \E k \in DOMAIN b.input : DeepSeekRefusesItem(b.input[k])

PrepareDeepSeek(b) ==
  Prepared(b, [b EXCEPT
    !.key = None, !.include = None, !.fields = @ \ DeepSeekStripped,
    !.input = FlattenSeq([k \in DOMAIN @ |->
      IF @[k].type = "reasoning" THEN DeepSeekReasoning(@[k]) ELSE <<@[k]>>])])

\* prepare_provider_request_body: refused, or prepared for the provider.
ProviderRefuses(b, target) ==
  target.deepseek /\ b.suite = "responses" /\ DeepSeekRefuses(b)

PrepareProvider(b, target, caller) ==
  LET deepseek == target.deepseek /\ b.suite = "responses"
      keyed == IF deepseek THEN Prepared(b, b) ELSE InjectCacheKey(b, caller)
      effort == NormalizeReasoning(keyed.body, target)
      last == IF deepseek THEN PrepareDeepSeek(effort.body)
                          ELSE Prepared(effort.body, effort.body)
  IN  [body |-> last.body,
       changed |-> keyed.changed \/ effort.changed \/ last.changed]

--------------------------------------------------------------------------------
(* A Codex subscription *)

CodexStripped == {"metadata", "temperature", "stop"}
HttpStripped  == {"previous_response_id", "stream_options"}

\* Identifiers over 64 characters are cut, the same one always the same way.
ShortenId(item) == [item EXCEPT !.id = IF @ = "long" THEN "cut" ELSE @]

CodexItem(item) ==
  [ShortenId(item) EXCEPT !.role = IF @ = "system" THEN "developer" ELSE @,
                          !.breakpoint = FALSE]

\* An input given as a string, and what becomes of it: a message of the user.
StringInput == <<Item("string", None)>>

CodexInput(input) ==
  IF input = StringInput THEN <<Item("message", "user")>>
  ELSE [k \in DOMAIN input |-> CodexItem(input[k])]

PrepareCodex(b, websocket) ==
  Prepared(b, [b EXCEPT
    !.stream = TRUE, !.instructions = TRUE, !.store = "false",
    !.include = "encrypted", !.parallel = "true",
    !.fields = @ \ (CodexStripped \cup (IF websocket THEN {} ELSE HttpStripped)),
    !.tier = IF @ = "priority" THEN @ ELSE None,
    !.input = CodexInput(@)])

\* Tool names over 64 bytes are refused, never changed.
CodexRefuses(b) == "long" \in b.tools

\* One reasoning item of the input.  The signatures of an Anthropic client come
\* beside the body, one for each of its reasoning blocks.
ReplayReasoning(item, anthropic, signature) ==
  IF anthropic
  THEN IF signature = "gpt"
       THEN <<[item EXCEPT !.enc = "gpt", !.text = None]>>
       ELSE <<>>
  ELSE IF item.enc = "gpt" THEN <<item>>
  ELSE IF item.text # "summary" THEN <<>>
  ELSE <<[item EXCEPT !.enc = None, !.id = None]>>

NthReasoning(input, k) ==
  Len(SelectSeq(SubSeq(input, 1, k), LAMBDA i : i.type = "reasoning"))

\* Reasoning of another provider is sent on as if it could be decrypted.
NormalizeReplayKeepsForeign(b, anthropic, signatures) ==
  IF anthropic THEN Prepared(b, b)
  ELSE Prepared(b, [b EXCEPT !.input = [k \in DOMAIN @ |-> ShortenId(@[k])]])

NormalizeReplay(b, anthropic, signatures) ==
  LET sig(k) == LET n == NthReasoning(b.input, k)
                IN  IF n \in DOMAIN signatures THEN signatures[n] ELSE None
      replay(k) == IF b.input[k].type # "reasoning" THEN <<ShortenId(b.input[k])>>
                   ELSE [j \in DOMAIN ReplayReasoning(b.input[k], anthropic, sig(k)) |->
                           ShortenId(ReplayReasoning(b.input[k], anthropic, sig(k))[j])]
  IN  Prepared(b, [b EXCEPT !.input = FlattenSeq([k \in DOMAIN b.input |-> replay(k)])])

\* "Lite" clients call tools one by one, and without tools there is no flag.
NormalizeParallel(b, lite) ==
  Prepared(b, [b EXCEPT !.parallel =
    IF lite THEN "false" ELSE IF b.tools = {} THEN None ELSE @])

SetSessionKey(b, session) ==
  Prepared(b, [b EXCEPT !.key = IF session = None THEN @ ELSE session])

\* prepare_codex_egress_body, with the profile on.
PrepareCodexEgress(b, websocket, anthropic, signatures, lite, session) ==
  LET shaped == PrepareCodex(b, websocket)
      replay == NormalizeReplay(shaped.body, anthropic, signatures)
      calls == NormalizeParallel(replay.body, lite)
      keyed == SetSessionKey(calls.body, session)
  IN  [body |-> keyed.body,
       changed |-> \/ shaped.changed \/ replay.changed
                   \/ calls.changed \/ keyed.changed]

--------------------------------------------------------------------------------
(* An Anthropic subscription *)

\* Thinking is shown in summary, and a billing header the client wrote is
\* signed for the body as it is now.
PrepareAnthropic(b) ==
  [body |-> [b EXCEPT !.thinking = IF @ = "plain" THEN "displayed" ELSE @,
                      !.billing = IF @ = None THEN None ELSE "signed"],
   changed |-> b.thinking = "plain" \/ b.billing # None]
================================================================================
