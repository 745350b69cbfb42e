----------------------------- MODULE GeminiDocs -----------------------------
(***************************************************************************)
(* Requests and answers of the Gemini protocol (GeminiCodec,               *)
(* crates/protocols/src/gemini.rs).  A message is a role and parts; a call *)
(* and its response are paired by an id, if they have one, or else by the  *)
(* name of the function.                                                   *)
(***************************************************************************)
EXTENDS Documents

\* synth_gemini_call_id.
SynthId(name) == IF name = None THEN None ELSE "gemini_call_" \o name

TextPart(data) == [type |-> "text", data |-> data]
ThoughtPart(data) == [type |-> "thought", data |-> data]
CallPart(id, name, data) ==
  [type |-> "functionCall", id |-> id, name |-> name, data |-> data]
ResponsePart(id, name, data) ==
  [type |-> "functionResponse", id |-> id, name |-> name, data |-> data]
FilePart(source) == [type |-> "file", source |-> source]

\* The id of a call or a response: its own or the one made up from the name.
GeminiCallId(p) == IF p.id = None THEN SynthId(p.name) ELSE p.id

\* A part of a request or an answer.
GeminiPart(p) ==
  CASE p.type = "thought"          -> Reasoning(p.data, None, None, None)
    [] p.type = "text"             -> Text(p.data, FALSE)
    [] p.type = "functionCall"     -> ToolCall(GeminiCallId(p), p.name, p.data, None, None)
    [] p.type = "functionResponse" -> ToolResult(GeminiCallId(p), p.name, p.data, None)
    [] p.type = "file"             -> Media(p.source, FALSE)

GeminiRole == [user |-> "user", model |-> "assistant", function |-> "tool"]

GeminiParams ==
  [maxOutputTokens |-> "max_tokens", temperature |-> "temperature", topP |-> "top_p",
   topK |-> "top_k", stopSequences |-> "stop"]

\* Fields only a Gemini upstream gets.
GeminiTopLevel == {"safetySettings", "toolConfig", "cachedContent", "labels"}

\* decode_request.
GeminiDecodeRequest(body) ==
  [NewRequest("gemini") EXCEPT
     !.system = body.system,
     !.messages = MapSeq(LAMBDA m : Message(GeminiRole[m.role], MapSeq(GeminiPart, m.content)),
                         body.messages),
     !.tools = {[type |-> "function", required |-> FALSE, callers |-> FALSE] : t \in body.tools},
     !.fields = {GeminiParams[f] : f \in body.fields \cap DOMAIN GeminiParams},
     !.thinking = body.thinking,
     !.format = body.format,
     !.metadata = body.metadata,
     !.tool_choice = body.tool_choice,
     !.gemini = body.fields \cap GeminiTopLevel]

\* lookup_tool_call_name: the newest turn with a call of this id, or else the name
\* in a made-up id.
LookupToolCallName(messages, id) ==
  LET named == {i \in DOMAIN messages :
                  /\ messages[i].role = "assistant"
                  /\ \E j \in DOMAIN messages[i].content :
                       messages[i].content[j].kind = "call" /\ messages[i].content[j].id = id}
      m == messages[CHOOSE i \in named : \A j \in named : j <= i]
      call == SelectSeq(m.content, LAMBDA c : c.kind = "call" /\ c.id = id)
      synth == {c.name : c \in {d \in Range(Contents(messages)) :
                                  d.kind = "call" /\ id = SynthId(d.name)}}
  IN IF named /= {} THEN call[1].name ELSE IF synth /= {} THEN CHOOSE n \in synth : TRUE ELSE None

ResultName(messages, c) == IF c.name = None THEN LookupToolCallName(messages, c.id) ELSE c.name

\* The parts of a message: files and programs have none, and ids are not written.
GeminiContent(messages, c) ==
  CASE c.kind \in {"text", "refusal"} -> <<TextPart(c.data)>>
    [] c.kind = "reasoning" -> <<ThoughtPart(c.data)>>
    [] c.kind = "call"      -> <<CallPart(None, c.name, c.data)>>
    [] c.kind = "result"    -> <<ResponsePart(None, ResultName(messages, c), c.data)>>
    [] c.kind = "media"     -> IF c.source = "file" THEN <<>> ELSE <<FilePart(c.source)>>
    [] c.kind = "program"   -> <<>>

GeminiWireRole == [user |-> "user", assistant |-> "model", tool |-> "function", system |-> "user"]

GeminiThinkingBudgetMax == 24576

\* Models from version 3 take a level, earlier ones a budget.
GeminiThinking(t, levels) ==
  LET effort == EffortOf(t)
      level == IF effort = "none_" THEN "minimal"
               ELSE IF effort \in {"xhigh", "max"} THEN "high" ELSE effort
      wanted == IF t.budget /= NoCount THEN t.budget ELSE effort_to_budget[effort]
      budget == IF wanted > GeminiThinkingBudgetMax THEN GeminiThinkingBudgetMax ELSE wanted
  IN [effort |-> IF levels THEN level ELSE None,
      budget |-> IF levels \/ effort = None THEN NoCount ELSE budget,
      shown |-> t.shown, mode |-> None]

\* A result whose call is not found makes encode_request fail.
GeminiEncodable(r) ==
  \A i \in DOMAIN r.messages : \A j \in DOMAIN r.messages[i].content :
    LET c == r.messages[i].content[j]
    IN c.kind = "result" => ResultName(r.messages, c) /= None

GeminiToolChoice(choice) ==
  CASE choice = "function_flat" -> "function" [] choice = "other" -> None [] OTHER -> choice

GeminiFields(r) ==
  LET Field(p) == CHOOSE f \in DOMAIN GeminiParams : GeminiParams[f] = p
      known == {GeminiParams[f] : f \in DOMAIN GeminiParams}
  IN {Field(p) : p \in r.fields \cap known}

\* encode_request.
GeminiEncodeRequest(r, levels) ==
  LET content == MapSeq(LAMBDA m : Message(GeminiWireRole[m.role],
                                           FlatMap(LAMBDA c : GeminiContent(r.messages, c), m.content)),
                        r.messages)
  IN [EmptyBody EXCEPT
        !.system = r.system,
        !.messages = SelectSeq(content, LAMBDA m : m.content /= <<>>),
        !.tools = {t \in r.tools : t.type = "function"},
        !.fields = GeminiFields(r) \cup r.gemini,
        !.thinking = GeminiThinking(r.thinking, levels),
        !.format = r.format,
        !.metadata = r.metadata,
        !.tool_choice = GeminiToolChoice(r.tool_choice)]
-----------------------------------------------------------------------------
GeminiFinish == [STOP |-> "stop", MAX_TOKENS |-> "length", SAFETY |-> "content_filter"]

\* decode_response.  An answer that stops with a call is a tool turn.
GeminiDecodeResponse(a) ==
  LET content == MapSeq(GeminiPart, a.content)
      calls == OfKind(content, {"call"}) /= <<>>
      read == OrZero(a.usage.read)
  IN [content |-> content,
      finish |-> IF a.finish = "STOP" /\ calls THEN "tool_calls" ELSE GeminiFinish[a.finish],
      details |-> IF a.finish = "SAFETY" THEN "safety" ELSE None,
      usage |-> Usage(SaturatingSub(a.usage.input, read), a.usage.output, a.usage.read, NoCount)]

GeminiStop == [stop |-> "STOP", length |-> "MAX_TOKENS", content_filter |-> "SAFETY",
               tool_calls |-> "STOP"]

\* encode_response: calls lose their ids, refusals have no part.
GeminiEncodeResponse(r) ==
  LET Part(c) == CASE c.kind = "text" -> <<TextPart(c.data)>>
                   [] c.kind = "reasoning" -> <<ThoughtPart(c.data)>>
                   [] c.kind = "call" -> <<CallPart(None, c.name, c.data)>>
                   [] OTHER -> <<>>
      w == WireUsage(r.usage)
  IN [content |-> FlatMap(Part, r.content), finish |-> GeminiStop[r.finish],
      usage |-> [input |-> w.input, output |-> w.output, read |-> w.read]]
=============================================================================
