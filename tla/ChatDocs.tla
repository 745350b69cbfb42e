------------------------------ MODULE ChatDocs ------------------------------
(***************************************************************************)
(* Requests and answers of the Chat Completions protocol                   *)
(* (ChatCompletionsCodec, crates/protocols/src/chat_completions.rs).       *)
(*                                                                         *)
(* A message has a role, parts (a string is one text part; array tells     *)
(* them apart), reasoning_content, a refusal, tool_calls and a             *)
(* tool_call_id.                                                           *)
(***************************************************************************)
EXTENDS Documents

ChatMessage(role, parts) ==
  [role |-> role, parts |-> parts, array |-> FALSE, reasoning |-> <<>>, refusal |-> <<>>,
   calls |-> <<>>, tool_call_id |-> None]

\* parse_content_array: text and images; a part of any other type (audio, files)
\* is read as a text, and it has none.
ChatPart(p) ==
  CASE p.type = "text"  -> Text(p.data, p.breakpoint)
    [] p.type = "image" -> Media(p.source, p.breakpoint)
    [] OTHER            -> Text(<<>>, FALSE)

ChatCall(t) ==
  ToolCall(t.id, t.name, t.data, None, IF t.custom THEN "custom" ELSE None)

ChatRole(role) == IF role = "developer" THEN "system" ELSE role

\* A message of a request.  The string of a tool message is the result of its
\* call, but its array is read as text; an empty string is no content, a refusal
\* is not read, and a message without content gets an empty text.
ChatDecodeMessage(m) ==
  LET said == SelectSeq(m.parts, LAMBDA p : m.array \/ p.type /= "text" \/ p.data /= <<>>)
      parts == IF m.role = "tool" /\ ~m.array
               THEN <<ToolResult(m.tool_call_id, None, Data(m.parts), None)>>
               ELSE MapSeq(ChatPart, said)
      thought == IF m.reasoning = <<>> THEN <<>>
                 ELSE <<Reasoning(m.reasoning, None, None, None)>>
      content == thought \o parts \o MapSeq(ChatCall, m.calls)
  IN Message(ChatRole(m.role), IF content = <<>> THEN <<Text(<<>>, FALSE)>> ELSE content)

\* A list of stop words; a single word, which is a string, is not read.
ChatParams ==
  [max_completion_tokens |-> "max_tokens", max_tokens |-> "max_tokens",
   temperature |-> "temperature", top_p |-> "top_p", frequency_penalty |-> "frequency_penalty",
   presence_penalty |-> "presence_penalty", seed |-> "seed", stop |-> "stop",
   verbosity |-> "verbosity"]

\* Fields a Chat Completions upstream gets back as they came.
OpenAIExtra ==
  {"parallel_tool_calls", "n", "logit_bias", "logprobs", "top_logprobs", "user",
   "stream_options", "service_tier", "store", "verbosity", "metadata", "prompt_cache_key",
   "prompt_cache_retention", "prompt_cache_options", "safety_identifier"}

\* Fields of both OpenAI protocols.
OpenAIShared ==
  {"safety_identifier", "prompt_cache_options", "prompt_cache_key", "prompt_cache_retention"}

\* System messages become the system text, unless one has a cache breakpoint.
ChatSystem(messages) ==
  LET system == SelectSeq(messages, LAMBDA m : m.role = "system")
  IN IF HasBreakpoint(Contents(system)) THEN [text |-> <<>>, messages |-> messages]
     ELSE [text |-> Data(OfKind(Contents(system), {"text"})),
           messages |-> SelectSeq(messages, LAMBDA m : m.role /= "system")]

\* Tools: anything but a custom tool is read as a function.
ChatTools(body) ==
  LET required == "parallel_tool_calls" \in body.fields /\ body.tool_choice /= "none_"
  IN {[type |-> IF t.type = "custom" THEN "custom" ELSE "function",
       required |-> required, callers |-> FALSE] : t \in body.tools}

\* decode_request.
ChatDecodeRequest(body) ==
  LET system == ChatSystem(MapSeq(ChatDecodeMessage, body.messages))
  IN [NewRequest("chat") EXCEPT
        !.system = system.text,
        !.messages = system.messages,
        !.tools = ChatTools(body),
        !.fields = {ChatParams[f] : f \in body.fields \cap DOMAIN ChatParams},
        !.thinking = [body.thinking EXCEPT !.budget = NoCount, !.shown = None, !.mode = None],
        !.format = body.format,
        !.metadata = body.metadata,
        !.tool_choice = body.tool_choice,
        !.openai = body.fields \cap (OpenAIExtra \cup OpenAIShared),
        !.max_tokens_field = IF "max_completion_tokens" \in body.fields
                             THEN "max_completion_tokens" ELSE None]

\* The parts of a message: files and programs have none.
ChatContentPart(c) ==
  CASE c.kind = "text" -> <<[type |-> "text", data |-> c.data, breakpoint |-> c.breakpoint]>>
    [] c.kind = "refusal" -> <<[type |-> "text", data |-> c.data, breakpoint |-> FALSE]>>
    [] c.kind = "media" /\ c.source /= "file" ->
         <<[type |-> "image", source |-> c.source, breakpoint |-> c.breakpoint]>>
    [] OTHER -> <<>>

ChatEncodeCall(c) ==
  [id |-> WireId(c), name |-> c.name, data |-> c.data, custom |-> IsCustomCall(c.wire_type)]

\* A message becomes a tool message per result, and then itself if anything of
\* it is left.  Reasoning goes back only beside tool calls.
ChatEncodeMessage(m) ==
  LET results == MapSeq(LAMBDA c : [ChatMessage("tool", <<[type |-> "text", data |-> c.data,
                                                           breakpoint |-> FALSE]>>)
                                      EXCEPT !.tool_call_id = c.id],
                        OfKind(m.content, {"result"}))
      parts == FlatMap(ChatContentPart, m.content)
      calls == MapSeq(ChatEncodeCall, OfKind(m.content, {"call"}))
      own == [ChatMessage(m.role, parts) EXCEPT
                !.array = Len(parts) > 1, !.calls = calls,
                !.reasoning = IF calls = <<>> THEN <<>>
                              ELSE Data(OfKind(m.content, {"reasoning"}))]
  IN results \o (IF parts \o calls /= <<>> \/ m.content = <<>> THEN <<own>> ELSE <<>>)

\* The parameters: top_k has no field; max_tokens keeps the name it came under.
ChatFields(r) ==
  LET max_tokens == IF r.max_tokens_field = None THEN "max_tokens" ELSE r.max_tokens_field
  IN {IF p = "max_tokens" THEN max_tokens ELSE p : p \in r.fields \ {"top_k"}}

ChatWireTools(tools) == {t \in tools : t.type \in {"function", "custom"}}

\* encode_request.  The tool choice is not written.
ChatEncodeRequest(r) ==
  LET system == IF r.system = <<>> THEN <<>>
                ELSE <<ChatMessage("system", <<[type |-> "text", data |-> r.system,
                                                breakpoint |-> FALSE]>>)>>
  IN [EmptyBody EXCEPT
        !.messages = system \o FlatMap(ChatEncodeMessage, r.messages),
        !.tools = ChatWireTools(r.tools),
        !.fields = ChatFields(r) \cup r.openai,
        !.thinking.effort = EffortOf(r.thinking),
        !.format = r.format,
        !.metadata = r.metadata]
-----------------------------------------------------------------------------
(***************************************************************************)
(* Answers: text, refusal, reasoning, calls, finish and usage.  reasoned:  *)
(* the usage counts reasoning tokens.                                      *)
(***************************************************************************)

\* The thought made up from a count of reasoning tokens.
TokensUsed == <<"reasoning tokens used">>

\* decode_response.
ChatDecodeResponse(a) ==
  LET text == IF a.text = <<>> THEN <<>> ELSE <<Text(a.text, FALSE)>>
      refusal == IF a.refusal = <<>> THEN <<>> ELSE <<Refusal(a.refusal)>>
      thought == IF a.reasoning = <<>> THEN <<>> ELSE <<Reasoning(a.reasoning, None, None, None)>>
      note == IF a.reasoned THEN <<Reasoning(TokensUsed, None, None, None)>> ELSE <<>>
  IN [content |-> text \o refusal \o thought \o MapSeq(ChatCall, a.calls) \o note,
      finish |-> IF a.refusal /= <<>> THEN "content_filter" ELSE a.finish,
      details |-> CASE a.refusal /= <<>> -> "refusal"
                    [] a.refusal = <<>> /\ a.finish = "content_filter" -> "content_filter"
                    [] OTHER -> None,
      usage |-> UsageFromWire(a.usage)]

\* encode_response: reasoning and programs are left out.
ChatEncodeResponse(r) ==
  [text |-> Data(OfKind(r.content, {"text"})),
   refusal |-> Data(OfKind(r.content, {"refusal"})),
   reasoning |-> <<>>, reasoned |-> FALSE,
   calls |-> MapSeq(ChatEncodeCall, OfKind(r.content, {"call"})),
   finish |-> ChatFinishReason(r.finish),
   usage |-> WireUsage(r.usage)]
=============================================================================
