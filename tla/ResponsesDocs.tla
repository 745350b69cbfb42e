---------------------------- MODULE ResponsesDocs ----------------------------
(***************************************************************************)
(* Requests and answers of the Responses protocol (ResponsesCodec,         *)
(* crates/protocols/src/responses.rs).  Both are lists of items; "opaque"  *)
(* stands for the items only Responses knows (tool search, compaction),    *)
(* "agent" for those of several agents.                                    *)
(***************************************************************************)
EXTENDS Documents

Item(type) == [type |-> type, role |-> None, parts |-> <<>>, id |-> None, call_id |-> None,
               name |-> None, data |-> <<>>, encrypted |-> None]

MessageItem(role, parts) == [Item("message") EXCEPT !.role = role, !.parts = parts]
ReasoningItem(data, id, encrypted) ==
  [Item("reasoning") EXCEPT !.data = data, !.id = id, !.encrypted = encrypted]
OutputItem(type, call_id, data) == [Item(type) EXCEPT !.call_id = call_id, !.data = data]

CallTypes == {"function_call", "custom_tool_call", "local_shell_call"}
OutputTypes == {"function_call_output", "custom_tool_call_output", "local_shell_call_output"}
OpaqueTypes == {"opaque", "agent"}

\* responses_call_id.
ItemCallId(item) == IF item.call_id /= None THEN item.call_id ELSE item.id

\* Mutant: calls keep the ids they came with.
UniqueCallIdAsItIs(raw, occurrence, used) == raw

\* unique_responses_call_id: the second call of an id gets a number, and so does an
\* id that is taken.
UniqueCallId(raw, occurrence, used) ==
  LET base == IF raw = None THEN "call_tiygate_" \o ToString(occurrence)
              ELSE IF occurrence = 0 THEN raw ELSE raw \o "_" \o ToString(occurrence)
      Candidate(k) == IF k = 0 THEN base ELSE base \o "_" \o ToString(k)
      free == {k \in 0..Cardinality(used) : Candidate(k) \notin used}
  IN Candidate(CHOOSE k \in free : \A j \in free : k <= j)

ItemRole(item) ==
  CASE item.type \in CallTypes \cup {"program", "reasoning"} -> "assistant"
    [] item.type \in OutputTypes -> "tool"
    [] item.role = "developer" -> "system"
    [] OTHER -> IF item.role = None THEN "user" ELSE item.role

\* The parts of a message item: text, images and files; refusals are passed over.
ItemPart(p) ==
  CASE p.type = "text"  -> <<Text(p.data, p.breakpoint)>>
    [] p.type = "media" -> <<Media(p.source, p.breakpoint)>>
    [] OTHER            -> <<>>

\* The calls so far: the id of the item, the id given to the call, and whether its
\* output has been seen (call_id_counts, call_id_remap and used_call_ids).
Reader == [messages |-> <<>>, calls |-> <<>>, opaque |-> <<>>, apart |-> FALSE, index |-> 0]

CallsOf(s, raw) == {i \in DOMAIN s.calls : s.calls[i].raw = raw}
Unanswered(s, raw) == {i \in CallsOf(s, raw) : ~s.calls[i].answered}

\* A function call: with an item id and a call id, both are kept.
ReadCall(s, item) ==
  LET raw == ItemCallId(item)
      id == UniqueCallId(raw, Cardinality(CallsOf(s, raw)), {c.id : c \in Range(s.calls)})
      both == item.id /= None /\ item.call_id /= None
  IN [state |-> [s EXCEPT !.calls = Append(@, [raw |-> raw, id |-> id, answered |-> FALSE])],
      content |-> <<ToolCall(IF both THEN item.id ELSE id, item.name, item.data,
                             IF both THEN id ELSE None, None)>>]

\* The output of a call goes to the oldest call of its id without one.
ReadOutput(s, item) ==
  LET raw == ItemCallId(item)
      open == Unanswered(s, raw)
      i == CHOOSE k \in open : \A j \in open : k <= j
  IN [state |-> IF open = {} THEN s ELSE [s EXCEPT !.calls[i].answered = TRUE],
      content |-> <<ToolResult(IF open = {} THEN raw ELSE s.calls[i].id, None, item.data, None)>>]

\* The content of an item; one it does not know is an empty text.
ReadContent(s, item) ==
  CASE item.type = "function_call" -> ReadCall(s, item)
    [] item.type = "function_call_output" -> ReadOutput(s, item)
    [] item.type \in OpaqueTypes ->
         [state |-> [s EXCEPT !.opaque = Append(@, [index |-> s.index, item |-> item,
                                                    agent |-> item.type = "agent"])],
          content |-> <<>>]
    [] item.type = "message" -> [state |-> s, content |-> FlatMap(ItemPart, item.parts)]
    [] item.type = "reasoning" ->
         [state |-> s, content |-> <<Reasoning(item.data, None, item.id, item.encrypted)>>]
    [] item.type \in {"custom_tool_call", "local_shell_call"} ->
         [state |-> s, content |-> <<ToolCall(ItemCallId(item), item.name, item.data,
                                              ItemCallId(item), item.type)>>]
    [] item.type \in {"custom_tool_call_output", "local_shell_call_output"} ->
         [state |-> s, content |-> <<ToolResult(ItemCallId(item), None, item.data, item.type)>>]
    [] item.type = "program" -> [state |-> s, content |-> <<Program>>]
    [] OTHER -> [state |-> s, content |-> <<Text(<<>>, FALSE)>>]

\* Items of one role become one message, unless an item that was set aside lies
\* between them or (boundaries) anywhere in the input.
ReadItem(boundaries, s, item) ==
  LET r == ReadContent(s, item)
      role == ItemRole(item)
      next == [r.state EXCEPT !.index = @ + 1, !.apart = r.content = <<>>]
      joins == s.messages /= <<>> /\ Last(s.messages).role = role /\ ~s.apart /\ ~boundaries
  IN IF r.content = <<>> THEN next
     ELSE IF joins THEN [next EXCEPT !.messages[Len(s.messages)].content = @ \o r.content]
     ELSE [next EXCEPT !.messages = Append(@, Message(role, r.content))]

ReadItems(items) ==
  LET boundaries == \E i \in DOMAIN items : items[i].type \in OpaqueTypes
  IN FoldLeft(LAMBDA s, item : ReadItem(boundaries, s, item), Reader, items)

\* A list of stop words; a single word, which is a string, is not read.
ResponsesParams ==
  [max_output_tokens |-> "max_tokens", temperature |-> "temperature", top_p |-> "top_p",
   stop |-> "stop", verbosity |-> "verbosity"]

\* Fields only a Responses upstream gets.
ResponsesExtra ==
  {"metadata", "previous_response_id", "store", "parallel_tool_calls", "service_tier", "user",
   "truncation", "include", "prompt_cache_key", "prompt_cache_retention",
   "prompt_cache_options", "client_metadata", "multi_agent"}

SharedFields ==
  {"safety_identifier", "prompt_cache_options", "prompt_cache_key", "prompt_cache_retention"}

ResponsesTools(tools) ==
  {[type |-> t.type, required |-> FALSE, callers |-> t.callers] : t \in tools}

\* decode_request.
ResponsesDecodeRequest(body) ==
  LET read == ReadItems(body.messages)
  IN [NewRequest("responses") EXCEPT
        !.system = body.system,
        !.messages = read.messages,
        !.tools = ResponsesTools(body.tools),
        !.fields = {ResponsesParams[f] : f \in body.fields \cap DOMAIN ResponsesParams},
        !.thinking = [body.thinking EXCEPT !.budget = NoCount, !.shown = None],
        !.format = body.format,
        !.metadata = body.metadata,
        !.tool_choice = body.tool_choice,
        !.openai = body.fields \cap SharedFields,
        !.responses = body.fields \cap ResponsesExtra,
        !.opaque = read.opaque]
-----------------------------------------------------------------------------
MessagePart(c) ==
  IF c.kind = "media" THEN [type |-> "media", source |-> c.source, breakpoint |-> c.breakpoint]
  ELSE [type |-> "text", data |-> c.data, breakpoint |-> c.kind = "text" /\ c.breakpoint]

\* flush_text_message: a run of text and media becomes a message item.
Flush(role, s) ==
  IF s.parts = <<>> THEN s.items ELSE Append(s.items, MessageItem(role, s.parts))

CallItem(c) ==
  LET type == IF IsCustomCall(c.wire_type) THEN "custom_tool_call"
              ELSE IF c.wire_type = "local_shell_call" THEN c.wire_type ELSE "function_call"
  IN [Item(type) EXCEPT !.call_id = WireId(c), !.name = c.name, !.data = c.data,
                        !.id = IF c.call_id = None THEN None ELSE c.id]

ResultItem(c) ==
  OutputItem(IF c.wire_type = None THEN "function_call_output" ELSE c.wire_type, c.id, c.data)

ContentItem(c) ==
  CASE c.kind = "reasoning" -> ReasoningItem(c.data, c.id, c.encrypted)
    [] c.kind = "call"      -> CallItem(c)
    [] c.kind = "result"    -> ResultItem(c)
    [] c.kind = "program"   -> Item("program")

\* The items of a user's or an assistant's message.
TurnItems(m) ==
  LET Step(s, c) == IF c.kind \in {"text", "media", "refusal"}
                    THEN [s EXCEPT !.parts = Append(@, MessagePart(c))]
                    ELSE [items |-> Append(Flush(m.role, s), ContentItem(c)), parts |-> <<>>]
  IN Flush(m.role, FoldLeft(Step, [items |-> <<>>, parts |-> <<>>], m.content))

\* A system message is an item only when its place or its breakpoint matters.
SystemItems(m, boundaries) ==
  LET parts == MapSeq(MessagePart, OfKind(m.content, {"text", "media"}))
  IN IF (HasBreakpoint(m.content) \/ boundaries) /\ parts /= <<>>
     THEN <<MessageItem("developer", parts)>> ELSE <<>>

\* Otherwise its text joins the instructions.
SystemText(m, boundaries) ==
  IF HasBreakpoint(m.content) \/ boundaries THEN <<>> ELSE Data(OfKind(m.content, {"text"}))

RequestItems(m, boundaries) ==
  CASE m.role = "system" -> SystemItems(m, boundaries)
    [] m.role = "tool" -> MapSeq(ContentItem, OfKind(m.content, {"result", "program"}))
    [] OTHER -> TurnItems(m)

\* Items that were set aside return to the places they had.
MergeOpaque(items, opaque) ==
  LET Step(s, k) ==
        IF s.opaque /= <<>> /\ (Head(s.opaque).index = Len(s.merged) \/ s.items = <<>>)
        THEN [s EXCEPT !.merged = Append(@, Head(s.opaque).item), !.opaque = Tail(@)]
        ELSE [s EXCEPT !.merged = Append(@, Head(s.items)), !.items = Tail(@)]
  IN FoldLeft(Step, [merged |-> <<>>, items |-> items, opaque |-> opaque],
              [k \in 1..(Len(items) + Len(opaque)) |-> k]).merged

\* The parameters, the fields of both OpenAI protocols and those of this one.
ResponsesFields(r) ==
  LET Field(p) == IF p = "max_tokens" THEN "max_output_tokens" ELSE p
      known == {"max_tokens", "temperature", "top_p", "stop", "verbosity"}
  IN {Field(p) : p \in r.fields \cap known} \cup (r.openai \cap SharedFields) \cup r.responses

\* A budget becomes an effort.
ResponsesThinking(t) == [t EXCEPT !.effort = EffortOf(t), !.budget = NoCount, !.shown = None]

\* encode_request.
ResponsesEncodeRequest(r) ==
  LET boundaries == r.opaque /= <<>>
      system == SelectSeq(r.messages, LAMBDA m : m.role = "system")
      items == FlatMap(LAMBDA m : RequestItems(m, boundaries), r.messages)
  IN [EmptyBody EXCEPT
        !.system = r.system \o FlatMap(LAMBDA m : SystemText(m, boundaries), system),
        !.messages = MergeOpaque(items, r.opaque),
        !.tools = r.tools,
        !.fields = ResponsesFields(r),
        !.thinking = ResponsesThinking(r.thinking),
        !.format = r.format,
        !.metadata = r.metadata,
        !.tool_choice = r.tool_choice]
-----------------------------------------------------------------------------
\* An item of an answer: of a message only the text is read, and reasoning without
\* text and ciphertext is no content.
AnswerContent(item) ==
  CASE item.type = "message" ->
         FlatMap(LAMBDA p : IF p.type = "text" THEN <<Text(p.data, FALSE)>> ELSE <<>>, item.parts)
    [] item.type = "function_call" ->
         <<ToolCall(item.id, item.name, item.data, item.call_id, None)>>
    [] item.type \in {"custom_tool_call", "local_shell_call"} ->
         <<ToolCall(ItemCallId(item), item.name, item.data, ItemCallId(item), item.type)>>
    [] item.type = "reasoning" ->
         IF item.data = <<>> /\ item.encrypted = None THEN <<>>
         ELSE <<Reasoning(item.data, None, item.id, item.encrypted)>>
    [] item.type = "refusal" -> <<Refusal(item.data)>>
    [] item.type = "program" -> <<Program>>
    [] OTHER -> <<>>

\* decode_response: an answer with a call is a tool turn, even a cut one.
ResponsesDecodeResponse(a) ==
  LET content == FlatMap(AnswerContent, a.output)
      calls == OfKind(content, {"call", "program"}) /= <<>>
  IN [content |-> content,
      finish |-> IF calls THEN "tool_calls" ELSE IF a.status = "completed" THEN "stop" ELSE "length",
      details |-> IF a.status = "incomplete" THEN a.reason ELSE None,
      usage |-> UsageFromWire(a.usage)]

ResponsesStatus(finish) ==
  IF finish \in {"length", "content_filter"} THEN "incomplete" ELSE "completed"

\* encode_response: runs of text become messages; the rest is item by item.  Why an
\* answer is incomplete is not written.
ResponsesEncodeResponse(r) ==
  LET FlushText(s) ==
        IF s.data = <<>> THEN s.items
        ELSE Append(s.items, MessageItem("assistant", <<[type |-> "text", data |-> s.data,
                                                         breakpoint |-> FALSE]>>))
      Own(c) == IF c.kind = "refusal" THEN [Item("refusal") EXCEPT !.data = c.data] ELSE ContentItem(c)
      Step(s, c) == IF c.kind = "text" THEN [s EXCEPT !.data = @ \o c.data]
                    ELSE [items |-> Append(FlushText(s), Own(c)), data |-> <<>>]
  IN [output |-> FlushText(FoldLeft(Step, [items |-> <<>>, data |-> <<>>], r.content)),
      status |-> ResponsesStatus(r.finish), reason |-> None,
      usage |-> WireUsage(r.usage)]
=============================================================================
