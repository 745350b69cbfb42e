----------------------------- MODULE ChatStream -----------------------------
(***************************************************************************)
(* Streams of the Chat Completions protocol                                *)
(* (crates/protocols/src/chat_completions.rs).                             *)
(*                                                                         *)
(* A chunk is a record: does it carry the response's id, text, reasoning,  *)
(* fragments of tool calls, a finish reason, token counts.                 *)
(***************************************************************************)
EXTENDS IR

NoUsage == [input |-> NoCount]

\* Token counts on the wire of the OpenAI protocols: input includes the cached
\* tokens.
WireUsage(u) ==
  [input |-> u.prompt + OrZero(u.read) + OrZero(u.write), output |-> u.completion,
   read |-> u.read, write |-> u.write]

UsageFromWire(w) ==
  Usage(SaturatingSub(SaturatingSub(w.input, OrZero(w.read)), OrZero(w.write)),
        w.output, w.read, w.write)
-----------------------------------------------------------------------------
(***************************************************************************)
(* ChatCompletionsStreamEncoder.  indices: ids of the calls, in the order  *)
(* in which they were first seen.                                          *)
(***************************************************************************)

ChatEncoder == [indices |-> <<>>]

\* Mutant: every fragment goes to the newest call.
ToolCallIndexNewest(e, id) ==
  IF id = "" \/ Contains(e.indices, id) THEN SaturatingSub(Len(e.indices), 1) ELSE Len(e.indices)

\* tool_call_index: a fragment without an id goes to the newest call.
ToolCallIndex(e, id) ==
  IF id = "" THEN SaturatingSub(Len(e.indices), 1)
  ELSE IF Contains(e.indices, id) THEN (CHOOSE i \in DOMAIN e.indices : e.indices[i] = id) - 1
  ELSE Len(e.indices)

WithCall(e, id) ==
  IF id = "" \/ Contains(e.indices, id) THEN e ELSE [e EXCEPT !.indices = Append(@, id)]

ChatFinishReason(reason) ==
  IF reason \in {"stop", "length", "content_filter", "tool_calls"} THEN reason ELSE "stop"

ChatError == [f |-> "error"]
ChatDone == [f |-> "done"]

\* encode_part.  Programs have no Chat Completions form.
ChatEncodePart(e, p) ==
  CASE p.kind \in {"started", "program"} -> Out(e, <<>>)
    [] p.kind = "text"      -> Keep(e, [f |-> "text", data |-> p.data])
    [] p.kind = "reasoning" -> Keep(e, [f |-> "reasoning", data |-> p.data])
    [] p.kind = "tool"      -> Keep(WithCall(e, p.id),
                                    [f |-> "tool", index |-> ToolCallIndex(e, p.id),
                                     id |-> p.id, name |-> p.name, data |-> p.data])
    [] p.kind = "usage"     -> Keep(e, [f |-> "usage", usage |-> WireUsage(p.usage)])
    [] p.kind = "finish"    -> Keep(e, [f |-> "finish", reason |-> ChatFinishReason(p.reason)])
    [] p.kind = "completed" -> Keep(e, ChatDone)
    [] p.kind = "error"     -> Keep(e, ChatError)

\* encode_error and encode_done.
ChatEncodeError == <<ChatError, ChatDone>>
ChatEncodeDone == <<ChatDone>>
-----------------------------------------------------------------------------
(***************************************************************************)
(* ChatCompletionsStreamDecoder.  calls: id of the call at each index.     *)
(***************************************************************************)

ChatDecoder == [response_id |-> FALSE, calls |-> <<>>,
                saw_finish |-> FALSE, saw_tool_calls |-> FALSE]

Chunk == [kind |-> "chunk", id |-> FALSE, error |-> FALSE, text |-> <<>>,
          reasoning |-> <<>>, tools |-> <<>>, finish |-> None, usage |-> NoUsage]

\* slot: the list of calls grows to the index, new slots have an empty id.
Slot(d, index) == IF index < Len(d.calls) THEN d.calls[index + 1] ELSE ""

WithSlot(d, t) ==
  LET n == IF t.index < Len(d.calls) THEN Len(d.calls) ELSE t.index + 1
      id == IF t.id = None THEN Slot(d, t.index) ELSE t.id
  IN [d EXCEPT !.saw_tool_calls = TRUE,
               !.calls = [i \in 1..n |-> IF i = t.index + 1 THEN id ELSE Slot(d, i - 1)]]

\* One entry of delta.tool_calls: an opener without arguments, then the
\* arguments as a fragment without a name.
ChatToolCall(d, t) ==
  LET s == WithSlot(d, t)
      id == Slot(s, t.index)
      opener == <<ToolCallDelta(id, t.name, <<>>, None)>>
      fragment == <<ToolCallDelta(id, None, t.data, None)>>
  IN Out(s, IF t.name = None THEN fragment
            ELSE IF t.data = <<>> THEN opener ELSE opener \o fragment)

\* feed for a chat.completion.chunk: content, then token counts, and the finish
\* reasons last.
ChatFeedChunk(d, c) ==
  LET started == IF c.id /\ ~d.response_id THEN <<ResponseStarted>> ELSE <<>>
      known == [d EXCEPT !.response_id = @ \/ c.id]
      text == IF c.text = <<>> THEN <<>> ELSE <<TextDelta(c.text)>>
      reasoning == IF c.reasoning = <<>> THEN <<>>
                   ELSE <<ReasoningDelta(c.reasoning, None, None)>>
      calls == ForEach(ChatToolCall, known, c.tools)
      usage == IF c.usage = NoUsage THEN <<>> ELSE <<UsagePart(UsageFromWire(c.usage))>>
      finish == IF c.finish = None THEN <<>> ELSE <<Finish(c.finish)>>
  IN IF c.error THEN Out(known, started \o <<ErrorPart>>)
     ELSE Out([calls.state EXCEPT !.saw_finish = @ \/ c.finish /= None],
              started \o text \o reasoning \o calls.out \o usage \o finish)

\* [DONE]: a stream of tool calls without a finish reason gets one.
ChatFeedDone(d) ==
  Out(d, (IF ~d.saw_finish /\ d.saw_tool_calls THEN <<Finish("tool_calls")>> ELSE <<>>)
           \o <<ResponseCompleted>>)

ChatFeed(d, line) == IF line.kind = "done" THEN ChatFeedDone(d) ELSE ChatFeedChunk(d, line)
=============================================================================
