-------------------------- MODULE ResponsesStream ---------------------------
(***************************************************************************)
(* Streams of the OpenAI Responses protocol                                *)
(* (crates/protocols/src/responses.rs).  An answer is a list of numbered   *)
(* items (a message, reasoning, tool calls, programs); an item is added,   *)
(* filled by deltas and declared done, and response.completed repeats all  *)
(* of them.                                                                *)
(***************************************************************************)
EXTENDS ChatStream

\* entry(id).or_insert(value) of a map.
OrInsert(map, id, value) ==
  [i \in DOMAIN map \cup {id} |-> IF i \in DOMAIN map THEN map[i] ELSE value]

EmptyMap == [i \in {} |-> None]
-----------------------------------------------------------------------------
(***************************************************************************)
(* ResponsesStreamEncoder.  calls: ids of the open calls in order; index,  *)
(* name, args, wire: their output index, name, arguments and item type.    *)
(***************************************************************************)

ResponsesEncoder ==
  [next_output_index |-> 0,
   text_index |-> NoCount, text |-> <<>>,
   reasoning_index |-> NoCount, reasoning |-> <<>>, reasoning_id |-> None, encrypted |-> None,
   calls |-> <<>>, index |-> EmptyMap, name |-> EmptyMap, args |-> EmptyMap, wire |-> EmptyMap,
   tool_done |-> {}, programs |-> <<>>,
   pending_usage |-> NoUsage, pending_finish |-> None, completed_sent |-> FALSE]

ItemAdded(i, type, id, name) ==
  [f |-> "item_added", index |-> i, type |-> type, id |-> id, name |-> name]
PartAdded(i) == [f |-> "part_added", index |-> i]
Delta(i, type, data) == [f |-> "delta", index |-> i, type |-> type, data |-> data]
Done(i, type, data) == [f |-> "done_event", index |-> i, type |-> type, data |-> data]
ItemDone(i, type, data) == [f |-> "item_done", index |-> i, type |-> type, data |-> data]

WireType(e, id) == IF id \in DOMAIN e.wire THEN e.wire[id] ELSE "function_call"
Arguments(e, id) == IF id \in DOMAIN e.args THEN e.args[id] ELSE <<>>
OutputIndex(e, id) == IF id \in DOMAIN e.index THEN e.index[id] ELSE 0

\* open_tool_call: what is known of a call is kept from its first opener.
OpenToolCall(e, p) ==
  LET fresh == p.id \notin DOMAIN e.index
      wire == IF p.wire_type = "custom" THEN "custom_tool_call" ELSE p.wire_type
  IN Out([e EXCEPT !.next_output_index = IF fresh THEN @ + 1 ELSE @,
                   !.index = OrInsert(@, p.id, e.next_output_index),
                   !.calls = IF fresh THEN Append(@, p.id) ELSE @,
                   !.name = OrInsert(@, p.id, p.name),
                   !.args = OrInsert(@, p.id, <<>>),
                   !.wire = IF wire = None THEN @ ELSE OrInsert(@, p.id, wire)],
         IF fresh THEN <<ItemAdded(e.next_output_index,
                                   IF wire = None THEN "function_call" ELSE wire, p.id, p.name)>>
         ELSE <<>>)

\* append_tool_arguments.
AppendToolArguments(e, id, data) ==
  Out([e EXCEPT !.args = [OrInsert(@, id, <<>>) EXCEPT ![id] = @ \o data]],
      <<Delta(OutputIndex(e, id), WireType(e, id), data)>>)

ResponsesToolCall(e, p) ==
  IF p.name = None THEN AppendToolArguments(e, p.id, p.data)
  ELSE IF p.data = <<>> THEN OpenToolCall(e, p)
  ELSE Then(OpenToolCall(e, p), LAMBDA s : AppendToolArguments(s, p.id, p.data))

\* close_tool_calls, one call: the arguments again, then the item.
CloseToolCall(e, id) ==
  IF id \in e.tool_done THEN Out(e, <<>>)
  ELSE Out([e EXCEPT !.tool_done = @ \cup {id}],
           (IF WireType(e, id) = "local_shell_call" THEN <<>>
            ELSE <<Done(OutputIndex(e, id), WireType(e, id), Arguments(e, id))>>)
             \o <<ItemDone(OutputIndex(e, id), WireType(e, id), Arguments(e, id))>>)

CloseToolCalls(e) == ForEach(CloseToolCall, e, e.calls)

\* completed_event: all items so far, by their index.
Output(e) ==
  LET Item(i, type, id, data) == [index |-> i, type |-> type, id |-> id, data |-> data]
      reasoning == {Item(e.reasoning_index, "reasoning", None, e.reasoning)}
      message == {Item(e.text_index, "message", None, e.text)}
      calls == {Item(e.index[e.calls[k]], WireType(e, e.calls[k]), e.calls[k],
                     Arguments(e, e.calls[k])) : k \in DOMAIN e.calls}
      programs == {Item(e.programs[k].index, "program", e.programs[k].id, <<>>) :
                     k \in DOMAIN e.programs}
  IN {i \in reasoning \cup message \cup calls \cup programs : i.index /= NoCount}

CompletedEvent(e, status) ==
  Out([e EXCEPT !.completed_sent = TRUE, !.pending_usage = NoUsage],
      <<[f |-> "completed", status |-> status, output |-> Output(e),
         usage |-> IF e.pending_usage = NoUsage THEN NoUsage ELSE WireUsage(e.pending_usage)]>>)

\* All text is one message item, all reasoning one reasoning item.
ResponsesText(e, data) ==
  LET i == IF e.text_index = NoCount THEN e.next_output_index ELSE e.text_index
  IN Out([e EXCEPT !.text_index = i, !.text = @ \o data,
                   !.next_output_index = IF e.text_index = NoCount THEN @ + 1 ELSE @],
         (IF e.text_index = NoCount THEN <<ItemAdded(i, "message", None, None), PartAdded(i)>>
          ELSE <<>>) \o <<Delta(i, "message", data)>>)

ResponsesReasoning(e, p) ==
  LET i == IF e.reasoning_index = NoCount THEN e.next_output_index ELSE e.reasoning_index
  IN Out([e EXCEPT !.reasoning_index = i, !.reasoning = @ \o p.data,
                   !.reasoning_id = IF @ = None THEN p.id ELSE @,
                   !.encrypted = IF @ = None THEN p.encrypted ELSE @,
                   !.next_output_index = IF e.reasoning_index = NoCount THEN @ + 1 ELSE @],
         (IF e.reasoning_index = NoCount THEN <<ItemAdded(i, "reasoning", None, None), PartAdded(i)>>
          ELSE <<>>)
           \o (IF p.data = <<>> THEN <<>> ELSE <<Delta(i, "reasoning", p.data)>>))

ResponsesProgram(e, p) ==
  LET i == e.next_output_index
  IN Out([e EXCEPT !.next_output_index = @ + 1,
                   !.programs = Append(@, [index |-> i, id |-> p.id])],
         <<ItemAdded(i, "program", p.id, None), ItemDone(i, "program", <<>>)>>)

\* Token counts complete a response whose finish reason is known.
ResponsesUsage(e, u) ==
  LET known == [e EXCEPT !.pending_usage = u]
  IN IF e.completed_sent \/ e.pending_finish = None THEN Out(known, <<>>)
     ELSE CompletedEvent([known EXCEPT !.pending_finish = None], e.pending_finish)

\* A finish reason closes every item; response.completed waits for token counts.
\* The done event of the summary carries no text.
ResponsesFinish(e, reason) ==
  LET status == IF reason \in {"length", "content_filter"} THEN "incomplete" ELSE "completed"
      reasoning == IF e.reasoning_index = NoCount THEN <<>>
                   ELSE <<Done(e.reasoning_index, "reasoning", <<>>),
                          ItemDone(e.reasoning_index, "reasoning", e.reasoning)>>
      message == IF e.text_index = NoCount THEN <<>>
                 ELSE <<Done(e.text_index, "message", e.text),
                        ItemDone(e.text_index, "message", e.text)>>
  IN IF e.completed_sent \/ e.pending_finish /= None THEN Out(e, <<>>)
     ELSE Then(Then(Out(e, reasoning \o message), CloseToolCalls),
               LAMBDA s : IF s.pending_usage /= NoUsage THEN CompletedEvent(s, status)
                          ELSE Out([s EXCEPT !.pending_finish = status], <<>>))

ResponsesCompleted(e) ==
  LET status == IF e.pending_finish = None THEN "completed" ELSE e.pending_finish
      closed == Then(CloseToolCalls([e EXCEPT !.pending_finish = None]),
                     LAMBDA s : CompletedEvent(s, status))
  IN IF e.completed_sent THEN Out(e, <<ChatDone>>)
     ELSE Out(closed.state, closed.out \o <<ChatDone>>)

\* encode_part.
ResponsesEncodePart(e, p) ==
  CASE p.kind = "started"   -> Out(e, <<[f |-> "created"], [f |-> "in_progress"]>>)
    [] p.kind = "text"      -> ResponsesText(e, p.data)
    [] p.kind = "reasoning" -> ResponsesReasoning(e, p)
    [] p.kind = "tool"      -> ResponsesToolCall(e, p)
    [] p.kind = "program"   -> ResponsesProgram(e, p)
    [] p.kind = "usage"     -> ResponsesUsage(e, p.usage)
    [] p.kind = "finish"    -> ResponsesFinish(e, p.reason)
    [] p.kind = "completed" -> ResponsesCompleted(e)
    [] p.kind = "error"     -> Keep(e, ChatError)

ResponsesEncodeError == <<ChatError, ChatDone>>
ResponsesEncodeDone == <<ChatDone>>
-----------------------------------------------------------------------------
(***************************************************************************)
(* ResponsesStreamDecoder.  calls: call id of each item id; inputs: text   *)
(* of custom calls delivered so far.                                       *)
(***************************************************************************)

ResponsesDecoder == [calls |-> EmptyMap, current |-> None, saw_function_call |-> FALSE,
                     reasoning_id |-> None, encrypted |-> None, inputs |-> EmptyMap]

\* The call a delta is for: by its item's id, else the newest call.
CallOf(d, item) ==
  IF item \in DOMAIN d.calls THEN d.calls[item]
  ELSE IF d.current /= None THEN d.current ELSE ""

\* response.output_item.added.
ResponsesItemAdded(d, ev) ==
  LET call == [d EXCEPT !.saw_function_call = TRUE, !.current = ev.call]
      listed == [call EXCEPT !.calls = [OrInsert(@, ev.item, ev.call) EXCEPT ![ev.item] = ev.call]]
  IN CASE ev.type = "function_call" ->
            Keep(listed, ToolCallDelta(ev.call, ev.name, <<>>, None))
       [] ev.type = "custom_tool_call" ->
            Keep([listed EXCEPT !.inputs = IF ev.data = <<>> THEN @
                                           ELSE [OrInsert(@, ev.call, <<>>) EXCEPT ![ev.call] = ev.data]],
                 ToolCallDelta(ev.call, ev.name, ev.data, "custom_tool_call"))
       [] ev.type = "local_shell_call" ->
            Keep(call, ToolCallDelta(ev.call, "local_shell", ev.data, "local_shell_call"))
       [] ev.type = "reasoning" ->
            Out([d EXCEPT !.reasoning_id = ev.item,
                          !.encrypted = IF ev.encrypted = None THEN @ ELSE ev.encrypted], <<>>)
       [] ev.type = "program" ->
            Keep([d EXCEPT !.saw_function_call = TRUE], ProgramDelta(ev.item))
       [] ev.type = "program_output" -> Keep(d, ProgramDelta(ev.item))
       [] OTHER -> Out(d, <<>>)

\* Deltas.  Reasoning takes the id and the ciphertext that were waiting.
ResponsesDelta(d, ev) ==
  LET id == CallOf(d, ev.item)
  IN CASE ev.type = "message" -> Keep(d, TextDelta(ev.data))
       [] ev.type = "reasoning" ->
            Keep([d EXCEPT !.reasoning_id = None, !.encrypted = None],
                 ReasoningDelta(ev.data, d.reasoning_id, d.encrypted))
       [] ev.type = "function_call" -> Keep(d, ToolCallDelta(id, None, ev.data, None))
       [] ev.type = "custom_tool_call" ->
            Keep([d EXCEPT !.inputs = [OrInsert(@, id, <<>>) EXCEPT ![id] = @ \o ev.data]],
                 ToolCallDelta(id, None, ev.data, "custom_tool_call"))

\* response.custom_tool_call_input.done: what the deltas have not delivered.
CustomInputDone(d, ev) ==
  LET id == CallOf(d, ev.item)
      delivered == IF id \in DOMAIN d.inputs THEN d.inputs[id] ELSE <<>>
      rest == IF IsPrefix(delivered, ev.data)
              THEN SubSeq(ev.data, Len(delivered) + 1, Len(ev.data)) ELSE ev.data
  IN Out([d EXCEPT !.inputs = [i \in DOMAIN @ \ {id} |-> @[i]]],
         IF rest = <<>> THEN <<>> ELSE <<ToolCallDelta(id, None, rest, "custom_tool_call")>>)

\* response.output_item.done.
ResponsesItemDone(d, ev) ==
  LET closed == [d EXCEPT !.current = None]
  IN CASE ev.type = "reasoning" ->
            Keep([closed EXCEPT !.reasoning_id = None, !.encrypted = None],
                 ReasoningDelta(<<>>, ev.item, IF ev.encrypted = None THEN d.encrypted ELSE ev.encrypted))
       [] ev.type \in {"function_call", "custom_tool_call"} ->
            Out([closed EXCEPT !.calls = [i \in DOMAIN @ \ {ev.item} |-> @[i]]], <<>>)
       [] OTHER -> Out(closed, <<>>)

\* A response that called a function ends with tool_calls, also when it is
\* incomplete.
ReasonOfStatus(d, status) ==
  CASE status \in {"completed", "incomplete"} /\ d.saw_function_call -> "tool_calls"
    [] status = "completed" /\ ~d.saw_function_call -> "stop"
    [] status = "incomplete" /\ ~d.saw_function_call -> "length"
    [] OTHER -> "other"

\* feed.
ResponsesFeed(d, ev) ==
  CASE ev.kind = "created"     -> Keep(d, ResponseStarted)
    [] ev.kind = "item_added"  -> ResponsesItemAdded(d, ev)
    [] ev.kind = "delta"       -> ResponsesDelta(d, ev)
    [] ev.kind = "input_done"  -> CustomInputDone(d, ev)
    [] ev.kind = "item_done"   -> ResponsesItemDone(d, ev)
    [] ev.kind = "completed"   ->
         Out(d, (IF ev.usage = NoUsage THEN <<>> ELSE <<UsagePart(UsageFromWire(ev.usage))>>)
                  \o <<Finish(ReasonOfStatus(d, ev.status)), ResponseCompleted>>)
    [] ev.kind = "incomplete"  -> Out(d, <<Finish(ReasonOfStatus(d, "incomplete")), ResponseCompleted>>)
    [] ev.kind = "error"       -> Keep(d, ErrorPart)
    [] ev.kind = "done"        -> Keep(d, ResponseCompleted)
    [] OTHER                   -> Out(d, <<>>)
=============================================================================
