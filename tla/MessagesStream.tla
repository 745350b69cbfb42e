--------------------------- MODULE MessagesStream ---------------------------
(***************************************************************************)
(* Streams of the Anthropic Messages protocol                              *)
(* (crates/protocols/src/messages.rs): a message is a sequence of numbered *)
(* blocks, each opened, filled and closed before the next one.             *)
(***************************************************************************)
EXTENDS IR

\* message_delta carries the token counts (usage, with input only when it is
\* not zero) and possibly the stop reason.
MessageDelta(usage, stop) == [f |-> "message_delta", usage |-> usage, stop |-> stop]
MessageStop == [f |-> "message_stop"]
MessagesError == [f |-> "error"]
-----------------------------------------------------------------------------
(***************************************************************************)
(* MessagesStreamEncoder.  index and block describe the open block.        *)
(***************************************************************************)

NoUsageYet == [prompt |-> NoCount]

MessagesEncoder == [index |-> NoCount, block |-> None, next_index |-> 0,
                    last_usage |-> NoUsageYet, stop |-> None]

CloseBlock(e) ==
  IF e.index = NoCount THEN Out(e, <<>>)
  ELSE Out([e EXCEPT !.index = NoCount, !.block = None],
           <<[f |-> "block_stop", index |-> e.index]>>)

OpenBlock(e, block, id, name) ==
  Out([e EXCEPT !.index = e.next_index, !.next_index = @ + 1, !.block = block],
      <<[f |-> "block_start", index |-> e.next_index, block |-> block, id |-> id, name |-> name]>>)

\* Mutant: the open block is not closed first.
EnsureBlockLeavesOpen(e, block) ==
  IF e.block = block THEN Out(e, <<>>) ELSE OpenBlock(e, block, None, None)

\* ensure_block: a run of deltas of one kind shares a block.
EnsureBlock(e, block) ==
  IF e.block = block THEN Out(e, <<>>)
  ELSE Then(CloseBlock(e), LAMBDA s : OpenBlock(s, block, None, None))

\* A delta goes to the open block, whatever it is.
BlockDelta(e, delta, data) ==
  Out(e, <<[f |-> "block_delta", index |-> OrZero(e.index), delta |-> delta, data |-> data]>>)

MessagesToolCall(e, p) ==
  LET opened == Then(CloseBlock(e), LAMBDA s : OpenBlock(s, "tool_use", p.id, p.name))
  IN IF p.name = None THEN BlockDelta(e, "tool_use", p.data)
     ELSE IF p.data = <<>> THEN opened
     ELSE Then(opened, LAMBDA s : BlockDelta(s, "tool_use", p.data))

MessagesStopReason(reason) ==
  CASE reason = "length" -> "max_tokens"
    [] reason = "tool_calls" -> "tool_use"
    [] OTHER -> "end_turn"

\* The stop reason waits for token counts that come after it, at most until the
\* end of the response.
MessagesFinish(e, reason) ==
  LET stop == MessagesStopReason(reason)
  IN Then(CloseBlock(e),
          LAMBDA s : IF s.last_usage = NoUsageYet THEN Out([s EXCEPT !.stop = stop], <<>>)
                     ELSE Keep(s, MessageDelta(s.last_usage, stop)))

MessagesCompleted(e) ==
  Then(CloseBlock(e),
       LAMBDA s : Out([s EXCEPT !.stop = None],
                      (IF s.stop = None THEN <<>>
                       ELSE <<MessageDelta(Usage(0, 0, NoCount, NoCount), s.stop)>>)
                        \o <<MessageStop>>))

\* encode_part.
MessagesEncodePart(e, p) ==
  CASE p.kind = "started"   -> Keep(e, [f |-> "message_start"])
    [] p.kind = "text"      -> Then(EnsureBlock(e, "text"), LAMBDA s : BlockDelta(s, "text", p.data))
    [] p.kind = "reasoning" -> Then(EnsureBlock(e, "thinking"),
                                    LAMBDA s : BlockDelta(s, "thinking", p.data))
    [] p.kind = "tool"      -> MessagesToolCall(e, p)
    [] p.kind = "program"   -> Out(e, <<>>)
    [] p.kind = "usage"     -> Keep([e EXCEPT !.last_usage = p.usage, !.stop = None],
                                    MessageDelta(p.usage, e.stop))
    [] p.kind = "finish"    -> MessagesFinish(e, p.reason)
    [] p.kind = "completed" -> MessagesCompleted(e)
    [] p.kind = "error"     -> Keep(e, MessagesError)

MessagesEncodeError == <<MessagesError>>
MessagesEncodeDone == <<MessageStop>>
-----------------------------------------------------------------------------
(***************************************************************************)
(* MessagesStreamDecoder.  ids: id of the tool_use block at each index.    *)
(***************************************************************************)

MessagesDecoder == [ids |-> <<>>, saw_finish |-> FALSE, saw_tool_use |-> FALSE,
                    usage |-> Usage(0, 0, NoCount, NoCount)]

ToolUseId(d, index) == IF index < Len(d.ids) THEN d.ids[index + 1] ELSE ""

SetToolUseId(d, index, id) ==
  LET n == IF index < Len(d.ids) THEN Len(d.ids) ELSE index + 1
  IN [d EXCEPT !.saw_tool_use = TRUE,
               !.ids = [i \in 1..n |-> IF i = index + 1 THEN id ELSE ToolUseId(d, i - 1)]]

\* Mutant: the newest counts replace the older ones.
MergeUsageReplaces(old, new) == new

\* merge_usage: message_start counts the input, message_delta the output.
MergeUsage(old, new) ==
  LET Newer(a, b) == IF b > 0 \/ a = 0 THEN b ELSE a
      Present(a, b) == IF b = NoCount THEN a ELSE b
  IN Usage(Newer(old.prompt, new.prompt), Newer(old.completion, new.completion),
           Present(old.read, new.read), Present(old.write, new.write))

WithUsage(d, u) == [d EXCEPT !.usage = MergeUsage(@, u)]

MessageStarted(d, u) == Out(WithUsage(d, u), <<ResponseStarted, UsagePart(WithUsage(d, u).usage)>>)

BlockStarted(d, ev) ==
  CASE ev.block = "tool_use" ->
         Keep(SetToolUseId(d, ev.index, ev.id), ToolCallDelta(ev.id, ev.name, <<>>, None))
    [] ev.block = "text"     -> Keep(d, TextDelta(<<>>))
    [] ev.block = "thinking" -> Keep(d, ReasoningDelta(<<>>, None, None))
    [] OTHER                 -> Out(d, <<>>)

BlockFilled(d, ev) ==
  Keep(d, CASE ev.delta = "text"     -> TextDelta(ev.data)
            [] ev.delta = "thinking" -> ReasoningDelta(ev.data, None, None)
            [] ev.delta = "tool_use" -> ToolCallDelta(ToolUseId(d, ev.index), None, ev.data, None))

ReasonOfStop(stop) ==
  CASE stop \in {"end_turn", "stop_sequence"} -> "stop"
    [] stop = "max_tokens" -> "length"
    [] stop = "tool_use" -> "tool_calls"
    [] OTHER -> "other"

MessageChanged(d, ev) ==
  Out([WithUsage(d, ev.usage) EXCEPT !.saw_finish = @ \/ ev.stop /= None],
      <<UsagePart(WithUsage(d, ev.usage).usage)>>
        \o (IF ev.stop = None THEN <<>> ELSE <<Finish(ReasonOfStop(ev.stop))>>))

\* message_stop: a message without a stop reason gets one.
MessageStopped(d) ==
  Out([d EXCEPT !.saw_finish = TRUE],
      (IF d.saw_finish THEN <<>>
       ELSE <<Finish(IF d.saw_tool_use THEN "tool_calls" ELSE "stop")>>) \o <<ResponseCompleted>>)

\* feed.  A block's end is known to the decoder and says nothing to the client.
MessagesFeed(d, ev) ==
  CASE ev.kind = "message_start" -> MessageStarted(d, ev.usage)
    [] ev.kind = "block_start"   -> BlockStarted(d, ev)
    [] ev.kind = "block_delta"   -> BlockFilled(d, ev)
    [] ev.kind = "block_stop"    -> Out(d, <<>>)
    [] ev.kind = "message_delta" -> MessageChanged(d, ev)
    [] ev.kind = "message_stop"  -> MessageStopped(d)
    [] ev.kind = "error"         -> Keep(d, ErrorPart)
=============================================================================
