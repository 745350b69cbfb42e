---------------------------- MODULE MessagesDocs ----------------------------
(***************************************************************************)
(* Requests and answers of the Messages protocol (MessagesCodec,           *)
(* crates/protocols/src/messages.rs).  A message is a role and blocks.     *)
(***************************************************************************)
EXTENDS Documents

TextBlock(data) == [type |-> "text", data |-> data]
Thinking(data, signature) == [type |-> "thinking", data |-> data, signature |-> signature]
Redacted(data) == [type |-> "redacted_thinking", data |-> data]
ToolUse(id, name, data) == [type |-> "tool_use", id |-> id, name |-> name, data |-> data]
ToolResultBlock(id, data) == [type |-> "tool_result", id |-> id, data |-> data]
MediaBlock(source) ==
  [type |-> IF source = "document" THEN "document" ELSE "image", source |-> source]

\* A block of a request; documents and unknown blocks are passed over.
MessagesBlock(b) ==
  CASE b.type = "text"              -> <<Text(b.data, FALSE)>>
    [] b.type = "thinking"          -> <<Reasoning(b.data, b.signature, None, None)>>
    [] b.type = "redacted_thinking" -> <<Reasoning(b.data, None, None, None)>>
    [] b.type = "tool_use"          -> <<ToolCall(b.id, b.name, b.data, None, None)>>
    [] b.type = "tool_result"       -> <<ToolResult(b.id, None, b.data, None)>>
    [] b.type = "image"             -> <<Media(b.source, FALSE)>>
    [] OTHER                        -> <<>>

\* The marks on blocks for the cache (cache_control) are not read.
MessagesParams ==
  [max_tokens |-> "max_tokens", temperature |-> "temperature", top_p |-> "top_p",
   top_k |-> "top_k", stop_sequences |-> "stop"]

\* decode_output_format and encode_output_format: there are only schemas.
MessagesInputFormat(format) == IF format = "json_object" THEN None ELSE format
MessagesOutputFormat(format) == IF format = "json_object" THEN "json_schema" ELSE format

\* decode_request.  Of the metadata only user_id is read.
MessagesDecodeRequest(body) ==
  [NewRequest("messages") EXCEPT
     !.system = body.system,
     !.messages = MapSeq(LAMBDA m : Message(m.role, FlatMap(MessagesBlock, m.content)),
                         body.messages),
     !.tools = {[type |-> "function", required |-> FALSE, callers |-> FALSE] : t \in body.tools},
     !.fields = {MessagesParams[f] : f \in body.fields \cap DOMAIN MessagesParams},
     !.thinking = body.thinking,
     !.format = MessagesInputFormat(body.format),
     !.metadata = body.metadata \cap {"user_id"},
     !.tool_choice = body.tool_choice]

\* blocks_for: reasoning needs a signature; files and programs have no block.
MessagesContent(c) ==
  CASE c.kind \in {"text", "refusal"} -> <<TextBlock(c.data)>>
    [] c.kind = "reasoning" -> IF c.signature = None THEN <<>>
                               ELSE <<Thinking(c.data, c.signature)>>
    [] c.kind = "call"      -> <<ToolUse(WireId(c), c.name, c.data)>>
    [] c.kind = "result"    -> <<ToolResultBlock(c.id, c.data)>>
    [] c.kind = "media"     -> IF c.source = "file" THEN <<>> ELSE <<MediaBlock(c.source)>>
    [] c.kind = "program"   -> <<>>

MessagesRole(role) == IF role = "assistant" THEN "assistant" ELSE "user"

\* Mutant: the second of two neighbours replaces the first.
MergeMessageReplaces(merged, m) ==
  LET role == MessagesRole(m.role)
      blocks == FlatMap(MessagesContent, m.content)
  IN IF blocks = <<>> THEN merged
     ELSE IF merged /= <<>> /\ Last(merged).role = role
     THEN [merged EXCEPT ![Len(merged)].content = blocks]
     ELSE Append(merged, Message(role, blocks))

\* Neighbours of one role are merged, empty messages left out.
MergeMessage(merged, m) ==
  LET role == MessagesRole(m.role)
      blocks == FlatMap(MessagesContent, m.content)
  IN IF blocks = <<>> THEN merged
     ELSE IF merged /= <<>> /\ Last(merged).role = role
     THEN [merged EXCEPT ![Len(merged)].content = @ \o blocks]
     ELSE Append(merged, Message(role, blocks))

\* "none" turns thinking off; "minimal" is the least effort there is.
MessagesThinking(t) ==
  LET effort == IF t.effort = "minimal" THEN "low" ELSE t.effort
  IN IF t.effort \notin {None, "none_"}
     THEN [effort |-> effort, budget |-> NoCount, shown |-> t.shown, mode |-> None]
     ELSE [effort |-> None, budget |-> t.budget,
           shown |-> IF t.budget = NoCount THEN None ELSE t.shown, mode |-> None]

\* The name of a function is read where Chat Completions puts it.
MessagesToolChoice(choice) ==
  IF choice = "function_flat" THEN "function_without_name" ELSE choice

\* The parameters; max_tokens is always there, and for a client of another protocol
\* the last tool, the system text and the last block are marked for the cache.
MessagesFields(r) ==
  LET Field(p) == IF p = "stop" THEN "stop_sequences" ELSE p
      known == {"max_tokens", "temperature", "top_p", "top_k", "stop"}
  IN {Field(p) : p \in r.fields \cap known} \cup {"max_tokens"}
       \cup (IF r.ingress = "messages" THEN {} ELSE {"cache_control"})

\* encode_request.
MessagesEncodeRequest(r) ==
     [EmptyBody EXCEPT
        !.system = r.system,
        !.messages = FoldLeft(MergeMessage, <<>>, r.messages),
        !.tools = {t \in r.tools : t.type = "function"},
        !.fields = MessagesFields(r),
        !.thinking = MessagesThinking(r.thinking),
        !.format = MessagesOutputFormat(r.format),
        !.metadata = r.metadata \cap {"user_id"},
        !.tool_choice = MessagesToolChoice(r.tool_choice)]
-----------------------------------------------------------------------------
MessagesFinish ==
  [end_turn |-> "stop", stop_sequence |-> "stop", max_tokens |-> "length",
   tool_use |-> "tool_calls", content_filter |-> "content_filter", refusal |-> "content_filter",
   pause_turn |-> "stop"]

\* A block of an answer: redacted thinking is kept apart as ciphertext.
MessagesAnswerBlock(b) ==
  IF b.type = "redacted_thinking" THEN <<Reasoning(<<>>, None, None, b.data)>>
  ELSE MessagesBlock(b)

\* decode_response.  The stop reason is also kept as it came.
MessagesDecodeResponse(a) ==
  [content |-> FlatMap(MessagesAnswerBlock, a.content), finish |-> MessagesFinish[a.stop],
   details |-> a.stop, usage |-> a.usage]

\* Mutant: thinking without a signature is left out, as in requests.
MessagesAnswerSigned(c) ==
  CASE c.kind = "text"      -> <<TextBlock(c.data)>>
    [] c.kind = "reasoning" -> IF c.signature = None THEN <<>> ELSE <<Thinking(c.data, c.signature)>>
    [] c.kind = "call"      -> <<ToolUse(WireId(c), c.name, c.data)>>
    [] OTHER -> <<>>

\* The blocks of an answer to a client; refusals have none.
MessagesAnswer(c) ==
  CASE c.kind = "text"      -> <<TextBlock(c.data)>>
    [] c.kind = "reasoning" -> IF c.encrypted /= None THEN <<Redacted(c.encrypted)>>
                               ELSE <<Thinking(c.data, c.signature)>>
    [] c.kind = "call"      -> <<ToolUse(WireId(c), c.name, c.data)>>
    [] OTHER -> <<>>

MessagesStop ==
  [stop |-> "end_turn", length |-> "max_tokens", tool_calls |-> "tool_use",
   content_filter |-> "content_filter"]

\* encode_response: details override the reason.
MessagesEncodeResponse(r) ==
  [content |-> FlatMap(MessagesAnswer, r.content),
   stop |-> IF r.details /= None THEN r.details ELSE MessagesStop[r.finish],
   usage |-> r.usage]
=============================================================================
