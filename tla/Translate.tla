------------------------------ MODULE Translate ------------------------------
(***************************************************************************)
(* A conversation of several turns between a client of one protocol and    *)
(* upstreams of any protocol: encode_cross_protocol and the translation of *)
(* answers in crates/server/src/ingress/executors.rs.  The client repeats  *)
(* the whole conversation in every request, in its own protocol; routing   *)
(* and fallback may choose another upstream for every turn.                *)
(***************************************************************************)
EXTENDS ChatDocs, MessagesDocs, GeminiDocs, ResponsesDocs

CONSTANTS
  Clients,      \* protocols of the client
  Upstreams,    \* protocols of the upstreams
  MaxTurns,     \* bound: requests in a conversation without settings
  MaxSettings,  \* bound: settings in a request
  ToolChoices       \* settings of the tool choice

ASSUME TranslateAssumption ==
  /\ Clients \subseteq Protocols /\ Upstreams \subseteq Protocols
  /\ MaxTurns \in Nat \ {0} /\ MaxSettings \in Nat
  /\ ToolChoices \subseteq {"auto", "none_", "required", "function"}

VARIABLES
  client,    \* the client's protocol
  settings,  \* what it asked for apart from the conversation
  body,      \* its next request
  talk,      \* what has been said: text, call or result, in order
  to,        \* the protocol of the upstream
  request,   \* what the upstream was sent
  said,      \* what the upstream answered (a member of Sayings)
  answer,    \* the answer as the client gets it
  phase      \* "ask", "sent", "answered", "rejected" (400), "failed" (500), "done"

rvars == <<client, settings, body, talk, to, request, said, answer, phase>>

Turn == 1 + Cardinality({i \in DOMAIN talk : talk[i].kind = "ask"})
-----------------------------------------------------------------------------
(***************************************************************************)
(* The client's first request.                                             *)
(***************************************************************************)

Said(kind, data) == [kind |-> kind, data |-> data]

\* Budgets at the edges of the tables.
Budgets == [zero |-> 0, smallest |-> 1024, minimal |-> 2047, gemini |-> 24576, large |-> 40000]

Setting(what, values) == {[what |-> what, value |-> v] : v \in values}

\* What a client of each protocol can ask for.
SettingsOf(c) ==
  LET openai == c \in OpenAI
      params == CASE c = "chat" -> DOMAIN ChatParams \cup {"parallel_tool_calls", "stop_word"}
                  [] c = "messages" -> DOMAIN MessagesParams \cup {"cache_control"}
                  [] c = "gemini" -> DOMAIN GeminiParams \cup {"safetySettings"}
                  [] c = "responses" -> DOMAIN ResponsesParams \cup {"multi_agent", "store", "stop_word"}
      efforts == CASE openai -> Range(Efforts) [] c = "messages" -> {"low", "high", "max"}
                   [] c = "gemini" -> {"minimal", "high"}
      budgets == IF openai THEN {} ELSE DOMAIN Budgets
  IN UNION {
       Setting("field", params), Setting("effort", efforts), Setting("budget", budgets),
       Setting("format", {"json_schema", "bounded_schema"}
                           \cup IF c = "messages" THEN {} ELSE {"json_object"}),
       Setting("tool", {"function"} \cup (IF openai THEN {"custom"} ELSE {})
                         \cup (IF c = "responses" THEN {"hosted"} ELSE {})),
       Setting("choice", ToolChoices),
       Setting("media", {"url", "inline"} \cup (CASE c = "chat" -> {"audio"}
                                                  [] c = "messages" -> {"document"}
                                                  [] c = "responses" -> {"file"}
                                                  [] OTHER -> {})),
       Setting("breakpoint", IF openai THEN {"user", "system"} ELSE {}),
       Setting("item", IF c = "responses" THEN {"opaque", "agent", "program"} ELSE {}),
       Setting("context", {"message"}),
       Setting("mode", IF c = "responses" THEN {"pro"} ELSE {})}

Asks(set, what) == {s.value : s \in {x \in set : x.what = what}}
OneOf(values, default) == IF values = {} THEN default ELSE CHOOSE v \in values : TRUE

\* A user's message, with the media and the breakpoint asked for.
UserMessage(c, set, data) ==
  LET media == SetToSeq(Asks(set, "media"))
      mark == "user" \in Asks(set, "breakpoint")
      Part(type, s) == [type |-> type, source |-> s, breakpoint |-> FALSE]
      Parts(Op(_)) == <<[type |-> "text", data |-> data, breakpoint |-> mark]>> \o MapSeq(Op, media)
      Image(s) == Part(IF s = "audio" THEN s ELSE "image", s)
  IN CASE c = "chat" -> [ChatMessage("user", Parts(Image)) EXCEPT !.array = TRUE]
       [] c = "messages" -> Message("user", <<TextBlock(data)>> \o MapSeq(MediaBlock, media))
       [] c = "gemini" -> Message("user", <<TextPart(data)>> \o MapSeq(FilePart, media))
       [] c = "responses" -> MessageItem("user", Parts(LAMBDA s : Part("media", s)))

\* The system text is a message in Chat Completions, and in the others only if
\* it needs a breakpoint.
SystemMessage(c, set) ==
  LET parts == <<[type |-> "text", data |-> <<"system">>,
                  breakpoint |-> "system" \in Asks(set, "breakpoint")]>>
  IN CASE c = "chat" -> <<ChatMessage("system", parts)>>
       [] c = "responses" /\ "system" \in Asks(set, "breakpoint") ->
            <<MessageItem("developer", parts)>>
       [] OTHER -> <<>>

\* The shape in which each client names a function.
ChoiceOf(c, choice) ==
  IF c = "responses" /\ choice = "function" THEN "function_flat" ELSE choice

FirstBody(c, set) ==
  LET items == MapSeq(Item, SetToSeq(Asks(set, "item")))
      context == IF Asks(set, "context") = {} THEN <<>> ELSE <<UserMessage(c, {}, <<"context">>)>>
      system == SystemMessage(c, set)
  IN [EmptyBody EXCEPT
        !.system = IF system = <<>> THEN <<"system">> ELSE <<>>,
        !.messages = system \o items \o context \o <<UserMessage(c, set, <<"ask 1">>)>>,
        !.fields = Asks(set, "field"),
        !.tools = {[type |-> t, callers |-> FALSE] : t \in Asks(set, "tool")},
        !.thinking = [effort |-> OneOf(Asks(set, "effort"), None),
                      budget |-> IF Asks(set, "budget") = {} THEN NoCount
                                 ELSE Budgets[OneOf(Asks(set, "budget"), None)],
                      shown |-> None, mode |-> OneOf(Asks(set, "mode"), None)],
        !.format = OneOf(Asks(set, "format"), None),
        !.tool_choice = ChoiceOf(c, OneOf(Asks(set, "choice"), None))]

\* At most one value of a setting that has one value.
Consistent(set) ==
  /\ \A what \in {"effort", "budget", "format", "choice", "mode"} :
       Cardinality(Asks(set, what)) <= 1
  /\ Asks(set, "effort") = {} \/ Asks(set, "budget") = {}
  /\ ~({"stop", "stop_word"} \subseteq Asks(set, "field"))

\* No answer yet.
Silence == [thought |-> FALSE, text |-> FALSE, refusal |-> "none_", calls |-> 0, custom |-> FALSE,
            alike |-> FALSE, native |-> FALSE, reasoned |-> FALSE, end |-> "natural"]

Init ==
  /\ client \in Clients
  /\ settings \in {{}} \cup {{a, b} : a, b \in SettingsOf(client)}
  /\ Cardinality(settings) <= MaxSettings
  /\ Consistent(settings)
  /\ body = FirstBody(client, settings)
  /\ talk = (IF Asks(settings, "context") = {} THEN <<>> ELSE <<Said("context", <<"context">>)>>)
              \o <<Said("ask", <<"ask 1">>)>>
  /\ to = None /\ request = EmptyBody /\ said = Silence /\ answer = <<>>
  /\ phase = "ask"
-----------------------------------------------------------------------------
(***************************************************************************)
(* The gateway.                                                            *)
(***************************************************************************)

Decode(p, b) ==
  CASE p = "chat" -> ChatDecodeRequest(b) [] p = "messages" -> MessagesDecodeRequest(b)
    [] p = "gemini" -> GeminiDecodeRequest(b) [] p = "responses" -> ResponsesDecodeRequest(b)

\* The models of Gemini from version 3 on take levels instead of budgets.
Encode(p, r, levels) ==
  CASE p = "chat" -> ChatEncodeRequest(r) [] p = "messages" -> MessagesEncodeRequest(r)
    [] p = "gemini" -> GeminiEncodeRequest(r, levels)
    [] p = "responses" -> ResponsesEncodeRequest(r)

\* The body of a client of the same protocol passes as it is; any other is
\* decoded, checked and encoded (encode_cross_protocol).
Send(p, levels) ==
  LET r == Decode(client, body)
  IN /\ phase = "ask"
     /\ levels => p = "gemini"
     /\ to' = p
     /\ \/ /\ p = client
           /\ request' = body /\ phase' = "sent"
        \/ /\ p /= client /\ Lossless(r, p)
           /\ p = "gemini" => GeminiEncodable(r)
           /\ request' = Encode(p, r, levels) /\ phase' = "sent"
        \/ /\ p /= client /\ ~Lossless(r, p)
           /\ phase' = "rejected" /\ UNCHANGED request
        \/ /\ p = "gemini" /\ p /= client /\ Lossless(r, p) /\ ~GeminiEncodable(r)
           /\ phase' = "failed" /\ UNCHANGED request
     /\ UNCHANGED <<client, settings, body, talk, said, answer>>
-----------------------------------------------------------------------------
(***************************************************************************)
(* The upstream answers.                                                   *)
(***************************************************************************)

Id(prefix, turn, k) == prefix \o ToString(turn) \o "_" \o ToString(k)

\* 7 tokens read, 2 of them from a cache, 3 written.
Counts(p) ==
  CASE p = "messages" -> Usage(5, 3, 2, NoCount)
    [] p = "gemini" -> [input |-> 7, output |-> 3, read |-> 2]
    [] OTHER -> [input |-> 7, output |-> 3, read |-> 2, write |-> NoCount]

\* What an upstream can say: a thought, a text or a refusal (in a field or an item
\* of its own, or as a part of a Responses message), and calls, all of them of one
\* function (alike) or each of its own, in Gemini with or without ids; whether it
\* counts reasoning tokens; and how it ends.
Sayings ==
  [thought : BOOLEAN, text : BOOLEAN, refusal : {"none_", "own", "part"}, calls : 0..2,
   custom : BOOLEAN, alike : BOOLEAN, native : BOOLEAN, reasoned : BOOLEAN,
   end : {"natural", "stop", "length", "filter"}]

\* "stop": some Chat Completions upstreams say it after calls, too.  Only the first
\* answer ends unnaturally: how it ends is not repeated in later requests.
Answerable(a, p) ==
  /\ a.text \/ a.refusal /= "none_" \/ a.calls > 0
  /\ a.refusal /= "none_" => p \in OpenAI /\ ~a.text /\ a.calls = 0 /\ ~a.thought
  /\ a.refusal = "part" => p = "responses"
  /\ a.custom => p \in OpenAI /\ client \in OpenAI /\ a.calls = 1
  /\ a.alike => a.calls > 0
  /\ a.native => p = "gemini" /\ a.calls > 0
  /\ a.reasoned => p = "chat"
  /\ a.end = "stop" => p = "chat" /\ a.calls > 0
  /\ a.end /= "natural" => Turn = 2 /\ a.refusal = "none_"

\* What it says, in its order.
Saying(a, turn) ==
  LET One(there, kind) == IF there THEN <<Said(kind, <<Id(kind, turn, 0)>>)>> ELSE <<>>
  IN One(a.thought, "thought") \o One(a.text, "text") \o One(a.refusal /= "none_", "refusal")
       \o [k \in 1..a.calls |-> Said("call", <<Id("args", turn, k)>>)]

\* How the upstream's protocol says how it ended.
WireEnd(p, a) ==
  CASE p = "chat" -> CASE a.end = "length" -> "length" [] a.end = "filter" -> "content_filter"
                       [] a.end = "natural" /\ a.calls > 0 -> "tool_calls" [] OTHER -> "stop"
    [] p = "messages" -> CASE a.end = "length" -> "max_tokens" [] a.end = "filter" -> "refusal"
                           [] OTHER -> IF a.calls > 0 THEN "tool_use" ELSE "end_turn"
    [] p = "gemini" -> CASE a.end = "length" -> "MAX_TOKENS" [] a.end = "filter" -> "SAFETY"
                         [] OTHER -> "STOP"
    [] p = "responses" -> CASE a.end = "length" -> "max_output_tokens"
                            [] a.end = "filter" -> "content_filter" [] OTHER -> None

\* In the upstream's protocol.  Chat Completions and Messages have an id per
\* call, Gemini one or none, Responses an id per item and one per call.
WireAnswer(p, a, turn) ==
  LET thought == IF a.thought THEN <<Id("thought", turn, 0)>> ELSE <<>>
      text == IF a.text THEN <<Id("text", turn, 0)>> ELSE <<>>
      refusal == IF a.refusal /= "none_" THEN <<Id("refusal", turn, 0)>> ELSE <<>>
      Opt(data, x) == IF data = <<>> THEN <<>> ELSE <<x>>
      Name(k) == IF a.alike THEN "f" ELSE Id("f", turn, k)
      Calls(Make(_, _, _)) ==
        [k \in 1..a.calls |-> Make(Id("call", turn, k), Name(k), <<Id("args", turn, k)>>)]
      FunctionCall(id, name, data) ==
        [Item(IF a.custom THEN "custom_tool_call" ELSE "function_call") EXCEPT
           !.id = "item" \o id, !.call_id = id, !.name = name, !.data = data]
      Part1(type, data) ==
        MessageItem("assistant", <<[type |-> type, data |-> data, breakpoint |-> FALSE]>>)
      end == WireEnd(p, a)
  IN CASE p = "chat" ->
            [text |-> text, refusal |-> refusal, reasoning |-> thought, reasoned |-> a.reasoned,
             calls |-> Calls(LAMBDA id, name, data : [id |-> id, name |-> name, data |-> data,
                                                      custom |-> a.custom]),
             finish |-> end, usage |-> Counts(p)]
       [] p = "messages" ->
            [content |-> Opt(thought, Thinking(thought, "signature"))
                           \o Opt(text, TextBlock(text)) \o Calls(ToolUse),
             stop |-> end, usage |-> Counts(p)]
       [] p = "gemini" ->
            [content |-> Opt(thought, ThoughtPart(thought)) \o Opt(text, TextPart(text))
                           \o Calls(LAMBDA id, name, data :
                                      CallPart(IF a.native THEN id ELSE None, name, data)),
             finish |-> end, usage |-> Counts(p)]
       [] p = "responses" ->
            [output |-> Opt(thought, ReasoningItem(thought, Id("rs", turn, 0), None))
                          \o Opt(text, Part1("text", text))
                          \o Opt(refusal, IF a.refusal = "part" THEN Part1("refusal", refusal)
                                          ELSE [Item("refusal") EXCEPT !.data = refusal])
                          \o Calls(FunctionCall),
             status |-> IF end = None THEN "completed" ELSE "incomplete", reason |-> end,
             usage |-> Counts(p)]

DecodeAnswer(p, a) ==
  CASE p = "chat" -> ChatDecodeResponse(a) [] p = "messages" -> MessagesDecodeResponse(a)
    [] p = "gemini" -> GeminiDecodeResponse(a) [] p = "responses" -> ResponsesDecodeResponse(a)

EncodeAnswer(p, r) ==
  CASE p = "chat" -> ChatEncodeResponse(r) [] p = "messages" -> MessagesEncodeResponse(r)
    [] p = "gemini" -> GeminiEncodeResponse(r) [] p = "responses" -> ResponsesEncodeResponse(r)

\* Settings are translated alike in every turn; items have places.
TurnsOf(set) == IF set = {} THEN MaxTurns ELSE IF \E s \in set : s.what = "item" THEN 2 ELSE 1

\* The upstream answers and the gateway translates: a pass-through answer is
\* left as it is.  The last request is not answered: an answer is translated alike
\* in every turn.
Answer ==
  /\ phase = "sent"
  /\ Turn <= TurnsOf(settings)
  /\ \E a \in Sayings :
       LET wire == WireAnswer(to, a, Turn - 1)
       IN /\ Answerable(a, to)
          /\ said' = a
          /\ answer' = IF to = client THEN wire ELSE EncodeAnswer(client, DecodeAnswer(to, wire))
  /\ phase' = "answered"
  /\ UNCHANGED <<client, settings, body, talk, to, request>>
-----------------------------------------------------------------------------
(***************************************************************************)
(* The client goes on: it repeats the answer, gives the results of the     *)
(* calls if there are any and asks something else.                         *)
(***************************************************************************)

\* What the client sees of an answer: kind, data and the id of a call.
Seen(kind, data, id) == IF data = <<>> THEN <<>> ELSE <<[kind |-> kind, data |-> data, id |-> id]>>

SeenBlock(b) ==
  CASE b.type = "text" -> Seen("text", b.data, None)
    [] b.type = "thinking" -> Seen("thought", b.data, None)
    [] b.type = "tool_use" -> Seen("call", b.data, b.id)
    [] b.type = "tool_result" -> Seen("result", b.data, b.id)
    [] b.type \in {"redacted_thinking", "image", "document"} -> <<>>

SeenPart(p) ==
  CASE p.type = "text" -> Seen("text", p.data, None)
    [] p.type = "thought" -> Seen("thought", p.data, None)
    [] p.type = "functionCall" -> Seen("call", p.data, IF p.id = None THEN p.name ELSE p.id)
    [] p.type = "functionResponse" ->
         Seen("result", p.data, IF p.id = None THEN p.name ELSE p.id)
    [] p.type = "file" -> <<>>

SeenItem(i) ==
  CASE i.type = "message" ->
         FlatMap(LAMBDA p : IF p.type = "media" THEN <<>> ELSE Seen(p.type, p.data, None), i.parts)
    [] i.type = "reasoning" -> Seen("thought", i.data, None)
    [] i.type = "refusal" -> Seen("refusal", i.data, None)
    [] i.type \in CallTypes -> Seen("call", i.data, i.call_id)
    [] i.type \in OutputTypes -> Seen("result", i.data, i.call_id)
    [] i.type \in OpaqueTypes \cup {"program"} -> <<>>

SeenChatMessage(m) ==
  LET texts == FlatMap(LAMBDA p : IF p.type = "text" THEN Seen("text", p.data, None) ELSE <<>>, m.parts)
  IN IF m.role = "tool" THEN Seen("result", Data(m.parts), m.tool_call_id)
     ELSE Seen("thought", m.reasoning, None) \o texts \o Seen("refusal", m.refusal, None)
            \o FlatMap(LAMBDA c : Seen("call", c.data, c.id), m.calls)

SeenAnswer(p, a) ==
  CASE p = "chat" -> Seen("thought", a.reasoning, None) \o Seen("text", a.text, None)
                       \o Seen("refusal", a.refusal, None)
                       \o FlatMap(LAMBDA c : Seen("call", c.data, c.id), a.calls)
    [] p = "messages" -> FlatMap(SeenBlock, a.content)
    [] p = "gemini" -> FlatMap(SeenPart, a.content)
    [] p = "responses" -> FlatMap(SeenItem, a.output)

SeenRequest(p, b) ==
  CASE p = "chat" -> FlatMap(SeenChatMessage, SelectSeq(b.messages, LAMBDA m : m.role \notin {"system", "developer"}))
    [] p = "messages" -> FlatMap(SeenBlock, Contents(b.messages))
    [] p = "gemini" -> FlatMap(SeenPart, Contents(b.messages))
    [] p = "responses" -> FlatMap(SeenItem, SelectSeq(b.messages, LAMBDA i : i.role \notin {"system", "developer"}))

CallsIn(seen) == SelectSeq(seen, LAMBDA s : s.kind = "call")

\* The result of a call.
ResultOf(data) == <<"result of " \o data[1]>>

\* The answer as the client repeats it.
Echo(a) ==
  CASE client = "chat" ->
         <<[ChatMessage("assistant", IF a.text = <<>> THEN <<>>
                          ELSE <<[type |-> "text", data |-> a.text, breakpoint |-> FALSE]>>)
              EXCEPT !.reasoning = a.reasoning, !.refusal = a.refusal, !.calls = a.calls]>>
    [] client = "messages" -> IF a.content = <<>> THEN <<>> ELSE <<Message("assistant", a.content)>>
    [] client = "gemini" -> IF a.content = <<>> THEN <<>> ELSE <<Message("model", a.content)>>
    [] client = "responses" -> a.output

\* The forms a client has for results: Chat Completions strings or parts, Gemini
\* two roles.
Forms == [chat |-> {"string", "parts"}, messages |-> {"block"}, gemini |-> {"user", "function"},
          responses |-> {"item"}]

\* The results, in the order the client has them.
Results(a, form, Order(_)) ==
  CASE client = "chat" ->
         MapSeq(LAMBDA c : [ChatMessage("tool", <<[type |-> "text", data |-> ResultOf(c.data),
                                                   breakpoint |-> FALSE]>>)
                              EXCEPT !.tool_call_id = c.id, !.array = form = "parts"],
                Order(a.calls))
    [] client = "messages" ->
         <<Message("user", MapSeq(LAMBDA b : ToolResultBlock(b.id, ResultOf(b.data)),
                                  Order(SelectSeq(a.content, LAMBDA b : b.type = "tool_use"))))>>
    [] client = "gemini" ->
         <<Message(form, MapSeq(LAMBDA p : ResponsePart(p.id, p.name, ResultOf(p.data)),
                                Order(SelectSeq(a.content, LAMBDA p : p.type = "functionCall"))))>>
    [] client = "responses" ->
         MapSeq(LAMBDA i : OutputItem(IF i.type = "custom_tool_call" THEN "custom_tool_call_output"
                                      ELSE "function_call_output", i.call_id, ResultOf(i.data)),
                Order(SelectSeq(a.output, LAMBDA i : i.type \in CallTypes)))

\* Results may come in any order if their calls have ids to tell them apart.
GoOn(form, turned) ==
  LET seen == SeenAnswer(client, answer)
      calls == CallsIn(seen)
      Order(s) == IF turned THEN Reverse(s) ELSE s
      ask == <<"ask " \o ToString(Turn)>>
      repeated == MapSeq(LAMBDA s : Said(s.kind, s.data),
                         SelectSeq(seen, LAMBDA s : s.kind /= "thought"))
      kind == IF form = "parts" THEN "loose result" ELSE "result"
  IN /\ phase = "answered"
     /\ form \in Forms[client]
     /\ turned => Cardinality({c.id : c \in Range(calls)}) = Len(calls)
     /\ body' = [body EXCEPT
                   !.messages = @ \o Echo(answer)
                                  \o (IF calls = <<>> THEN <<>> ELSE Results(answer, form, Order))
                                  \o <<UserMessage(client, {}, ask)>>]
     /\ talk' = talk \o repeated \o MapSeq(LAMBDA c : Said(kind, ResultOf(c.data)), Order(calls))
                  \o <<Said("ask", ask)>>
     /\ phase' = "ask" /\ to' = None /\ request' = EmptyBody /\ said' = Silence /\ answer' = <<>>
     /\ UNCHANGED <<client, settings>>

Next ==
  \/ \E p \in Upstreams, levels \in BOOLEAN : Send(p, levels)
  \/ Answer
  \/ \E form \in UNION Range(Forms), turned \in BOOLEAN : GoOn(form, turned)

Spec == Init /\ [][Next]_rvars
-----------------------------------------------------------------------------
(***************************************************************************)
(* Properties.                                                             *)
(***************************************************************************)

Translated == phase = "sent" /\ to /= client

\* What the upstream should see of the conversation.  Translated, a refusal the
\* client repeats is lost (Chat Completions and Responses requests have a place for
\* it that decode_request does not read), and the result a Chat Completions client
\* gives as parts is a text without its call, or nothing in Responses.
Expected ==
  LET Kind(kind) == CASE kind \in {"ask", "context"} -> "text"
                      [] kind = "loose result" -> IF to = client THEN "result" ELSE "text"
                      [] OTHER -> kind
      Kept(s) == \/ to = client
                 \/ s.kind /= "refusal" /\ (s.kind = "loose result" => to /= "responses")
  IN MapSeq(LAMBDA s : Said(Kind(s.kind), s.data), SelectSeq(talk, Kept))

\* Every request that goes upstream repeats the whole conversation: what was
\* asked, answered, called and returned, each once and in its order, whichever
\* protocols the earlier turns went through.
ConversationArrives ==
  phase = "sent" =>
    LET got == SelectSeq(SeenRequest(to, request), LAMBDA s : s.kind /= "thought")
    IN MapSeq(LAMBDA s : Said(s.kind, s.data), got) = Expected

\* The ids that several calls may share: names at Gemini, which gets no ids, and ids
\* made up from names.  The second kind is repeated by every client; only for
\* a Responses client does decode_request tell them apart again.
Shared(id) ==
  \/ to = "gemini" /\ id = "f"
  \/ id = SynthId("f") /\ (client = "responses" => to = client)

\* In every request that goes upstream the result of a call has the id of that
\* call and of no other, unless its id is shared: then only the order tells which
\* call it belongs to.
ResultsArePaired ==
  phase = "sent" =>
    LET seen == SeenRequest(to, request)
        CallsOfId(id) == {i \in DOMAIN seen : seen[i].kind = "call" /\ seen[i].id = id}
    IN \A i \in DOMAIN seen : seen[i].kind = "result" =>
         /\ \E j \in CallsOfId(seen[i].id) : j < i /\ ResultOf(seen[j].data) = seen[i].data
         /\ Shared(seen[i].id) \/ Cardinality(CallsOfId(seen[i].id)) = 1

\* It is found unless a Responses client repeats a call that has an item id beside
\* its call id.
FailsOnlyForItemIds ==
  phase = "failed" =>
    /\ client = "responses"
    /\ \E i \in DOMAIN body.messages :
         body.messages[i].type \in CallTypes /\ body.messages[i].id /= None

\* The client gets what the upstream said: text and calls in their order, refusals
\* if its protocol has them (but not those in a Responses message, which are not
\* read), and reasoning (which decode_response of Chat Completions puts after the
\* text) unless it speaks Chat Completions.  A count of reasoning tokens reaches
\* clients of other protocols as one more thought.
AnswerIsDelivered ==
  phase = "answered" =>
    LET seen == MapSeq(LAMBDA s : Said(s.kind, s.data), SeenAnswer(client, answer))
        saying == Saying(said, Turn - 1)
        Thought(s) == s.kind = "thought"
        Spoken(s) == \/ s.kind \in {"text", "call"}
                     \/ s.kind = "refusal" /\ client \in OpenAI /\ (said.refusal = "part" => to = client)
        note == IF said.reasoned /\ to /= client THEN <<Said("thought", TokensUsed)>> ELSE <<>>
    IN /\ SelectSeq(seen, LAMBDA s : ~Thought(s)) = SelectSeq(saying, Spoken)
       /\ client /= "chat" \/ to = client =>
            SelectSeq(seen, Thought) = SelectSeq(saying, Thought) \o note

\* How the client understands the end of its answer; "cut" is Responses' word for a
\* limit and a filter.
Told ==
  LET calls == CallsIn(SeenAnswer(client, answer)) /= <<>>
      natural == IF calls THEN "tools" ELSE "end"
  IN CASE client = "chat" ->
            [stop |-> "end", tool_calls |-> "tools", length |-> "length",
             content_filter |-> "filter"][answer.finish]
       [] client = "messages" ->
            CASE answer.stop = "end_turn" -> "end" [] answer.stop = "tool_use" -> "tools"
              [] answer.stop = "max_tokens" -> "length"
              [] answer.stop \in {"refusal", "content_filter"} -> "filter" [] OTHER -> "unknown"
       [] client = "gemini" ->
            CASE answer.finish = "MAX_TOKENS" -> "length" [] answer.finish = "SAFETY" -> "filter"
              [] OTHER -> natural
       [] client = "responses" -> IF answer.status = "incomplete" THEN "cut" ELSE natural

\* How the upstream meant it.  A translated refusal of Chat Completions is a filter.
Meant ==
  CASE said.end = "length" -> {"length", "cut"}
    [] said.end = "filter" -> {"filter", "cut"}
    [] said.end = "stop" -> {"end", "tools"}
    [] said.refusal /= "none_" -> IF to = "chat" /\ client /= "chat" THEN {"filter", "cut"} ELSE {"end"}
    [] OTHER -> IF said.calls > 0 THEN {"tools"} ELSE {"end"}

\* Ends that are told wrong: an incomplete answer of Responses is a limit, whatever
\* the reason, and a tool turn if it has a call; and Messages clients get the
\* upstream's own words, max_output_tokens of Responses and safety of Gemini.
ToldWrong ==
  \/ /\ to = "responses" /\ client /= to
     /\ IF client = "messages" THEN said.end = "length"
        ELSE said.end = "filter" \/ (said.end = "length" /\ said.calls > 0)
  \/ to = "gemini" /\ client = "messages" /\ said.end = "filter"

\* The client is told how the answer ended: with calls to run, at a limit, in a
\* filter or of itself, and as many tokens as the upstream counted.
AnswerEndsTruly ==
  phase = "answered" =>
    LET u == answer.usage
    IN /\ Told \in Meant <=> ~ToldWrong
       /\ client = "messages" =>
            u.prompt + OrZero(u.read) + OrZero(u.write) = 7 /\ u.completion = 3
       /\ client /= "messages" => u.input = 7 /\ u.output = 3 /\ u.read = 2

\* A tool choice that does not arrive: Chat Completions upstreams are sent none
\* (which means "auto"), and the name of a function stays where the other protocol
\* had it on the way to Responses and from there to Messages.
ChoiceIsLost ==
  LET choice == OneOf(Asks(settings, "choice"), None)
  IN \/ to = "chat" /\ choice \notin {None, "auto"}
     \/ choice = "function" /\ (to = "responses" \/ (client = "responses" /\ to = "messages"))

\* A constraint of the request that would change the answer reaches the upstream
\* or the request is refused: tools, output formats, media, cache breakpoints,
\* verbosity, agents and the length, temperature and end of the answer.  What the
\* gateway drops all the same is exactly this: some tool choices, a stop word that is
\* not in a list, audio of Chat Completions and documents of Messages, the marks of
\* Messages clients for the cache, and opaque items of Responses.
LossesAreExactlyThese ==
  Translated =>
    LET PartsOf(b) == Range(FlatMap(LAMBDA m : m.parts, b.messages))
        Marks(p, b) == IF p \in OpenAI THEN {part \in PartsOf(b) : part.type /= "refusal" /\ part.breakpoint}
                       ELSE {}
        MediaIn(p, b) ==
          LET all == IF p \in OpenAI THEN PartsOf(b) ELSE Range(Contents(b.messages))
          IN {part.source : part \in {x \in all : x.type \in {"image", "media", "file"}}}
        Params(p) == CASE p = "chat" -> ChatParams [] p = "messages" -> MessagesParams
                       [] p = "gemini" -> GeminiParams [] p = "responses" -> ResponsesParams
        Constraints(p, b) ==
          {Params(p)[f] : f \in b.fields \cap DOMAIN Params(p)}
            \cap {"max_tokens", "temperature", "top_p", "stop", "verbosity"}
        choice == OneOf(Asks(settings, "choice"), None)
    IN /\ Cardinality(request.tools) = Cardinality(body.tools)
       /\ (request.format = None) = (body.format = None)
       /\ MediaIn(to, request) = Asks(settings, "media") \ {"audio", "document"}
       /\ (Marks(to, request) /= {}) = (Asks(settings, "breakpoint") /= {})
       /\ Asks(settings, "item") \subseteq {"opaque"}
       /\ Constraints(client, body) \subseteq Constraints(to, request)
       /\ "stop" \in Constraints(to, request) => "stop_word" \notin body.fields
       /\ (\/ request.tool_choice = ChoiceOf(to, choice)
           \/ choice = "auto" /\ request.tool_choice = None) <=> ~ChoiceIsLost
       /\ "cache_control" \in request.fields => to = "messages" /\ client /= "messages"

\* The system text arrives once.
SystemArrives ==
  phase = "sent" =>
    LET messages == CASE to = "chat" -> FlatMap(LAMBDA m : IF m.role \in {"system", "developer"} THEN Data(m.parts) ELSE <<>>, request.messages)
                      [] to = "responses" -> FlatMap(LAMBDA m : IF m.role = "developer" THEN Data(m.parts) ELSE <<>>, request.messages)
                      [] OTHER -> <<>>
    IN request.system \o messages = <<"system">>

\* How much the upstream thinks is what was asked for, up to the least and the
\* most its protocol knows: thinking is never turned off, nor on.
ThinkingIsKept ==
  Translated =>
    LET asked == EffortOf(body.thinking)
        arrived == EffortOf(request.thinking)
        Most == IF to = "gemini" THEN Rank("high") ELSE Rank("max")
        Least == CASE to = "messages" -> Rank("low") [] OTHER -> Rank("minimal")
    IN CASE asked = None -> arrived = None
         [] asked = "none_" -> arrived \in {None, "none_", "minimal"}
         [] OTHER -> /\ arrived \notin {None, "none_"}
                     /\ Rank(arrived) >= (IF Rank(asked) > Most THEN Most ELSE Rank(asked))
                     /\ Rank(arrived) <= (IF Rank(asked) < Least THEN Least ELSE Rank(asked))

\* A Responses request that is decoded and encoded again has the same items in
\* the same places, the ones the gateway does not know included, unless a refusal
\* is among them.
ItemsKeepTheirPlaces ==
  client = "responses" =>
    LET again == ResponsesEncodeRequest(ResponsesDecodeRequest(body)).messages
        Shape(i) == [type |-> i.type, parts |-> i.parts, data |-> i.data]
        place == Asks(settings, "item") \cap OpaqueTypes /= {}
        refused == \E i \in DOMAIN talk : talk[i].kind = "refusal"
    IN place /\ ~refused => MapSeq(Shape, again) = MapSeq(Shape, body.messages)

\* The conversation reaches the upstream: every turn in its order and with its
\* content, the system text once, opaque items in their places.
HistoryArrives == ConversationArrives /\ SystemArrives /\ ItemsKeepTheirPlaces

\* Calls and results stay together, and no conversation fails for it but one
\* whose calls have an item id of their own.
PairingHolds == ResultsArePaired /\ FailsOnlyForItemIds

\* The answer reaches the client with its content, its end and its counts.
AnswersArrive == AnswerIsDelivered /\ AnswerEndsTruly

\* What a protocol cannot say is refused, but for the losses above, and what is
\* asked of thinking is kept.
LossesAreKnown == LossesAreExactlyThese /\ ThinkingIsKept
=============================================================================
