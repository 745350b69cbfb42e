------------------------------ MODULE Transcode ------------------------------
(***************************************************************************)
(* A streamed answer on its way from an upstream of one protocol to a      *)
(* client of another: drive_upstream_stream of                             *)
(* crates/server/src/ingress/streaming.rs feeds every line to the          *)
(* upstream's decoder and every part to the client's encoder.              *)
(*                                                                         *)
(* The upstream is a server of its protocol.  It says tokens on channels   *)
(* (text, reasoning, the arguments of a tool call) and ends its answer in  *)
(* one of the ways the decoders provide for.                               *)
(***************************************************************************)
EXTENDS MessagesStream, GeminiStream, Clients, FiniteSets

CONSTANTS
  Calls,         \* tool calls, known by the name of their function
  CustomCalls,   \* the ones that are custom tool calls for a Responses upstream
  MaxTokens      \* bound: tokens in an answer

ASSUME TranscodeAssumption ==
  /\ CustomCalls \subseteq Calls
  /\ MaxTokens \in Nat

VARIABLES
  pair,     \* the two protocols
  up,       \* the upstream's server
  lines,    \* lines the gateway has not read
  dec,      \* the decoder
  enc,      \* the encoder
  relay,    \* locals of the relay: saw_terminal, upstream_error, ended
  frames,   \* frames the client has not read
  client    \* the client

tvars == <<pair, up, lines, dec, enc, relay, frames, client>>

\* Upstream and client; between equals the stream is relayed as it is.
Pairs == {p \in Protocols \X Protocols : p[1] /= p[2]}

From == pair[1]
To == pair[2]

CallId(from, c) == IF from = "gemini" THEN SynthCallId(c) ELSE c

ChannelsOf(from) == {"text", "reasoning"} \cup {CallId(from, c) : c \in Calls}

\* said: what has been said, per channel.  current: the channel of the last
\* token; blocks: channel of each block or item so far.  mixes: may it mix the
\* fragments of its calls?  early: has it counted tokens before its last event?
NewServer(from, mixes) ==
  [said |-> [c \in ChannelsOf(from) |-> <<>>], tokens |-> 0, current |-> None,
   blocks |-> <<>>, calls |-> <<>>, ended |-> FALSE, reason |-> None,
   counted |-> None, early |-> FALSE, mixes |-> mixes]

\* Chat and Responses have the means to tell mixed fragments apart.
MayMix(from) == IF from \in {"chat", "responses"} THEN BOOLEAN ELSE {FALSE}

NewDecoder(from) ==
  CASE from = "chat" -> ChatDecoder [] from = "messages" -> MessagesDecoder
    [] from = "gemini" -> GeminiDecoder [] from = "responses" -> ResponsesDecoder

NewEncoder(to) ==
  CASE to = "chat" -> ChatEncoder [] to = "messages" -> MessagesEncoder
    [] to = "gemini" -> <<>> [] to = "responses" -> ResponsesEncoder

TInit ==
  /\ pair \in Pairs
  /\ \E mixes \in MayMix(From) : up = NewServer(From, mixes)
  /\ lines = <<>>
  /\ dec = NewDecoder(From)
  /\ enc = NewEncoder(To)
  /\ relay = [saw_terminal |-> FALSE, upstream_error |-> FALSE, ended |-> FALSE]
  /\ frames = <<>>
  /\ client = NewClient(ChannelsOf(From))
-----------------------------------------------------------------------------
(***************************************************************************)
(* The upstream.                                                           *)
(***************************************************************************)

IsCall(ch) == ch \notin {"text", "reasoning"}

\* Only a Chat client can have declared custom tools.
Custom(ch) == ch \in CustomCalls /\ From = "responses" /\ To = "chat"

\* 7 tokens read, 2 of them cached, 3 written; early counts have 1 written.
Counts == [input |-> 7, output |-> 3, read |-> 2, write |-> NoCount]

\* A block or an item is in use until the server turns to another channel; with
\* mixed fragments a call's item stays in use.
InUse(u, ch) == ch = u.current \/ (IsCall(ch) /\ u.mixes)

BlockOf(u, ch) == CHOOSE i \in DOMAIN u.blocks :
                    /\ u.blocks[i] = ch
                    /\ \A j \in DOMAIN u.blocks : u.blocks[j] = ch => j <= i

ItemId(u, ch) == IF IsCall(ch) THEN "item_" \o ch ELSE IF ch = "text" THEN "msg" ELSE "rs"

ItemType(ch) ==
  CASE ch = "text" -> "message" [] ch = "reasoning" -> "reasoning"
    [] OTHER -> IF Custom(ch) THEN "custom_tool_call" ELSE "function_call"

BlockType(ch) ==
  CASE ch = "text" -> "text" [] ch = "reasoning" -> "thinking" [] OTHER -> "tool_use"

\* The function's name; a Gemini call has no other identity.
NameOf(ch) == CHOOSE c \in Calls : CallId(From, c) = ch

\* Chat: one chunk, perhaps with the tokens counted so far.
ChatSays(u, ch, data, opens, counts) ==
  LET chunk == [Chunk EXCEPT !.id = TRUE, !.usage = IF counts THEN [Counts EXCEPT !.output = 1] ELSE @]
  IN
  <<CASE ch = "text" -> [chunk EXCEPT !.text = data]
      [] ch = "reasoning" -> [chunk EXCEPT !.reasoning = data]
      [] OTHER ->
           [chunk EXCEPT
              !.tools = <<[index |-> (IF opens THEN Len(u.calls)
                                      ELSE (CHOOSE i \in DOMAIN u.calls : u.calls[i] = ch) - 1),
                           id |-> IF opens THEN ch ELSE None,
                           name |-> IF opens THEN NameOf(ch) ELSE None, data |-> data]>>]>>

MessagesStarts == [kind |-> "message_start", usage |-> Usage(5, 1, 2, NoCount)]

\* Messages: the old block ends, a new one begins.
MessagesSays(u, ch, data) ==
  LET first == IF u.tokens > 0 THEN <<>> ELSE <<MessagesStarts>>
      turn == ch /= u.current
      stop == IF u.current = None THEN <<>> ELSE <<[kind |-> "block_stop"]>>
      index == IF turn THEN Len(u.blocks) ELSE Len(u.blocks) - 1
      start == <<[kind |-> "block_start", block |-> BlockType(ch), index |-> index,
                  id |-> ch, name |-> IF IsCall(ch) THEN NameOf(ch) ELSE None]>>
      delta == [kind |-> "block_delta", delta |-> BlockType(ch), index |-> index, data |-> data]
  IN first \o (IF turn THEN stop \o start ELSE <<>>) \o (IF data = <<>> THEN <<>> ELSE <<delta>>)

\* Gemini: one part, perhaps with the tokens counted so far.
GeminiSays(u, ch, data, counts) ==
  LET p == CASE ch = "text" -> [type |-> "text", data |-> data]
             [] ch = "reasoning" -> [type |-> "thought", data |-> data]
             [] OTHER -> [type |-> "call", id |-> None, name |-> NameOf(ch), data |-> data]
  IN <<[GeminiChunk EXCEPT !.id = TRUE, !.parts = <<p>>,
          !.usage = IF counts THEN [input |-> 7, output |-> 1, read |-> 2] ELSE @]>>

ItemEnds(u, ch) ==
  (IF Custom(ch) THEN <<[kind |-> "input_done", item |-> ItemId(u, ch), data |-> u.said[ch]]>>
   ELSE <<>>)
    \o <<[kind |-> "item_done", type |-> ItemType(ch), item |-> ItemId(u, ch),
          encrypted |-> IF ch = "reasoning" THEN "cipher" ELSE None]>>

\* Responses: items.
ResponsesSays(u, ch, data, opens) ==
  LET first == IF u.tokens > 0 THEN <<>> ELSE <<[kind |-> "created"], [kind |-> "in_progress"]>>
      old == IF u.current \notin {None, ch} /\ ~(IsCall(u.current) /\ u.mixes)
             THEN ItemEnds(u, u.current) ELSE <<>>
      added == <<[kind |-> "item_added", type |-> ItemType(ch), item |-> ItemId(u, ch),
                  call |-> ch, name |-> IF IsCall(ch) THEN NameOf(ch) ELSE None,
                  data |-> <<>>, encrypted |-> None]>>
      delta == [kind |-> "delta", type |-> ItemType(ch), item |-> ItemId(u, ch), data |-> data]
  IN first \o old \o (IF opens THEN added ELSE <<>>) \o (IF data = <<>> THEN <<>> ELSE <<delta>>)

Says(u, ch, data, opens, counts) ==
  CASE From = "chat" -> ChatSays(u, ch, data, opens, counts)
    [] From = "messages" -> MessagesSays(u, ch, data)
    [] From = "gemini" -> GeminiSays(u, ch, data, counts)
    [] From = "responses" -> ResponsesSays(u, ch, data, opens)

\* The upstream says a token, or opens a call without arguments.  A Gemini call
\* is complete at once.
Say(ch) ==
  /\ ~up.ended /\ ~relay.ended /\ lines = <<>> /\ frames = <<>>
  /\ up.tokens < MaxTokens
  /\ LET opens == IF IsCall(ch) THEN ch \notin Range(up.calls) ELSE ch /= up.current
     IN /\ (IsCall(ch) /\ ~opens) => (InUse(up, ch) /\ From /= "gemini")
        /\ \E data \in {<<up.tokens + 1>>} \cup {d \in {<<>>} : opens /\ IsCall(ch)},
              counts \in IF From \in {"chat", "gemini"} THEN BOOLEAN ELSE {FALSE} :
             /\ lines' = Says(up, ch, data, opens, counts)
             /\ up' = [up EXCEPT !.said[ch] = @ \o data, !.tokens = @ + 1, !.current = ch,
                                 !.early = @ \/ counts,
                                 !.blocks = IF opens THEN Append(@, ch) ELSE @,
                                 !.calls = IF opens /\ IsCall(ch) THEN Append(@, ch) ELSE @]
  /\ UNCHANGED <<pair, dec, enc, relay, frames, client>>

ChatChunk(finish, usage) == [Chunk EXCEPT !.id = TRUE, !.finish = finish, !.usage = usage]

OpenItems(u) ==
  LET open == {ch \in {u.current} \cup Range(u.calls) :
                 ch /= None /\ (ch = u.current \/ u.mixes)}
  IN FlattenSeq([i \in 1..Cardinality(open) |-> ItemEnds(u, SetToSeq(open)[i])])

\* The ways an answer ends: finished, cut off for its length or without a
\* reason; the token counts with the reason, after it or missing; the terminator
\* missing.
End(reason, counts, ls) == [reason |-> reason, counts |-> counts, lines |-> ls]

ChatEnds(tools) ==
  LET done == [kind |-> "done"]
      Word(r) == IF r = "tools" THEN "tool_calls" ELSE r
      given == {"stop", "length"} \cup {r \in {"tools"} : tools}
  IN {End(r, "with", <<ChatChunk(Word(r), Counts), done>>) : r \in given \cup {None}}
       \cup {End(r, "after", <<ChatChunk(Word(r), NoUsage), ChatChunk(None, Counts), done>>) :
               r \in given}
       \cup {End(r, None, <<ChatChunk(Word(r), NoUsage), done>>) : r \in given}

MessagesEnds(tools) ==
  LET Word(r) == CASE r = "tools" -> "tool_use" [] r = "stop" -> "end_turn"
                   [] r = "length" -> "max_tokens" [] OTHER -> None
      Changed(r) == [kind |-> "message_delta", usage |-> Usage(0, 3, NoCount, NoCount),
                     stop |-> Word(r)]
  IN {End(r, "with", <<[kind |-> "block_stop"], Changed(r), [kind |-> "message_stop"]>>) :
        r \in {IF tools THEN "tools" ELSE "stop", "length", None}}

GeminiEnds ==
  LET last == [GeminiChunk EXCEPT !.id = TRUE]
      w == [input |-> 7, output |-> 3, read |-> 2]
      Word(r) == CASE r = "stop" -> "STOP" [] r = "length" -> "MAX_TOKENS" [] OTHER -> None
  IN {End(r, "with", <<[last EXCEPT !.finish = Word(r), !.usage = w]>>) :
        r \in {"stop", "length", None}}
       \cup {End(r, "after", <<[last EXCEPT !.finish = Word(r)], [last EXCEPT !.usage = w]>>) :
               r \in {"stop", "length"}}

ResponsesEnds(u) ==
  LET Completed(w) == [kind |-> "completed", status |-> "completed", usage |-> w]
  IN {End("stop", "with", OpenItems(u) \o <<Completed(Counts)>>),
      End("stop", "with", OpenItems(u) \o <<Completed(Counts), [kind |-> "done"]>>),
      End("stop", None, OpenItems(u) \o <<Completed(NoUsage)>>),
      End("length", None, OpenItems(u) \o <<[kind |-> "incomplete"]>>)}

Ends(u) ==
  LET tools == u.calls /= <<>>
  IN CASE From = "chat" -> ChatEnds(tools) [] From = "messages" -> MessagesEnds(tools)
       [] From = "gemini" -> GeminiEnds [] From = "responses" -> ResponsesEnds(u)

\* The server ends its answer; it has said something.
EndAnswer ==
  /\ ~up.ended /\ ~relay.ended /\ lines = <<>> /\ frames = <<>>
  /\ up.tokens > 0
  /\ \E e \in Ends(up) :
       /\ lines' = e.lines
       /\ up' = [up EXCEPT !.ended = TRUE, !.reason = e.reason, !.counted = e.counts]
  /\ UNCHANGED <<pair, dec, enc, relay, frames, client>>

\* The server reports an error in the stream, or sends a line that is not JSON.
Trouble(kind) ==
  /\ ~up.ended /\ ~relay.ended /\ lines = <<>> /\ frames = <<>>
  /\ lines' = <<[kind |-> kind]>>
  /\ up' = [up EXCEPT !.ended = TRUE]
  /\ UNCHANGED <<pair, dec, enc, relay, frames, client>>
-----------------------------------------------------------------------------
(***************************************************************************)
(* The gateway.                                                            *)
(***************************************************************************)

\* The error event of each protocol.
ErrorLine(from) ==
  CASE from = "chat" -> [Chunk EXCEPT !.error = TRUE]
    [] from = "gemini" -> [GeminiChunk EXCEPT !.error = TRUE]
    [] OTHER -> [kind |-> "error"]

Decode(d, line) ==
  LET ev == IF line.kind = "trouble" THEN ErrorLine(From) ELSE line
  IN CASE From = "chat" -> ChatFeed(d, ev) [] From = "messages" -> MessagesFeed(d, ev)
       [] From = "gemini" -> GeminiFeed(d, ev) [] From = "responses" -> ResponsesFeed(d, ev)

EncodePart(e, p) ==
  CASE To = "chat" -> ChatEncodePart(e, p) [] To = "messages" -> MessagesEncodePart(e, p)
    [] To = "gemini" -> Out(e, GeminiEncodePart(p))
    [] To = "responses" -> ResponsesEncodePart(e, p)

EncodeError ==
  CASE To = "chat" -> ChatEncodeError [] To = "messages" -> MessagesEncodeError
    [] To = "gemini" -> GeminiEncodeError [] To = "responses" -> ResponsesEncodeError

EncodeDone ==
  CASE To = "chat" -> ChatEncodeDone [] To = "messages" -> MessagesEncodeDone
    [] To = "gemini" -> GeminiEncodeDone [] To = "responses" -> ResponsesEncodeDone

Terminal(parts) == \E i \in DOMAIN parts : parts[i].kind \in {"finish", "completed"}

\* A line goes through the decoder, its parts through the encoder.  A line the
\* decoder refuses becomes an error frame, and the stream goes on.
Feed ==
  /\ ~relay.ended /\ lines /= <<>> /\ frames = <<>>
  /\ IF Head(lines).kind = "bad"
     THEN /\ frames' = EncodeError
          /\ UNCHANGED <<dec, enc, relay>>
     ELSE LET d == Decode(dec, Head(lines))
              e == ForEach(EncodePart, enc, d.out)
          IN /\ dec' = d.state
             /\ enc' = e.state
             /\ frames' = e.out
             /\ relay' = [relay EXCEPT
                  !.saw_terminal = @ \/ Terminal(d.out),
                  !.upstream_error = @ \/ \E i \in DOMAIN d.out : d.out[i].kind = "error"]
  /\ lines' = Tail(lines)
  /\ UNCHANGED <<pair, up, client>>

\* The upstream closes the connection: the decoder's last parts if the stream
\* had a terminal event, the protocol's end frame if it had an error.
EndOfStream ==
  /\ ~relay.ended /\ lines = <<>> /\ frames = <<>>
  /\ relay' = [relay EXCEPT !.ended = TRUE]
  /\ LET d == IF From = "gemini" THEN GeminiStreamEnd(dec) ELSE Out(dec, <<>>)
         e == ForEach(EncodePart, enc, d.out)
     IN IF relay.saw_terminal
        THEN dec' = d.state /\ enc' = e.state /\ frames' = e.out
        ELSE /\ frames' = IF relay.upstream_error THEN EncodeDone ELSE <<>>
             /\ UNCHANGED <<dec, enc>>
  /\ UNCHANGED <<pair, up, lines, client>>

\* The connection breaks or a timeout expires.
Truncate ==
  /\ ~relay.ended /\ frames = <<>>
  /\ relay' = [relay EXCEPT !.ended = TRUE]
  /\ frames' = EncodeError
  /\ lines' = <<>>
  /\ UNCHANGED <<pair, up, dec, enc, client>>

\* The client reads a frame.
ReadFrame ==
  /\ frames /= <<>>
  /\ client' = Read(To, client, Head(frames))
  /\ frames' = Tail(frames)
  /\ UNCHANGED <<pair, up, lines, dec, enc, relay>>

TNext ==
  \/ \E ch \in DOMAIN up.said : Say(ch)
  \/ EndAnswer
  \/ \E kind \in {"trouble", "bad"} : Trouble(kind)
  \/ Feed
  \/ EndOfStream
  \/ Truncate
  \/ ReadFrame

TSpec == TInit /\ [][TNext]_tvars
-----------------------------------------------------------------------------
(***************************************************************************)
(* Properties.                                                             *)
(***************************************************************************)

\* The Gemini decoder takes the first token counts for the end of the answer.
EndsEarly == From = "gemini" /\ up.early

\* Every frame means something to the client, in the state the frames before it
\* have left it in: blocks and items begin, fill and end in order, no block is
\* open when the stop reason comes, no item when the answer ends, the arguments
\* of a call follow its opener, nothing but a repeated terminator follows the
\* end (the encoders of crates/protocols).  Where the code falls short of that:
\*  - what a Gemini upstream says after its first token counts comes late;
\*  - the Messages encoder gives a fragment to the block that is open, whichever
\*    call it is for, and sends token counts at once, also within a block;
\*  - at [DONE] without a finish reason, the Responses encoder closes calls only.
ClientParses ==
  /\ client.st /= "broken"
  /\ "late" \in client.faults => EndsEarly
  /\ "astray" \in client.faults => To = "messages" /\ up.mixes
  /\ "counts" \in client.faults => up.counted /= None \/ up.early
  /\ "unfinished" \in client.faults => From = "chat" /\ up.reason = None /\ up.calls = <<>>

\* Gemini has no fragments of arguments: a Gemini client receives the calls of
\* the other protocols without them.  A Messages client receives mixed fragments
\* in the wrong calls.
Carried(ch) ==
  IsCall(ch) => To /= "gemini" /\ ~(To = "messages" /\ up.mixes)

\* A Responses client is told that the answer is complete when a Gemini upstream
\* counts tokens for the first time.
ToldTooEarly == To = "responses" /\ EndsEarly

AllChannels == UNION {ChannelsOf(p[1]) : p \in Pairs}

Only(f) == [ch \in AllChannels |-> IF ch \in DOMAIN f /\ Carried(ch) THEN f[ch] ELSE <<>>]

\* The translated stream implements the pipe: nothing is lost, doubled, swapped
\* or given to another call, and a complete answer is complete.
Pipe == INSTANCE ContentPipe WITH
  Channels <- AllChannels,
  sent <- Only(up.said),
  heard <- Only(client.got),
  closed <- client.st = "closed" /\ ~ToldTooEarly

\* drive_upstream_stream with any decoder and any encoder is such a pipe: text
\* and reasoning always arrive, arguments wherever they are Carried, and only a
\* Responses client of a Gemini upstream that counts early may be told that an
\* answer is complete that is not.
DeliversContent == Pipe!Spec

\* response.completed repeats what the deltas said, item by item.
SnapshotRepeatsTheDeltas ==
  (To = "responses" /\ client.st = "closed") =>
     /\ {i.index + 1 : i \in client.snapshot} = DOMAIN client.items
     /\ \A i \in client.snapshot :
          /\ i.type = client.items[i.index + 1].type
          /\ i.data = client.got[ItemChannel(client.items[i.index + 1])]

\* Token counts survive the conventions of both protocols, also when they come
\* again and again: the client counts as many tokens read and written as the
\* upstream did at last.  A Responses client counts what was known when the
\* answer ended: counts that come later, after earlier ones, are lost on it.
TokensAreConserved ==
  (client.st = "closed" /\ up.counted /= None /\ relay.ended /\ frames = <<>>) =>
    LET stale == To = "responses" /\ up.early /\ (From = "gemini" \/ up.counted = "after")
    IN Counted(To, client.usage) = <<7, IF stale THEN 1 ELSE 3>>

\* How the answer ended, in the words of the protocol.
StopWord(reason) ==
  CASE To = "chat" -> (CASE reason = "tools" -> "tool_calls" [] OTHER -> reason)
    [] To = "messages" -> (CASE reason = "tools" -> "tool_use" [] reason = "stop" -> "end_turn"
                             [] reason = "length" -> "max_tokens" [] OTHER -> None)
    [] To = "gemini" -> (CASE reason = "length" -> "MAX_TOKENS" [] reason = None -> None
                           [] OTHER -> "STOP")
    [] To = "responses" -> IF reason = "length" THEN "incomplete" ELSE "completed"

\* The reason a client is to hear: tools to run if there are any, even if the
\* upstream's reason is missing or does not say so (saw_tool_calls, saw_tool_use,
\* saw_function_call).  The Chat decoder passes on "stop" as it is.  A Responses
\* upstream's incomplete answer that called a tool counts as complete.
ReasonToTell ==
  CASE up.reason = "length" /\ ~(From = "responses" /\ up.calls /= <<>>) -> "length"
    [] up.calls /= <<>> /\ ~(From = "chat" /\ up.reason = "stop") -> "tools"
    [] From = "chat" -> up.reason
    [] OTHER -> "stop"

\* The client learns why the answer ended: it runs the tools it was asked to run
\* and notices when the answer was cut off.  Except after early counts, which the
\* Gemini decoder takes for a plain end.
StopIsTold ==
  (client.st = "closed" /\ up.ended /\ ~EndsEarly) => client.stop = StopWord(ReasonToTell)

\* A client that follows its protocol to the letter makes sense of the stream:
\* no frame out of place, a final snapshot that repeats the deltas, and a stop
\* reason that makes it run the tools it was asked to run.  The exceptions are
\* named in ClientParses and StopIsTold.
ClientsUnderstand == ClientParses /\ SnapshotRepeatsTheDeltas /\ StopIsTold
=============================================================================
