------------------------------- MODULE Clients -------------------------------
(***************************************************************************)
(* Strict clients of the four protocols, as their published event grammars *)
(* describe them.  They are no part of the gateway: they say what its      *)
(* frames mean.  A client is "idle", "open" once the answer has begun,     *)
(* "closed" by the protocol's terminator, "failed" by an error frame, and  *)
(* "broken" when a frame makes no sense to it.  A frame it can read, but   *)
(* not where the grammar has it, is a fault; it takes note and reads on:   *)
(*   late        content after the finish reason or the end                *)
(*   astray      arguments for a block of another kind                     *)
(*   counts      token counts while a block is open                        *)
(*   unfinished  the end of the answer before the end of an item           *)
(***************************************************************************)
EXTENDS ResponsesStream

NoBlock == [index |-> NoCount, block |-> None, id |-> None]

NewClient(channels) ==
  [st |-> "idle", got |-> [c \in channels |-> <<>>], stop |-> None, usage |-> NoUsage,
   faults |-> {},
   calls |-> <<>>,      \* Chat: ids of the calls, by index
   block |-> NoBlock,   \* Messages: the open block
   items |-> <<>>,      \* Responses: items, by index
   snapshot |-> {}]     \* Responses: the items of response.completed

Broken(c) == [c EXCEPT !.st = "broken"]
Note(c, fault, is) == IF is THEN [c EXCEPT !.faults = @ \cup {fault}] ELSE c

\* Content for a channel the upstream never used is content gone astray.
Put(c, channel, data) ==
  IF channel \in DOMAIN c.got THEN [c EXCEPT !.got[channel] = @ \o data]
  ELSE IF data = <<>> THEN c ELSE Broken(c)

\* Chat Completions: a call's first fragment names it; nothing but token
\* counts follows the finish reason.
ChatRead(c0, f) ==
  LET c == Note(c0, "late", f.f \in {"text", "reasoning", "tool"} /\ c0.stop /= None)
  IN CASE f.f = "text"      -> Put(c, "text", f.data)
       [] f.f = "reasoning" -> Put(c, "reasoning", f.data)
       [] f.f = "tool" ->
            IF f.index > Len(c.calls) THEN Broken(c)
            ELSE IF f.index < Len(c.calls)
            THEN IF f.name /= None THEN Broken(c) ELSE Put(c, c.calls[f.index + 1], f.data)
            ELSE IF f.name = None \/ f.id = "" THEN Broken(c)
            ELSE Put([c EXCEPT !.calls = Append(@, f.id)], f.id, f.data)
       [] f.f = "usage"     -> [c EXCEPT !.usage = f.usage]
       [] f.f = "finish"    -> [c EXCEPT !.stop = f.reason]
       [] f.f = "done"      -> [c EXCEPT !.st = "closed"]
       [] f.f = "error"     -> [c EXCEPT !.st = "failed"]

\* Messages: message_start, blocks one after another, message_delta,
\* message_stop.  calls counts the blocks.  No block is open when the stop
\* reason comes.
MessagesRead(c, f) ==
  CASE f.f = "message_start" -> IF c.st = "idle" THEN [c EXCEPT !.st = "open"] ELSE Broken(c)
    [] f.f = "block_start" ->
         IF c.st /= "open" \/ c.block /= NoBlock \/ f.index /= Len(c.calls) THEN Broken(c)
         ELSE [Note(c, "late", c.stop /= None) EXCEPT
                 !.block = [index |-> f.index, block |-> f.block, id |-> f.id],
                 !.calls = Append(@, f.id)]
    [] f.f = "block_delta" ->
         IF c.block.index /= f.index THEN Broken(c)
         ELSE IF c.block.block /= f.delta THEN Note(c, "astray", TRUE)
         ELSE Put(c, CASE f.delta = "text" -> "text"
                       [] f.delta = "thinking" -> "reasoning"
                       [] OTHER -> c.block.id, f.data)
    [] f.f = "block_stop" -> IF c.block.index /= f.index THEN Broken(c)
                             ELSE [c EXCEPT !.block = NoBlock]
    [] f.f = "message_delta" ->
         IF c.st /= "open" \/ (c.block /= NoBlock /\ f.stop /= None) THEN Broken(c)
         ELSE [Note(c, "counts", c.block /= NoBlock) EXCEPT
                 !.usage = f.usage, !.stop = IF f.stop = None THEN @ ELSE f.stop]
    [] f.f = "message_stop" -> IF c.block /= NoBlock THEN Broken(c) ELSE [c EXCEPT !.st = "closed"]
    [] f.f = "error"        -> [c EXCEPT !.st = "failed"]

\* Gemini: independent chunks; the stream's end is the terminator.
GeminiRead(c, f) ==
  CASE f.f = "text"      -> Put(c, "text", f.data)
    [] f.f = "reasoning" -> Put(c, "reasoning", f.data)
    [] f.f = "call"      -> IF f.name = None THEN c ELSE Put(c, f.name, f.data)
    [] f.f = "usage"     -> [c EXCEPT !.usage = f.usage]
    [] f.f = "finish"    -> [c EXCEPT !.stop = f.reason]
    [] f.f = "id"        -> c
    [] f.f = "done"      -> [c EXCEPT !.st = "closed"]
    [] f.f = "error"     -> [c EXCEPT !.st = "failed"]

ItemChannel(item) ==
  CASE item.type = "message" -> "text"
    [] item.type = "reasoning" -> "reasoning"
    [] OTHER -> item.id

\* Responses: items are added in order, filled until they are done, and
\* response.completed ends the answer.  The done event of a summary has no text.
ResponsesRead(c, f) ==
  LET known == f.index + 1 \in DOMAIN c.items
      item == c.items[f.index + 1]
      repeats == f.data = c.got[ItemChannel(item)]
  IN CASE f.f = "created"     -> IF c.st = "idle" THEN [c EXCEPT !.st = "open"] ELSE Broken(c)
       [] f.f = "in_progress" -> c
       [] f.f = "item_added"  ->
            IF c.st /= "open" \/ f.index /= Len(c.items) THEN Broken(c)
            ELSE [c EXCEPT !.items = Append(@, [type |-> f.type, id |-> f.id, done |-> FALSE])]
       [] f.f = "part_added"  -> IF known THEN c ELSE Broken(c)
       [] f.f = "delta"       -> IF ~known THEN Broken(c)
                                 ELSE IF item.done \/ item.type /= f.type THEN Broken(c)
                                 ELSE Put(c, ItemChannel(item), f.data)
       [] f.f = "done_event"  ->
            IF ~known THEN Broken(c)
            ELSE IF item.done \/ (item.type /= "reasoning" /\ ~repeats) THEN Broken(c) ELSE c
       [] f.f = "item_done"   ->
            IF ~known THEN Broken(c)
            ELSE IF item.done \/ (item.type /= "program" /\ ~repeats) THEN Broken(c)
            ELSE [c EXCEPT !.items[f.index + 1].done = TRUE]
       [] f.f = "completed"   ->
            [Note(c, "unfinished", \E i \in DOMAIN c.items : ~c.items[i].done) EXCEPT
               !.st = "closed", !.stop = f.status, !.usage = f.usage, !.snapshot = f.output]
       [] f.f = "done"        -> [c EXCEPT !.st = "closed"]
       [] f.f = "error"       -> [c EXCEPT !.st = "failed"]

\* A second terminator, token counts or an error after the end find no reader;
\* content after the end is content lost.
Harmless == {"done", "message_stop", "usage", "id", "error"}

Read(protocol, c, f) ==
  CASE c.st \in {"failed", "broken"} -> c
    [] c.st = "closed" -> Note(c, "late", f.f \notin Harmless)
    [] OTHER -> CASE protocol = "chat" -> ChatRead(c, f)
                  [] protocol = "messages" -> MessagesRead(c, f)
                  [] protocol = "gemini" -> GeminiRead(c, f)
                  [] protocol = "responses" -> ResponsesRead(c, f)

\* Token counts as the client adds them up: tokens read (cached ones included)
\* and tokens written.
Counted(protocol, u) ==
  IF protocol = "messages" THEN <<u.prompt + OrZero(u.read) + OrZero(u.write), u.completion>>
  ELSE <<u.input, u.output>>
=============================================================================
