---------------------------- MODULE GeminiStream ----------------------------
(***************************************************************************)
(* Streams of the Gemini protocol (crates/protocols/src/gemini.rs).  A     *)
(* chunk holds parts, perhaps a finish reason and token counts; a function *)
(* call is one part with all its arguments.                                *)
(***************************************************************************)
EXTENDS IR

\* Token counts on the wire: the prompt includes the cached tokens.
GeminiUsage(u) ==
  [input |-> u.prompt + OrZero(u.read) + OrZero(u.write), output |-> u.completion, read |-> u.read]

UsageOfGemini(w) == Usage(SaturatingSub(w.input, OrZero(w.read)), w.output, w.read, NoCount)

GeminiFinishReason(reason) ==
  CASE reason = "length" -> "MAX_TOKENS"
    [] reason = "content_filter" -> "SAFETY"
    [] OTHER -> "STOP"

\* A fragment of arguments is no JSON object and is replaced by an empty one.
\* (A fragment that happens to be the whole object is kept, in a part that has no
\* name: no client can tell whose arguments they are.)
FunctionCall(p) == [f |-> "call", name |-> p.name, data |-> <<>>]

\* GeminiStreamEncoder::encode_part; the encoder has no state.
GeminiEncodePart(p) ==
  CASE p.kind = "started"   -> <<[f |-> "id"]>>
    [] p.kind = "text"      -> <<[f |-> "text", data |-> p.data]>>
    [] p.kind = "reasoning" -> <<[f |-> "reasoning", data |-> p.data]>>
    [] p.kind = "tool"      -> <<FunctionCall(p)>>
    [] p.kind = "program"   -> <<>>
    [] p.kind = "usage"     -> <<[f |-> "usage", usage |-> GeminiUsage(p.usage)]>>
    [] p.kind = "finish"    -> <<[f |-> "finish", reason |-> GeminiFinishReason(p.reason)]>>
    [] p.kind = "completed" -> <<[f |-> "done"]>>
    [] p.kind = "error"     -> <<[f |-> "error"]>>

GeminiEncodeError == <<[f |-> "error"]>>
GeminiEncodeDone == <<>>
-----------------------------------------------------------------------------
(***************************************************************************)
(* GeminiStreamDecoder.                                                    *)
(***************************************************************************)

GeminiDecoder == [response_id |-> FALSE, saw_finish |-> FALSE, saw_tool_calls |-> FALSE]

GeminiChunk == [kind |-> "chunk", id |-> FALSE, error |-> FALSE, parts |-> <<>>,
                finish |-> None, usage |-> [input |-> NoCount]]

\* synth_gemini_call_id: a call without an id is known by its function's name.
SynthCallId(name) == "gemini_call_" \o name

GeminiPart(g) ==
  CASE g.type = "thought" -> ReasoningDelta(g.data, None, None)
    [] g.type = "text"    -> TextDelta(g.data)
    [] g.type = "call"    -> ToolCallDelta(IF g.id = None THEN SynthCallId(g.name) ELSE g.id,
                                           g.name, g.data, None)

GeminiReason(d, finish) ==
  CASE finish = "STOP" -> IF d.saw_tool_calls THEN "tool_calls" ELSE "stop"
    [] finish = "MAX_TOKENS" -> "length"
    [] finish = "SAFETY" -> "content_filter"
    [] OTHER -> "other"

\* Token counts end the response when no finish reason has been seen: proxies
\* drop the reason.
GeminiUsageParts(d, w) ==
  IF w.input = NoCount THEN Out(d, <<>>)
  ELSE Out([d EXCEPT !.saw_finish = TRUE],
           <<UsagePart(UsageOfGemini(w))>>
             \o (IF d.saw_finish THEN <<>> ELSE <<Finish(GeminiReason(d, "STOP"))>>))

\* feed.
GeminiFeed(d, c) ==
  LET started == IF c.id /\ ~d.response_id THEN <<ResponseStarted>> ELSE <<>>
      known == [d EXCEPT !.response_id = @ \/ c.id]
      called == [known EXCEPT !.saw_tool_calls =
                   @ \/ \E i \in DOMAIN c.parts : c.parts[i].type = "call"]
      content == [i \in DOMAIN c.parts |-> GeminiPart(c.parts[i])]
      finish == IF c.finish = None THEN <<>> ELSE <<Finish(GeminiReason(called, c.finish))>>
      usage == GeminiUsageParts([called EXCEPT !.saw_finish = @ \/ c.finish /= None], c.usage)
  IN IF c.error THEN Out(known, started \o <<ErrorPart>>)
     ELSE Out(usage.state, started \o content \o finish \o usage.out)

\* finish: the stream's end completes the response.
GeminiStreamEnd(d) ==
  Out([d EXCEPT !.response_id = FALSE], IF d.response_id THEN <<ResponseCompleted>> ELSE <<>>)
=============================================================================
