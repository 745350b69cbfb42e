------------------------------ MODULE Documents ------------------------------
(***************************************************************************)
(* Whole requests and answers in the gateway's own representation          *)
(* (crates/core/src/ir/mod.rs), and the check that refuses a request its   *)
(* upstream's protocol cannot carry (crates/core/src/protocol/lossy.rs,    *)
(* structured_output.rs).                                                  *)
(*                                                                         *)
(* A text is a sequence of tokens.  Values that are only copied            *)
(* (temperatures, lists of stop words) are reduced to their presence.      *)
(***************************************************************************)
EXTENDS ChatStream, FiniteSets

\* The variants of Content.  Media: "url", "inline" or "file".
Text(data, breakpoint) == [kind |-> "text", data |-> data, breakpoint |-> breakpoint]
Reasoning(data, signature, id, encrypted) ==
  [kind |-> "reasoning", data |-> data, signature |-> signature, id |-> id, encrypted |-> encrypted]
ToolCall(id, name, data, call_id, wire_type) ==
  [kind |-> "call", id |-> id, name |-> name, data |-> data, call_id |-> call_id,
   wire_type |-> wire_type]
ToolResult(id, name, data, wire_type) ==
  [kind |-> "result", id |-> id, name |-> name, data |-> data, wire_type |-> wire_type]
Media(source, breakpoint) == [kind |-> "media", source |-> source, breakpoint |-> breakpoint]
Refusal(data) == [kind |-> "refusal", data |-> data]
Program == [kind |-> "program"]

Message(role, content) == [role |-> role, content |-> content]

\* The id a call has on the wire: call_id.unwrap_or(id).
WireId(c) == IF c.call_id = None THEN c.id ELSE c.call_id

\* OpenAI's custom tool calls, under either protocol's name.
IsCustomCall(wire_type) == wire_type \in {"custom", "custom_tool_call"}

\* A document: of the wire (with a protocol's field names and items) or of the
\* gateway.  fields: names of the parameters present.
EmptyBody ==
  [system |-> <<>>, messages |-> <<>>, tools |-> {}, fields |-> {},
   thinking |-> [effort |-> None, budget |-> NoCount, shown |-> None, mode |-> None],
   format |-> None, metadata |-> {}, tool_choice |-> None]

\* IrRequest: its fields are those of GenerationParams; the extensions are the
\* bags of fields only the same protocol family understands.
NewRequest(ingress) ==
  [EmptyBody EXCEPT !.system = <<>>]
    @@ [ingress |-> ingress, openai |-> {}, gemini |-> {}, responses |-> {}, opaque |-> <<>>,
        max_tokens_field |-> None]

MapSeq(Op(_), s) == [i \in DOMAIN s |-> Op(s[i])]
FlatMap(Op(_), s) == FlattenSeq(MapSeq(Op, s))

OfKind(content, kinds) == SelectSeq(content, LAMBDA c : c.kind \in kinds)
Data(content) == FlatMap(LAMBDA c : c.data, content)

Contents(messages) == FlatMap(LAMBDA m : m.content, messages)
HasBreakpoint(content) ==
  \E i \in DOMAIN content : content[i].kind \in {"text", "media"} /\ content[i].breakpoint
-----------------------------------------------------------------------------
(***************************************************************************)
(* ThinkingConfig.                                                         *)
(***************************************************************************)

Efforts == <<"none_", "minimal", "low", "medium", "high", "xhigh", "max">>

effort_to_budget ==
  [none_ |-> 0, minimal |-> 1024, low |-> 4096, medium |-> 10000, high |-> 32000,
   xhigh |-> 48000, max |-> 64000]

budget_to_effort(budget) ==
  CASE budget = 0     -> "none_"
    [] budget \in 1..2047      -> "minimal"
    [] budget \in 2048..6143   -> "low"
    [] budget \in 6144..16383  -> "medium"
    [] budget \in 16384..39999 -> "high"
    [] budget \in 40000..55999 -> "xhigh"
    [] OTHER -> "max"

\* thinking.effort.or_else(budget_to_effort).
EffortOf(thinking) ==
  IF thinking.effort /= None THEN thinking.effort
  ELSE IF thinking.budget /= NoCount THEN budget_to_effort(thinking.budget) ELSE None

\* How much an effort is.
Rank(effort) == CHOOSE i \in DOMAIN Efforts : Efforts[i] = effort
-----------------------------------------------------------------------------
(***************************************************************************)
(* What the protocols can carry (EndpointCapabilities of the codecs).      *)
(***************************************************************************)

Capabilities ==
  [chat      |-> {"multimodal", "structured_output", "function_calling", "parallel_tool_calls",
                  "seed", "tool_choice_required"},
   messages  |-> {"multimodal", "structured_output", "function_calling", "extended_reasoning",
                  "tool_choice_required"},
   gemini    |-> {"multimodal", "structured_output", "function_calling", "extended_reasoning",
                  "tool_choice_required"},
   responses |-> {"multimodal", "structured_output", "function_calling", "parallel_tool_calls",
                  "extended_reasoning", "tool_choice_required", "hosted_tools",
                  "programmatic_tool_calling"}]

OpenAI == {"chat", "responses"}

\* walk_schema: a bounded schema has keywords Messages does not know.
ValidFormat(format, to) == ~(to = "messages" /\ format = "bounded_schema")

\* media_source_dimension.
MediaFits(source, to) ==
  /\ "multimodal" \in Capabilities[to]
  /\ source = "url" => to /= "messages"
  /\ source = "file" => to = "responses"

HasKind(r, kind) ==
  LET content == Contents(r.messages) IN \E i \in DOMAIN content : content[i].kind = kind

HasTool(r, type) == \E t \in r.tools : t.type = type

\* Tools, and a choice among them.
ToolsFit(r, can) ==
  /\ r.tools /= {} => "function_calling" \in can
  /\ (\E t \in r.tools : t.required) => "parallel_tool_calls" \in can
  /\ r.tool_choice \in {"required", "function", "function_flat"} => "tool_choice_required" \in can

\* Media and the format of the answer.
FormatsFit(r, to, can) ==
  LET content == Contents(r.messages)
  IN /\ \A i \in DOMAIN content : content[i].kind = "media" => MediaFits(content[i].source, to)
     /\ r.format /= None => "structured_output" \in can
     /\ ValidFormat(r.format, to)

\* Mutant: custom tools are let through.
SpecialToolsFitWithCustom(r, to, can) ==
  /\ HasTool(r, "hosted") => "hosted_tools" \in can
  /\ HasKind(r, "program") => "programmatic_tool_calling" \in can

\* Tools that are more than functions.
SpecialToolsFit(r, to, can) ==
  /\ HasTool(r, "hosted") => "hosted_tools" \in can
  /\ HasTool(r, "custom") => to \in OpenAI
  /\ (HasKind(r, "program") \/ \E t \in r.tools : t.type = "function" /\ t.callers)
       => "programmatic_tool_calling" \in can

\* What only one family of protocols knows.
FeaturesFit(r, to, can) ==
  /\ "verbosity" \in r.fields => to \in OpenAI
  /\ HasBreakpoint(Contents(r.messages)) => to \in OpenAI
  /\ HasKind(r, "reasoning") => "extended_reasoning" \in can
  /\ r.thinking.mode /= None => to = "responses"
  /\ ("multi_agent" \in r.responses \/ \E i \in DOMAIN r.opaque : r.opaque[i].agent)
       => to = "responses"

\* check_lossy_conversion: may the request go to an upstream of this protocol?
Lossless(r, to) ==
  LET can == Capabilities[to]
  IN /\ ToolsFit(r, can)
     /\ FormatsFit(r, to, can)
     /\ SpecialToolsFit(r, to, can)
     /\ FeaturesFit(r, to, can)
=============================================================================
