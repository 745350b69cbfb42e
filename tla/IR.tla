--------------------------------- MODULE IR ---------------------------------
(***************************************************************************)
(* The gateway's own representation of a streamed answer                   *)
(* (crates/core/src/ir/mod.rs): a sequence of StreamParts, which a decoder *)
(* makes from the upstream's events and an encoder turns into frames of    *)
(* the client's protocol.  Text is a sequence of tokens; the empty         *)
(* sequence is the empty string.                                           *)
(***************************************************************************)
EXTENDS Integers, Sequences, SequencesExt

Protocols == {"chat", "messages", "gemini", "responses"}

\* Option::None of an identifier or a name, and of a token count.
None == "none"
NoCount == -1

OrZero(n) == IF n = NoCount THEN 0 ELSE n

\* u64::saturating_sub.
SaturatingSub(a, b) == IF a > b THEN a - b ELSE 0

\* Usage: prompt excludes the cached tokens, which are counted apart.
Usage(prompt, completion, read, write) ==
  [prompt |-> prompt, completion |-> completion, read |-> read, write |-> write]

\* The variants of StreamPart.
ResponseStarted == [kind |-> "started"]
TextDelta(data) == [kind |-> "text", data |-> data]
ReasoningDelta(data, id, encrypted) ==
  [kind |-> "reasoning", data |-> data, id |-> id, encrypted |-> encrypted]
ToolCallDelta(id, name, data, wire_type) ==
  [kind |-> "tool", id |-> id, name |-> name, data |-> data, wire_type |-> wire_type]
ProgramDelta(id) == [kind |-> "program", id |-> id]
UsagePart(u) == [kind |-> "usage", usage |-> u]
Finish(reason) == [kind |-> "finish", reason |-> reason]
ResponseCompleted == [kind |-> "completed"]
ErrorPart == [kind |-> "error"]

\* What a codec step returns: its new state and what it puts out.
Out(state, items) == [state |-> state, out |-> items]

\* A step that puts out one thing and changes nothing.
Keep(state, item) == Out(state, <<item>>)

\* One step after another, on the state the first one leaves.
Then(first, Step(_)) ==
  LET next == Step(first.state) IN Out(next.state, first.out \o next.out)

\* A step for each of the items.
ForEach(Step(_, _), state, items) ==
  FoldLeft(LAMBDA acc, x : LET next == Step(acc.state, x) IN Out(next.state, acc.out \o next.out),
           Out(state, <<>>), items)
=============================================================================
