---------------------------- MODULE StreamRelay ----------------------------
(***************************************************************************)
(* A streamed answer from the upstream's bytes to the request log.         *)
(*   - drive_upstream_stream of crates/server/src/ingress/streaming.rs     *)
(*     forwards the bytes, verbatim or through the codecs, and closes the  *)
(*     stream at the upstream's end, its error or a timeout;               *)
(*   - StreamCaptureGuard tells the health registry and the telemetry bus  *)
(*     how the stream ended, also when the client leaves;                  *)
(*   - the bus (crates/server/src/telemetry.rs) is a bounded channel with  *)
(*     one task that feeds the log sink (module RequestLog).               *)
(*                                                                         *)
(* An upstream line is its kind.  "finish" is a finish reason without a    *)
(* terminal event (Gemini), "failed" an error that is terminal as well,    *)
(* "bad" a line the decoder refuses.  The network may cut a line: "line"   *)
(* is a complete text whose newline is missing, "head" a part of it.       *)
(* A step of a stream is one poll of its body; the client may leave        *)
(* between two polls.                                                      *)
(***************************************************************************)
EXTENDS HealthRegistry, RequestLog

CONSTANTS
  Streams,     \* requests with "stream": true, routed to one target
  Modes,       \* subset of {"verbatim", "transcode"}
  Kinds,       \* kinds of upstream lines
  EndMarkers,  \* is encode_done() non-empty? (empty for Gemini clients)
  MaxChunks,   \* bound: chunks per stream
  Capacity,    \* capacity of the telemetry channel (4096)
  MaxFaults    \* bound: statements the database refuses

ASSUME StreamAssumption ==
  /\ Modes \subseteq {"verbatim", "transcode"}
  /\ Kinds \subseteq {"delta", "error", "terminal", "failed", "finish", "bad"}
  /\ EndMarkers \subseteq BOOLEAN
  /\ {MaxChunks, Capacity, MaxFaults} \subseteq Nat

VARIABLES
  str,      \* the relay, its accumulator and its guard, per stream
  health,   \* the registry's entry of the target
  spawned,  \* messages in tasks that have not reached the bus
  queue,    \* the telemetry channel
  rows,     \* request_logs
  stored,   \* request_payloads: streams with a row
  lost,     \* streams with a message dropped or a statement refused
  faults    \* statements refused so far

vars == <<str, health, spawned, queue, rows, stored, lost, faults>>

NoLine == [kind |-> "none", cut |-> "none"]

Errors == {"error", "failed"}

\* sent, cut and ended record what happened, for the properties; client is
\* what the client has received.
Idle == [pc |-> "idle", mode |-> "none", end_marker |-> FALSE,
         error |-> FALSE, terminal |-> FALSE,      \* UsageAccumulator
         saw_terminal |-> FALSE, held |-> NoLine,  \* locals of the relay
         reason |-> "none", completed |-> FALSE,   \* StreamCaptureState
         todo |-> <<>>, client |-> <<>>, chunks |-> 0,
         sent |-> {}, cut |-> FALSE, fails |-> 0]

\* The recovery windows are longer than a run of the model: no time passes.
Now == 0

\* Other requests have used the target: its circuit may be open.
Init ==
  /\ str = [t \in Streams |-> Idle]
  /\ health \in {Fresh, [Fresh EXCEPT !.consecutive_failures = FailureThreshold,
                                      !.last_failure_at = Now]}
  /\ spawned = {}
  /\ queue = <<>>
  /\ rows = [t \in Streams |-> NoRow]
  /\ stored = {}
  /\ lost = {}
  /\ faults = 0
-----------------------------------------------------------------------------
(***************************************************************************)
(* The request around the stream (handlers, fallback loop, RequestScope).  *)
(***************************************************************************)

Event(t, status, class, http) ==
  [type |-> "event", stream |-> t, status |-> status, class |-> class, http |-> http]

Capture(t, reason, error, usage, streamed) ==
  [type |-> "capture", stream |-> t, reason |-> reason, error |-> error,
   usage |-> usage, streamed |-> streamed]

\* is_healthy lets the request through, or the chain is exhausted.
Route(t) ==
  /\ str[t].pc = "idle"
  /\ \/ /\ IsHealthy(health, Now)
        /\ \E m \in Modes, e \in EndMarkers :
             str' = [str EXCEPT ![t].pc = "calling", ![t].mode = m, ![t].end_marker = e]
        /\ UNCHANGED spawned
     \/ /\ ~IsHealthy(health, Now)
        /\ str' = [str EXCEPT ![t].pc = "refused"]
        /\ spawned' = spawned \cup {Event(t, "failed", "upstream_exhausted", "error")}
  /\ UNCHANGED <<health, queue, rows, stored, lost, faults>>

\* HTTP 200: record_success, then emit_ok before the body is read.
Opened(t) ==
  /\ str[t].pc = "calling"
  /\ str' = [str EXCEPT ![t].pc = "relay"]
  /\ health' = RecordSuccess(health)
  /\ spawned' = spawned \cup {Event(t, "success", "none", "200")}
  /\ UNCHANGED <<queue, rows, stored, lost, faults>>

\* The call fails; an upstream that answered has its answer captured.
CallFails(t) ==
  /\ str[t].pc = "calling"
  /\ str' = [str EXCEPT ![t].pc = "refused"]
  /\ health' = RecordFailure(health, Now)
  /\ \E answered \in BOOLEAN :
       spawned' = spawned \cup {Event(t, "failed", "upstream_exhausted", "error")}
                          \cup {c \in {Capture(t, "none", FALSE, FALSE, FALSE)} : answered}
  /\ UNCHANGED <<queue, rows, stored, lost, faults>>

\* The client leaves during the call: RequestScope::drop.
CallCancelled(t) ==
  /\ str[t].pc = "calling"
  /\ str' = [str EXCEPT ![t].pc = "refused"]
  /\ spawned' = spawned \cup {Event(t, "abnormal", "client_disconnect", "499")}
  /\ UNCHANGED <<health, queue, rows, stored, lost, faults>>
-----------------------------------------------------------------------------
(***************************************************************************)
(* The upstream's bytes.                                                   *)
(***************************************************************************)

Line(k) == [kind |-> k, ended |-> TRUE]
Unended(k) == [kind |-> k, ended |-> FALSE]
GatewayError == Line("gateway_error")
GatewayEnd == Line("gateway_end")
Blank == Line("blank")

\* detect_verbatim_signals: only a line that is whole in its chunk is seen.
DetectVerbatimSignals(s, k) ==
  [s EXCEPT !.error = @ \/ k \in Errors, !.terminal = @ \/ k \in {"terminal", "failed"}]

\* What the ingress encoder makes of a line; a bad one becomes an error frame.
Encoded(k) == IF k = "bad" THEN GatewayError ELSE Line(k)

\* The decoder's parts: the accumulator hears of errors only.
Decode(s, k) ==
  [s EXCEPT !.error = @ \/ k \in Errors,
            !.saw_terminal = @ \/ k \in {"terminal", "finish"}]

\* A chunk with one whole line.
ChunkWhole(s, k) ==
  IF s.mode = "verbatim"
  THEN [DetectVerbatimSignals(s, k) EXCEPT !.client = Append(@, Line(k))]
  ELSE [Decode(s, k) EXCEPT !.client = Append(@, Encoded(k))]

\* A chunk that ends inside a line: frame_buf, or the rewriter, keeps it.
ChunkCut(s, k, cut) ==
  LET seen == IF s.mode = "verbatim" /\ cut = "line" THEN DetectVerbatimSignals(s, k) ELSE s
  IN  [seen EXCEPT !.held = [kind |-> k, cut |-> cut], !.cut = TRUE]

\* The rest of that line arrives.
ChunkRest(s) ==
  LET k == s.held.kind
      t == IF s.mode = "verbatim"
           THEN [s EXCEPT !.client = Append(@, Line(k))]
           ELSE [Decode(s, k) EXCEPT !.client = Append(@, Encoded(k))]
  IN  [t EXCEPT !.held = NoLine]

Chunk(t) ==
  LET s == str[t] IN
  /\ s.pc = "relay" /\ s.chunks < MaxChunks
  /\ \E next \in
       IF s.held = NoLine
       THEN {[ChunkWhole(s, k) EXCEPT !.sent = @ \cup {k}] : k \in Kinds}
              \cup {[ChunkCut(s, k, "line") EXCEPT !.sent = @ \cup {k}] : k \in Kinds}
              \cup {ChunkCut(s, k, "head") : k \in Kinds}
       ELSE {[ChunkRest(s) EXCEPT !.sent = @ \cup {s.held.kind}]} :
       str' = [str EXCEPT ![t] = [next EXCEPT !.chunks = @ + 1]]
  /\ UNCHANGED <<health, spawned, queue, rows, stored, lost, faults>>
-----------------------------------------------------------------------------
(***************************************************************************)
(* StreamCaptureGuard.                                                     *)
(***************************************************************************)

\* record_health_failure_if_needed.
ShouldFail(s) == s.reason \in FailureReasons \/ s.error

\* Mutant: a client that leaves after an error frame counts as gone.
BugDropFallbackReason(s) ==
  IF s.completed \/ s.reason # "none" \/ s.terminal THEN "none" ELSE "client_disconnect"

DropFallbackReason(s) ==
  IF s.completed \/ s.reason # "none" \/ s.terminal \/ s.error
  THEN "none" ELSE "client_disconnect"

\* Usage is found in the body of some streams.
Usages(s) == IF s.sent = {} THEN {FALSE} ELSE BOOLEAN

\* The guard hands its capture over, after n calls of record_failure.
Captured(t, s, n) ==
  /\ str' = [str EXCEPT ![t] = [s EXCEPT !.pc = "done", !.todo = <<>>,
                                         !.fails = IF ShouldFail(s) THEN n ELSE 0]]
  /\ health' = IF ~ShouldFail(s) THEN health
               ELSE IF n = 1 THEN RecordFailure(health, Now)
               ELSE RecordFailure(RecordFailure(health, Now), Now)
  /\ \E u \in Usages(s) :
       spawned' = spawned \cup {Capture(t, s.reason, s.error, u, TRUE)}

\* finalize_spawn in the branch, and again behind the loop: the capture is
\* taken once, the health failure is recorded by both.
FinalizeSpawn(t, s) == Captured(t, s, 2)

\* The client closes the connection and the body is dropped: Drop of the guard.
Leave(t) ==
  LET s == str[t] IN
  /\ s.pc \in {"relay", "closing"}
  /\ Captured(t, [s EXCEPT !.reason = IF @ = "none" THEN DropFallbackReason(s) ELSE @], 1)
  /\ UNCHANGED <<queue, rows, stored, lost, faults>>
-----------------------------------------------------------------------------
(***************************************************************************)
(* The ends of a stream.  A branch yields its frames one by one.           *)
(***************************************************************************)

Yield(s) == [s EXCEPT !.client = @ \o Head(s.todo), !.todo = Tail(s.todo), !.pc = "closing"]

\* Mutant: the error frame follows whatever was sent.
BugTailEndsOnFrameBoundary(s) == TRUE

TailEndsOnFrameBoundary(s) == s.held = NoLine

\* The rewriter's rest, a blank line if a line is open, the error frame.
ErrorFrames(s) ==
  IF s.mode = "transcode" THEN <<<<GatewayError>>>>
  ELSE (IF s.held # NoLine THEN <<<<Unended(s.held.kind)>>>> ELSE <<>>)
       \o (IF TailEndsOnFrameBoundary(s) THEN <<>> ELSE <<<<Blank>>>>)
       \o <<<<GatewayError>>>>

\* The upstream's error, the idle timer or the total budget ends the stream.
Truncate(t) ==
  LET s == str[t] IN
  /\ s.pc = "relay"
  /\ \E r \in FailureReasons :
       str' = [str EXCEPT ![t] = Yield([s EXCEPT !.reason = r, !.todo = ErrorFrames(s)])]
  /\ UNCHANGED <<health, spawned, queue, rows, stored, lost, faults>>

\* An error frame came and no terminal signal.
NeedsEnd(s, saw_terminal) == s.error /\ ~saw_terminal

\* Transcoding: the held line is decoded (its errors are not recorded), then
\* decoder.finish() bridges a bare finish, or encode_done() closes the stream.
TranscodedEnd(s) ==
  LET flushed == s.held.cut = "line"
      saw == s.saw_terminal \/ (flushed /\ s.held.kind \in {"terminal", "finish"})
      completed == "terminal" \in s.sent   \* the encoder has had its ResponseCompleted
      out == (IF flushed /\ s.held.kind # "bad" THEN <<Encoded(s.held.kind)>> ELSE <<>>)
             \o (IF saw /\ ~completed THEN <<GatewayEnd>> ELSE <<>>)
             \o (IF NeedsEnd(s, saw) /\ s.end_marker THEN <<GatewayEnd>> ELSE <<>>)
  IN  IF out = <<>> THEN <<>> ELSE <<out>>

\* Verbatim: the end frame, then the rewriter's rest.
VerbatimEnd(s) ==
  (IF NeedsEnd(s, s.terminal) /\ s.end_marker THEN <<<<GatewayEnd>>>> ELSE <<>>)
  \o (IF s.held # NoLine THEN <<<<Unended(s.held.kind)>>>> ELSE <<>>)

\* The upstream closes its stream.
EndOfStream(t) ==
  LET s == [str[t] EXCEPT !.reason = "none", !.completed = TRUE]
      frames == IF s.mode = "transcode" THEN TranscodedEnd(s) ELSE VerbatimEnd(s)
  IN
  /\ s.pc = "relay"
  /\ \/ /\ frames # <<>>
        /\ str' = [str EXCEPT ![t] = Yield([s EXCEPT !.todo = frames])]
        /\ UNCHANGED <<health, spawned>>
     \/ frames = <<>> /\ FinalizeSpawn(t, s)
  /\ UNCHANGED <<queue, rows, stored, lost, faults>>

\* The client has read the last frame and asks for more.
Resume(t) ==
  LET s == str[t] IN
  /\ s.pc = "closing"
  /\ \/ /\ s.todo # <<>>
        /\ str' = [str EXCEPT ![t] = Yield(s)]
        /\ UNCHANGED <<health, spawned>>
     \/ s.todo = <<>> /\ FinalizeSpawn(t, s)
  /\ UNCHANGED <<queue, rows, stored, lost, faults>>
-----------------------------------------------------------------------------
(***************************************************************************)
(* The telemetry bus and the sink.                                         *)
(***************************************************************************)

\* A spawned task runs: try_send drops the message when the channel is full.
Send(m) ==
  /\ m \in spawned
  /\ spawned' = spawned \ {m}
  /\ \/ /\ Len(queue) < Capacity
        /\ queue' = Append(queue, m)
        /\ UNCHANGED lost
     \/ /\ Len(queue) >= Capacity
        /\ lost' = lost \cup {m.stream}
        /\ UNCHANGED queue
  /\ UNCHANGED <<str, health, rows, stored, faults>>

\* The drain task handles the next message; the database refuses some of its
\* statements.
Sink ==
  LET m == Head(queue) IN
  /\ queue # <<>>
  /\ queue' = Tail(queue)
  /\ \E failed \in SUBSET Statements(m) :
       /\ Cardinality(failed) <= MaxFaults - faults
       /\ faults' = faults + Cardinality(failed)
       /\ lost' = IF failed = {} THEN lost ELSE lost \cup {m.stream}
       /\ \/ /\ m.type = "event"
             /\ rows' = [rows EXCEPT ![m.stream] = WriteRequestEvent(@, m, failed)]
             /\ UNCHANGED stored
          \/ /\ m.type = "capture"
             /\ rows' = [rows EXCEPT ![m.stream] = WriteCapture(@, m, failed)]
             /\ stored' = IF "payload" \in failed THEN stored ELSE stored \cup {m.stream}
  /\ UNCHANGED <<str, health, spawned>>

Request(t) == Route(t) \/ Opened(t) \/ CallFails(t) \/ CallCancelled(t)

Relay(t) == Chunk(t) \/ Truncate(t) \/ EndOfStream(t) \/ Resume(t) \/ Leave(t)

Next ==
  \/ \E t \in Streams : Request(t) \/ Relay(t)
  \/ \E m \in spawned : Send(m)
  \/ Sink

Spec == Init /\ [][Next]_vars

\* Spawned tasks run and the drain task never stops; a stream is polled until
\* it ends or its client leaves, and the idle timer ends a silent one.
FairSpec ==
  /\ Spec
  /\ WF_vars(\E m \in spawned : Send(m))
  /\ WF_vars(Sink)
  /\ \A t \in Streams : WF_vars(Truncate(t) \/ EndOfStream(t) \/ Resume(t) \/ Leave(t))
-----------------------------------------------------------------------------
(* Properties.                                                             *)

Lines == [kind : Kinds \cup {"gateway_error", "gateway_end", "blank"}, ended : BOOLEAN]

Messages ==
  [type : {"event"}, stream : Streams, status : {"success", "failed", "abnormal"},
   class : {"none", "upstream_exhausted", "client_disconnect"}, http : {"200", "499", "error"}]
  \cup
  [type : {"capture"}, stream : Streams, reason : Reasons, error : BOOLEAN,
   usage : BOOLEAN, streamed : BOOLEAN]

\* Type correctness of the relay, the bus and the tables.
TypeOK ==
  /\ \A t \in Streams :
       LET s == str[t] IN
       /\ s.pc \in {"idle", "calling", "refused", "relay", "closing", "done"}
       /\ s.mode \in Modes \cup {"none"}
       /\ {s.end_marker, s.error, s.terminal, s.saw_terminal, s.completed, s.cut} \subseteq BOOLEAN
       /\ s.held = NoLine \/ s.held \in [kind : Kinds, cut : {"line", "head"}]
       /\ s.reason \in Reasons
       /\ \A i \in 1..Len(s.client) : s.client[i] \in Lines
       /\ \A i \in 1..Len(s.todo) : \A j \in 1..Len(s.todo[i]) : s.todo[i][j] \in Lines
       /\ s.chunks \in 0..MaxChunks /\ s.sent \subseteq Kinds /\ s.fails \in 0..2
  /\ health \in TargetHealth
  /\ spawned \subseteq Messages
  /\ Len(queue) <= Capacity /\ \A i \in 1..Len(queue) : queue[i] \in Messages
  /\ \A t \in Streams :
       /\ rows[t].status \in {"none", "pending", "success", "failed", "abnormal"}
       /\ rows[t].reason \in Reasons
       /\ rows[t].http \in {"none", "200", "499", "error"}
       /\ {rows[t].virtual_model, rows[t].tokens, rows[t].cost} \subseteq BOOLEAN
  /\ stored \subseteq Streams /\ lost \subseteq Streams /\ faults \in 0..MaxFaults

\* Everything that will ever be said of the stream has been written.
Settled(t) ==
  /\ str[t].pc \in {"refused", "done"}
  /\ \A m \in spawned : m.stream # t
  /\ \A i \in 1..Len(queue) : queue[i].stream # t

\* How a stream whose lines came whole really ended.
Outcome(t) ==
  LET s == str[t] IN
  IF s.reason \in FailureReasons \/ s.sent \cap Errors # {} THEN "failed"
  ELSE IF s.completed \/ "terminal" \in s.sent THEN "success"
  ELSE "abnormal"

\* The log row agrees with the stream, in whichever order the event and the
\* capture arrive: success is not reported for a stream that failed after its
\* HTTP 200, nor the reverse (oltp.rs: write_request_event, write_capture).
\* What was lost on the way may leave a row out of date, but never a failure or
\* a disconnect that did not happen.
RowTellsTheEnd ==
  \A t \in Streams :
    LET s == str[t] IN
    /\ (s.pc = "done" /\ Settled(t) /\ t \notin lost /\ ~s.cut
          /\ ~(s.mode = "transcode" /\ "terminal" \in s.sent)) =>
         rows[t].status = Outcome(t)
    /\ (s.pc \in {"relay", "closing", "done"} /\ rows[t].status = "failed") => s.fails > 0
    /\ (s.pc \in {"relay", "closing", "done"} /\ rows[t].status = "abnormal") =>
          s.reason = "client_disconnect" /\ rows[t].http = "499"

\* The registry and the log tell the same story: a stream is logged as failed
\* exactly if it counted against its target, and a client that leaves never
\* counts (record_health_failure_if_needed, update_request_client_disconnect).
RowAndHealthAgree ==
  \A t \in Streams :
    (str[t].pc = "done" /\ Settled(t) /\ t \notin lost) =>
      /\ rows[t].status = "failed" <=> str[t].fails > 0
      /\ str[t].reason = "client_disconnect" => str[t].fails = 0

\* The gateway appends an end frame of its own only if the upstream sent an
\* error or a finish reason, and, unless a line was cut, never a second one
\* after the upstream's (the EOF branch of drive_upstream_stream).
EndFrameIsNeeded ==
  \A t \in Streams :
    LET s == str[t] IN
    GatewayEnd \in {s.client[i] : i \in 1..Len(s.client)} =>
      /\ s.sent \cap (Errors \cup {"terminal", "finish"}) # {}
      /\ ~s.cut => "terminal" \notin s.sent
      /\ Cardinality({i \in 1..Len(s.client) : s.client[i] = GatewayEnd}) = 1

\* An error frame of the gateway never follows a half-written line: the client
\* can parse it (tail_ends_on_frame_boundary).
ErrorFrameStandsAlone ==
  \A t \in Streams : \A i \in 2..Len(str[t].client) :
    str[t].client[i] = GatewayError => str[t].client[i - 1].ended

\* Usage found in the capture is priced once the event is written as well,
\* whichever of the two comes second (try_compute_cost).
UsageIsPriced ==
  \A t \in Streams :
    (Settled(t) /\ t \notin lost /\ rows[t].tokens) => rows[t].cost

\* No order of the event and the capture takes the usage back that the sink has
\* recorded, nor a cost (the COALESCEs of write_request_event).
UsageIsKept ==
  [][\A t \in Streams : /\ rows[t].tokens => rows'[t].tokens
                        /\ rows[t].cost => rows'[t].cost]_vars

\* Every stream that was opened has its capture stored, however it ends, unless
\* the bus or the database lost it (StreamCaptureGuard and its Drop).
EveryStreamIsCaptured ==
  \A t \in Streams : str[t].pc = "relay" ~> (t \in stored \/ t \in lost)

\* The frames of the gateway's own reach the client whole, and only where the
\* upstream's are missing.
FramesAreWhole == TypeOK /\ EndFrameIsNeeded /\ ErrorFrameStandsAlone

\* What the sink has written to a row is so: how the stream ended, and that its
\* usage has a price.
RowIsTrue == RowTellsTheEnd /\ UsageIsPriced

\* What the capture of a stream found out is stored and kept.
UsageIsCaptured == UsageIsKept /\ EveryStreamIsCaptured
=============================================================================
