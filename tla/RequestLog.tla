----------------------------- MODULE RequestLog -----------------------------
(***************************************************************************)
(* The request_logs row of one request, as OltpSink of                     *)
(* crates/store/src/log_sink/oltp.rs writes it.  A request has one         *)
(* RequestEvent (from the handler) and one ExchangeCapture (from the       *)
(* executor or the stream guard); they reach the sink in either order, so  *)
(* every statement is an upsert that leaves alone what the other writes.   *)
(*                                                                         *)
(* Only the sink's task writes the row, so a handler of the sink is one    *)
(* operator; a statement in "failed" is one the database refused.          *)
(***************************************************************************)
EXTENDS FiniteSets

FailureReasons == {"idle", "total", "upstream_error"}
Reasons == FailureReasons \cup {"none", "client_disconnect"}

\* The statements a message leads to; the database may refuse any of them.
Statements(m) ==
  IF m.type = "event" THEN {"event", "cost"}
  ELSE {"payload", "cost"}
       \cup {x \in {"tokens"} : m.usage}
       \cup {x \in {"truncation"} : m.reason # "none"}
       \cup {x \in {"failure"} : m.reason \in FailureReasons}
       \cup {x \in {"disconnect"} : m.reason = "client_disconnect"}
       \cup {x \in {"duration"} : m.streamed}
       \cup {x \in {"upstream_error"} : m.error}

NoRow == [status |-> "none", class |-> "none", http |-> "none",
          reason |-> "none", virtual_model |-> FALSE, tokens |-> FALSE,
          cost |-> FALSE]

\* A placeholder is inserted where the event has not been written yet.
Present(row) == IF row.status = "none" THEN [row EXCEPT !.status = "pending"] ELSE row

UpdateRequestTokens(row) == [Present(row) EXCEPT !.tokens = TRUE]

UpdateRequestTruncation(row, reason) == [Present(row) EXCEPT !.reason = reason]

\* COALESCE keeps a truncation reason that is already there.
UpdateRequestFailure(row, class) ==
  [Present(row) EXCEPT !.status = "failed", !.class = class,
                       !.reason = IF @ = "none" THEN "upstream_error" ELSE @]

UpdateRequestClientDisconnect(row) ==
  [Present(row) EXCEPT !.status = "abnormal", !.class = "client_disconnect",
                       !.http = "499", !.reason = "client_disconnect"]

\* The finish reason and the duration touch no column kept here.
UpdateRequestStreamDuration(row) == Present(row)

\* The route of the model has a price list.
TryComputeCost(row) ==
  IF row.virtual_model /\ row.tokens THEN [row EXCEPT !.cost = TRUE] ELSE row

TruncationFailureInfo(reason) ==
  IF reason = "upstream_error" THEN "transient" ELSE "deadline_exceeded"

\* Mutants: the event overwrites the outcome, or the tokens.
BugKeptStatus(row) == FALSE
BugKeptTokens(row) == FALSE

\* The CASE on the truncation reason, the COALESCE on the tokens.
KeptStatus(row) == row.reason \in Reasons \ {"none"}
KeptTokens(row) == row.tokens

Done(stmt, m, failed) == stmt \in Statements(m) \ failed

WriteRequestEvent(row, m, failed) ==
  LET r1 == [row EXCEPT !.virtual_model = TRUE,
                        !.status = IF KeptStatus(row) THEN @ ELSE m.status,
                        !.class = IF KeptStatus(row) THEN @ ELSE m.class,
                        !.http = IF KeptStatus(row) THEN @ ELSE m.http,
                        !.tokens = KeptTokens(row)]
  IN  IF "event" \in failed THEN row
      ELSE IF Done("cost", m, failed) THEN TryComputeCost(r1) ELSE r1

\* write_capture, statement by statement; nothing follows a refused payload.
WriteCapture(row, m, failed) ==
  LET r1 == IF Done("tokens", m, failed) THEN UpdateRequestTokens(row) ELSE row
      r2 == IF Done("cost", m, failed) THEN TryComputeCost(r1) ELSE r1
      r3 == IF Done("truncation", m, failed)
            THEN UpdateRequestTruncation(r2, m.reason) ELSE r2
      r4 == IF Done("failure", m, failed)
            THEN UpdateRequestFailure(r3, TruncationFailureInfo(m.reason)) ELSE r3
      r5 == IF Done("disconnect", m, failed)
            THEN UpdateRequestClientDisconnect(r4) ELSE r4
      r6 == IF Done("duration", m, failed)
            THEN UpdateRequestStreamDuration(r5) ELSE r5
      r7 == IF Done("upstream_error", m, failed)
            THEN UpdateRequestFailure(r6, "upstream_class") ELSE r6
  IN  IF "payload" \in failed THEN row ELSE r7
=============================================================================
