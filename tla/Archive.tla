------------------------------ MODULE Archive ------------------------------
(***************************************************************************)
(* The life of one request's payload: the log sink writes it to the        *)
(* database (OltpSink of crates/store/src/log_sink/oltp.rs), the archive   *)
(* workers of the gateway instances move it to object storage              *)
(* (crates/store/src/archive/worker.rs) and retention deletes the rows     *)
(* (crates/store/src/retention.rs).                                        *)
(*                                                                         *)
(* A body is the number of the capture it came from.  A request has        *)
(* several captures when several targets were tried; the one of a refused  *)
(* or broken exchange has no answer for the client, and its columns are    *)
(* NULL.  Every SQL statement is one step; the actors interleave between   *)
(* statements.                                                             *)
(***************************************************************************)
EXTENDS Integers

CONSTANTS
  Workers,         \* one archive worker per gateway instance
  MaxCaptures,     \* bound: exchange captures of the request
  NumObjects,      \* objects per payload (8 in the code)
  MaxRetries,      \* payload_archive.max_retries
  StaleAfter,      \* ticks after which a lock may be taken over
  MaxSelectTicks,  \* bound: ticks between the SELECT and its UPDATE
  MaxFaults        \* bound: passes that end without settling their payload

ASSUME ArchiveAssumption ==
  /\ {MaxCaptures, NumObjects, MaxRetries} \subseteq Nat \ {0}
  /\ {StaleAfter, MaxSelectTicks, MaxFaults} \subseteq Nat

VARIABLES
  log,     \* request_logs: no row, a row without envelope, a row with it
  pay,     \* request_payloads
  s3,      \* object number -> capture it holds
  wk,      \* locals of every worker
  sink,    \* progress of the log sink
  faults,  \* passes that broke off so far
  ghost    \* for the properties: what has gone wrong on the way

vars == <<log, pay, s3, wk, sink, faults, ghost>>

Null == 0
NoLock == -1

Statuses == {"archive_ready", "uploading", "uploaded", "failed"}

\* States in which a capture leaves the bodies, and the bookkeeping, alone.
KeepsBody == {"uploading", "uploaded", "failed", "disabled", "expired"}
Terminal == KeepsBody \ {"uploading"}

NoRow == [status |-> "none", body |-> Null, whole |-> FALSE, attempts |-> 0,
          locked |-> NoLock, manifest |-> Null]

\* whole: none of the columns for headers and bodies is NULL.
Ready(v, whole) == [NoRow EXCEPT !.status = "archive_ready", !.body = v, !.whole = whole]

Idle == [pc |-> "idle", snap |-> Null, since |-> 0, put |-> 0, attempts |-> 0]

\* Ages above this one are indistinguishable.
MaxAge == StaleAfter + MaxSelectTicks + 1

Init ==
  /\ log = "none"
  /\ pay = NoRow
  /\ s3 = [o \in 1..NumObjects |-> Null]
  /\ wk = [w \in Workers |-> Idle]
  /\ sink = [pc |-> "idle", captures |-> 0, event |-> FALSE]
  /\ faults = 0
  /\ ghost = [overlap |-> FALSE, outdated |-> FALSE]

HasRow == pay.status # "none"
-----------------------------------------------------------------------------
(***************************************************************************)
(* The log sink: one task that handles the events of the request in turn.  *)
(***************************************************************************)

\* The envelope of an archived request is not written back.
WriteRequestEvent ==
  /\ sink.pc = "idle" /\ ~sink.event
  /\ sink' = [sink EXCEPT !.event = TRUE]
  /\ log' = IF pay.status # "uploaded" THEN "full"
            ELSE IF log = "none" THEN "null" ELSE log
  /\ UNCHANGED <<pay, s3, wk, faults, ghost>>

\* ON CONFLICT DO UPDATE with its CASEs.
Upserted(v, whole) ==
  IF pay.status \in Terminal THEN pay
  ELSE IF pay.status \in KeepsBody
       THEN [pay EXCEPT !.attempts = 0, !.locked = NoLock, !.manifest = Null]
       ELSE Ready(v, whole)

\* (ghost: the bodies change after a worker has read them.)
WriteCapture ==
  /\ sink.pc = "idle" /\ sink.captures < MaxCaptures
  /\ sink' = [sink EXCEPT !.pc = "write_back", !.captures = @ + 1]
  /\ \E whole \in BOOLEAN : pay' = Upserted(sink.captures + 1, whole)
  /\ ghost' = [ghost EXCEPT !.outdated = @ \/ /\ pay'.body # pay.body
                                              /\ \E w \in Workers : wk[w].pc # "idle"]
  /\ UNCHANGED <<log, s3, wk, faults>>

\* Tokens, truncation, finish reason: each may insert a placeholder row.
WriteBack ==
  /\ sink.pc = "write_back"
  /\ sink' = [sink EXCEPT !.pc = "mark"]
  /\ log' \in {log, IF log = "none" THEN "null" ELSE log}
  /\ UNCHANGED <<pay, s3, wk, faults, ghost>>

MarkPayloadArchiveReady ==
  /\ sink.pc = "mark"
  /\ sink' = [sink EXCEPT !.pc = "idle"]
  /\ pay' = IF HasRow /\ pay.status \notin KeepsBody
            THEN [pay EXCEPT !.status = "archive_ready", !.locked = NoLock]
            ELSE pay
  /\ UNCHANGED <<log, s3, wk, faults, ghost>>

Sink == WriteRequestEvent \/ WriteCapture \/ WriteBack \/ MarkPayloadArchiveReady

\* Retention is counted in days: nothing is left to be written by then.
SinkDone == sink.pc = "idle" /\ sink.event /\ sink.captures = MaxCaptures

CleanupOnce ==
  /\ SinkDone /\ HasRow
  /\ pay' = NoRow
  /\ log' \in {log, "none"}
  /\ UNCHANGED <<s3, wk, sink, faults, ghost>>
-----------------------------------------------------------------------------
(***************************************************************************)
(* archive_once.                                                           *)
(***************************************************************************)

\* Mutant of Claimable: no takeover of a stale lock.
BugClaimable(since) ==
  pay.attempts < MaxRetries /\ pay.status = "archive_ready"

\* The condition of the SELECT and of the UPDATE, with the cutoff that the
\* worker computed `since` ticks ago.
Claimable(since) ==
  /\ pay.attempts < MaxRetries
  /\ \/ pay.status = "archive_ready"
     \/ /\ pay.status = "uploading"
        /\ pay.locked = NoLock \/ pay.locked > StaleAfter + since

\* Only rows without a NULL are taken.
Select(w) ==
  /\ wk[w].pc = "idle"
  /\ Claimable(0) /\ log = "full" /\ pay.body # Null /\ pay.whole
  /\ wk' = [wk EXCEPT ![w] = [Idle EXCEPT !.pc = "selected", !.snap = pay.body]]
  /\ UNCHANGED <<log, pay, s3, sink, faults, ghost>>

\* The workers that have claimed the payload and not yet let go of it.
Holders == {v \in Workers : wk[v].pc \in {"uploading", "failed", "marking"}}

\* What is uploaded is what the SELECT read.  (ghost: a lock is taken over while
\* its holder is still at work; the bodies are no longer the ones that were read.)
Claim(w) ==
  /\ wk[w].pc = "selected"
  /\ Claimable(wk[w].since)
  /\ pay' = [pay EXCEPT !.status = "uploading", !.locked = wk[w].since]
  /\ wk' = [wk EXCEPT ![w].pc = "uploading", ![w].since = 0]
  /\ ghost' = [ghost EXCEPT !.overlap = @ \/ Holders # {},
                            !.outdated = @ \/ pay.body # wk[w].snap]
  /\ UNCHANGED <<log, s3, sink, faults>>

\* rows_affected() = 0.
ClaimMisses(w) ==
  /\ wk[w].pc = "selected"
  /\ ~Claimable(wk[w].since)
  /\ wk' = [wk EXCEPT ![w] = Idle]
  /\ UNCHANGED <<log, pay, s3, sink, faults, ghost>>

PutObject(w) ==
  /\ wk[w].pc = "uploading" /\ wk[w].put < NumObjects
  /\ s3' = [s3 EXCEPT ![wk[w].put + 1] = wk[w].snap]
  /\ wk' = [wk EXCEPT ![w].put = @ + 1]
  /\ UNCHANGED <<log, pay, sink, faults, ghost>>

\* After a timeout the object may be there all the same.
PutObjectFails(w) ==
  /\ wk[w].pc = "uploading" /\ wk[w].put < NumObjects
  /\ s3' \in {s3, [s3 EXCEPT ![wk[w].put + 1] = wk[w].snap]}
  /\ wk' = [wk EXCEPT ![w].pc = "failed"]
  /\ UNCHANGED <<log, pay, sink, faults, ghost>>

\* Mutant of FinalizeSuccess: the last object is not waited for.
BugFinalizeSuccess(w) ==
  /\ wk[w].pc = "uploading" /\ wk[w].put + 1 = NumObjects
  /\ pay' = IF HasRow
            THEN [pay EXCEPT !.status = "uploaded", !.body = Null, !.whole = FALSE,
                             !.locked = NoLock, !.manifest = wk[w].snap]
            ELSE pay
  /\ log' = IF log = "full" THEN "null" ELSE log
  /\ wk' = [wk EXCEPT ![w] = Idle]
  /\ UNCHANGED <<s3, sink, faults, ghost>>

\* One transaction; nothing to update once retention deleted the rows.
FinalizeSuccess(w) ==
  /\ wk[w].pc = "uploading" /\ wk[w].put = NumObjects
  /\ pay' = IF HasRow
            THEN [pay EXCEPT !.status = "uploaded", !.body = Null, !.whole = FALSE,
                             !.locked = NoLock, !.manifest = wk[w].snap]
            ELSE pay
  /\ log' = IF log = "full" THEN "null" ELSE log
  /\ wk' = [wk EXCEPT ![w] = Idle]
  /\ UNCHANGED <<s3, sink, faults, ghost>>

ReadAttempts(w) ==
  /\ wk[w].pc = "failed"
  /\ wk' = [wk EXCEPT ![w].pc = "marking", ![w].attempts = pay.attempts + 1]
  /\ UNCHANGED <<log, pay, s3, sink, faults, ghost>>

MarkFailed(w) ==
  /\ wk[w].pc = "marking"
  /\ pay' = IF HasRow
            THEN [pay EXCEPT !.status = IF wk[w].attempts >= MaxRetries
                                        THEN "failed" ELSE "archive_ready",
                             !.attempts = wk[w].attempts, !.locked = NoLock]
            ELSE pay
  /\ wk' = [wk EXCEPT ![w] = Idle]
  /\ UNCHANGED <<log, s3, sink, faults, ghost>>

\* The pass breaks off: the process stops, the task is aborted or panics, or
\* a statement fails (a failed UPDATE drops the whole claimed batch).
Abandon(w) ==
  /\ wk[w].pc # "idle" /\ faults < MaxFaults
  /\ wk' = [wk EXCEPT ![w] = Idle]
  /\ faults' = faults + 1
  /\ UNCHANGED <<log, pay, s3, sink, ghost>>

WorkerStep(w) ==
  \/ Select(w) \/ Claim(w) \/ ClaimMisses(w)
  \/ PutObject(w) \/ PutObjectFails(w) \/ FinalizeSuccess(w)
  \/ ReadAttempts(w) \/ MarkFailed(w)

\* Time passes for the lock and for the statements under way.
Tick ==
  /\ \A w \in Workers : wk[w].pc = "selected" => wk[w].since < MaxSelectTicks
  /\ pay' = [pay EXCEPT !.locked = IF @ \in 0..(MaxAge - 1) THEN @ + 1 ELSE @]
  /\ wk' = [w \in Workers |-> [wk[w] EXCEPT
              !.since = IF wk[w].pc = "selected" THEN @ + 1 ELSE @]]
  /\ UNCHANGED <<log, s3, sink, faults, ghost>>

Next ==
  \/ Sink \/ CleanupOnce \/ Tick
  \/ \E w \in Workers : WorkerStep(w) \/ Abandon(w)

Spec == Init /\ [][Next]_vars

\* The workers scan again and again, the sink drains its queue, time passes.
FairSpec == Spec /\ WF_vars(Sink) /\ WF_vars(Tick)
                 /\ \A w \in Workers : WF_vars(WorkerStep(w))
-----------------------------------------------------------------------------
\* Types of the log row, the payload row, the objects, the workers and the sink:
\* a status is one of ArchiveStatus, a lock one of a claim.
TypeOK ==
  /\ log \in {"none", "null", "full"}
  /\ pay \in [status : Statuses \cup {"none"}, body : 0..MaxCaptures,
              whole : BOOLEAN, attempts : Nat, locked : {NoLock} \cup 0..MaxAge,
              manifest : 0..MaxCaptures]
  /\ s3 \in [1..NumObjects -> 0..MaxCaptures]
  /\ wk \in [Workers -> [pc : {"idle", "selected", "uploading", "failed", "marking"},
                         snap : 0..MaxCaptures, since : 0..MaxSelectTicks,
                         put : 0..NumObjects, attempts : Nat]]
  /\ sink \in [pc : {"idle", "write_back", "mark"}, captures : 0..MaxCaptures,
               event : BOOLEAN]
  /\ faults \in 0..MaxFaults
  /\ ghost \in [overlap : BOOLEAN, outdated : BOOLEAN]

Stored(v) == \A o \in 1..NumObjects : s3[o] = v

\* What the detail view of the admin API relies on: an uploaded payload can be
\* read from object storage and matches its manifest, any other one is still
\* in the database.
DetailReadable ==
  /\ pay.status = "uploaded" => pay.manifest # Null /\ Stored(pay.manifest)
  /\ HasRow /\ pay.status # "uploaded" => pay.body # Null

\* That holds whatever fails and breaks off, as long as no worker takes over
\* the lock of one that is still at work.
DetailReadableWithoutOverlap == ~ghost.overlap => DetailReadable

\* Even when workers overlap, the payload is somewhere: in the database or,
\* complete and as the manifest says, in object storage (provided that the
\* bodies did not change under a worker: no capture replaced them after it had
\* read them, and none was claimed that another worker had cleared meanwhile).
Recoverable ==
  HasRow /\ ~ghost.outdated =>
    pay.body # Null \/ (pay.manifest # Null /\ Stored(pay.manifest))

\* Bodies are cleared only when object storage holds exactly those bodies, with
\* the same proviso.
ClearsOnlyWhatIsStored ==
  [][HasRow' /\ pay.body # Null /\ pay'.body = Null =>
       ghost.outdated \/ \A o \in 1..NumObjects : s3'[o] = pay.body]_vars

\* A payload that waits for another try has one left: none is parked because
\* its attempts are used up.
RetryableHasAttemptsLeft ==
  pay.status \in {"archive_ready", "uploading"} => pay.attempts < MaxRetries

\* A capture of a whole exchange whose envelope is stored ends up archived,
\* given up on or deleted, whatever breaks off on the way, unless workers overlap
\* or the capture of a broken exchange replaces it: claim_batch never takes a row
\* with a NULL in it, so that such a row waits for retention.
EveryPayloadSettles ==
  (pay.status \in {"archive_ready", "uploading"} /\ pay.whole /\ log = "full")
    ~> (pay.status \in {"uploaded", "failed", "none"} \/ ~pay.whole \/ ghost.overlap)

\* A payload is never lost: it can be read while workers keep to their locks, is
\* in one of the two places if they do not, and can be tried again while it waits.
PayloadsAreSafe ==
  TypeOK /\ DetailReadableWithoutOverlap /\ Recoverable /\ RetryableHasAttemptsLeft
=============================================================================
