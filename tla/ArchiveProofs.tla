---------------------------- MODULE ArchiveProofs ----------------------------
(***************************************************************************)
(* The payload archive for every number of workers, captures, objects,     *)
(* retries and breakdowns, and for every length of the locks.              *)
(***************************************************************************)
EXTENDS Archive, TLAPS

Pay == [status : Statuses \cup {"none"}, body : 0..MaxCaptures, whole : BOOLEAN,
        attempts : Nat, locked : {NoLock} \cup 0..MaxAge, manifest : 0..MaxCaptures]

Locals == [pc : {"idle", "selected", "uploading", "failed", "marking"},
           snap : 0..MaxCaptures, since : 0..MaxSelectTicks,
           put : 0..NumObjects, attempts : Nat]

Busy(w) == wk[w].pc # "idle"

\* A worker at work has bodies in hand, and begins with the first object.
SnapsAreReal ==
    \A w \in Workers : /\ Busy(w) => wk[w].snap # Null
                       /\ wk[w].pc = "selected" => wk[w].put = 0

AbsentIsEmpty == ~HasRow => pay.body = Null

\* Without an overlap the payload has one holder, whose objects are its own, and
\* none once it is uploaded.
HolderIsAlone ==
    ~ghost.overlap =>
        /\ \A v, w \in Holders : v = w
        /\ pay.status = "uploaded" => Holders = {}
        /\ \A w \in Workers : wk[w].pc = "uploading" =>
              \A o \in 1..wk[w].put : s3[o] = wk[w].snap

\* Workers that overlap have read the same bodies, those of the row or of its
\* manifest, and so have put the same objects; nobody holds a cleared row.
WorkersAgree ==
    ~ghost.outdated =>
        /\ \A v, w \in Workers : Busy(v) /\ Busy(w) => wk[v].snap = wk[w].snap
        /\ HasRow => \A w \in Workers : Busy(w) =>
              wk[w].snap = IF pay.body # Null THEN pay.body ELSE pay.manifest
        /\ pay.status = "uploading" => pay.body # Null
        /\ \A w \in Workers : wk[w].pc = "uploading" =>
              \A o \in 1..wk[w].put : s3[o] = wk[w].snap

Inv ==
    /\ PayloadsAreSafe
    /\ SnapsAreReal
    /\ AbsentIsEmpty
    /\ HolderIsAlone
    /\ WorkersAgree

-----------------------------------------------------------------------------
LEMMA Bounds ==
    /\ MaxCaptures \in Nat \ {0} /\ NumObjects \in Nat \ {0} /\ MaxRetries \in Nat \ {0}
    /\ StaleAfter \in Nat /\ MaxSelectTicks \in Nat /\ MaxFaults \in Nat /\ MaxAge \in Nat
    /\ MaxSelectTicks <= MaxAge
    BY ArchiveAssumption DEF MaxAge

LEMMA Types ==
    ASSUME Inv
    PROVE  /\ TypeOK /\ pay \in Pay /\ wk \in [Workers -> Locals]
           /\ NoRow \in Pay /\ Idle \in Locals
           /\ s3 \in [1..NumObjects -> 0..MaxCaptures]
    <1>1. NoRow \in Pay /\ Idle \in Locals
        BY Bounds DEF NoRow, Pay, Idle, Locals, Null, NoLock
    <1> QED
        BY <1>1 DEF Inv, PayloadsAreSafe, TypeOK, Pay, Locals

\* What a step of one worker changes in its locals.
Others(w) == \A v \in Workers \ {w} : wk'[v] = wk[v]

LEMMA WorkerMoves ==
    ASSUME Inv, NEW w \in Workers, NEW r \in Locals, wk' = [wk EXCEPT ![w] = r]
    PROVE  wk' \in [Workers -> Locals] /\ wk'[w] = r /\ Others(w)
    BY Types DEF Others

\* The properties but for the types.
Safe ==
    /\ DetailReadableWithoutOverlap /\ Recoverable /\ RetryableHasAttemptsLeft
    /\ SnapsAreReal /\ AbsentIsEmpty /\ HolderIsAlone /\ WorkersAgree

LEMMA InvParts ==
    /\ Inv <=> TypeOK /\ Safe
    /\ Inv' <=> TypeOK' /\ Safe'
    BY DEF Inv, Safe, PayloadsAreSafe

-----------------------------------------------------------------------------
(* The sink and retention.                                                 *)

LEMMA WritesKeepInv ==
    ASSUME Inv, WriteRequestEvent \/ WriteBack
    PROVE  Inv'
    <1>1. UNCHANGED <<pay, s3, wk, faults, ghost>>
        BY DEF WriteRequestEvent, WriteBack
    <1>2. TypeOK'
        <2>1. log' \in {"none", "null", "full"}
            BY Types DEF TypeOK, WriteRequestEvent, WriteBack
        <2>2. sink' \in [pc : {"idle", "write_back", "mark"}, captures : 0..MaxCaptures, event : BOOLEAN]
            BY Types DEF TypeOK, WriteRequestEvent, WriteBack
        <2> QED
            BY <1>1, <2>1, <2>2, Types DEF TypeOK
    <1>3. Safe'
        BY <1>1, InvParts DEF Safe, DetailReadableWithoutOverlap, DetailReadable, Recoverable,
           RetryableHasAttemptsLeft, SnapsAreReal, AbsentIsEmpty, HolderIsAlone, WorkersAgree, Busy, Holders,
           HasRow, Stored
    <1> QED
        BY <1>2, <1>3, InvParts

LEMMA CaptureKeepsInv ==
    ASSUME Inv, WriteCapture
    PROVE  Inv'
    <1>1. PICK n \in 1..MaxCaptures, whole \in BOOLEAN :
             /\ pay' = Upserted(n, whole)
             /\ sink' \in [pc : {"idle", "write_back", "mark"}, captures : 0..MaxCaptures, event : BOOLEAN]
        <2>1. sink \in [pc : {"idle", "write_back", "mark"}, captures : 0..MaxCaptures, event : BOOLEAN]
            BY Types DEF TypeOK
        <2>2. sink.captures + 1 \in 1..MaxCaptures
            BY <2>1, Bounds DEF WriteCapture
        <2>3. sink' \in [pc : {"idle", "write_back", "mark"}, captures : 0..MaxCaptures, event : BOOLEAN]
            <3>1. sink.captures + 1 \in 0..MaxCaptures
                BY <2>2, Bounds
            <3>2. sink' = [sink EXCEPT !.pc = "write_back", !.captures = sink.captures + 1]
                BY DEF WriteCapture
            <3> QED
                BY <2>1, <3>1, <3>2
        <2> QED
            BY <2>2, <2>3 DEF WriteCapture
    <1>2. UNCHANGED <<log, s3, wk, faults>>
        BY DEF WriteCapture
    <1>3. \/ pay' = pay /\ pay.status \in {"uploaded", "failed"}
          \/ /\ pay.status = "uploading" /\ pay'.status = "uploading" /\ pay'.body = pay.body
             /\ pay'.attempts = 0 /\ pay'.manifest = Null /\ pay' \in Pay
          \/ /\ pay.status \in {"archive_ready", "none"} /\ pay'.status = "archive_ready"
             /\ pay'.body = n /\ pay'.attempts = 0 /\ pay' \in Pay
        <2>1. CASE pay.status \in Terminal
            BY <1>1, <2>1, Types DEF Upserted, Terminal, KeepsBody, Pay, Statuses
        <2>2. CASE pay.status \notin Terminal /\ pay.status \in KeepsBody
            <3>1. pay.status = "uploading"
                BY <2>2 DEF Terminal
            <3>2. pay' = [pay EXCEPT !.attempts = 0, !.locked = NoLock, !.manifest = Null]
                BY <1>1, <2>2 DEF Upserted
            <3>3. 0 \in Nat /\ NoLock \in {NoLock} \cup 0..MaxAge /\ Null \in 0..MaxCaptures
                BY Bounds DEF Null
            <3> QED
                BY <3>1, <3>2, <3>3, Types DEF Pay
        <2>3. CASE pay.status \notin KeepsBody
            <3>1. pay' = Ready(n, whole)
                BY <1>1, <2>3 DEF Upserted, Terminal
            <3>2. /\ Ready(n, whole).status = "archive_ready" /\ Ready(n, whole).body = n
                  /\ Ready(n, whole).attempts = 0 /\ Ready(n, whole) \in Pay
                <4>1. n \in 0..MaxCaptures /\ "archive_ready" \in Statuses \cup {"none"}
                    BY <1>1, Bounds DEF Statuses
                <4>2. Ready(n, whole) = [NoRow EXCEPT !.status = "archive_ready", !.body = n, !.whole = whole]
                    BY DEF Ready
                <4>3. Ready(n, whole) \in Pay /\ Ready(n, whole).status = "archive_ready" /\ Ready(n, whole).body = n
                      /\ Ready(n, whole).attempts = NoRow.attempts
                    BY <4>1, <4>2, Types DEF Pay
                <4>4. NoRow.attempts = 0
                    BY DEF NoRow
                <4> QED
                    BY <4>3, <4>4
            <3>3. pay.status \in {"archive_ready", "none"}
                BY <2>3, Types DEF Pay, Statuses, KeepsBody
            <3> QED
                BY <3>1, <3>2, <3>3
        <2> QED
            BY <2>1, <2>2, <2>3 DEF Terminal
    <1>4. /\ ghost' \in [overlap : BOOLEAN, outdated : BOOLEAN] /\ ghost'.overlap = ghost.overlap
          /\ ghost.outdated => ghost'.outdated
          /\ pay'.body # pay.body /\ (\E w \in Workers : Busy(w)) => ghost'.outdated
        <2> DEFINE late == pay'.body # pay.body /\ \E w \in Workers : wk[w].pc # "idle"
        <2>1. ghost' = [ghost EXCEPT !.outdated = @ \/ late]
            BY Zenon DEF WriteCapture
        <2>2. ghost \in [overlap : BOOLEAN, outdated : BOOLEAN]
            BY Types DEF TypeOK
        <2>3. late \in BOOLEAN
            OBVIOUS
        <2>4. pay'.body # pay.body /\ (\E w \in Workers : Busy(w)) => late
            BY DEF Busy
        <2> HIDE DEF late
        <2> QED
            BY <2>1, <2>2, <2>3, <2>4
    <1>5. TypeOK'
        BY <1>1, <1>2, <1>3, <1>4, Types DEF TypeOK, Pay
    <1>6. n # Null /\ MaxRetries > 0
        BY <1>1, Bounds DEF Null
    <1>7. Safe
        BY InvParts
    <1>8. DetailReadableWithoutOverlap' /\ RetryableHasAttemptsLeft' /\ SnapsAreReal' /\ AbsentIsEmpty'
        BY <1>1, <1>2, <1>3, <1>4, <1>6, <1>7 DEF Safe, DetailReadableWithoutOverlap, DetailReadable,
           RetryableHasAttemptsLeft, SnapsAreReal, AbsentIsEmpty, Busy, HasRow, Stored
    <1>9. HolderIsAlone'
        BY <1>1, <1>2, <1>3, <1>4, <1>7 DEF Safe, HolderIsAlone, Holders
    <1>10. Recoverable'
        BY <1>1, <1>2, <1>3, <1>4, <1>6, <1>7 DEF Safe, Recoverable, WorkersAgree, HasRow, Stored
    <1>11. WorkersAgree'
        <2> SUFFICES ASSUME ~ghost'.outdated
                     PROVE  WorkersAgree'
            BY DEF WorkersAgree
        <2>1. ~ghost.outdated /\ WorkersAgree /\ AbsentIsEmpty
            BY <1>4, <1>7 DEF Safe
        <2>2. CASE pay'.body = pay.body
            BY <1>1, <1>2, <1>3, <1>4, <1>6, <2>1, <2>2 DEF WorkersAgree, AbsentIsEmpty, Busy, HasRow
        <2>3. CASE \A w \in Workers : ~Busy(w)
            BY <1>1, <1>2, <1>3, <1>4, <1>6, <2>1, <2>3 DEF WorkersAgree, Busy, HasRow
        <2> QED
            BY <1>4, <2>2, <2>3
    <1> QED
        BY <1>5, <1>8, <1>9, <1>10, <1>11, InvParts DEF Safe

LEMMA MarkReadyKeepsInv ==
    ASSUME Inv, MarkPayloadArchiveReady
    PROVE  Inv'
    <1>1. /\ UNCHANGED <<log, s3, wk, faults, ghost>>
          /\ sink' \in [pc : {"idle", "write_back", "mark"}, captures : 0..MaxCaptures, event : BOOLEAN]
        BY Types DEF MarkPayloadArchiveReady, TypeOK
    <1>2. /\ pay' \in Pay /\ pay'.status = pay.status /\ pay'.body = pay.body
          /\ pay'.attempts = pay.attempts /\ pay'.manifest = pay.manifest
        BY Types, Bounds DEF MarkPayloadArchiveReady, HasRow, Pay, Statuses, KeepsBody
    <1>3. TypeOK'
        BY <1>1, <1>2, Types DEF TypeOK, Pay
    <1>4. Safe'
        BY <1>1, <1>2, InvParts DEF Safe, DetailReadableWithoutOverlap, DetailReadable, Recoverable,
           RetryableHasAttemptsLeft, SnapsAreReal, AbsentIsEmpty, HolderIsAlone, WorkersAgree, Busy, Holders,
           HasRow, Stored
    <1> QED
        BY <1>3, <1>4, InvParts

LEMMA CleanupKeepsInv ==
    ASSUME Inv, CleanupOnce
    PROVE  Inv'
    <1>1. UNCHANGED <<s3, wk, sink, faults, ghost>> /\ pay' = NoRow /\ NoRow.status = "none" /\ NoRow.body = Null
          /\ log' \in {"none", "null", "full"}
        BY Types DEF CleanupOnce, NoRow, TypeOK
    <1>2. TypeOK'
        BY <1>1, Types DEF TypeOK, Pay
    <1>3. Safe'
        BY <1>1, InvParts DEF Safe, DetailReadableWithoutOverlap, DetailReadable, Recoverable,
           RetryableHasAttemptsLeft, SnapsAreReal, AbsentIsEmpty, HolderIsAlone, WorkersAgree, Busy, Holders,
           HasRow, Stored
    <1> QED
        BY <1>2, <1>3, InvParts
-----------------------------------------------------------------------------
(* The workers.                                                            *)

\* A worker that goes idle lets go of the payload and constrains nothing.
LEMMA LettingGoKeepsInv ==
    ASSUME Inv, NEW w \in Workers, wk' = [wk EXCEPT ![w] = Idle],
           UNCHANGED <<pay, s3, ghost>>
    PROVE  Safe' /\ wk' \in [Workers -> Locals]
    <1>1. wk' \in [Workers -> Locals] /\ wk'[w] = Idle /\ Others(w)
        BY Types, WorkerMoves
    <1>2. Idle.pc = "idle"
        BY DEF Idle
    <1>3. Safe
        BY InvParts
    <1>4. SnapsAreReal' /\ HolderIsAlone'
        BY <1>1, <1>2, <1>3 DEF Safe, SnapsAreReal, HolderIsAlone, Busy, Holders, Others
    <1>5. WorkersAgree'
        BY <1>1, <1>2, <1>3 DEF Safe, WorkersAgree, Busy, HasRow, Others
    <1>6. /\ DetailReadableWithoutOverlap' /\ Recoverable' /\ RetryableHasAttemptsLeft'
          /\ AbsentIsEmpty'
        BY <1>3 DEF Safe, DetailReadableWithoutOverlap, DetailReadable, Recoverable,
           RetryableHasAttemptsLeft, AbsentIsEmpty, HasRow, Stored
    <1> QED
        BY <1>1, <1>4, <1>5, <1>6 DEF Safe

LEMMA MissesAndBreaksKeepInv ==
    ASSUME Inv, NEW w \in Workers, ClaimMisses(w) \/ Abandon(w)
    PROVE  Inv'
    <1>1. /\ wk' = [wk EXCEPT ![w] = Idle] /\ UNCHANGED <<log, pay, s3, sink, ghost>>
          /\ faults' = faults \/ (faults' = faults + 1 /\ faults < MaxFaults)
        BY DEF ClaimMisses, Abandon
    <1>2. faults' \in 0..MaxFaults
        BY <1>1, Types, Bounds DEF TypeOK
    <1>3. Safe' /\ wk' \in [Workers -> Locals]
        BY <1>1, LettingGoKeepsInv
    <1> QED
        BY <1>1, <1>2, <1>3, Types, InvParts DEF TypeOK, Locals

LEMMA SelectKeepsInv ==
    ASSUME Inv, NEW w \in Workers, Select(w)
    PROVE  Inv'
    <1> DEFINE r == [Idle EXCEPT !.pc = "selected", !.snap = pay.body]
    <1>1. /\ wk[w].pc = "idle" /\ pay.body # Null /\ UNCHANGED <<log, pay, s3, sink, faults, ghost>>
          /\ wk' = [wk EXCEPT ![w] = r] /\ HasRow
        BY DEF Select, Claimable, HasRow
    <1>2. r \in Locals /\ r.pc = "selected" /\ r.snap = pay.body /\ r.put = 0
        <2>1. pay.body \in 0..MaxCaptures
            BY Types DEF Pay
        <2>2. Idle.put = 0
            BY DEF Idle
        <2> QED
            BY <2>1, <2>2, Types DEF Locals
    <1> HIDE DEF r
    <1>3. wk' \in [Workers -> Locals] /\ wk'[w] = r /\ Others(w)
        BY <1>1, <1>2, WorkerMoves
    <1>4. Safe
        BY InvParts
    <1>5. SnapsAreReal' /\ HolderIsAlone'
        BY <1>1, <1>2, <1>3, <1>4 DEF Safe, SnapsAreReal, HolderIsAlone, Busy, Holders, Others
    <1>6. WorkersAgree'
        BY <1>1, <1>2, <1>3, <1>4 DEF Safe, WorkersAgree, Busy, HasRow, Others
    <1>7. /\ DetailReadableWithoutOverlap' /\ Recoverable' /\ RetryableHasAttemptsLeft'
          /\ AbsentIsEmpty'
        BY <1>1, <1>4 DEF Safe, DetailReadableWithoutOverlap, DetailReadable, Recoverable,
           RetryableHasAttemptsLeft, AbsentIsEmpty, HasRow, Stored
    <1> QED
        BY <1>1, <1>3, <1>5, <1>6, <1>7, Types, InvParts DEF Safe, TypeOK, Locals

LEMMA ClaimKeepsInv ==
    ASSUME Inv, NEW w \in Workers, Claim(w)
    PROVE  Inv'
    <1> DEFINE r == [wk[w] EXCEPT !.pc = "uploading", !.since = 0]
    <1>1. wk[w] \in Locals /\ wk[w].pc = "selected"
        BY Types DEF Claim
    <1>2. UNCHANGED <<log, s3, sink, faults>>
        BY DEF Claim
    <1>3. r \in Locals /\ r.pc = "uploading" /\ r.snap = wk[w].snap /\ r.put = wk[w].put
        <2>1. 0 \in 0..MaxSelectTicks
            BY Bounds
        <2> QED
            BY <1>1, <2>1 DEF Locals
    <1>4. wk' \in [Workers -> Locals] /\ wk'[w] = r /\ Others(w)
        <2>1. wk' = [wk EXCEPT ![w].pc = "uploading", ![w].since = 0]
            BY DEF Claim
        <2>2. wk'[w] = r /\ Others(w)
            BY <1>1, <2>1, Types DEF Locals, Others
        <2>3. wk' = [v \in Workers |-> wk'[v]]
            BY <2>1, Types
        <2> QED
            BY <1>3, <2>2, <2>3, Types DEF Others
    <1> HIDE DEF r
    <1>5. /\ pay' \in Pay /\ pay'.status = "uploading" /\ pay'.body = pay.body
          /\ pay'.attempts = pay.attempts /\ pay'.manifest = pay.manifest
        <2>1. wk[w].since \in {NoLock} \cup 0..MaxAge
            BY <1>1, Bounds DEF Locals
        <2>2. "uploading" \in Statuses \cup {"none"}
            BY DEF Statuses
        <2>3. pay' = [pay EXCEPT !.status = "uploading", !.locked = wk[w].since]
            BY DEF Claim
        <2> QED
            BY <2>1, <2>2, <2>3, Types DEF Pay
    <1>6. pay.attempts < MaxRetries /\ pay.status \in {"archive_ready", "uploading"}
        BY DEF Claim, Claimable
    <1>7. /\ ghost' \in [overlap : BOOLEAN, outdated : BOOLEAN]
          /\ ghost'.overlap <=> ghost.overlap \/ Holders # {}
          /\ ghost'.outdated <=> ghost.outdated \/ pay.body # wk[w].snap
        <2>1. ghost \in [overlap : BOOLEAN, outdated : BOOLEAN]
            BY Types DEF TypeOK
        <2> DEFINE a == Holders # {}
                   b == pay.body # wk[w].snap
        <2>2. ghost' = [ghost EXCEPT !.overlap = @ \/ a, !.outdated = @ \/ b]
            BY DEF Claim
        <2>3. a \in BOOLEAN /\ b \in BOOLEAN
            OBVIOUS
        <2>4. (a <=> Holders # {}) /\ (b <=> pay.body # wk[w].snap)
            OBVIOUS
        <2> HIDE DEF a, b
        <2> QED
            BY <2>1, <2>2, <2>3, <2>4
    <1>8. Safe
        BY InvParts
    <1>9. wk[w].snap # Null /\ (~ghost'.outdated => pay.body # Null)
        BY <1>1, <1>7, <1>8 DEF Safe, SnapsAreReal, Busy
    <1>10. SnapsAreReal' /\ AbsentIsEmpty' /\ RetryableHasAttemptsLeft'
        BY <1>1, <1>3, <1>4, <1>5, <1>6, <1>8 DEF Safe, SnapsAreReal, AbsentIsEmpty,
           RetryableHasAttemptsLeft, Busy, Others, HasRow
    <1>11. DetailReadableWithoutOverlap' /\ Recoverable'
        BY <1>2, <1>5, <1>6, <1>7, <1>8, <1>9 DEF Safe, DetailReadableWithoutOverlap, DetailReadable,
           Recoverable, HasRow, Stored
    <1>12. \A o : o \notin 1..wk[w].put
        BY <1>1, <1>8 DEF Safe, SnapsAreReal
    <1>13. HolderIsAlone'
        BY <1>2, <1>3, <1>4, <1>5, <1>7, <1>8, <1>12 DEF Safe, HolderIsAlone, Holders, Others
    <1>14. WorkersAgree'
        BY <1>1, <1>2, <1>3, <1>4, <1>5, <1>6, <1>7, <1>8, <1>9, <1>12 DEF Safe, WorkersAgree, Busy,
           HasRow, Others
    <1> QED
        BY <1>2, <1>4, <1>5, <1>7, <1>10, <1>11, <1>13, <1>14, Types, InvParts DEF Safe, TypeOK, Pay, Locals

\* What an upload may do to the objects: the worker's next one, or none.
LEMMA PutsKeepInv ==
    ASSUME Inv, NEW w \in Workers, PutObject(w) \/ PutObjectFails(w)
    PROVE  Inv'
    <1>1. /\ wk[w] \in Locals /\ wk[w].pc = "uploading" /\ wk[w].put < NumObjects
          /\ UNCHANGED <<log, pay, sink, faults, ghost>>
        BY Types DEF PutObject, PutObjectFails
    <1>2. wk[w].put + 1 \in 1..NumObjects /\ wk[w].put + 1 \in 0..NumObjects /\ wk[w].put \in Nat
        BY <1>1, Bounds DEF Locals
    <1>3. /\ s3' \in [1..NumObjects -> 0..MaxCaptures]
          /\ \A o \in 1..NumObjects : s3'[o] = s3[o] \/ s3'[o] = wk[w].snap
          /\ PutObject(w) => s3'[wk[w].put + 1] = wk[w].snap
        BY <1>1, <1>2, Types DEF PutObject, PutObjectFails, Locals
    <1>4. /\ wk' \in [Workers -> Locals] /\ Others(w) /\ wk'[w].snap = wk[w].snap
          /\ wk'[w].pc \in {"uploading", "failed"}
          /\ wk'[w].pc = "uploading" => PutObject(w) /\ wk'[w].put = wk[w].put + 1
        <2>1. CASE PutObject(w)
            <3> DEFINE r == [wk[w] EXCEPT !.put = wk[w].put + 1]
            <3>1. wk' = [wk EXCEPT ![w] = r]
                BY <2>1 DEF PutObject
            <3>2. r \in Locals /\ r.snap = wk[w].snap /\ r.pc = "uploading" /\ r.put = wk[w].put + 1
                BY <1>1, <1>2 DEF Locals
            <3> HIDE DEF r
            <3> QED
                BY <2>1, <3>1, <3>2, WorkerMoves
        <2>2. CASE PutObjectFails(w)
            <3> DEFINE r == [wk[w] EXCEPT !.pc = "failed"]
            <3>1. wk' = [wk EXCEPT ![w] = r]
                BY <2>2 DEF PutObjectFails
            <3>2. r \in Locals /\ r.snap = wk[w].snap /\ r.pc = "failed"
                BY <1>1 DEF Locals
            <3> HIDE DEF r
            <3> QED
                BY <3>1, <3>2, WorkerMoves
        <2> QED
            BY <2>1, <2>2
    <1>5. Safe
        BY InvParts
    <1>6. \A v \in Workers : Busy(v)' => Busy(v) /\ wk'[v].snap = wk[v].snap
        BY <1>1, <1>4 DEF Busy, Others
    <1>7. wk'[w].pc = "uploading" => \A o \in 1..wk'[w].put : o \in 1..wk[w].put \/ o = wk[w].put + 1
        BY <1>2, <1>4
    <1>8. \A v \in Workers : \A o \in 1..wk[v].put : o \in 1..NumObjects
        BY Types, Bounds, SMTT(60) DEF Locals
    <1>9. SnapsAreReal' /\ AbsentIsEmpty' /\ RetryableHasAttemptsLeft'
        BY <1>1, <1>4, <1>5, <1>6 DEF Safe, SnapsAreReal, AbsentIsEmpty, RetryableHasAttemptsLeft,
           Busy, HasRow, Others
    <1>10. HolderIsAlone'
        <2> SUFFICES ASSUME ~ghost.overlap
                     PROVE  HolderIsAlone'
            BY <1>1 DEF HolderIsAlone
        <2>1. Holders' = Holders /\ w \in Holders
            BY <1>1, <1>4 DEF Holders, Others
        <2>2. \A v \in Workers : wk'[v].pc = "uploading" =>
                 \A o \in 1..wk'[v].put : s3'[o] = wk'[v].snap
            <3> SUFFICES ASSUME NEW v \in Workers, wk'[v].pc = "uploading", NEW o \in 1..wk'[v].put
                         PROVE  s3'[o] = wk'[v].snap
                OBVIOUS
            <3>1. v = w
                BY <1>5, <2>1 DEF Safe, HolderIsAlone, Holders
            <3>2. CASE o \in 1..wk[w].put
                BY <1>1, <1>3, <1>4, <1>5, <1>8, <3>1, <3>2 DEF Safe, HolderIsAlone
            <3>3. CASE o = wk[w].put + 1
                BY <1>3, <1>4, <3>1, <3>3
            <3> QED
                BY <1>7, <3>1, <3>2, <3>3
        <2> QED
            BY <1>1, <1>5, <2>1, <2>2 DEF Safe, HolderIsAlone
    <1>11. WorkersAgree'
        <2> SUFFICES ASSUME ~ghost.outdated
                     PROVE  WorkersAgree'
            BY <1>1 DEF WorkersAgree
        <2>1. WorkersAgree /\ Busy(w)
            BY <1>1, <1>5 DEF Safe, Busy
        <2>2. \A v \in Workers : wk'[v].pc = "uploading" =>
                 \A o \in 1..wk'[v].put : s3'[o] = wk'[v].snap
            <3> SUFFICES ASSUME NEW v \in Workers, wk'[v].pc = "uploading", NEW o \in 1..wk'[v].put
                         PROVE  s3'[o] = wk'[v].snap
                OBVIOUS
            <3>1. Busy(v) /\ wk'[v].snap = wk[v].snap /\ wk[v].snap = wk[w].snap
                BY <1>6, <2>1 DEF Busy, WorkersAgree
            <3>2. CASE v = w /\ o = wk[w].put + 1
                BY <1>3, <1>4, <3>2
            <3>3. CASE o \in 1..wk[v].put
                <4>1. wk[v].pc = "uploading"
                    BY <1>1, <1>4 DEF Others
                <4> QED
                    BY <1>3, <1>8, <2>1, <3>1, <3>3, <4>1 DEF WorkersAgree
            <3> QED
                BY <1>4, <1>7, <3>2, <3>3 DEF Others
        <2> QED
            BY <1>1, <1>6, <2>1, <2>2 DEF WorkersAgree, HasRow
    <1>12. DetailReadableWithoutOverlap'
        <2>1. ~ghost.overlap => pay.status # "uploaded"
            BY <1>1, <1>5 DEF Safe, HolderIsAlone, Holders
        <2> QED
            BY <1>1, <1>5, <2>1 DEF Safe, DetailReadableWithoutOverlap, DetailReadable, HasRow
    <1>13. Recoverable'
        <2>1. HasRow /\ ~ghost.outdated /\ pay.body = Null => wk[w].snap = pay.manifest
            BY <1>1, <1>5 DEF Safe, WorkersAgree, Busy
        <2> QED
            BY <1>1, <1>3, <1>5, <2>1 DEF Safe, Recoverable, HasRow, Stored
    <1> QED
        BY <1>1, <1>3, <1>4, <1>9, <1>10, <1>11, <1>12, <1>13, Types, InvParts DEF Safe, TypeOK, Locals

LEMMA FinalizeKeepsInv ==
    ASSUME Inv, NEW w \in Workers, FinalizeSuccess(w)
    PROVE  /\ Inv'
           /\ ghost.outdated \/ Stored(pay.body) \/ pay.body = Null \/ ~HasRow
    <1>1. /\ wk[w] \in Locals /\ wk[w].pc = "uploading" /\ wk[w].put = NumObjects
          /\ UNCHANGED <<s3, sink, faults, ghost>> /\ wk' = [wk EXCEPT ![w] = Idle]
          /\ log' \in {"none", "null", "full"}
        BY Types DEF FinalizeSuccess, TypeOK
    <1>2. \/ pay' = pay /\ ~HasRow
          \/ /\ HasRow /\ pay' \in Pay /\ pay'.status = "uploaded" /\ pay'.body = Null
             /\ pay'.manifest = wk[w].snap
        <2>1. CASE ~HasRow
            BY <2>1 DEF FinalizeSuccess
        <2>2. CASE HasRow
            <3>1. pay' = [pay EXCEPT !.status = "uploaded", !.body = Null, !.whole = FALSE,
                                     !.locked = NoLock, !.manifest = wk[w].snap]
                BY <2>2 DEF FinalizeSuccess
            <3>2. /\ "uploaded" \in Statuses \cup {"none"} /\ Null \in 0..MaxCaptures
                  /\ NoLock \in {NoLock} \cup 0..MaxAge /\ wk[w].snap \in 0..MaxCaptures
                BY <1>1, Bounds DEF Statuses, Null, Locals
            <3> QED
                BY <2>2, <3>1, <3>2, Types DEF Pay
        <2> QED
            BY <2>1, <2>2
    <1>3. wk' \in [Workers -> Locals] /\ wk'[w] = Idle /\ Others(w) /\ Idle.pc = "idle"
        <2>1. Idle.pc = "idle"
            BY DEF Idle
        <2> QED
            BY <1>1, <2>1, Types, WorkerMoves
    <1>4. Safe
        BY InvParts
    <1>5. /\ wk[w].snap # Null
          /\ ~ghost.overlap => Holders' = {}
          /\ ~ghost.overlap \/ ~ghost.outdated => Stored(wk[w].snap)
        BY <1>1, <1>3, <1>4 DEF Safe, SnapsAreReal, Busy, HolderIsAlone, WorkersAgree, Holders,
           Others, Stored
    <1>6. SnapsAreReal' /\ AbsentIsEmpty' /\ RetryableHasAttemptsLeft'
        BY <1>1, <1>2, <1>3, <1>4 DEF Safe, SnapsAreReal, AbsentIsEmpty, RetryableHasAttemptsLeft,
           Busy, HasRow, Others
    <1>7. HolderIsAlone'
        BY <1>1, <1>3, <1>4, <1>5 DEF Safe, HolderIsAlone, Holders, Others
    <1>8. WorkersAgree'
        BY <1>1, <1>2, <1>3, <1>4 DEF Safe, WorkersAgree, Busy, HasRow, Others
    <1>9. DetailReadableWithoutOverlap' /\ Recoverable'
        BY <1>1, <1>2, <1>4, <1>5 DEF Safe, DetailReadableWithoutOverlap, DetailReadable, Recoverable,
           HasRow, Stored
    <1>10. ghost.outdated \/ Stored(pay.body) \/ pay.body = Null \/ ~HasRow
        BY <1>1, <1>4, <1>5 DEF Safe, WorkersAgree, Busy
    <1> QED
        BY <1>1, <1>2, <1>3, <1>6, <1>7, <1>8, <1>9, <1>10, Types, InvParts DEF Safe, TypeOK, Pay, Locals

LEMMA ReadAttemptsKeepsInv ==
    ASSUME Inv, NEW w \in Workers, ReadAttempts(w)
    PROVE  Inv'
    <1> DEFINE r == [wk[w] EXCEPT !.pc = "marking", !.attempts = pay.attempts + 1]
    <1>1. /\ wk[w] \in Locals /\ wk[w].pc = "failed" /\ UNCHANGED <<log, pay, s3, sink, faults, ghost>>
          /\ wk' = [wk EXCEPT ![w] = r]
        BY Types DEF ReadAttempts
    <1>2. r \in Locals /\ r.pc = "marking" /\ r.snap = wk[w].snap
        <2>1. pay.attempts + 1 \in Nat
            BY Types DEF Pay
        <2> QED
            BY <1>1, <2>1 DEF Locals
    <1> HIDE DEF r
    <1>3. wk' \in [Workers -> Locals] /\ wk'[w] = r /\ Others(w)
        BY <1>1, <1>2, WorkerMoves
    <1>4. Safe
        BY InvParts
    <1>5. SnapsAreReal' /\ HolderIsAlone'
        BY <1>1, <1>2, <1>3, <1>4 DEF Safe, SnapsAreReal, HolderIsAlone, Busy, Holders, Others
    <1>6. WorkersAgree'
        BY <1>1, <1>2, <1>3, <1>4 DEF Safe, WorkersAgree, Busy, HasRow, Others
    <1>7. /\ DetailReadableWithoutOverlap' /\ Recoverable' /\ RetryableHasAttemptsLeft'
          /\ AbsentIsEmpty'
        BY <1>1, <1>4 DEF Safe, DetailReadableWithoutOverlap, DetailReadable, Recoverable,
           RetryableHasAttemptsLeft, AbsentIsEmpty, HasRow, Stored
    <1> QED
        BY <1>1, <1>3, <1>5, <1>6, <1>7, Types, InvParts DEF Safe, TypeOK, Locals

LEMMA MarkFailedKeepsInv ==
    ASSUME Inv, NEW w \in Workers, MarkFailed(w)
    PROVE  Inv'
    <1>1. /\ wk[w] \in Locals /\ wk[w].pc = "marking"
          /\ UNCHANGED <<log, s3, sink, faults, ghost>> /\ wk' = [wk EXCEPT ![w] = Idle]
        BY Types DEF MarkFailed
    <1>2. \/ pay' = pay /\ ~HasRow
          \/ /\ HasRow /\ pay' \in Pay /\ pay'.body = pay.body /\ pay'.manifest = pay.manifest
             /\ \/ pay'.status = "failed"
                \/ pay'.status = "archive_ready" /\ pay'.attempts < MaxRetries
        <2>1. CASE ~HasRow
            BY <2>1 DEF MarkFailed
        <2>2. CASE HasRow
            <3> DEFINE st == IF wk[w].attempts >= MaxRetries THEN "failed" ELSE "archive_ready"
            <3>1. pay' = [pay EXCEPT !.status = st, !.attempts = wk[w].attempts, !.locked = NoLock]
                BY <2>2 DEF MarkFailed
            <3>2. wk[w].attempts \in Nat
                BY <1>1 DEF Locals
            <3>3. /\ st = "failed" \/ (st = "archive_ready" /\ wk[w].attempts < MaxRetries)
                  /\ st \in Statuses \cup {"none"}
                BY <3>2, Bounds DEF Statuses
            <3> HIDE DEF st
            <3> QED
                BY <2>2, <3>1, <3>2, <3>3, Types DEF Pay
        <2> QED
            BY <2>1, <2>2
    <1>3. wk' \in [Workers -> Locals] /\ wk'[w] = Idle /\ Others(w) /\ Idle.pc = "idle"
        <2>1. Idle.pc = "idle"
            BY DEF Idle
        <2> QED
            BY <1>1, <2>1, Types, WorkerMoves
    <1>4. Safe
        BY InvParts
    <1>5. SnapsAreReal' /\ AbsentIsEmpty' /\ RetryableHasAttemptsLeft'
        BY <1>1, <1>2, <1>3, <1>4 DEF Safe, SnapsAreReal, AbsentIsEmpty, RetryableHasAttemptsLeft,
           Busy, HasRow, Others
    <1>6. HolderIsAlone'
        BY <1>1, <1>2, <1>3, <1>4 DEF Safe, HolderIsAlone, Holders, Others
    <1>7. WorkersAgree'
        BY <1>1, <1>2, <1>3, <1>4 DEF Safe, WorkersAgree, Busy, HasRow, Others
    <1>8. DetailReadableWithoutOverlap' /\ Recoverable'
        <2>1. ~ghost.overlap => pay.status # "uploaded"
            BY <1>1, <1>4 DEF Safe, HolderIsAlone, Holders
        <2> QED
            BY <1>1, <1>2, <1>4, <2>1 DEF Safe, DetailReadableWithoutOverlap, DetailReadable,
               Recoverable, HasRow, Stored
    <1> QED
        BY <1>1, <1>2, <1>3, <1>5, <1>6, <1>7, <1>8, Types, InvParts DEF Safe, TypeOK, Pay, Locals

LEMMA TickKeepsInv ==
    ASSUME Inv, Tick
    PROVE  Inv'
    <1>1. UNCHANGED <<log, s3, sink, faults, ghost>>
        BY DEF Tick
    <1>2. /\ pay' \in Pay /\ pay'.status = pay.status /\ pay'.body = pay.body
          /\ pay'.attempts = pay.attempts /\ pay'.manifest = pay.manifest
        <2> DEFINE age == IF pay.locked \in 0..(MaxAge - 1) THEN pay.locked + 1 ELSE pay.locked
        <2>1. pay' = [pay EXCEPT !.locked = age]
            BY DEF Tick
        <2>2. age \in {NoLock} \cup 0..MaxAge
            BY Types, Bounds DEF Pay
        <2> HIDE DEF age
        <2> QED
            BY <2>1, <2>2, Types DEF Pay
    <1>3. /\ wk' \in [Workers -> Locals]
          /\ \A w \in Workers : /\ wk'[w].pc = wk[w].pc /\ wk'[w].snap = wk[w].snap
                                /\ wk'[w].put = wk[w].put
        <2> DEFINE next(w) == IF wk[w].pc = "selected" THEN wk[w].since + 1 ELSE wk[w].since
        <2>1. wk' = [w \in Workers |-> [wk[w] EXCEPT !.since = next(w)]]
            BY DEF Tick
        <2>2. \A w \in Workers : next(w) \in 0..MaxSelectTicks
            BY Types, Bounds DEF Tick, Locals
        <2> HIDE DEF next
        <2>3. \A w \in Workers : wk'[w] = [wk[w] EXCEPT !.since = next(w)]
            BY <2>1
        <2>4. \A w \in Workers : /\ wk'[w] \in Locals /\ wk'[w].pc = wk[w].pc
                                 /\ wk'[w].snap = wk[w].snap /\ wk'[w].put = wk[w].put
            BY <2>2, <2>3, Types DEF Locals
        <2> QED
            BY <2>1, <2>4
    <1>4. Safe
        BY InvParts
    <1>5. SnapsAreReal' /\ HolderIsAlone'
        BY <1>1, <1>2, <1>3, <1>4 DEF Safe, SnapsAreReal, HolderIsAlone, Busy, Holders
    <1>6. WorkersAgree'
        BY <1>1, <1>2, <1>3, <1>4 DEF Safe, WorkersAgree, Busy, HasRow
    <1>7. /\ DetailReadableWithoutOverlap' /\ Recoverable' /\ RetryableHasAttemptsLeft'
          /\ AbsentIsEmpty'
        BY <1>1, <1>2, <1>4 DEF Safe, DetailReadableWithoutOverlap, DetailReadable, Recoverable,
           RetryableHasAttemptsLeft, AbsentIsEmpty, HasRow, Stored
    <1> QED
        BY <1>1, <1>2, <1>3, <1>5, <1>6, <1>7, Types, InvParts DEF Safe, TypeOK, Pay, Locals

-----------------------------------------------------------------------------
LEMMA InitInv ==
    ASSUME Init
    PROVE  Inv
    <1>1. /\ pay = NoRow /\ NoRow.status = "none" /\ NoRow.body = Null
          /\ \A w \in Workers : wk[w] = Idle /\ wk[w].pc = "idle"
        BY DEF Init, NoRow, Idle
    <1>2. NoRow \in Pay /\ Idle \in Locals /\ Null \in 0..MaxCaptures /\ 0 \in 0..MaxFaults
        BY Bounds DEF NoRow, Pay, Idle, Locals, Null, NoLock
    <1>3. TypeOK
        <2>1. wk \in [Workers -> Locals] /\ s3 \in [1..NumObjects -> 0..MaxCaptures]
            BY <1>2 DEF Init
        <2> QED
            BY <1>1, <1>2, <2>1, Bounds DEF Init, TypeOK, Pay, Locals
    <1>4. Safe
        BY <1>1 DEF Safe, DetailReadableWithoutOverlap, DetailReadable, Recoverable,
           RetryableHasAttemptsLeft, SnapsAreReal, AbsentIsEmpty, HolderIsAlone, WorkersAgree,
           Busy, Holders, HasRow
    <1> QED
        BY <1>3, <1>4, InvParts

LEMMA StepKeepsInv ==
    ASSUME Inv, [Next]_vars
    PROVE  Inv'
    <1>1. CASE Sink
        BY <1>1, WritesKeepInv, CaptureKeepsInv, MarkReadyKeepsInv DEF Sink
    <1>2. CASE CleanupOnce
        BY <1>2, CleanupKeepsInv
    <1>3. CASE Tick
        BY <1>3, TickKeepsInv
    <1>4. ASSUME NEW w \in Workers, WorkerStep(w) \/ Abandon(w)
          PROVE  Inv'
        BY <1>4, MissesAndBreaksKeepInv, SelectKeepsInv, ClaimKeepsInv, PutsKeepInv,
           FinalizeKeepsInv, ReadAttemptsKeepsInv, MarkFailedKeepsInv DEF WorkerStep
    <1>5. CASE UNCHANGED vars
        <2>1. TypeOK'
            BY <1>5, Types DEF TypeOK, vars
        <2>2. Safe'
            BY <1>5, InvParts DEF vars, Safe, DetailReadableWithoutOverlap, DetailReadable,
               Recoverable, RetryableHasAttemptsLeft, SnapsAreReal, AbsentIsEmpty, HolderIsAlone,
               WorkersAgree, Busy, Holders, HasRow, Stored
        <2> QED
            BY <2>1, <2>2, InvParts
    <1> QED
        BY <1>1, <1>2, <1>3, <1>4, <1>5 DEF Next

\* A payload is never lost, however many workers run: while they keep to their
\* locks it is readable where its status says, if they overlap it is still in the
\* database or complete in object storage, and one that waits has attempts left.
THEOREM PayloadsAreNeverLost == Spec => []PayloadsAreSafe
    <1>1. Init => Inv
        BY InitInv
    <1>2. Inv /\ [Next]_vars => Inv'
        BY StepKeepsInv
    <1>3. Inv => PayloadsAreSafe
        BY DEF Inv
    <1> QED
        BY <1>1, <1>2, <1>3, PTL DEF Spec

\* FinalizeSuccess, the one step that clears a stored row, finds every object of
\* the payload equal to what it clears, also when it is another worker's upload
\* that wrote some of them last.
THEOREM ClearedIsStored == Spec => ClearsOnlyWhatIsStored
    <1> DEFINE Clears ==
          HasRow' /\ pay.body # Null /\ pay'.body = Null =>
            ghost.outdated \/ \A o \in 1..NumObjects : s3'[o] = pay.body
    <1>1. ASSUME Inv, [Next]_vars
          PROVE  Clears
        <2> SUFFICES ASSUME HasRow', pay.body # Null, pay'.body = Null
                     PROVE  ghost.outdated \/ \A o \in 1..NumObjects : s3'[o] = pay.body
            OBVIOUS
        <2>1. CASE \E w \in Workers : FinalizeSuccess(w)
            <3>1. PICK w \in Workers : FinalizeSuccess(w)
                BY <2>1
            <3>2. UNCHANGED s3 /\ (~HasRow => pay' = pay)
                BY <3>1 DEF FinalizeSuccess
            <3> QED
                BY <1>1, <3>1, <3>2, FinalizeKeepsInv DEF Stored
        <2>2. CASE ~\E w \in Workers : FinalizeSuccess(w)
            <3>1. pay \in Pay
                BY <1>1, Types
            <3>2. CASE WriteCapture
                <4>1. sink.captures + 1 # Null
                    BY <1>1, Types, Bounds DEF TypeOK, Null
                <4>2. PICK whole \in BOOLEAN : pay' = Upserted(sink.captures + 1, whole)
                    BY <3>2 DEF WriteCapture
                <4>3. Ready(sink.captures + 1, whole).body = sink.captures + 1
                    BY DEF Ready, NoRow
                <4> QED
                    BY <3>1, <4>1, <4>2, <4>3 DEF Upserted, Pay
            <3>3. CASE WriteRequestEvent \/ WriteBack \/ UNCHANGED vars
                BY <3>3 DEF WriteRequestEvent, WriteBack, vars
            <3>4. CASE MarkPayloadArchiveReady
                BY <3>1, <3>4 DEF MarkPayloadArchiveReady, Pay
            <3>5. CASE CleanupOnce
                BY <3>5 DEF CleanupOnce, NoRow, HasRow
            <3>6. CASE Tick
                BY <3>1, <3>6 DEF Tick, Pay
            <3>7. ASSUME NEW w \in Workers, WorkerStep(w) \/ Abandon(w)
                  PROVE  FALSE
                BY <2>2, <3>1, <3>7 DEF WorkerStep, Select, Claim, ClaimMisses, PutObject,
                   PutObjectFails, ReadAttempts, MarkFailed, Abandon, Pay
            <3> QED
                BY <1>1, <3>2, <3>3, <3>4, <3>5, <3>6, <3>7 DEF Next, Sink
        <2> QED
            BY <2>1, <2>2
    <1>2. Init => Inv
        BY InitInv
    <1>3. Inv /\ [Next]_vars => Inv'
        BY StepKeepsInv
    <1>4. Inv /\ [Next]_vars => [Clears]_vars
        BY <1>1
    <1> HIDE DEF Clears
    <1>5. Spec => [][Clears]_vars
        BY <1>2, <1>3, <1>4, PTL DEF Spec
    <1> QED
        BY <1>5 DEF Clears, ClearsOnlyWhatIsStored

=============================================================================
