---------------------------- MODULE StreamProofs ----------------------------
(***************************************************************************)
(* Streamed answers for every number of streams, lines and chunks, every   *)
(* channel and any refusals of the database: the client's frames, then the *)
(* bus and the rows.                                                       *)
(***************************************************************************)
EXTENDS StreamRelay, FiniteSetTheorems, TLAPS

Held == {NoLine} \cup [kind : Kinds, cut : {"line", "head"}]

StreamStates ==
    [pc : {"idle", "calling", "refused", "relay", "closing", "done"},
     mode : Modes \cup {"none"}, end_marker : BOOLEAN,
     error : BOOLEAN, terminal : BOOLEAN, saw_terminal : BOOLEAN, held : Held,
     reason : Reasons, completed : BOOLEAN, todo : Seq(Seq(Lines)), client : Seq(Lines),
     chunks : 0..MaxChunks, sent : SUBSET Kinds, cut : BOOLEAN, fails : 0..2]

Open(s) == s.pc \in {"relay", "closing", "done"}
NotYet(s) == s.pc \in {"idle", "calling", "refused", "relay"}

\* What the accumulator and the relay know of the lines that came: nothing that
\* did not come, and everything as long as no line was cut.
SignalsFit(s) ==
    /\ s.error => s.sent \cap Errors # {}
    /\ s.saw_terminal => s.sent \cap {"terminal", "finish"} # {}
    /\ s.held.cut = "line" => s.held.kind \in s.sent
    /\ ~s.cut =>
         /\ s.held = NoLine
         /\ s.sent \cap Errors # {} => s.error
         /\ s.mode = "verbatim" => (s.terminal <=> s.sent \cap {"terminal", "failed"} # {})
         /\ s.mode = "transcode" =>
              ~s.terminal /\ (s.sent \cap {"terminal", "finish"} # {} => s.saw_terminal)

\* How far the guard is: a stream that is closed has a reason to be.
PhaseFits(s) ==
    /\ s.pc = "idle" => s = Idle
    /\ s.pc = "calling" \/ Open(s) => s.mode \in {"verbatim", "transcode"}
    /\ NotYet(s) => s.reason = "none" /\ ~s.completed /\ s.todo = <<>>
    /\ s.reason = "client_disconnect" => s.pc = "done" /\ ~s.error /\ ~s.terminal /\ ~s.completed
    /\ s.completed => s.reason = "none"
    /\ s.pc = "closing" => s.reason # "none" \/ s.completed
    /\ s.pc = "done" => /\ s.reason # "none" \/ s.completed \/ s.terminal \/ s.error
                        /\ ShouldFail(s) <=> s.fails > 0

\* The upstream gave cause for an end frame and sent none.
EndIsDue(s) ==
    /\ s.sent \cap (Errors \cup {"terminal", "finish"}) # {}
    /\ ~s.cut => "terminal" \notin s.sent

\* The frames the client has, and those still to come.
FramesFit(s) ==
    /\ NotYet(s) => \A i \in 1..Len(s.client) : s.client[i].ended /\ s.client[i] # GatewayEnd
    /\ \A i, j \in 1..Len(s.client) : s.client[i] = GatewayEnd /\ s.client[j] = GatewayEnd => i = j
    /\ \A i \in 1..Len(s.client) : s.client[i] = GatewayEnd => EndIsDue(s)
    /\ \A i \in 2..Len(s.client) : s.client[i] = GatewayError => s.client[i - 1].ended

TodoFits(s) ==
    \/ s.todo = <<>>
    \/ s.todo = <<<<GatewayError>>>> /\ (s.client # <<>> => s.client[Len(s.client)].ended)
    \/ s.todo = <<<<Blank>>, <<GatewayError>>>>
    \/ \E k \in Kinds : s.todo = <<<<Unended(k)>>>>

Fits(s) ==
    /\ s \in StreamStates
    /\ SignalsFit(s) /\ PhaseFits(s) /\ FramesFit(s) /\ TodoFits(s)

-----------------------------------------------------------------------------
RowStates ==
    [status : {"none", "pending", "success", "failed", "abnormal"},
     class : {"none", "upstream_exhausted", "client_disconnect", "transient",
              "deadline_exceeded", "upstream_class"},
     http : {"none", "200", "499", "error"}, reason : Reasons,
     virtual_model : BOOLEAN, tokens : BOOLEAN, cost : BOOLEAN]

StreamsFit == str \in [Streams -> StreamStates] /\ \A t \in Streams : Fits(str[t])

TablesFit ==
    /\ health \in TargetHealth
    /\ spawned \subseteq Messages
    /\ queue \in Seq(Messages) /\ Len(queue) <= Capacity
    /\ rows \in [Streams -> RowStates]
    /\ stored \subseteq Streams /\ lost \subseteq Streams /\ faults \in 0..MaxFaults

OnTheBus(m) == m \in spawned \/ \E i \in 1..Len(queue) : queue[i] = m

\* A message says what the stream it speaks of has come to.
Speaks(m, s) ==
    /\ m.type = "event" =>
         /\ s.pc \notin {"idle", "calling"}
         /\ Open(s) => m.status = "success" /\ m.http = "200"
    /\ m.type = "capture" =>
         /\ s.pc \in {"refused", "done"}
         /\ s.pc = "done" => m.reason = s.reason /\ m.error = s.error

MessagesFit == \A m \in Messages : OnTheBus(m) => Speaks(m, str[m.stream])

\* What a row may say of its stream at any time, also if something was lost.
RowFits(s, row) ==
    /\ s.pc \in {"idle", "calling"} => row = NoRow
    /\ Open(s) /\ row.status = "failed" => s.pc = "done" /\ ShouldFail(s)
    /\ Open(s) /\ row.status = "abnormal" =>
         s.pc = "done" /\ s.reason = "client_disconnect" /\ row.http = "499"

\* What it says if nothing was lost: "kept" is that the capture is written.
RowIsExact(s, row, kept) ==
    /\ row.tokens /\ row.virtual_model => row.cost
    /\ Open(s) =>
         /\ ~kept => row.reason = "none" /\ row.status \in {"none", "success"}
         /\ kept /\ ShouldFail(s) => row.status = "failed" /\ row.reason # "none"
         /\ kept /\ s.reason = "client_disconnect" =>
              row.status = "abnormal" /\ row.reason # "none"
         /\ kept /\ ~ShouldFail(s) /\ s.reason # "client_disconnect" => row.reason = "none"
         /\ row.virtual_model /\ row.reason = "none" => row.status = "success"

RowsFit ==
    \A t \in Streams :
      /\ RowFits(str[t], rows[t])
      /\ t \in stored => str[t].pc \in {"refused", "done"}
      /\ t \notin lost => RowIsExact(str[t], rows[t], t \in stored)

\* What is not written is on its way, unless it was lost.
Delivered ==
    \A t \in Streams : t \notin lost =>
      /\ str[t].pc \notin {"idle", "calling"} =>
           rows[t].virtual_model \/ \E m \in Messages : OnTheBus(m) /\ m.stream = t /\ m.type = "event"
      /\ str[t].pc = "done" =>
           t \in stored \/ \E m \in Messages : OnTheBus(m) /\ m.stream = t /\ m.type = "capture"

Inv == StreamsFit /\ TablesFit /\ MessagesFit /\ RowsFit /\ Delivered

-----------------------------------------------------------------------------
LEMMA KindsKnown ==
    /\ Kinds \subseteq {"delta", "error", "terminal", "failed", "finish", "bad"}
    /\ Modes \subseteq {"verbatim", "transcode"} /\ EndMarkers \subseteq BOOLEAN
    /\ MaxChunks \in Nat /\ Capacity \in Nat /\ MaxFaults \in Nat
    BY StreamAssumption

LEMMA LinesType ==
    /\ GatewayError \in Lines /\ GatewayEnd \in Lines /\ Blank \in Lines
    /\ \A k \in Kinds : Line(k) \in Lines /\ Unended(k) \in Lines /\ Encoded(k) \in Lines
    /\ GatewayError.ended /\ GatewayEnd.ended /\ Blank.ended /\ GatewayError # GatewayEnd
    /\ Blank # GatewayEnd /\ Blank # GatewayError
    /\ \A k \in Kinds : /\ Line(k).ended /\ Line(k) # GatewayEnd /\ Line(k) # GatewayError
                        /\ Encoded(k).ended /\ Encoded(k) # GatewayEnd
                        /\ k # "bad" => Encoded(k) # GatewayError
                        /\ Unended(k) # GatewayEnd /\ Unended(k) # GatewayError
    BY KindsKnown DEF GatewayError, GatewayEnd, Blank, Line, Unended, Encoded, Lines

\* One more frame.
LEMMA OneMore ==
    ASSUME NEW c \in Seq(Lines), NEW l \in Lines
    PROVE  /\ c \o <<l>> = Append(c, l) /\ Append(c, l) \in Seq(Lines)
           /\ Len(Append(c, l)) = Len(c) + 1 /\ Append(c, l)[Len(c) + 1] = l
           /\ \A i \in 1..Len(c) : Append(c, l)[i] = c[i]
    OBVIOUS
\* A frame more: it is an end frame only where one is due and none was, and an
\* error frame only behind a whole line.
LEMMA FramesGrow ==
    ASSUME NEW s, NEW x, NEW l \in Lines, s.client \in Seq(Lines), FramesFit(s),
           x.client = Append(s.client, l),
           NotYet(x) => NotYet(s) /\ l.ended /\ l # GatewayEnd,
           NotYet(s) \/ (EndIsDue(s) => EndIsDue(x)),
           l = GatewayEnd => EndIsDue(x) /\ \A i \in 1..Len(s.client) : s.client[i] # GatewayEnd,
           l = GatewayError /\ s.client # <<>> => s.client[Len(s.client)].ended
    PROVE  FramesFit(x)
    <1> DEFINE n == Len(s.client)
    <1>1. /\ n \in Nat /\ Len(x.client) = n + 1 /\ x.client[n + 1] = l
          /\ \A i \in 1..n : x.client[i] = s.client[i]
          /\ n # 0 => s.client # <<>>
        BY OneMore
    <1> HIDE DEF n
    <1>2. \A i \in 1..(n + 1) : i \in 1..n \/ i = n + 1
        BY <1>1
    <1>3. ASSUME NotYet(x)
          PROVE  \A i \in 1..Len(x.client) : x.client[i].ended /\ x.client[i] # GatewayEnd
        BY <1>1, <1>2, <1>3 DEF FramesFit, n
    <1>4. \A i \in 1..Len(x.client) : x.client[i] = GatewayEnd => EndIsDue(x)
        BY <1>1, <1>2 DEF FramesFit, n
    <1>5. ASSUME NEW i \in 1..Len(x.client), NEW j \in 1..Len(x.client),
                 x.client[i] = GatewayEnd, x.client[j] = GatewayEnd
          PROVE  i = j
        BY <1>1, <1>2, <1>5 DEF FramesFit, n
    <1>6. ASSUME NEW i \in 2..Len(x.client), x.client[i] = GatewayError
          PROVE  x.client[i - 1].ended
        <2>1. i \in 2..n \/ i = n + 1
            BY <1>1
        <2>2. i - 1 \in 1..n /\ n # 0
            BY <1>1
        <2> QED
            BY <1>1, <1>6, <2>1, <2>2 DEF FramesFit, n
    <1> QED
        BY <1>3, <1>4, <1>5, <1>6 DEF FramesFit

-----------------------------------------------------------------------------
(* Chunks.                                                                 *)

\* What a chunk leaves alone.
Apart(s, x) ==
    /\ x.pc = s.pc /\ x.mode = s.mode /\ x.reason = s.reason /\ x.completed = s.completed
    /\ x.todo = s.todo /\ x.fails = s.fails /\ x.chunks = s.chunks

LEMMA DetectType ==
    ASSUME NEW s \in StreamStates, NEW k \in Kinds
    PROVE  LET x == DetectVerbatimSignals(s, k) IN
           /\ x \in StreamStates /\ Apart(s, x) /\ x.client = s.client /\ x.sent = s.sent
           /\ x.cut = s.cut /\ x.held = s.held /\ x.saw_terminal = s.saw_terminal
           /\ x.error <=> s.error \/ k \in Errors
           /\ x.terminal <=> s.terminal \/ k \in {"terminal", "failed"}
    <1> DEFINE e == s.error \/ k \in Errors
               f == s.terminal \/ k \in {"terminal", "failed"}
    <1>1. e \in BOOLEAN /\ f \in BOOLEAN
        OBVIOUS
    <1>2. DetectVerbatimSignals(s, k) = [s EXCEPT !.error = e, !.terminal = f]
        BY DEF DetectVerbatimSignals
    <1>3. (e <=> s.error \/ k \in Errors) /\ (f <=> s.terminal \/ k \in {"terminal", "failed"})
        OBVIOUS
    <1> HIDE DEF e, f
    <1> QED
        BY <1>1, <1>2, <1>3 DEF StreamStates, Apart

LEMMA DecodeType ==
    ASSUME NEW s \in StreamStates, NEW k \in Kinds
    PROVE  LET x == Decode(s, k) IN
           /\ x \in StreamStates /\ Apart(s, x) /\ x.client = s.client /\ x.sent = s.sent
           /\ x.cut = s.cut /\ x.held = s.held /\ x.terminal = s.terminal
           /\ x.error <=> s.error \/ k \in Errors
           /\ x.saw_terminal <=> s.saw_terminal \/ k \in {"terminal", "finish"}
    <1> DEFINE e == s.error \/ k \in Errors
               f == s.saw_terminal \/ k \in {"terminal", "finish"}
    <1>1. e \in BOOLEAN /\ f \in BOOLEAN
        OBVIOUS
    <1>2. Decode(s, k) = [s EXCEPT !.error = e, !.saw_terminal = f]
        BY DEF Decode
    <1>3. (e <=> s.error \/ k \in Errors) /\ (f <=> s.saw_terminal \/ k \in {"terminal", "finish"})
        OBVIOUS
    <1> HIDE DEF e, f
    <1> QED
        BY <1>1, <1>2, <1>3 DEF StreamStates, Apart

LEMMA ChunkWholeType ==
    ASSUME NEW s \in StreamStates, NEW k \in Kinds
    PROVE  LET x == [ChunkWhole(s, k) EXCEPT !.sent = @ \cup {k}]
               l == IF s.mode = "verbatim" THEN Line(k) ELSE Encoded(k) IN
           /\ x \in StreamStates /\ Apart(s, x) /\ x.client = Append(s.client, l)
           /\ l \in Lines /\ l.ended /\ l # GatewayEnd
           /\ x.sent = s.sent \cup {k} /\ x.cut = s.cut /\ x.held = s.held
           /\ x.error <=> s.error \/ k \in Errors
           /\ s.mode = "verbatim" =>
                /\ x.terminal <=> s.terminal \/ k \in {"terminal", "failed"}
                /\ x.saw_terminal = s.saw_terminal
           /\ s.mode # "verbatim" =>
                /\ x.saw_terminal <=> s.saw_terminal \/ k \in {"terminal", "finish"}
                /\ x.terminal = s.terminal
    <1> DEFINE l == IF s.mode = "verbatim" THEN Line(k) ELSE Encoded(k)
               d == IF s.mode = "verbatim" THEN DetectVerbatimSignals(s, k) ELSE Decode(s, k)
    <1>1. l \in Lines /\ l.ended /\ l # GatewayEnd
        BY LinesType
    <1>2. /\ d \in StreamStates /\ Apart(s, d) /\ d.client = s.client /\ d.sent = s.sent
          /\ d.cut = s.cut /\ d.held = s.held /\ (d.error <=> s.error \/ k \in Errors)
          /\ s.mode = "verbatim" =>
                /\ d.terminal <=> s.terminal \/ k \in {"terminal", "failed"}
                /\ d.saw_terminal = s.saw_terminal
          /\ s.mode # "verbatim" =>
                /\ d.saw_terminal <=> s.saw_terminal \/ k \in {"terminal", "finish"}
                /\ d.terminal = s.terminal
        BY DetectType, DecodeType
    <1>3. ChunkWhole(s, k) = [d EXCEPT !.client = Append(@, l)]
        BY DEF ChunkWhole
    <1> HIDE DEF l, d
    <1>4. Append(d.client, l) \in Seq(Lines) /\ d.sent \cup {k} \in SUBSET Kinds
        BY <1>1, <1>2, OneMore DEF StreamStates
    <1>5. [ChunkWhole(s, k) EXCEPT !.sent = @ \cup {k}]
            = [d EXCEPT !.client = Append(d.client, l), !.sent = d.sent \cup {k}]
        BY <1>2, <1>3 DEF StreamStates
    <1> DEFINE x == [ChunkWhole(s, k) EXCEPT !.sent = @ \cup {k}]
    <1>6. /\ x \in StreamStates /\ Apart(d, x) /\ x.client = Append(d.client, l)
          /\ x.sent = d.sent \cup {k} /\ x.cut = d.cut /\ x.held = d.held
          /\ x.error = d.error /\ x.terminal = d.terminal /\ x.saw_terminal = d.saw_terminal
        BY <1>2, <1>4, <1>5, ZenonT(60) DEF StreamStates, Apart
    <1> HIDE DEF x
    <1>7. /\ x \in StreamStates /\ Apart(s, x) /\ x.client = Append(s.client, l)
          /\ x.sent = s.sent \cup {k} /\ x.cut = s.cut /\ x.held = s.held
          /\ x.error <=> s.error \/ k \in Errors
          /\ s.mode = "verbatim" =>
                /\ x.terminal <=> s.terminal \/ k \in {"terminal", "failed"}
                /\ x.saw_terminal = s.saw_terminal
          /\ s.mode # "verbatim" =>
                /\ x.saw_terminal <=> s.saw_terminal \/ k \in {"terminal", "finish"}
                /\ x.terminal = s.terminal
        BY <1>2, <1>6 DEF Apart
    <1> QED
        BY <1>1, <1>7 DEF x, l

LEMMA ChunkCutType ==
    ASSUME NEW s \in StreamStates, NEW k \in Kinds, NEW c \in {"line", "head"}
    PROVE  LET x == ChunkCut(s, k, c) IN
           /\ x \in StreamStates /\ Apart(s, x) /\ x.client = s.client /\ x.sent = s.sent /\ x.cut
           /\ x.held.kind = k /\ x.held.cut = c /\ x.saw_terminal = s.saw_terminal
           /\ x.error => s.error \/ (c = "line" /\ k \in Errors)
    <1> DEFINE d == IF s.mode = "verbatim" /\ c = "line" THEN DetectVerbatimSignals(s, k) ELSE s
               h == [kind |-> k, cut |-> c]
    <1>1. /\ d \in StreamStates /\ Apart(s, d) /\ d.client = s.client /\ d.sent = s.sent
          /\ d.saw_terminal = s.saw_terminal
          /\ d.error => s.error \/ (c = "line" /\ k \in Errors)
        BY DetectType DEF Apart
    <1>2. ChunkCut(s, k, c) = [d EXCEPT !.held = h, !.cut = TRUE]
        BY DEF ChunkCut
    <1>3. h \in Held /\ h.kind = k /\ h.cut = c
        BY DEF Held
    <1> HIDE DEF d, h
    <1> DEFINE x == ChunkCut(s, k, c)
    <1>4. /\ x \in StreamStates /\ Apart(d, x) /\ x.client = d.client /\ x.sent = d.sent /\ x.cut
          /\ x.held = h /\ x.saw_terminal = d.saw_terminal /\ x.error = d.error
        BY <1>1, <1>2, <1>3, ZenonT(60) DEF StreamStates, Apart
    <1> HIDE DEF x
    <1>5. /\ x \in StreamStates /\ Apart(s, x) /\ x.client = s.client /\ x.sent = s.sent /\ x.cut
          /\ x.held.kind = k /\ x.held.cut = c /\ x.saw_terminal = s.saw_terminal
          /\ x.error => s.error \/ (c = "line" /\ k \in Errors)
        BY <1>1, <1>3, <1>4 DEF Apart
    <1> QED
        BY <1>5 DEF x

LEMMA ChunkRestType ==
    ASSUME NEW s \in StreamStates, s.held # NoLine
    PROVE  LET x == ChunkRest(s)
               k == s.held.kind
               l == IF s.mode = "verbatim" THEN Line(k) ELSE Encoded(k) IN
           /\ k \in Kinds /\ x \in StreamStates /\ Apart(s, x) /\ x.client = Append(s.client, l)
           /\ l \in Lines /\ l.ended /\ l # GatewayEnd
           /\ x.sent = s.sent /\ x.cut = s.cut /\ x.held = NoLine
           /\ x.error => s.error \/ k \in Errors
           /\ x.saw_terminal => s.saw_terminal \/ k \in {"terminal", "finish"}
    <1> DEFINE k == s.held.kind
               l == IF s.mode = "verbatim" THEN Line(k) ELSE Encoded(k)
               d == IF s.mode = "verbatim" THEN s ELSE Decode(s, k)
    <1>1. k \in Kinds
        BY DEF StreamStates, Held
    <1> HIDE DEF k
    <1>2. l \in Lines /\ l.ended /\ l # GatewayEnd
        BY <1>1, LinesType
    <1>3. /\ d \in StreamStates /\ Apart(s, d) /\ d.client = s.client /\ d.sent = s.sent
          /\ d.cut = s.cut
          /\ d.error => s.error \/ k \in Errors
          /\ d.saw_terminal => s.saw_terminal \/ k \in {"terminal", "finish"}
        BY <1>1, DecodeType DEF Apart
    <1>4. ChunkRest(s) = [[d EXCEPT !.client = Append(@, l)] EXCEPT !.held = NoLine]
        BY DEF ChunkRest, k
    <1> HIDE DEF l, d
    <1>5. Append(d.client, l) \in Seq(Lines) /\ NoLine \in Held
        BY <1>2, <1>3, OneMore DEF StreamStates, Held
    <1> DEFINE x == ChunkRest(s)
    <1>6. /\ x \in StreamStates /\ Apart(d, x) /\ x.client = Append(d.client, l)
          /\ x.sent = d.sent /\ x.cut = d.cut /\ x.held = NoLine
          /\ x.error = d.error /\ x.saw_terminal = d.saw_terminal
        BY <1>3, <1>4, <1>5, ZenonT(60) DEF StreamStates, Apart
    <1> HIDE DEF x
    <1>7. /\ x \in StreamStates /\ Apart(s, x) /\ x.client = Append(s.client, l)
          /\ x.sent = s.sent /\ x.cut = s.cut
          /\ x.error => s.error \/ k \in Errors
          /\ x.saw_terminal => s.saw_terminal \/ k \in {"terminal", "finish"}
        BY <1>3, <1>6 DEF Apart
    <1> QED
        BY <1>1, <1>2, <1>6, <1>7 DEF x, l, k

\* Two streams that differ in what was sent and in the number of chunks.
Alike(s, x) ==
    /\ x.pc = s.pc /\ x.mode = s.mode /\ x.reason = s.reason /\ x.completed = s.completed
    /\ x.todo = s.todo /\ x.fails = s.fails /\ x.client = s.client /\ x.cut = s.cut
    /\ x.held = s.held /\ x.error = s.error /\ x.terminal = s.terminal
    /\ x.saw_terminal = s.saw_terminal

LEMMA Counted ==
    ASSUME NEW s \in StreamStates, s.chunks < MaxChunks
    PROVE  LET x == [s EXCEPT !.chunks = @ + 1] IN
           x \in StreamStates /\ Alike(s, x) /\ x.sent = s.sent
    <1>1. s.chunks + 1 \in 0..MaxChunks
        BY KindsKnown DEF StreamStates
    <1> QED
        BY <1>1 DEF StreamStates, Alike

LEMMA Noted ==
    ASSUME NEW s \in StreamStates, NEW k \in Kinds
    PROVE  LET x == [s EXCEPT !.sent = @ \cup {k}] IN
           /\ x \in StreamStates /\ Alike(s, x) /\ x.sent = s.sent \cup {k} /\ x.chunks = s.chunks
    <1>1. s.sent \cup {k} \in SUBSET Kinds
        BY DEF StreamStates
    <1> QED
        BY <1>1 DEF StreamStates, Alike

\* A stream that goes on: the guard and the frames to come are as they were.
LEMMA GoesOn ==
    ASSUME NEW s, NEW x \in StreamStates, Fits(s), s.pc = "relay",
           x.pc = s.pc, x.mode = s.mode, x.reason = s.reason, x.completed = s.completed,
           x.todo = s.todo, FramesFit(x), SignalsFit(x)
    PROVE  Fits(x)
    BY DEF Fits, PhaseFits, TodoFits, Open, NotYet

\* What a stream that relays lines has to show.
LEMMA Relaying ==
    ASSUME NEW s, Fits(s), s.pc = "relay"
    PROVE  /\ s \in StreamStates /\ SignalsFit(s) /\ FramesFit(s) /\ NotYet(s)
           /\ s.client \in Seq(Lines)
           /\ s.client # <<>> => s.client[Len(s.client)].ended
           /\ \A i \in 1..Len(s.client) : s.client[i] # GatewayEnd
    <1>1. s \in StreamStates /\ SignalsFit(s) /\ FramesFit(s) /\ NotYet(s) /\ s.client \in Seq(Lines)
        BY DEF Fits, NotYet, StreamStates
    <1>2. \A i \in 1..Len(s.client) : s.client[i].ended /\ s.client[i] # GatewayEnd
        BY <1>1 DEF FramesFit
    <1>3. s.client # <<>> => Len(s.client) \in 1..Len(s.client)
        BY <1>1
    <1> QED
        BY <1>1, <1>2, <1>3

LEMMA WholeFits ==
    ASSUME NEW s, Fits(s), s.pc = "relay", s.chunks < MaxChunks, s.held = NoLine, NEW k \in Kinds
    PROVE  LET x == [[ChunkWhole(s, k) EXCEPT !.sent = @ \cup {k}] EXCEPT !.chunks = @ + 1] IN
           Fits(x) /\ x.pc = "relay"
    <1> DEFINE d == [ChunkWhole(s, k) EXCEPT !.sent = @ \cup {k}]
               x == [d EXCEPT !.chunks = @ + 1]
               l == IF s.mode = "verbatim" THEN Line(k) ELSE Encoded(k)
    <1>1. s \in StreamStates /\ SignalsFit(s) /\ FramesFit(s) /\ NotYet(s)
        BY Relaying
    <1>2. /\ d \in StreamStates /\ Apart(s, d) /\ d.client = Append(s.client, l)
          /\ l \in Lines /\ l.ended /\ l # GatewayEnd
          /\ d.sent = s.sent \cup {k} /\ d.cut = s.cut /\ d.held = s.held
          /\ d.error <=> s.error \/ k \in Errors
          /\ s.mode = "verbatim" =>
               /\ d.terminal <=> s.terminal \/ k \in {"terminal", "failed"}
               /\ d.saw_terminal = s.saw_terminal
          /\ s.mode # "verbatim" =>
               /\ d.saw_terminal <=> s.saw_terminal \/ k \in {"terminal", "finish"}
               /\ d.terminal = s.terminal
        BY <1>1, ChunkWholeType
    <1> HIDE DEF d, l
    <1>3. x \in StreamStates /\ Alike(d, x) /\ x.sent = d.sent
        BY <1>2, Counted DEF Apart
    <1> HIDE DEF x
    <1>4. FramesFit(x)
        <2>1. x.client = Append(s.client, l)
            BY <1>2, <1>3 DEF Alike
        <2> QED
            BY <1>1, <1>2, <2>1, Relaying, FramesGrow
    <1>5. SignalsFit(x)
        <2>1. /\ x.sent = s.sent \cup {k} /\ x.held = NoLine /\ x.cut = s.cut /\ x.mode = s.mode
              /\ x.error <=> s.error \/ k \in Errors
            BY <1>2, <1>3 DEF Apart, Alike
        <2>2. /\ x.saw_terminal => s.saw_terminal \/ k \in {"terminal", "finish"}
              /\ s.mode = "verbatim" => (x.terminal <=> s.terminal \/ k \in {"terminal", "failed"})
              /\ s.mode = "transcode" =>
                   /\ x.saw_terminal <=> s.saw_terminal \/ k \in {"terminal", "finish"}
                   /\ x.terminal <=> s.terminal
            BY <1>2, <1>3 DEF Alike
        <2>3. /\ x.error => x.sent \cap Errors # {}
              /\ x.saw_terminal => x.sent \cap {"terminal", "finish"} # {}
              /\ x.held.cut # "line"
            BY <1>1, <2>1, <2>2 DEF SignalsFit, NoLine
        <2>4. ASSUME ~x.cut, x.sent \cap Errors # {} PROVE x.error
            BY <1>1, <2>1, <2>4 DEF SignalsFit
        <2>5. ASSUME ~x.cut, x.mode = "verbatim"
              PROVE  x.terminal <=> x.sent \cap {"terminal", "failed"} # {}
            BY <1>1, <2>1, <2>2, <2>5 DEF SignalsFit
        <2>6. ASSUME ~x.cut, x.mode = "transcode"
              PROVE  ~x.terminal /\ (x.sent \cap {"terminal", "finish"} # {} => x.saw_terminal)
            <3>1. ~s.terminal /\ (s.sent \cap {"terminal", "finish"} # {} => s.saw_terminal)
                BY <1>1, <2>1, <2>6 DEF SignalsFit
            <3> QED
                BY <2>1, <2>2, <2>6, <3>1
        <2> QED
            BY <2>1, <2>3, <2>4, <2>5, <2>6 DEF SignalsFit
    <1>6. Fits(x) /\ x.pc = "relay"
        <2>1. /\ x.pc = s.pc /\ x.mode = s.mode /\ x.reason = s.reason
              /\ x.completed = s.completed /\ x.todo = s.todo
            BY <1>2, <1>3 DEF Apart, Alike
        <2> QED
            BY <1>3, <1>4, <1>5, <2>1, GoesOn
    <1> QED
        BY <1>6 DEF x, d

\* What a chunk cut in a line, or after its head, leaves of the stream: the cut line is in
\* the response, so its kind is noted as sent.
CutTo(s, k, c) ==
    IF c = "line" THEN [ChunkCut(s, k, c) EXCEPT !.sent = @ \cup {k}] ELSE ChunkCut(s, k, c)

LEMMA CutFits ==
    ASSUME NEW s, Fits(s), s.pc = "relay", s.chunks < MaxChunks, s.held = NoLine,
           NEW k \in Kinds, NEW c \in {"line", "head"},
           NEW d, d = CutTo(s, k, c)
    PROVE  LET x == [d EXCEPT !.chunks = @ + 1] IN Fits(x) /\ x.pc = "relay"
    <1> DEFINE y == ChunkCut(s, k, c)
               x == [d EXCEPT !.chunks = @ + 1]
    <1>1. s \in StreamStates /\ SignalsFit(s) /\ FramesFit(s) /\ NotYet(s)
        BY Relaying
    <1>2. /\ y \in StreamStates /\ Apart(s, y) /\ y.client = s.client /\ y.sent = s.sent
          /\ y.cut /\ y.held.kind = k /\ y.held.cut = c /\ y.saw_terminal = s.saw_terminal
          /\ y.error => s.error \/ (c = "line" /\ k \in Errors)
        BY <1>1, ChunkCutType
    <1> HIDE DEF y
    <1>3. /\ d \in StreamStates /\ Alike(y, d) /\ d.chunks = y.chunks
          /\ d.sent = IF c = "line" THEN s.sent \cup {k} ELSE s.sent
        <2>1. LET z == [y EXCEPT !.sent = @ \cup {k}] IN
              /\ z \in StreamStates /\ Alike(y, z) /\ z.sent = y.sent \cup {k}
              /\ z.chunks = y.chunks
            BY <1>2, Noted
        <2>2. d = IF c = "line" THEN [y EXCEPT !.sent = @ \cup {k}] ELSE y
            BY DEF y, CutTo
        <2> QED
            BY <1>2, <2>1, <2>2 DEF Alike
    <1>4. x \in StreamStates /\ Alike(d, x) /\ x.sent = d.sent
        BY <1>2, <1>3, Counted DEF Apart
    <1> HIDE DEF x
    <1>5. /\ x.client = s.client /\ x.cut /\ x.held.kind = k /\ x.held.cut = c
          /\ x.saw_terminal = s.saw_terminal /\ (x.error => s.error \/ (c = "line" /\ k \in Errors))
          /\ x.sent = IF c = "line" THEN s.sent \cup {k} ELSE s.sent
          /\ x.pc = s.pc /\ x.mode = s.mode /\ x.reason = s.reason
          /\ x.completed = s.completed /\ x.todo = s.todo
        BY <1>2, <1>3, <1>4 DEF Apart, Alike
    <1>6. FramesFit(x)
        BY <1>1, <1>5, Relaying DEF FramesFit, NotYet
    <1>7. SignalsFit(x)
        BY <1>1, <1>5 DEF SignalsFit
    <1>8. Fits(x) /\ x.pc = "relay"
        BY <1>4, <1>5, <1>6, <1>7, GoesOn
    <1> QED
        BY <1>8 DEF x

LEMMA CutsFit ==
    ASSUME NEW s, Fits(s), s.pc = "relay", s.chunks < MaxChunks, s.held = NoLine, NEW k \in Kinds,
           NEW d, d = [ChunkCut(s, k, "line") EXCEPT !.sent = @ \cup {k}]
                  \/ d = ChunkCut(s, k, "head")
    PROVE  LET x == [d EXCEPT !.chunks = @ + 1] IN Fits(x) /\ x.pc = "relay"
    <1>1. PICK c \in {"line", "head"} : d = CutTo(s, k, c)
        BY DEF CutTo
    <1> QED
        BY <1>1, CutFits

LEMMA CutLineFits ==
    ASSUME NEW s, Fits(s), s.pc = "relay", s.chunks < MaxChunks, s.held = NoLine, NEW k \in Kinds
    PROVE  LET x == [[ChunkCut(s, k, "line") EXCEPT !.sent = @ \cup {k}] EXCEPT !.chunks = @ + 1] IN
           Fits(x) /\ x.pc = "relay"
    <1> DEFINE d == [ChunkCut(s, k, "line") EXCEPT !.sent = @ \cup {k}]
    <1>1. d = [ChunkCut(s, k, "line") EXCEPT !.sent = @ \cup {k}]
        OBVIOUS
    <1> HIDE DEF d
    <1>2. LET x == [d EXCEPT !.chunks = @ + 1] IN Fits(x) /\ x.pc = "relay"
        BY <1>1, CutsFit
    <1> QED
        BY <1>2 DEF d

LEMMA RestFits ==
    ASSUME NEW s, Fits(s), s.pc = "relay", s.chunks < MaxChunks, s.held # NoLine
    PROVE  LET x == [[ChunkRest(s) EXCEPT !.sent = @ \cup {s.held.kind}] EXCEPT !.chunks = @ + 1] IN
           Fits(x) /\ x.pc = "relay"
    <1> DEFINE k == s.held.kind
               l == IF s.mode = "verbatim" THEN Line(k) ELSE Encoded(k)
               d == ChunkRest(s)
               y == [d EXCEPT !.sent = @ \cup {k}]
               x == [y EXCEPT !.chunks = @ + 1]
    <1>1. s \in StreamStates /\ SignalsFit(s) /\ FramesFit(s) /\ NotYet(s)
        BY Relaying
    <1>2. /\ k \in Kinds /\ d \in StreamStates /\ Apart(s, d) /\ d.client = Append(s.client, l)
          /\ l \in Lines /\ l.ended /\ l # GatewayEnd
          /\ d.sent = s.sent /\ d.cut = s.cut /\ d.held = NoLine
          /\ d.error => s.error \/ k \in Errors
          /\ d.saw_terminal => s.saw_terminal \/ k \in {"terminal", "finish"}
        BY <1>1, ChunkRestType
    <1> HIDE DEF k, l, d
    <1>3. y \in StreamStates /\ Alike(d, y) /\ y.sent = d.sent \cup {k} /\ y.chunks = d.chunks
        BY <1>2, Noted
    <1> HIDE DEF y
    <1>4. x \in StreamStates /\ Alike(y, x) /\ x.sent = y.sent
        BY <1>2, <1>3, Counted DEF Apart
    <1> HIDE DEF x
    <1>5. /\ x.client = Append(s.client, l) /\ x.cut = s.cut /\ x.held = NoLine
          /\ x.error => s.error \/ k \in Errors
          /\ x.saw_terminal => s.saw_terminal \/ k \in {"terminal", "finish"}
          /\ x.sent = s.sent \cup {k}
          /\ x.pc = s.pc /\ x.mode = s.mode /\ x.reason = s.reason
          /\ x.completed = s.completed /\ x.todo = s.todo
        BY <1>2, <1>3, <1>4 DEF Apart, Alike
    <1>6. FramesFit(x)
        BY <1>1, <1>2, <1>5, Relaying, FramesGrow
    <1>7. s.cut
        BY <1>1 DEF SignalsFit
    <1>8. SignalsFit(x)
        BY <1>1, <1>5, <1>7 DEF SignalsFit, NoLine
    <1>9. Fits(x) /\ x.pc = "relay"
        BY <1>4, <1>5, <1>6, <1>8, GoesOn
    <1> QED
        BY <1>9 DEF x, y, d, k

-----------------------------------------------------------------------------
(* The request around the stream.                                          *)

LEMMA IdleFits == Fits(Idle)
    <1>1. Idle \in StreamStates
        BY KindsKnown DEF Idle, StreamStates, Held, Reasons, FailureReasons
    <1>2. SignalsFit(Idle) /\ PhaseFits(Idle) /\ TodoFits(Idle)
        BY DEF Idle, SignalsFit, PhaseFits, TodoFits, NoLine, Open, NotYet
    <1>3. Len(Idle.client) = 0
        BY DEF Idle
    <1>4. FramesFit(Idle)
        BY <1>3 DEF FramesFit
    <1> QED
        BY <1>1, <1>2, <1>4 DEF Fits

LEMMA RouteFits ==
    ASSUME NEW s, Fits(s), s.pc = "idle", NEW m \in Modes, NEW e \in EndMarkers
    PROVE  Fits([s EXCEPT !.pc = "calling", !.mode = m, !.end_marker = e])
    <1> DEFINE x == [s EXCEPT !.pc = "calling", !.mode = m, !.end_marker = e]
    <1>1. s = Idle /\ s \in StreamStates /\ SignalsFit(s)
        BY DEF Fits, PhaseFits
    <1>2. m \in {"verbatim", "transcode"} /\ e \in BOOLEAN
        BY KindsKnown
    <1>3. /\ x \in StreamStates /\ x.pc = "calling" /\ x.mode = m /\ x.client = <<>>
          /\ x.sent = {} /\ ~x.error /\ ~x.terminal /\ ~x.saw_terminal /\ x.held = NoLine
          /\ x.reason = "none" /\ ~x.completed /\ x.todo = <<>>
        BY <1>1, <1>2, ZenonT(60) DEF Idle, StreamStates
    <1> HIDE DEF x
    <1>4. SignalsFit(x) /\ PhaseFits(x) /\ TodoFits(x)
        BY <1>2, <1>3 DEF SignalsFit, PhaseFits, TodoFits, NoLine, Open, NotYet
    <1>5. Len(x.client) = 0
        BY <1>3
    <1>6. FramesFit(x)
        BY <1>5 DEF FramesFit
    <1>7. Fits(x)
        BY <1>3, <1>4, <1>6 DEF Fits
    <1> QED
        BY <1>7 DEF x

LEMMA TurnFits ==
    ASSUME NEW s, Fits(s), NEW p,
           \/ s.pc \in {"idle", "calling"} /\ p = "refused"
           \/ s.pc = "calling" /\ p = "relay"
    PROVE  Fits([s EXCEPT !.pc = p])
    <1> DEFINE x == [s EXCEPT !.pc = p]
    <1>1. s \in StreamStates /\ p \in {"refused", "relay"}
        BY DEF Fits
    <1>2. /\ x \in StreamStates /\ x.pc = p /\ x.mode = s.mode /\ x.client = s.client
          /\ x.sent = s.sent /\ x.error = s.error /\ x.terminal = s.terminal /\ x.cut = s.cut
          /\ x.saw_terminal = s.saw_terminal /\ x.held = s.held
          /\ x.reason = s.reason /\ x.completed = s.completed /\ x.todo = s.todo
        BY <1>1 DEF StreamStates
    <1> HIDE DEF x
    <1>3. NotYet(s) /\ NotYet(x)
        BY <1>1, <1>2 DEF NotYet
    <1>4. SignalsFit(x)
        BY <1>2 DEF Fits, SignalsFit
    <1>5. PhaseFits(x) /\ TodoFits(x)
        BY <1>1, <1>2, <1>3 DEF Fits, PhaseFits, TodoFits, Open
    <1>6. FramesFit(x)
        BY <1>2, <1>3 DEF Fits, FramesFit, EndIsDue
    <1>7. Fits(x)
        BY <1>2, <1>4, <1>5, <1>6 DEF Fits
    <1> QED
        BY <1>7 DEF x

-----------------------------------------------------------------------------
(* The ends of a stream.                                                   *)

\* What the ends leave alone.
Kept(s, x) ==
    /\ x.mode = s.mode /\ x.sent = s.sent /\ x.cut = s.cut /\ x.held = s.held
    /\ x.error = s.error /\ x.terminal = s.terminal /\ x.saw_terminal = s.saw_terminal

LEMMA KeptSignals ==
    ASSUME NEW s, NEW x, Kept(s, x), SignalsFit(s)
    PROVE  SignalsFit(x) /\ (EndIsDue(x) <=> EndIsDue(s))
    BY DEF Kept, SignalsFit, EndIsDue

\* The guard hands over.
LEMMA DoneFits ==
    ASSUME NEW s \in StreamStates, SignalsFit(s), FramesFit(s), Open(s),
           s.mode \in {"verbatim", "transcode"}, NEW n \in {1, 2},
           s.reason = "client_disconnect" => ~s.error /\ ~s.terminal /\ ~s.completed,
           s.completed => s.reason = "none",
           s.reason # "none" \/ s.completed \/ s.terminal \/ s.error
    PROVE  Fits([s EXCEPT !.pc = "done", !.todo = <<>>, !.fails = IF ShouldFail(s) THEN n ELSE 0])
    <1> DEFINE f == IF ShouldFail(s) THEN n ELSE 0
               nil == <<>>
               x == [s EXCEPT !.pc = "done", !.todo = nil, !.fails = f]
    <1>1. f \in 0..2 /\ (f > 0 <=> ShouldFail(s))
        OBVIOUS
    <1>0. nil \in Seq(Seq(Lines))
        OBVIOUS
    <1> HIDE DEF f, nil
    <1>2. /\ x \in StreamStates /\ Kept(s, x) /\ x.pc = "done" /\ x.todo = nil /\ x.fails = f
          /\ x.client = s.client /\ x.reason = s.reason /\ x.completed = s.completed
        BY <1>0, <1>1 DEF StreamStates, Kept
    <1> HIDE DEF x
    <1>3. SignalsFit(x) /\ (EndIsDue(x) <=> EndIsDue(s))
        BY <1>2, KeptSignals
    <1>4. FramesFit(x)
        BY <1>2, <1>3 DEF FramesFit, NotYet
    <1>5. PhaseFits(x)
        <2>1. x.error = s.error /\ x.terminal = s.terminal /\ x.mode = s.mode
            BY <1>2 DEF Kept
        <2>2. ShouldFail(x) <=> x.fails > 0
            BY <1>1, <1>2, <2>1 DEF ShouldFail
        <2> QED
            BY <1>2, <2>1, <2>2 DEF PhaseFits, NotYet, Open
    <1>6. Fits(x)
        BY <1>2, <1>3, <1>4, <1>5 DEF Fits, TodoFits, nil
    <1> QED
        BY <1>6 DEF x, f, nil

LEMMA LeaveFits ==
    ASSUME NEW s, Fits(s), s.pc \in {"relay", "closing"}, NEW y,
           y = [s EXCEPT !.reason = IF @ = "none" THEN DropFallbackReason(s) ELSE @]
    PROVE  /\ y \in StreamStates
           /\ Fits([y EXCEPT !.pc = "done", !.todo = <<>>, !.fails = IF ShouldFail(y) THEN 1 ELSE 0])
    <1> DEFINE r == IF s.reason = "none" THEN DropFallbackReason(s) ELSE s.reason
    <1>1. /\ s \in StreamStates /\ r \in Reasons
          /\ s.reason # "none" => r = s.reason
          /\ s.reason = "none" => r = DropFallbackReason(s)
        BY DEF Fits, StreamStates, DropFallbackReason, Reasons
    <1>2. y = [s EXCEPT !.reason = r]
        BY <1>1 DEF StreamStates
    <1> HIDE DEF r
    <1>3. /\ y \in StreamStates /\ Kept(s, y) /\ y.pc = s.pc /\ y.reason = r
          /\ y.client = s.client /\ y.completed = s.completed
        BY <1>1, <1>2 DEF StreamStates, Kept
    <1>4. SignalsFit(y) /\ (EndIsDue(y) <=> EndIsDue(s))
        BY <1>3, KeptSignals DEF Fits
    <1>5. FramesFit(y)
        BY <1>3, <1>4 DEF Fits, FramesFit, NotYet
    <1>6. /\ Open(y) /\ y.mode \in {"verbatim", "transcode"}
          /\ s.reason # "client_disconnect" /\ (s.completed => s.reason = "none")
        BY <1>3 DEF Fits, PhaseFits, Open, Kept
    <1>7. /\ y.reason = "client_disconnect" => ~y.error /\ ~y.terminal /\ ~y.completed
          /\ y.completed => y.reason = "none"
          /\ y.reason # "none" \/ y.completed \/ y.terminal \/ y.error
        BY <1>1, <1>3, <1>6 DEF DropFallbackReason, Kept
    <1> QED
        BY <1>3, <1>4, <1>5, <1>6, <1>7, DoneFits

\* One frame is yielded: it keeps the order of the frames if it may come next.
LEMMA YieldFits ==
    ASSUME NEW s \in StreamStates, SignalsFit(s), FramesFit(s),
           s.pc \in {"relay", "closing"}, s.mode \in {"verbatim", "transcode"},
           s.reason # "client_disconnect", s.completed => s.reason = "none",
           s.reason # "none" \/ s.completed,
           NEW l \in Lines, NEW rest \in Seq(Seq(Lines)), s.todo = <<<<l>>>> \o rest,
           l = GatewayEnd => EndIsDue(s) /\ \A i \in 1..Len(s.client) : s.client[i] # GatewayEnd,
           l = GatewayError /\ s.client # <<>> => s.client[Len(s.client)].ended,
           \/ rest = <<>>
           \/ rest = <<<<GatewayError>>>> /\ l.ended
           \/ rest = <<<<Blank>>, <<GatewayError>>>>
           \/ \E k \in Kinds : rest = <<<<Unended(k)>>>>
    PROVE  Fits(Yield(s))
    <1> DEFINE c == s.client \o Head(s.todo)
               t == Tail(s.todo)
               x == [s EXCEPT !.client = c, !.todo = t, !.pc = "closing"]
    <1>1. s.client \in Seq(Lines)
        BY DEF StreamStates
    <1>2. Head(s.todo) = <<l>> /\ t = rest
        OBVIOUS
    <1>3. c = Append(s.client, l) /\ c \in Seq(Lines) /\ c # <<>> /\ c[Len(c)] = l
        BY <1>1, <1>2, OneMore
    <1>4. Yield(s) = x
        BY DEF Yield, StreamStates
    <1> HIDE DEF c, t
    <1>5. /\ x \in StreamStates /\ Kept(s, x) /\ x.pc = "closing" /\ x.todo = t /\ x.client = c
          /\ x.reason = s.reason /\ x.completed = s.completed
        BY <1>2, <1>3 DEF StreamStates, Kept
    <1> HIDE DEF x
    <1>6. SignalsFit(x) /\ (EndIsDue(x) <=> EndIsDue(s)) /\ ~NotYet(x)
        BY <1>5, KeptSignals DEF NotYet
    <1>7. FramesFit(x)
        BY <1>1, <1>3, <1>5, <1>6, FramesGrow
    <1>8. PhaseFits(x)
        BY <1>5, <1>6 DEF PhaseFits, Open, Kept
    <1>9. TodoFits(x)
        BY <1>2, <1>3, <1>5 DEF TodoFits
    <1> QED
        BY <1>4, <1>5, <1>6, <1>7, <1>8, <1>9 DEF Fits

\* The last two frames in one piece: a line that was flushed, the end frame.
LEMMA YieldLastTwo ==
    ASSUME NEW s \in StreamStates, SignalsFit(s), FramesFit(s),
           s.pc = "relay", s.mode \in {"verbatim", "transcode"},
           s.completed, s.reason = "none",
           NEW l \in Lines, l # GatewayEnd, l # GatewayError,
           s.todo = <<<<l, GatewayEnd>>>>,
           EndIsDue(s), \A i \in 1..Len(s.client) : s.client[i] # GatewayEnd
    PROVE  Fits(Yield(s))
    <1> DEFINE c == s.client \o Head(s.todo)
               t == Tail(s.todo)
               x == [s EXCEPT !.client = c, !.todo = t, !.pc = "closing"]
               b == Append(s.client, l)
               y == [s EXCEPT !.client = b, !.pc = "closing"]
    <1>1. s.client \in Seq(Lines) /\ GatewayEnd \in Lines /\ GatewayEnd # GatewayError
        BY LinesType DEF StreamStates
    <1>2. Head(s.todo) = <<l, GatewayEnd>> /\ t = <<>> /\ t \in Seq(Seq(Lines))
        OBVIOUS
    <1>3. /\ b \in Seq(Lines) /\ b = s.client \o <<l>>
          /\ \A i \in 1..Len(b) : b[i] # GatewayEnd
        <2>1. /\ b \in Seq(Lines) /\ b = s.client \o <<l>> /\ Len(b) = Len(s.client) + 1
              /\ b[Len(s.client) + 1] = l /\ \A i \in 1..Len(s.client) : b[i] = s.client[i]
            BY <1>1, OneMore
        <2>2. Len(s.client) \in Nat
            BY <1>1
        <2> HIDE DEF b
        <2>3. \A i \in 1..Len(b) : i \in 1..Len(s.client) \/ i = Len(s.client) + 1
            BY <2>1, <2>2
        <2> QED
            BY <2>1, <2>3
    <1>4. c = Append(b, GatewayEnd) /\ c \in Seq(Lines)
        BY <1>1, <1>2, <1>3
    <1>5. Yield(s) = x
        BY DEF Yield, StreamStates
    <1> HIDE DEF c, t, b
    <1>6. /\ x \in StreamStates /\ Kept(s, x) /\ x.pc = "closing" /\ x.todo = t /\ x.client = c
          /\ x.reason = s.reason /\ x.completed = s.completed
        BY <1>2, <1>4 DEF StreamStates, Kept
    <1>7. /\ y \in StreamStates /\ Kept(s, y) /\ y.pc = "closing" /\ y.client = b
        BY <1>3 DEF StreamStates, Kept
    <1> HIDE DEF x, y
    <1>8. SignalsFit(x) /\ EndIsDue(x) /\ ~NotYet(x)
        BY <1>6, KeptSignals DEF NotYet
    <1>9. EndIsDue(y) /\ ~NotYet(y)
        BY <1>7, KeptSignals DEF NotYet
    <1>10. FramesFit(y)
        <2>1. y.client = Append(s.client, l)
            BY <1>7 DEF b
        <2> QED
            BY <1>1, <1>9, <2>1, FramesGrow
    <1>11. FramesFit(x)
        <2>1. x.client = Append(y.client, GatewayEnd) /\ y.client \in Seq(Lines)
            BY <1>3, <1>4, <1>6, <1>7
        <2> QED
            BY <1>1, <1>3, <1>7, <1>8, <1>9, <1>10, <2>1, FramesGrow
    <1>12. PhaseFits(x)
        BY <1>6, <1>8 DEF PhaseFits, Open, Kept
    <1> QED
        BY <1>2, <1>5, <1>6, <1>8, <1>11, <1>12 DEF Fits, TodoFits

LEMMA SameSeq ==
    ASSUME NEW S, NEW u \in Seq(S), NEW v \in Seq(S), NEW n \in Nat, Len(u) = n, Len(v) = n,
           \A i \in 1..n : u[i] = v[i]
    PROVE  u = v
    OBVIOUS

LEMMA Pieces ==
    ASSUME NEW a, NEW b, NEW c
    PROVE  /\ (<<>> \o <<>>) \o <<c>> = <<c>> /\ <<a>> \o <<b>> = <<a, b>>
           /\ <<>> \o <<c>> = <<c>> /\ <<a>> \o <<>> = <<a>>
    <1> DEFINE S == {a, b, c}
    <1>0. a \in S /\ b \in S /\ c \in S
        OBVIOUS
    <1> HIDE DEF S
    <1>1. <<a>> \o <<b>> = <<a, b>>
        <2> DEFINE u == <<a>> \o <<b>>
                   v == <<a, b>>
        <2>1. u \in Seq(S) /\ v \in Seq(S)
            BY <1>0
        <2>2. Len(u) = 2 /\ Len(v) = 2 /\ u[1] = a /\ u[2] = b /\ v[1] = a /\ v[2] = b
            BY <1>0
        <2> HIDE DEF u, v
        <2>3. \A i \in 1..2 : u[i] = v[i]
            BY <2>2
        <2>4. u = v
            BY <2>1, <2>2, <2>3, SameSeq
        <2> QED
            BY <2>4 DEF u, v
    <1>3. <<>> \o <<>> = <<>> /\ <<>> \o <<c>> = <<c>> /\ <<a>> \o <<>> = <<a>>
        BY <1>0
    <1> QED
        BY <1>1, <1>3

LEMMA Longer ==
    ASSUME NEW S, NEW u \in Seq(S), NEW c \in S
    PROVE  /\ u \o <<c>> \in Seq(S) /\ Len(u \o <<c>>) = Len(u) + 1
           /\ (u \o <<c>>)[Len(u) + 1] = c
           /\ \A i \in 1..Len(u) : (u \o <<c>>)[i] = u[i]
    OBVIOUS

LEMMA Three ==
    ASSUME NEW a, NEW b, NEW c
    PROVE  /\ (<<a>> \o <<b>>) \o <<c>> = <<a, b, c>>
           /\ <<a>> \o <<b, c>> = <<a, b, c>>
    <1> DEFINE S == {a, b, c}
               u == <<a>> \o <<b>>
               g == u \o <<c>>
               v == <<a, b, c>>
               w == <<a>> \o <<b, c>>
    <1>1. a \in S /\ b \in S /\ c \in S
        OBVIOUS
    <1> HIDE DEF S
    <1>2. u \in Seq(S) /\ Len(u) = 2 /\ u[1] = a /\ u[2] = b
        BY <1>1
    <1> HIDE DEF u
    <1>3. g \in Seq(S) /\ Len(g) = 3 /\ g[1] = a /\ g[2] = b /\ g[3] = c
        <2>1. u \in Seq(S) /\ c \in S
            BY <1>1, <1>2
        <2>2. /\ g \in Seq(S) /\ Len(g) = Len(u) + 1 /\ g[Len(u) + 1] = c
              /\ \A i \in 1..Len(u) : g[i] = u[i]
            BY <2>1, Longer
        <2> HIDE DEF g
        <2> QED
            BY <1>2, <2>2
    <1>4. /\ v \in Seq(S) /\ Len(v) = 3 /\ v[1] = a /\ v[2] = b /\ v[3] = c
          /\ w \in Seq(S) /\ Len(w) = 3 /\ w[1] = a /\ w[2] = b /\ w[3] = c
        BY <1>1
    <1> HIDE DEF g, v, w
    <1>5. \A i \in 1..3 : g[i] = v[i] /\ w[i] = v[i]
        BY <1>3, <1>4
    <1>6. g = v
        BY <1>3, <1>4, <1>5, SameSeq
    <1>7. w = v
        BY <1>3, <1>4, <1>5, SameSeq
    <1> QED
        BY <1>6, <1>7 DEF g, u, v, w

LEMMA SmallSeq ==
    ASSUME NEW S, NEW a \in S, NEW b \in S, NEW c \in S
    PROVE  <<>> \in Seq(S) /\ <<a>> \in Seq(S) /\ <<a, b>> \in Seq(S) /\ <<a, b, c>> \in Seq(S)
    OBVIOUS

\* Truncation: the rest of an open line, a blank line behind it, the error frame.
LEMMA TruncateFits ==
    ASSUME NEW s, Fits(s), s.pc = "relay", NEW r \in FailureReasons
    PROVE  Fits(Yield([s EXCEPT !.reason = r, !.todo = ErrorFrames(s)]))
    <1> DEFINE f == ErrorFrames(s)
               y == [s EXCEPT !.reason = r, !.todo = f]
               k == s.held.kind
    <1>1. /\ s \in StreamStates /\ SignalsFit(s) /\ FramesFit(s) /\ ~s.completed
          /\ s.mode \in {"verbatim", "transcode"}
        BY DEF Fits, PhaseFits, NotYet, Open
    <1>2. s.held # NoLine => k \in Kinds
        BY <1>1 DEF StreamStates, Held
    <1>3. \/ f = <<<<GatewayError>>>>
          \/ s.held # NoLine /\ f = <<<<Unended(k)>>, <<Blank>>, <<GatewayError>>>>
        <2>1. CASE s.mode = "transcode"
            BY <2>1 DEF ErrorFrames
        <2>2. CASE s.mode # "transcode" /\ s.held = NoLine
            <3>1. f = (<<>> \o <<>>) \o <<<<GatewayError>>>>
                BY <2>2 DEF ErrorFrames, TailEndsOnFrameBoundary
            <3> QED
                BY <3>1, Pieces
        <2>3. CASE s.mode # "transcode" /\ s.held # NoLine
            <3> DEFINE a == <<Unended(k)>>
                       b == <<Blank>>
                       c == <<GatewayError>>
            <3>1. f = (<<a>> \o <<b>>) \o <<c>>
                BY <2>3 DEF ErrorFrames, TailEndsOnFrameBoundary
            <3> HIDE DEF f, a, b, c
            <3>2. (<<a>> \o <<b>>) \o <<c>> = <<a, b, c>>
                BY Three
            <3> QED
                BY <2>3, <3>1, <3>2 DEF a, b, c
        <2> QED
            BY <2>1, <2>2, <2>3
    <1> HIDE DEF k, f
    <1> DEFINE l == IF f = <<<<GatewayError>>>> THEN GatewayError ELSE Unended(k)
               rest == IF f = <<<<GatewayError>>>> THEN <<>> ELSE <<<<Blank>>, <<GatewayError>>>>
    <1>4. l \in Lines /\ rest \in Seq(Seq(Lines)) /\ f \in Seq(Seq(Lines)) /\ l # GatewayEnd
        <2>1. /\ GatewayError \in Lines /\ Blank \in Lines /\ GatewayError # GatewayEnd
              /\ <<GatewayError>> \in Seq(Lines) /\ <<Blank>> \in Seq(Lines)
            BY LinesType, SmallSeq
        <2>2. s.held # NoLine => /\ Unended(k) \in Lines /\ Unended(k) # GatewayEnd
                                 /\ <<Unended(k)>> \in Seq(Lines)
            BY <1>2, LinesType, SmallSeq
        <2>3. rest \in Seq(Seq(Lines))
            BY <2>1, SmallSeq
        <2>4. f \in Seq(Seq(Lines))
            BY <1>3, <2>1, <2>2, SmallSeq
        <2>5. l \in Lines /\ l # GatewayEnd
            BY <1>3, <2>1, <2>2
        <2> QED
            BY <2>3, <2>4, <2>5
    <1>5. f = <<<<l>>>> \o rest
        <2>1. CASE f = <<<<GatewayError>>>>
            <3>1. l = GatewayError /\ rest = <<>>
                BY <2>1
            <3> HIDE DEF l, rest
            <3> QED
                BY <2>1, <3>1, Pieces
        <2>2. CASE f # <<<<GatewayError>>>>
            <3>1. l = Unended(k) /\ rest = <<<<Blank>>, <<GatewayError>>>>
                BY <2>2
            <3> HIDE DEF l, rest
            <3> QED
                BY <1>3, <2>2, <3>1, Pieces
        <2> QED
            BY <2>1, <2>2
    <1>6. rest = <<>> \/ rest = <<<<Blank>>, <<GatewayError>>>>
        OBVIOUS
    <1> HIDE DEF f, l, rest
    <1>7. /\ y \in StreamStates /\ Kept(s, y) /\ y.pc = "relay" /\ y.todo = f /\ y.reason = r
          /\ y.client = s.client /\ y.completed = s.completed
        BY <1>1, <1>4 DEF StreamStates, Kept, Reasons
    <1> HIDE DEF y
    <1>8. SignalsFit(y) /\ FramesFit(y)
        BY <1>1, <1>7, KeptSignals DEF FramesFit, NotYet
    <1>9. r # "client_disconnect" /\ r # "none"
        BY DEF FailureReasons
    <1>10. Fits(Yield(y))
        <2>1. /\ y.mode \in {"verbatim", "transcode"} /\ ~y.completed /\ y.pc \in {"relay", "closing"}
              /\ y.reason # "client_disconnect" /\ y.reason # "none" /\ y.todo = <<<<l>>>> \o rest
            BY <1>1, <1>5, <1>7, <1>9 DEF Kept
        <2>2. y.client # <<>> => y.client[Len(y.client)].ended
            BY <1>7, Relaying
        <2> QED
            BY <1>4, <1>6, <1>7, <1>8, <2>1, <2>2, YieldFits
    <1> QED
        BY <1>10 DEF y, f

\* Every frame that is left, until none is.
LEMMA ResumeFits ==
    ASSUME NEW s, Fits(s), s.pc = "closing", s.todo # <<>>
    PROVE  Fits(Yield(s))
    <1>1. /\ s \in StreamStates /\ SignalsFit(s) /\ FramesFit(s)
          /\ s.mode \in {"verbatim", "transcode"} /\ s.reason # "client_disconnect"
          /\ (s.completed => s.reason = "none") /\ (s.reason # "none" \/ s.completed)
        BY DEF Fits, PhaseFits, Open
    <1>2. GatewayError \in Lines /\ Blank \in Lines /\ <<>> \in Seq(Seq(Lines)) /\ Blank.ended
          /\ Blank # GatewayError /\ Blank # GatewayEnd /\ GatewayError # GatewayEnd
        BY LinesType
    <1>3. CASE s.todo = <<<<GatewayError>>>> /\ (s.client # <<>> => s.client[Len(s.client)].ended)
        <2>1. s.todo = <<<<GatewayError>>>> \o <<>>
            BY <1>3
        <2> QED
            BY <1>1, <1>2, <1>3, <2>1, YieldFits
    <1>4. CASE s.todo = <<<<Blank>>, <<GatewayError>>>>
        <2> DEFINE rest == <<<<GatewayError>>>>
        <2>1. s.todo = <<<<Blank>>>> \o rest /\ rest \in Seq(Seq(Lines))
            BY <1>2, <1>4
        <2> QED
            BY <1>1, <1>2, <2>1, YieldFits
    <1>5. CASE \E k \in Kinds : s.todo = <<<<Unended(k)>>>>
        <2>1. PICK k \in Kinds : s.todo = <<<<Unended(k)>>>>
            BY <1>5
        <2>2. s.todo = <<<<Unended(k)>>>> \o <<>>
            BY <2>1
        <2>3. Unended(k) \in Lines /\ Unended(k) # GatewayEnd /\ Unended(k) # GatewayError
            BY LinesType
        <2> QED
            BY <1>1, <1>2, <2>2, <2>3, YieldFits
    <1> QED
        BY <1>3, <1>4, <1>5 DEF Fits, TodoFits

\* The upstream closed its stream.
LEMMA EndState ==
    ASSUME NEW s0, Fits(s0), s0.pc = "relay"
    PROVE  LET s == [s0 EXCEPT !.reason = "none", !.completed = TRUE] IN
           /\ s \in StreamStates /\ SignalsFit(s) /\ FramesFit(s) /\ s.pc = "relay"
           /\ s.mode \in {"verbatim", "transcode"} /\ s.completed /\ s.reason = "none"
    <1> DEFINE s == [s0 EXCEPT !.reason = "none", !.completed = TRUE]
    <1>1. /\ s0 \in StreamStates /\ SignalsFit(s0) /\ FramesFit(s0)
          /\ s0.mode \in {"verbatim", "transcode"} /\ NotYet(s0)
        BY DEF Fits, PhaseFits, NotYet, Open
    <1>2. /\ s \in StreamStates /\ Kept(s0, s) /\ s.pc = "relay"
          /\ s.reason = "none" /\ s.client = s0.client /\ s.completed
        BY <1>1 DEF StreamStates, Kept, Reasons
    <1> HIDE DEF s
    <1>3. SignalsFit(s) /\ (EndIsDue(s) <=> EndIsDue(s0))
        BY <1>1, <1>2, KeptSignals
    <1>4. FramesFit(s)
        BY <1>1, <1>2, <1>3 DEF FramesFit, NotYet
    <1>5. s.mode \in {"verbatim", "transcode"}
        BY <1>1, <1>2 DEF Kept
    <1> QED
        BY <1>2, <1>3, <1>4, <1>5 DEF s

LEMMA TodoState ==
    ASSUME NEW s \in StreamStates, SignalsFit(s), FramesFit(s), s.pc = "relay",
           s.mode \in {"verbatim", "transcode"}, s.completed, s.reason = "none",
           NEW f \in Seq(Seq(Lines))
    PROVE  LET y == [s EXCEPT !.todo = f] IN
           /\ y \in StreamStates /\ SignalsFit(y) /\ FramesFit(y) /\ y.pc = "relay"
           /\ y.mode \in {"verbatim", "transcode"} /\ y.completed /\ y.reason = "none"
           /\ y.todo = f /\ y.client = s.client /\ (EndIsDue(y) <=> EndIsDue(s))
    <1> DEFINE y == [s EXCEPT !.todo = f]
    <1>1. /\ y \in StreamStates /\ Kept(s, y) /\ y.pc = "relay" /\ y.todo = f
          /\ y.reason = "none" /\ y.client = s.client /\ y.completed
        BY DEF StreamStates, Kept
    <1> HIDE DEF y
    <1>2. SignalsFit(y) /\ (EndIsDue(y) <=> EndIsDue(s))
        BY <1>1, KeptSignals
    <1>3. FramesFit(y)
        BY <1>1, <1>2 DEF FramesFit, NotYet
    <1>4. y.mode \in {"verbatim", "transcode"}
        BY <1>1 DEF Kept
    <1> QED
        BY <1>1, <1>2, <1>3, <1>4 DEF y

LEMMA EndLines ==
    ASSUME NEW s \in StreamStates, FramesFit(s), s.pc = "relay"
    PROVE  /\ \A i \in 1..Len(s.client) : s.client[i] # GatewayEnd
           /\ s.held # NoLine => s.held.kind \in Kinds
    BY DEF FramesFit, NotYet, StreamStates, Held

\* Transcoding: the end frame goes out where one is due, behind the flushed line.
LEMMA TranscodedFits ==
    ASSUME NEW s \in StreamStates, SignalsFit(s), FramesFit(s), s.pc = "relay",
           s.mode = "transcode", s.completed, s.reason = "none",
           NEW frames, frames = TranscodedEnd(s), frames # <<>>
    PROVE  Fits(Yield([s EXCEPT !.todo = frames]))
    <1> DEFINE y == [s EXCEPT !.todo = frames]
    <1> SUFFICES Fits(Yield(y))
        OBVIOUS
    <1>3. s.mode \in {"verbatim", "transcode"} /\ SignalsFit(s)
        OBVIOUS
    <1>4. /\ \A i \in 1..Len(s.client) : s.client[i] # GatewayEnd
          /\ s.held # NoLine => s.held.kind \in Kinds
        BY EndLines
    <1>5. /\ GatewayEnd \in Lines /\ GatewayEnd # GatewayError /\ GatewayEnd.ended
          /\ <<>> \in Seq(Seq(Lines)) /\ <<GatewayEnd>> \in Seq(Lines) /\ <<>> \in Seq(Lines)
          /\ <<<<GatewayEnd>>>> \in Seq(Seq(Lines))
        BY LinesType, SmallSeq
    <1>6. ASSUME frames \in Seq(Seq(Lines))
          PROVE  /\ y \in StreamStates /\ SignalsFit(y) /\ FramesFit(y) /\ y.pc = "relay"
                 /\ y.mode \in {"verbatim", "transcode"} /\ y.completed /\ y.reason = "none"
                 /\ y.todo = frames /\ y.client = s.client /\ (EndIsDue(y) <=> EndIsDue(s))
        BY <1>3, <1>6, TodoState
    <1> DEFINE flushed == s.held.cut = "line"
               saw == s.saw_terminal \/ (flushed /\ s.held.kind \in {"terminal", "finish"})
               completed == "terminal" \in s.sent
               k == s.held.kind
               a == IF flushed /\ k # "bad" THEN <<Encoded(k)>> ELSE <<>>
               b == IF saw /\ ~completed THEN <<GatewayEnd>> ELSE <<>>
               c == IF NeedsEnd(s, saw) /\ s.end_marker THEN <<GatewayEnd>> ELSE <<>>
               out == (a \o b) \o c
    <1>11. frames = IF out = <<>> THEN <<>> ELSE <<out>>
        BY DEF TranscodedEnd
    <1>12. flushed => k \in Kinds /\ k \in s.sent
        BY <1>3, <1>4 DEF SignalsFit, NoLine
    <1>13. saw => s.sent \cap {"terminal", "finish"} # {}
        BY <1>3, <1>12 DEF SignalsFit
    <1>14. saw /\ ~completed => EndIsDue(s)
        BY <1>13 DEF EndIsDue
    <1>15. NeedsEnd(s, saw) => EndIsDue(s) /\ ~saw
        <2>1. NeedsEnd(s, saw) => s.error /\ ~saw
            BY DEF NeedsEnd
        <2>2. s.error => s.sent \cap Errors # {}
            BY <1>3 DEF SignalsFit
        <2>3. ~s.cut /\ "terminal" \in s.sent => s.saw_terminal
            BY <1>3 DEF SignalsFit
        <2> QED
            BY <2>1, <2>2, <2>3 DEF EndIsDue
    <1> DEFINE e == IF (saw /\ ~completed) \/ (NeedsEnd(s, saw) /\ s.end_marker)
                    THEN <<GatewayEnd>> ELSE <<>>
    <1>16. out = a \o e /\ (e = <<>> \/ (e = <<GatewayEnd>> /\ EndIsDue(s)))
        <2>1. a \in Seq(Lines)
            BY <1>12, LinesType, SmallSeq
        <2>2. b = <<>> \/ c = <<>>
            BY <1>15
        <2>3. \/ b = <<>> /\ c = e
              \/ c = <<>> /\ b = e
            BY <2>2
        <2>4. e = <<>> \/ (e = <<GatewayEnd>> /\ EndIsDue(s))
            BY <1>14, <1>15
        <2> HIDE DEF a, b, c, e
        <2>5. e \in Seq(Lines)
            BY <1>5, <2>4, SmallSeq
        <2>6. a \o <<>> = a /\ (a \o e) \o <<>> = a \o e
            BY <2>1, <2>5
        <2> QED
            BY <2>3, <2>4, <2>6
    <1>17. a = <<>> \/ (k \in Kinds /\ k # "bad" /\ a = <<Encoded(k)>>)
        BY <1>12
    <1> HIDE DEF a, e, out, k, flushed, saw, completed
    <1>18. CASE a = <<>> /\ e = <<>>
        BY <1>11, <1>16, <1>18, Pieces
    <1>19. CASE a = <<>> /\ e = <<GatewayEnd>>
        <2>1. out = <<GatewayEnd>> /\ frames = <<<<GatewayEnd>>>>
            BY <1>11, <1>16, <1>19, Pieces
        <2>2. frames \in Seq(Seq(Lines)) /\ frames = <<<<GatewayEnd>>>> \o <<>> /\ EndIsDue(s)
            BY <1>5, <1>16, <1>19, <2>1, Pieces, SmallSeq
        <2> HIDE DEF y
        <2>3. <<>> \in Seq(Seq(Lines))
            OBVIOUS
        <2> QED
            BY <1>4, <1>5, <1>6, <2>2, <2>3, YieldFits
    <1>20. CASE k \in Kinds /\ k # "bad" /\ a = <<Encoded(k)>> /\ e = <<>>
        <2>1. out = <<Encoded(k)>> /\ frames = <<<<Encoded(k)>>>>
            BY <1>11, <1>16, <1>20, Pieces
        <2>2. Encoded(k) \in Lines /\ Encoded(k) # GatewayEnd /\ Encoded(k) # GatewayError
            BY <1>20, LinesType
        <2>3. frames \in Seq(Seq(Lines)) /\ frames = <<<<Encoded(k)>>>> \o <<>>
            <3>1. <<Encoded(k)>> \in Seq(Lines)
                BY <2>2, SmallSeq
            <3> QED
                BY <2>1, <3>1, Pieces, SmallSeq
        <2> HIDE DEF y
        <2>4. <<>> \in Seq(Seq(Lines))
            OBVIOUS
        <2> QED
            BY <1>6, <2>2, <2>3, <2>4, YieldFits
    <1>21. CASE k \in Kinds /\ k # "bad" /\ a = <<Encoded(k)>> /\ e = <<GatewayEnd>>
        <2>1. out = <<Encoded(k), GatewayEnd>> /\ frames = <<<<Encoded(k), GatewayEnd>>>>
            <3>1. out = <<Encoded(k)>> \o <<GatewayEnd>>
                BY <1>16, <1>21
            <3>2. out = <<Encoded(k), GatewayEnd>>
                BY <3>1, Pieces, Zenon
            <3> QED
                BY <1>11, <3>2
        <2>2. Encoded(k) \in Lines /\ Encoded(k) # GatewayEnd /\ Encoded(k) # GatewayError
            BY <1>21, LinesType
        <2>3. frames \in Seq(Seq(Lines)) /\ EndIsDue(s)
            <3>1. <<Encoded(k), GatewayEnd>> \in Seq(Lines)
                BY <1>5, <2>2, SmallSeq
            <3> QED
                BY <1>16, <1>21, <2>1, <3>1, SmallSeq
        <2> HIDE DEF y
        <2> QED
            BY <1>4, <1>6, <2>1, <2>2, <2>3, YieldLastTwo
    <1> QED
        BY <1>16, <1>17, <1>18, <1>19, <1>20, <1>21

\* Verbatim: the end frame goes out where one is due, before the open line.
LEMMA VerbatimFits ==
    ASSUME NEW s \in StreamStates, SignalsFit(s), FramesFit(s), s.pc = "relay",
           s.mode = "verbatim", s.completed, s.reason = "none",
           NEW frames, frames = VerbatimEnd(s), frames # <<>>
    PROVE  Fits(Yield([s EXCEPT !.todo = frames]))
    <1> DEFINE y == [s EXCEPT !.todo = frames]
    <1> SUFFICES Fits(Yield(y))
        OBVIOUS
    <1>3. s.mode \in {"verbatim", "transcode"} /\ SignalsFit(s)
        OBVIOUS
    <1>4. /\ \A i \in 1..Len(s.client) : s.client[i] # GatewayEnd
          /\ s.held # NoLine => s.held.kind \in Kinds
        BY EndLines
    <1>5. /\ GatewayEnd \in Lines /\ GatewayEnd # GatewayError /\ GatewayEnd.ended
          /\ <<>> \in Seq(Seq(Lines)) /\ <<GatewayEnd>> \in Seq(Lines) /\ <<>> \in Seq(Lines)
          /\ <<<<GatewayEnd>>>> \in Seq(Seq(Lines))
        BY LinesType, SmallSeq
    <1>6. ASSUME frames \in Seq(Seq(Lines))
          PROVE  /\ y \in StreamStates /\ SignalsFit(y) /\ FramesFit(y) /\ y.pc = "relay"
                 /\ y.mode \in {"verbatim", "transcode"} /\ y.completed /\ y.reason = "none"
                 /\ y.todo = frames /\ y.client = s.client /\ (EndIsDue(y) <=> EndIsDue(s))
        BY <1>3, <1>6, TodoState
    <1> DEFINE k == s.held.kind
               a == IF NeedsEnd(s, s.terminal) /\ s.end_marker THEN <<<<GatewayEnd>>>> ELSE <<>>
               b == IF s.held # NoLine THEN <<<<Unended(k)>>>> ELSE <<>>
    <1>11. frames = a \o b
        BY DEF VerbatimEnd
    <1>12. NeedsEnd(s, s.terminal) => EndIsDue(s)
        <2>1. NeedsEnd(s, s.terminal) => s.error /\ ~s.terminal
            BY DEF NeedsEnd
        <2>2. s.error => s.sent \cap Errors # {}
            BY <1>3 DEF SignalsFit
        <2>3. ~s.cut /\ "terminal" \in s.sent => s.terminal
            BY <1>3 DEF SignalsFit
        <2> QED
            BY <2>1, <2>2, <2>3 DEF EndIsDue
    <1>13. a = <<>> \/ (a = <<<<GatewayEnd>>>> /\ EndIsDue(s))
        BY <1>12
    <1>14. b = <<>> \/ (b = <<<<Unended(k)>>>> /\ k \in Kinds)
        BY <1>4
    <1>15. k \in Kinds =>
            Unended(k) \in Lines /\ Unended(k) # GatewayEnd /\ Unended(k) # GatewayError
        BY LinesType
    <1> HIDE DEF a, b, k, y
    <1>16. b \in Seq(Seq(Lines)) /\ <<>> \in Seq(Seq(Lines))
        <2>1. k \in Kinds => <<Unended(k)>> \in Seq(Lines)
            BY <1>15, SmallSeq
        <2>2. k \in Kinds => <<<<Unended(k)>>>> \in Seq(Seq(Lines))
            BY <2>1, SmallSeq
        <2> QED
            BY <1>5, <1>14, <2>2
    <1>17. CASE a = <<<<GatewayEnd>>>> /\ EndIsDue(s)
        <2>1. frames \in Seq(Seq(Lines)) /\ frames = <<<<GatewayEnd>>>> \o b
            BY <1>5, <1>11, <1>16, <1>17
        <2> QED
            BY <1>4, <1>5, <1>6, <1>14, <1>16, <1>17, <2>1, YieldFits
    <1>18. CASE a = <<>>
        <2>1. frames = <<<<Unended(k)>>>> /\ k \in Kinds
            BY <1>11, <1>14, <1>18, Pieces
        <2>2. frames \in Seq(Seq(Lines)) /\ frames = <<<<Unended(k)>>>> \o <<>>
            <3>1. <<Unended(k)>> \in Seq(Lines)
                BY <1>15, <2>1, SmallSeq
            <3> QED
                BY <2>1, <3>1, Pieces, SmallSeq
        <2> QED
            BY <1>6, <1>15, <1>16, <2>1, <2>2, YieldFits
    <1> QED
        BY <1>13, <1>17, <1>18

-----------------------------------------------------------------------------
(* The sink's statements.                                                  *)

\* The usage and its cost are as they were.
SameUsage(row, r) ==
    r.tokens = row.tokens /\ r.cost = row.cost /\ r.virtual_model = row.virtual_model

LEMMA PresentRow ==
    ASSUME NEW row \in RowStates
    PROVE  LET r == Present(row) IN
           /\ r \in RowStates /\ SameUsage(row, r) /\ r.reason = row.reason
           /\ r.http = row.http
           /\ r.status = IF row.status = "none" THEN "pending" ELSE row.status
    BY DEF Present, RowStates, SameUsage

LEMMA TokensRow ==
    ASSUME NEW row \in RowStates
    PROVE  LET r == UpdateRequestTokens(row) IN
           /\ r \in RowStates /\ r.tokens /\ r.cost = row.cost
           /\ r.virtual_model = row.virtual_model /\ r.reason = row.reason
           /\ r.http = row.http
           /\ r.status = IF row.status = "none" THEN "pending" ELSE row.status
    <1> DEFINE p == Present(row)
    <1>1. /\ p \in RowStates /\ SameUsage(row, p) /\ p.reason = row.reason /\ p.http = row.http
          /\ p.status = IF row.status = "none" THEN "pending" ELSE row.status
        BY PresentRow
    <1> HIDE DEF p
    <1>2. UpdateRequestTokens(row) = [p EXCEPT !.tokens = TRUE]
        BY DEF UpdateRequestTokens, p
    <1> QED
        BY <1>1, <1>2, ZenonT(60) DEF RowStates, SameUsage

LEMMA TruncationRow ==
    ASSUME NEW row \in RowStates, NEW reason \in Reasons
    PROVE  LET r == UpdateRequestTruncation(row, reason) IN
           /\ r \in RowStates /\ SameUsage(row, r) /\ r.reason = reason /\ r.http = row.http
           /\ r.status = IF row.status = "none" THEN "pending" ELSE row.status
    <1> DEFINE p == Present(row)
    <1>1. /\ p \in RowStates /\ SameUsage(row, p) /\ p.reason = row.reason /\ p.http = row.http
          /\ p.status = IF row.status = "none" THEN "pending" ELSE row.status
        BY PresentRow
    <1> HIDE DEF p
    <1>2. UpdateRequestTruncation(row, reason) = [p EXCEPT !.reason = reason]
        BY DEF UpdateRequestTruncation, p
    <1> QED
        BY <1>1, <1>2 DEF RowStates, SameUsage

LEMMA FailureRow ==
    ASSUME NEW row \in RowStates, NEW class \in {"transient", "deadline_exceeded", "upstream_class"}
    PROVE  LET r == UpdateRequestFailure(row, class) IN
           /\ r \in RowStates /\ SameUsage(row, r) /\ r.reason # "none" /\ r.http = row.http
           /\ r.status = "failed"
    <1> DEFINE p == Present(row)
               q == IF p.reason = "none" THEN "upstream_error" ELSE p.reason
    <1>1. p \in RowStates /\ SameUsage(row, p) /\ p.reason = row.reason /\ p.http = row.http
        BY PresentRow
    <1> HIDE DEF p
    <1>2. q \in Reasons /\ q # "none"
        BY <1>1 DEF RowStates, Reasons, FailureReasons
    <1>3. UpdateRequestFailure(row, class)
            = [p EXCEPT !.status = "failed", !.class = class, !.reason = q]
        BY <1>1 DEF UpdateRequestFailure, p, RowStates
    <1> HIDE DEF q
    <1> DEFINE r == [p EXCEPT !.status = "failed", !.class = class, !.reason = q]
    <1>4. r \in RowStates
        BY <1>1, <1>2 DEF RowStates
    <1>5. /\ r.status = "failed" /\ r.reason = q /\ r.http = p.http /\ r.tokens = p.tokens
          /\ r.cost = p.cost /\ r.virtual_model = p.virtual_model
        BY <1>1 DEF RowStates
    <1> HIDE DEF r
    <1>6. SameUsage(row, r)
        BY <1>1, <1>5 DEF SameUsage
    <1>7. UpdateRequestFailure(row, class) = r
        BY <1>3 DEF r
    <1> QED
        BY <1>1, <1>2, <1>4, <1>5, <1>6, <1>7

LEMMA DisconnectRow ==
    ASSUME NEW row \in RowStates
    PROVE  LET r == UpdateRequestClientDisconnect(row) IN
           /\ r \in RowStates /\ SameUsage(row, r) /\ r.reason = "client_disconnect"
           /\ r.http = "499" /\ r.status = "abnormal"
    <1> DEFINE p == Present(row)
    <1>1. p \in RowStates /\ SameUsage(row, p)
        BY PresentRow
    <1> HIDE DEF p
    <1>2. UpdateRequestClientDisconnect(row)
            = [p EXCEPT !.status = "abnormal", !.class = "client_disconnect",
                        !.http = "499", !.reason = "client_disconnect"]
        BY DEF UpdateRequestClientDisconnect, p
    <1> QED
        BY <1>1, <1>2, ZenonT(60) DEF RowStates, SameUsage, Reasons

LEMMA CostRow ==
    ASSUME NEW row \in RowStates
    PROVE  LET r == TryComputeCost(row) IN
           /\ r \in RowStates /\ r.tokens = row.tokens /\ r.virtual_model = row.virtual_model
           /\ (row.cost => r.cost) /\ (r.tokens /\ r.virtual_model => r.cost)
           /\ r.reason = row.reason /\ r.http = row.http /\ r.status = row.status
    BY ZenonT(60) DEF TryComputeCost, RowStates

\* The event: it names the model, keeps an outcome that is there and every
\* token, and prices what it finds.
LEMMA EventRow ==
    ASSUME NEW row \in RowStates, NEW m \in Messages, m.type = "event", NEW failed
    PROVE  LET r == WriteRequestEvent(row, m, failed) IN
           /\ r \in RowStates /\ r.tokens = row.tokens /\ (row.cost => r.cost)
           /\ r.reason = row.reason
           /\ "event" \in failed => r = row
           /\ "event" \notin failed =>
                /\ r.virtual_model
                /\ row.reason # "none" => r.status = row.status /\ r.http = row.http
                /\ row.reason = "none" => r.status = m.status /\ r.http = m.http
           /\ failed = {} => (r.tokens /\ r.virtual_model => r.cost)
    <1> DEFINE k == row.reason \in Reasons \ {"none"}
               st == IF k THEN row.status ELSE m.status
               cl == IF k THEN row.class ELSE m.class
               ht == IF k THEN row.http ELSE m.http
               r1 == [row EXCEPT !.virtual_model = TRUE, !.status = st, !.class = cl,
                                 !.http = ht, !.tokens = row.tokens]
    <1>1. /\ m.status \in {"success", "failed", "abnormal"}
          /\ m.class \in {"none", "upstream_exhausted", "client_disconnect"}
          /\ m.http \in {"200", "499", "error"}
        BY DEF Messages
    <1>2. k <=> row.reason # "none"
        BY DEF RowStates
    <1>3. WriteRequestEvent(row, m, failed) =
            IF "event" \in failed THEN row
            ELSE IF Done("cost", m, failed) THEN TryComputeCost(r1) ELSE r1
        BY DEF WriteRequestEvent, KeptStatus, KeptTokens, RowStates
    <1>4. failed = {} => Done("cost", m, failed)
        BY DEF Done, Statements
    <1> HIDE DEF k
    <1>5. /\ r1 \in RowStates /\ r1.tokens = row.tokens /\ r1.cost = row.cost
          /\ r1.reason = row.reason /\ r1.virtual_model /\ r1.status = st /\ r1.http = ht
        BY <1>1, ZenonT(60) DEF RowStates
    <1> HIDE DEF r1
    <1>6. LET q == TryComputeCost(r1) IN
          /\ q \in RowStates /\ q.tokens = r1.tokens /\ q.virtual_model = r1.virtual_model
          /\ (r1.cost => q.cost) /\ (q.tokens /\ q.virtual_model => q.cost)
          /\ q.reason = r1.reason /\ q.http = r1.http /\ q.status = r1.status
        BY <1>5, CostRow
    <1> DEFINE q == TryComputeCost(r1)
               r == WriteRequestEvent(row, m, failed)
    <1> HIDE DEF q, r
    <1>7. CASE "event" \in failed
        BY <1>3, <1>7
    <1>8. CASE "event" \notin failed /\ r = q
        BY <1>2, <1>5, <1>6, <1>8 DEF q, r
    <1>9. CASE "event" \notin failed /\ r = r1 /\ failed # {}
        BY <1>2, <1>5, <1>9 DEF r
    <1> QED
        BY <1>3, <1>4, <1>7, <1>8, <1>9 DEF q, r

\* The capture: it writes a failure or a disconnect only if it tells of one,
\* takes no usage back and, if no statement is refused, leaves the whole story.
LEMMA CaptureRow ==
    ASSUME NEW row \in RowStates, NEW m \in Messages, m.type = "capture", NEW failed
    PROVE  LET r == WriteCapture(row, m, failed) IN
           /\ r \in RowStates /\ r.virtual_model = row.virtual_model
           /\ (row.tokens => r.tokens) /\ (row.cost => r.cost)
           /\ r.status = "failed" => row.status = "failed" \/ m.reason \in FailureReasons \/ m.error
           /\ r.status = "abnormal" =>
                \/ m.reason = "client_disconnect" /\ r.http = "499"
                \/ row.status = "abnormal" /\ r.http = row.http
           /\ failed = {} =>
                /\ m.reason \in FailureReasons \/ m.error => r.status = "failed" /\ r.reason # "none"
                /\ m.reason = "client_disconnect" /\ ~m.error =>
                     r.status = "abnormal" /\ r.reason # "none"
                /\ m.reason = "none" /\ ~m.error =>
                     /\ r.reason = row.reason
                     /\ row.status # "none" => r.status = row.status
                /\ r.tokens /\ r.virtual_model => r.cost
    <1> DEFINE D(x) == Done(x, m, failed)
               r1 == IF D("tokens") THEN UpdateRequestTokens(row) ELSE row
               r2 == IF D("cost") THEN TryComputeCost(r1) ELSE r1
               r3 == IF D("truncation") THEN UpdateRequestTruncation(r2, m.reason) ELSE r2
               r4 == IF D("failure")
                     THEN UpdateRequestFailure(r3, TruncationFailureInfo(m.reason)) ELSE r3
               r5 == IF D("disconnect") THEN UpdateRequestClientDisconnect(r4) ELSE r4
               r6 == IF D("duration") THEN UpdateRequestStreamDuration(r5) ELSE r5
               r7 == IF D("upstream_error") THEN UpdateRequestFailure(r6, "upstream_class") ELSE r6
    <1>1. WriteCapture(row, m, failed) = IF "payload" \in failed THEN row ELSE r7
        BY DEF WriteCapture
    <1>2. m.reason \in Reasons /\ m.error \in BOOLEAN
        BY DEF Messages
    <1>3. /\ D("truncation") => m.reason # "none"
          /\ D("failure") => m.reason \in FailureReasons
          /\ D("disconnect") => m.reason = "client_disconnect"
          /\ D("upstream_error") => m.error
        BY DEF Done, Statements
    <1>4. failed = {} =>
            /\ D("cost") /\ (m.reason # "none" => D("truncation"))
            /\ (m.reason \in FailureReasons => D("failure"))
            /\ (m.reason = "client_disconnect" => D("disconnect"))
            /\ (m.error => D("upstream_error"))
        BY DEF Done, Statements
    <1> HIDE DEF D
    <1>5. /\ r1 \in RowStates /\ (row.tokens => r1.tokens) /\ r1.cost = row.cost
          /\ r1.virtual_model = row.virtual_model /\ r1.reason = row.reason /\ r1.http = row.http
          /\ r1.status = row.status \/ (row.status = "none" /\ r1.status = "pending")
        BY TokensRow
    <1> HIDE DEF r1
    <1>6. /\ r2 \in RowStates /\ r2.tokens = r1.tokens /\ (r1.cost => r2.cost)
          /\ r2.virtual_model = r1.virtual_model
          /\ (D("cost") => (r2.tokens /\ r2.virtual_model => r2.cost))
          /\ r2.reason = r1.reason /\ r2.http = r1.http /\ r2.status = r1.status
        BY <1>5, CostRow
    <1> HIDE DEF r2
    <1>7. /\ r3 \in RowStates /\ SameUsage(r2, r3) /\ r3.http = r2.http
          /\ r3.status = r2.status \/ (r2.status = "none" /\ r3.status = "pending")
          /\ r3.reason = IF D("truncation") THEN m.reason ELSE r2.reason
        BY <1>2, <1>6, TruncationRow DEF SameUsage
    <1> HIDE DEF r3
    <1>8. /\ r4 \in RowStates /\ SameUsage(r3, r4) /\ r4.http = r3.http
          /\ D("failure") => r4.status = "failed" /\ r4.reason # "none"
          /\ ~D("failure") => r4.status = r3.status /\ r4.reason = r3.reason
        <2>1. TruncationFailureInfo(m.reason) \in {"transient", "deadline_exceeded", "upstream_class"}
            BY DEF TruncationFailureInfo
        <2> QED
            BY <1>7, <2>1, FailureRow DEF SameUsage
    <1> HIDE DEF r4
    <1>9. /\ r5 \in RowStates /\ SameUsage(r4, r5)
          /\ D("disconnect") => r5.status = "abnormal" /\ r5.reason # "none" /\ r5.http = "499"
          /\ ~D("disconnect") =>
               r5.status = r4.status /\ r5.reason = r4.reason /\ r5.http = r4.http
        BY <1>8, DisconnectRow DEF SameUsage
    <1> HIDE DEF r5
    <1>10. /\ r6 \in RowStates /\ SameUsage(r5, r6) /\ r6.reason = r5.reason /\ r6.http = r5.http
           /\ r6.status = r5.status \/ (r5.status = "none" /\ r6.status = "pending")
        BY <1>9, PresentRow DEF SameUsage, UpdateRequestStreamDuration
    <1> HIDE DEF r6
    <1>11. /\ r7 \in RowStates /\ SameUsage(r6, r7) /\ r7.http = r6.http
           /\ D("upstream_error") => r7.status = "failed" /\ r7.reason # "none"
           /\ ~D("upstream_error") => r7.status = r6.status /\ r7.reason = r6.reason
        BY <1>10, FailureRow DEF SameUsage
    <1> HIDE DEF r7
    <1> DEFINE r == WriteCapture(row, m, failed)
    <1> HIDE DEF r
    <1>12. /\ r7.virtual_model = row.virtual_model /\ r7.tokens = r1.tokens
           /\ (row.cost => r7.cost)
           /\ (D("cost") => (r7.tokens /\ r7.virtual_model => r7.cost))
        BY <1>5, <1>6, <1>7, <1>8, <1>9, <1>10, <1>11 DEF SameUsage
    <1>13. CASE "payload" \in failed
        BY <1>1, <1>13
    <1>14. CASE "payload" \notin failed
        <2>1. r = r7
            BY <1>1, <1>14 DEF r
        <2>2. /\ r \in RowStates /\ r.virtual_model = row.virtual_model
              /\ (row.tokens => r.tokens) /\ (row.cost => r.cost)
            BY <1>5, <1>11, <1>12, <2>1
        <2>3. r.status = "failed" => row.status = "failed" \/ m.reason \in FailureReasons \/ m.error
            BY <1>3, <1>5, <1>6, <1>7, <1>8, <1>9, <1>10, <1>11, <2>1
        <2>4. r.status = "abnormal" =>
                \/ m.reason = "client_disconnect" /\ r.http = "499"
                \/ row.status = "abnormal" /\ r.http = row.http
            BY <1>3, <1>5, <1>6, <1>7, <1>8, <1>9, <1>10, <1>11, <2>1
        <2>5. ASSUME failed = {}, m.reason \in FailureReasons \/ m.error
              PROVE  r.status = "failed" /\ r.reason # "none"
            <3>1. m.reason \in FailureReasons => m.reason # "client_disconnect"
                BY DEF FailureReasons
            <3> QED
                BY <1>3, <1>4, <1>8, <1>9, <1>10, <1>11, <2>1, <2>5, <3>1
        <2>6. ASSUME failed = {}, m.reason = "client_disconnect", ~m.error
              PROVE  r.status = "abnormal" /\ r.reason # "none"
            BY <1>3, <1>4, <1>9, <1>10, <1>11, <2>1, <2>6
        <2>7. ASSUME failed = {}, m.reason = "none", ~m.error
              PROVE  r.reason = row.reason /\ (row.status # "none" => r.status = row.status)
            <3>1. "none" \notin FailureReasons
                BY DEF FailureReasons
            <3>2. ~D("truncation") /\ ~D("failure") /\ ~D("disconnect") /\ ~D("upstream_error")
                BY <1>3, <2>7, <3>1
            <3> QED
                BY <1>5, <1>6, <1>7, <1>8, <1>9, <1>10, <1>11, <2>1, <3>2
        <2>8. failed = {} => (r.tokens /\ r.virtual_model => r.cost)
            BY <1>4, <1>12, <2>1
        <2> QED
            BY <2>2, <2>3, <2>4, <2>5, <2>6, <2>7, <2>8 DEF r
    <1> QED
        BY <1>13, <1>14

-----------------------------------------------------------------------------
(* The steps of a stream: where it goes, and what is said of it.           *)

Says(t, s, x, M) ==
    \/ s.pc = "idle" /\ x.pc = "calling" /\ M = {}
    \/ s.pc = "calling" /\ x.pc = "relay" /\ M = {Event(t, "success", "none", "200")}
    \/ /\ s.pc \in {"idle", "calling"} /\ x.pc = "refused"
       /\ \E m \in M : m.type = "event"
    \/ s.pc \in {"relay", "closing"} /\ x.pc \in {"relay", "closing"} /\ M = {}
    \/ /\ s.pc \in {"relay", "closing"} /\ x.pc = "done"
       /\ \E u \in BOOLEAN : M = {Capture(t, x.reason, x.error, u, TRUE)}

Goes(t, x, M) ==
    /\ Fits(x) /\ str' = [str EXCEPT ![t] = x]
    /\ M \subseteq Messages /\ (\A m \in M : m.stream = t) /\ spawned' = spawned \cup M
    /\ health' \in TargetHealth
    /\ Says(t, str[t], x, M)

LEMMA HealthType ==
    ASSUME NEW h \in TargetHealth
    PROVE  RecordSuccess(h) \in TargetHealth /\ RecordFailure(h, Now) \in TargetHealth
    <1>1. Never \in Nat \cup {Never} /\ Now \in Nat \cup {Never}
        BY DEF Now
    <1>2. h.consecutive_failures + 1 \in Nat
        BY DEF TargetHealth
    <1>3. RecordSuccess(h) \in TargetHealth
        BY <1>1 DEF RecordSuccess, TargetHealth
    <1>4. RecordFailure(h, Now) \in TargetHealth
        BY <1>1, <1>2 DEF RecordFailure, TargetHealth
    <1> QED
        BY <1>3, <1>4

LEMMA EventType ==
    ASSUME NEW t \in Streams, NEW a \in {"success", "failed", "abnormal"},
           NEW c \in {"none", "upstream_exhausted", "client_disconnect"},
           NEW h \in {"200", "499", "error"}
    PROVE  LET m == Event(t, a, c, h) IN
           /\ m \in Messages /\ m.type = "event" /\ m.stream = t
           /\ m.status = a /\ m.http = h
    BY DEF Event, Messages

LEMMA CaptureType ==
    ASSUME NEW t \in Streams, NEW r \in Reasons, NEW e \in BOOLEAN, NEW u \in BOOLEAN,
           NEW b \in BOOLEAN
    PROVE  LET m == Capture(t, r, e, u, b) IN
           /\ m \in Messages /\ m.type = "capture" /\ m.stream = t
           /\ m.reason = r /\ m.error = e
    BY DEF Capture, Messages

LEMMA RouteGoes ==
    ASSUME StreamsFit, TablesFit, NEW t \in Streams, Route(t)
    PROVE  \E x, M : Goes(t, x, M)
    <1> DEFINE s == str[t]
    <1>1. Fits(s) /\ s.pc = "idle" /\ health' \in TargetHealth /\ s \in StreamStates
        BY DEF StreamsFit, TablesFit, Route
    <1>2. CASE IsHealthy(health, Now)
        <2>1. PICK m \in Modes, e \in EndMarkers :
                str' = [str EXCEPT ![t].pc = "calling", ![t].mode = m, ![t].end_marker = e]
            BY <1>2 DEF Route
        <2> DEFINE x == [s EXCEPT !.pc = "calling", !.mode = m, !.end_marker = e]
        <2>2. Fits(x)
            BY <1>1, RouteFits
        <2>3. x.pc = "calling"
            BY <1>1 DEF StreamStates
        <2>4. str' = [str EXCEPT ![t] = x] /\ spawned' = spawned
            BY <1>2, <2>1 DEF StreamsFit, Route
        <2> HIDE DEF x
        <2>5. Goes(t, x, {})
            BY <1>1, <2>2, <2>3, <2>4 DEF Goes, Says
        <2> QED
            BY <2>5
    <1>3. CASE ~IsHealthy(health, Now)
        <2> DEFINE x == [s EXCEPT !.pc = "refused"]
                   m == Event(t, "failed", "upstream_exhausted", "error")
        <2>1. Fits(x) /\ x.pc = "refused"
            BY <1>1, TurnFits DEF StreamStates
        <2>2. str' = [str EXCEPT ![t] = x] /\ spawned' = spawned \cup {m}
            BY <1>3 DEF StreamsFit, Route
        <2>3. m \in Messages /\ m.type = "event" /\ m.stream = t
            BY EventType
        <2> HIDE DEF x, m
        <2>4. Goes(t, x, {m})
            BY <1>1, <2>1, <2>2, <2>3 DEF Goes, Says
        <2> QED
            BY <2>4
    <1> QED
        BY <1>2, <1>3

LEMMA OpenedGoes ==
    ASSUME StreamsFit, TablesFit, NEW t \in Streams, Opened(t)
    PROVE  \E x, M : Goes(t, x, M)
    <1> DEFINE s == str[t]
               x == [s EXCEPT !.pc = "relay"]
               m == Event(t, "success", "none", "200")
    <1>1. Fits(s) /\ s.pc = "calling" /\ health' \in TargetHealth /\ s \in StreamStates
        BY HealthType DEF StreamsFit, TablesFit, Opened
    <1>2. Fits(x) /\ x.pc = "relay"
        BY <1>1, TurnFits DEF StreamStates
    <1>3. str' = [str EXCEPT ![t] = x] /\ spawned' = spawned \cup {m}
        BY DEF StreamsFit, Opened
    <1>4. m \in Messages /\ m.stream = t
        BY EventType
    <1> DEFINE M == {m}
    <1>5. M = {Event(t, "success", "none", "200")}
        OBVIOUS
    <1> HIDE DEF x, m
    <1>6. Goes(t, x, M)
        BY <1>1, <1>2, <1>3, <1>4, <1>5 DEF Goes, Says
    <1> QED
        BY <1>6

LEMMA CallFailsGoes ==
    ASSUME StreamsFit, TablesFit, NEW t \in Streams, CallFails(t)
    PROVE  \E x, M : Goes(t, x, M)
    <1> DEFINE s == str[t]
               x == [s EXCEPT !.pc = "refused"]
               m == Event(t, "failed", "upstream_exhausted", "error")
               c == Capture(t, "none", FALSE, FALSE, FALSE)
    <1>1. Fits(s) /\ s.pc = "calling" /\ health' \in TargetHealth /\ s \in StreamStates
        BY HealthType DEF StreamsFit, TablesFit, CallFails
    <1>2. Fits(x) /\ x.pc = "refused"
        BY <1>1, TurnFits DEF StreamStates
    <1>3. PICK answered \in BOOLEAN :
             spawned' = spawned \cup {m} \cup {d \in {c} : answered}
        BY DEF CallFails
    <1>4. str' = [str EXCEPT ![t] = x]
        BY DEF StreamsFit, CallFails
    <1>5. m \in Messages /\ m.stream = t /\ m.type = "event"
        BY EventType
    <1>6. c \in Messages /\ c.stream = t
        BY DEF Capture, Messages, Reasons
    <1> DEFINE M == {m} \cup {d \in {c} : answered}
    <1> HIDE DEF x, m, c
    <1>7. M \subseteq Messages /\ (\A d \in M : d.stream = t) /\ m \in M
          /\ spawned' = spawned \cup M
        BY <1>3, <1>5, <1>6
    <1> HIDE DEF M
    <1>8. Goes(t, x, M)
        BY <1>1, <1>2, <1>4, <1>5, <1>7 DEF Goes, Says
    <1> QED
        BY <1>8

LEMMA CallCancelledGoes ==
    ASSUME StreamsFit, TablesFit, NEW t \in Streams, CallCancelled(t)
    PROVE  \E x, M : Goes(t, x, M)
    <1> DEFINE s == str[t]
               x == [s EXCEPT !.pc = "refused"]
               m == Event(t, "abnormal", "client_disconnect", "499")
    <1>1. Fits(s) /\ s.pc = "calling" /\ health' \in TargetHealth /\ s \in StreamStates
        BY DEF StreamsFit, TablesFit, CallCancelled
    <1>2. Fits(x) /\ x.pc = "refused"
        BY <1>1, TurnFits DEF StreamStates
    <1>3. str' = [str EXCEPT ![t] = x] /\ spawned' = spawned \cup {m}
        BY DEF StreamsFit, CallCancelled
    <1>4. m \in Messages /\ m.stream = t /\ m.type = "event"
        BY EventType
    <1> HIDE DEF x, m
    <1>5. Goes(t, x, {m})
        BY <1>1, <1>2, <1>3, <1>4 DEF Goes, Says
    <1> QED
        BY <1>5

LEMMA ChunkGoes ==
    ASSUME StreamsFit, TablesFit, NEW t \in Streams, Chunk(t)
    PROVE  \E x, M : Goes(t, x, M)
    <1> DEFINE s == str[t]
    <1>1. /\ Fits(s) /\ s.pc = "relay" /\ s.chunks < MaxChunks /\ health' \in TargetHealth
          /\ spawned' = spawned
        BY DEF StreamsFit, TablesFit, Chunk
    <1>2. PICK next \in
             IF s.held = NoLine
             THEN {[ChunkWhole(s, k) EXCEPT !.sent = @ \cup {k}] : k \in Kinds}
                    \cup {[ChunkCut(s, k, "line") EXCEPT !.sent = @ \cup {k}] : k \in Kinds}
                    \cup {ChunkCut(s, k, "head") : k \in Kinds}
             ELSE {[ChunkRest(s) EXCEPT !.sent = @ \cup {s.held.kind}]} :
             str' = [str EXCEPT ![t] = [next EXCEPT !.chunks = @ + 1]]
        BY DEF Chunk
    <1> DEFINE x == [next EXCEPT !.chunks = @ + 1]
    <1>3. Fits(x) /\ x.pc = "relay"
        <2>1. CASE s.held = NoLine
            <3>1. \/ \E k \in Kinds : next = [ChunkWhole(s, k) EXCEPT !.sent = @ \cup {k}]
                  \/ \E k \in Kinds : next = [ChunkCut(s, k, "line") EXCEPT !.sent = @ \cup {k}]
                  \/ \E k \in Kinds : next = ChunkCut(s, k, "head")
                BY <1>2, <2>1
            <3>2. CASE \E k \in Kinds : next = [ChunkWhole(s, k) EXCEPT !.sent = @ \cup {k}]
                BY <1>1, <2>1, <3>2, WholeFits
            <3>3. CASE \E k \in Kinds : next = [ChunkCut(s, k, "line") EXCEPT !.sent = @ \cup {k}]
                BY <1>1, <2>1, <3>3, CutLineFits
            <3>4. CASE \E k \in Kinds : next = ChunkCut(s, k, "head")
                BY <1>1, <2>1, <3>4, CutsFit
            <3> QED
                BY <3>1, <3>2, <3>3, <3>4
        <2>2. CASE s.held # NoLine
            <3>1. next = [ChunkRest(s) EXCEPT !.sent = @ \cup {s.held.kind}]
                BY <1>2, <2>2
            <3> QED
                BY <1>1, <2>2, <3>1, RestFits
        <2> QED
            BY <2>1, <2>2
    <1>5. str' = [str EXCEPT ![t] = x]
        BY <1>2
    <1> HIDE DEF x
    <1>6. Goes(t, x, {})
        BY <1>1, <1>3, <1>5 DEF Goes, Says
    <1> QED
        BY <1>6

LEMMA TruncateGoes ==
    ASSUME StreamsFit, TablesFit, NEW t \in Streams, Truncate(t)
    PROVE  \E x, M : Goes(t, x, M)
    <1> DEFINE s == str[t]
    <1>1. Fits(s) /\ s.pc = "relay" /\ health' \in TargetHealth /\ spawned' = spawned
        BY DEF StreamsFit, TablesFit, Truncate
    <1>2. PICK r \in FailureReasons :
             str' = [str EXCEPT ![t] = Yield([s EXCEPT !.reason = r, !.todo = ErrorFrames(s)])]
        BY DEF Truncate
    <1> DEFINE x == Yield([s EXCEPT !.reason = r, !.todo = ErrorFrames(s)])
    <1>3. Fits(x) /\ x.pc = "closing"
        <2>1. Fits(x)
            BY <1>1, TruncateFits
        <2>2. s \in StreamStates
            BY <1>1 DEF Fits
        <2>3. x.pc = "closing"
            BY <2>2 DEF Yield, StreamStates
        <2> QED
            BY <2>1, <2>3
    <1>4. str' = [str EXCEPT ![t] = x]
        BY <1>2
    <1> HIDE DEF x
    <1>5. Goes(t, x, {})
        BY <1>1, <1>3, <1>4 DEF Goes, Says
    <1> QED
        BY <1>5

\* The guard hands the capture over.
LEMMA CapturedGoes ==
    ASSUME StreamsFit, TablesFit, NEW t \in Streams, str[t].pc \in {"relay", "closing"},
           NEW y \in StreamStates, NEW n \in {1, 2}, Captured(t, y, n),
           Fits([y EXCEPT !.pc = "done", !.todo = <<>>, !.fails = IF ShouldFail(y) THEN n ELSE 0])
    PROVE  \E x, M : Goes(t, x, M)
    <1> DEFINE x == [y EXCEPT !.pc = "done", !.todo = <<>>,
                              !.fails = IF ShouldFail(y) THEN n ELSE 0]
    <1>1. Fits(x) /\ str' = [str EXCEPT ![t] = x]
        BY DEF Captured
    <1>2. x.pc = "done" /\ x.reason = y.reason /\ x.error = y.error
        BY DEF StreamStates
    <1>3. health' \in TargetHealth
        <2>1. health \in TargetHealth /\ RecordFailure(health, Now) \in TargetHealth
            BY HealthType DEF TablesFit
        <2>2. RecordFailure(RecordFailure(health, Now), Now) \in TargetHealth
            BY <2>1, HealthType
        <2> QED
            BY <2>1, <2>2 DEF Captured
    <1>4. PICK u \in Usages(y) : spawned' = spawned \cup {Capture(t, y.reason, y.error, u, TRUE)}
        BY DEF Captured
    <1>5. u \in BOOLEAN /\ y.reason \in Reasons /\ y.error \in BOOLEAN
        BY DEF Usages, StreamStates
    <1> DEFINE m == Capture(t, y.reason, y.error, u, TRUE)
    <1>6. m \in Messages /\ m.stream = t
        <2>1. TRUE \in BOOLEAN
            OBVIOUS
        <2> QED
            BY <1>5, <2>1 DEF Capture, Messages
    <1> HIDE DEF x
    <1>7. {m} = {Capture(t, x.reason, x.error, u, TRUE)}
        BY <1>2
    <1> HIDE DEF m
    <1>8. Says(t, str[t], x, {m})
        BY <1>2, <1>5, <1>7 DEF Says
    <1>9. Goes(t, x, {m})
        BY <1>1, <1>3, <1>4, <1>6, <1>8 DEF Goes, m
    <1> QED
        BY <1>9

LEMMA LeaveGoes ==
    ASSUME StreamsFit, TablesFit, NEW t \in Streams, Leave(t)
    PROVE  \E x, M : Goes(t, x, M)
    <1> DEFINE s == str[t]
               y == [s EXCEPT !.reason = IF @ = "none" THEN DropFallbackReason(s) ELSE @]
    <1>1. Fits(s) /\ s.pc \in {"relay", "closing"} /\ Captured(t, y, 1)
        BY DEF StreamsFit, Leave
    <1>2. /\ y \in StreamStates
          /\ Fits([y EXCEPT !.pc = "done", !.todo = <<>>, !.fails = IF ShouldFail(y) THEN 1 ELSE 0])
        BY <1>1, LeaveFits
    <1> HIDE DEF y
    <1> QED
        BY <1>1, <1>2, CapturedGoes

LEMMA EndGoes ==
    ASSUME StreamsFit, TablesFit, NEW t \in Streams, EndOfStream(t)
    PROVE  \E x, M : Goes(t, x, M)
    <1> DEFINE s0 == str[t]
               s == [s0 EXCEPT !.reason = "none", !.completed = TRUE]
               frames == IF s.mode = "transcode" THEN TranscodedEnd(s) ELSE VerbatimEnd(s)
    <1>1. /\ s.pc = "relay"
          /\ \/ /\ frames # <<>>
                /\ str' = [str EXCEPT ![t] = Yield([s EXCEPT !.todo = frames])]
                /\ health' = health /\ spawned' = spawned
             \/ frames = <<>> /\ Captured(t, s, 2)
        BY DEF EndOfStream, FinalizeSpawn
    <1>2. Fits(s0) /\ s0.pc = "relay"
        BY <1>1 DEF StreamsFit, StreamStates
    <1>3. /\ s \in StreamStates /\ SignalsFit(s) /\ FramesFit(s) /\ s.pc = "relay"
          /\ s.mode \in {"verbatim", "transcode"} /\ s.completed /\ s.reason = "none"
        BY <1>2, EndState
    <1> DEFINE x == Yield([s EXCEPT !.todo = frames])
    <1>4. frames # <<>> => Fits(x)
        <2> HIDE DEF s
        <2>1. CASE s.mode = "transcode"
            BY <1>3, <2>1, TranscodedFits
        <2>2. CASE s.mode = "verbatim"
            BY <1>3, <2>2, VerbatimFits
        <2> QED
            BY <1>3, <2>1, <2>2
    <1> HIDE DEF s, frames
    <1>5. CASE frames # <<>> /\ str' = [str EXCEPT ![t] = x] /\ health' = health /\ spawned' = spawned
        <2>1. x.pc = "closing"
            BY <1>3 DEF Yield, StreamStates
        <2> HIDE DEF x
        <2>2. Goes(t, x, {})
            BY <1>2, <1>4, <1>5, <2>1 DEF Goes, Says, TablesFit
        <2> QED
            BY <2>2
    <1>6. CASE Captured(t, s, 2)
        <2>1. 2 \in {1, 2} /\ Open(s)
            BY <1>3, SMTT(60) DEF Open
        <2>2. Fits([s EXCEPT !.pc = "done", !.todo = <<>>, !.fails = IF ShouldFail(s) THEN 2 ELSE 0])
            BY <1>3, <2>1, DoneFits
        <2> QED
            BY <1>2, <1>3, <1>6, <2>1, <2>2, CapturedGoes
    <1> QED
        BY <1>1, <1>5, <1>6

LEMMA ResumeGoes ==
    ASSUME StreamsFit, TablesFit, NEW t \in Streams, Resume(t)
    PROVE  \E x, M : Goes(t, x, M)
    <1> DEFINE s == str[t]
               x == Yield(s)
    <1>1. /\ s.pc = "closing" /\ Fits(s) /\ s \in StreamStates
          /\ \/ s.todo # <<>> /\ str' = [str EXCEPT ![t] = x] /\ health' = health /\ spawned' = spawned
             \/ s.todo = <<>> /\ Captured(t, s, 2)
        BY DEF Resume, FinalizeSpawn, StreamsFit
    <1>2. CASE s.todo # <<>> /\ str' = [str EXCEPT ![t] = x] /\ health' = health /\ spawned' = spawned
        <2>1. Fits(x)
            BY <1>1, <1>2, ResumeFits
        <2>2. x.pc = "closing"
            BY <1>1 DEF Yield, StreamStates
        <2> HIDE DEF x
        <2>3. Goes(t, x, {})
            BY <1>1, <1>2, <2>1, <2>2 DEF Goes, Says, TablesFit
        <2> QED
            BY <2>3
    <1>3. CASE Captured(t, s, 2)
        <2>1. /\ 2 \in {1, 2} /\ Open(s) /\ SignalsFit(s) /\ FramesFit(s)
              /\ s.mode \in {"verbatim", "transcode"} /\ s.reason # "client_disconnect"
              /\ (s.completed => s.reason = "none") /\ (s.reason # "none" \/ s.completed)
            BY <1>1, SMTT(60) DEF Fits, PhaseFits, Open
        <2>2. Fits([s EXCEPT !.pc = "done", !.todo = <<>>, !.fails = IF ShouldFail(s) THEN 2 ELSE 0])
            BY <1>1, <2>1, DoneFits
        <2> QED
            BY <1>1, <1>3, <2>1, <2>2, CapturedGoes
    <1> QED
        BY <1>1, <1>2, <1>3

LEMMA StreamGoes ==
    ASSUME StreamsFit, TablesFit, NEW t \in Streams, Request(t) \/ Relay(t)
    PROVE  (\E x, M : Goes(t, x, M)) /\ UNCHANGED <<queue, rows, stored, lost, faults>>
    <1>1. \E x, M : Goes(t, x, M)
        BY RouteGoes, OpenedGoes, CallFailsGoes, CallCancelledGoes, ChunkGoes, TruncateGoes,
           EndGoes, ResumeGoes, LeaveGoes DEF Request, Relay
    <1>2. UNCHANGED <<queue, rows, stored, lost, faults>>
        BY DEF Request, Relay, Route, Opened, CallFails, CallCancelled, Chunk, Truncate,
               EndOfStream, Resume, Leave
    <1> QED
        BY <1>1, <1>2

-----------------------------------------------------------------------------
(* A step of a stream keeps the bus and the rows right.                    *)

LEMMA StillSpeaks ==
    ASSUME NEW t, NEW s, NEW x, NEW M, Says(t, s, x, M), NEW m, Speaks(m, s)
    PROVE  Speaks(m, x)
    BY DEF Says, Speaks, Open

LEMMA NewsSpeaks ==
    ASSUME NEW t \in Streams, NEW s, NEW x, NEW M, Says(t, s, x, M), NEW m \in M
    PROVE  Speaks(m, x)
    <1>1. CASE s.pc = "calling" /\ x.pc = "relay" /\ M = {Event(t, "success", "none", "200")}
        BY <1>1 DEF Speaks, Event, Open
    <1>2. CASE x.pc = "refused"
        BY <1>2 DEF Speaks, Open
    <1>3. CASE x.pc = "done" /\ \E u \in BOOLEAN : M = {Capture(t, x.reason, x.error, u, TRUE)}
        BY <1>3 DEF Speaks, Capture
    <1> QED
        BY <1>1, <1>2, <1>3 DEF Says

LEMMA NewsType ==
    ASSUME NEW t, NEW s, NEW x, NEW M, Says(t, s, x, M)
    PROVE  /\ s.pc \in {"idle", "calling"} /\ x.pc # "calling" =>
                x.pc # "done" /\ \E m \in M : m.type = "event"
           /\ x.pc = "done" => s.pc \notin {"idle", "calling"} /\ \E m \in M : m.type = "capture"
           /\ x.pc # "idle"
    <1>1. Event(t, "success", "none", "200").type = "event"
        BY DEF Event
    <1>2. \A u : Capture(t, x.reason, x.error, u, TRUE).type = "capture"
        BY DEF Capture
    <1> QED
        BY <1>1, <1>2 DEF Says

LEMMA RowStays ==
    ASSUME NEW t, NEW s, NEW x, NEW M, Says(t, s, x, M), NEW row, RowFits(s, row),
           NEW kept \in BOOLEAN, kept => s.pc \in {"refused", "done"}
    PROVE  /\ ~kept /\ RowFits(x, row)
           /\ RowIsExact(s, row, kept) => RowIsExact(x, row, kept)
    <1>1. ~kept
        BY DEF Says
    <1>2. CASE s.pc \in {"idle", "calling"}
        <2>1. row = NoRow /\ s.pc # x.pc /\ (x.pc = "calling" => s.pc = "idle")
            BY <1>2 DEF RowFits, Says
        <2> QED
            BY <1>1, <2>1 DEF RowFits, RowIsExact, NoRow
    <1>3. CASE s.pc \in {"relay", "closing"}
        <2>1. Open(s) /\ s.pc # "done" /\ x.pc \notin {"idle", "calling"}
            BY <1>3 DEF Says, Open
        <2>2. row.status # "failed" /\ row.status # "abnormal"
            BY <2>1 DEF RowFits
        <2> QED
            BY <1>1, <2>1, <2>2 DEF RowFits, RowIsExact
    <1> QED
        BY <1>1, <1>2, <1>3 DEF Says

LEMMA GoesKeepsInv ==
    ASSUME Inv, NEW t \in Streams, NEW x, NEW M, Goes(t, x, M),
           UNCHANGED <<queue, rows, stored, lost, faults>>
    PROVE  Inv'
    <1> DEFINE s == str[t]
    <1>1. /\ StreamsFit /\ TablesFit /\ MessagesFit /\ RowsFit /\ Delivered
          /\ Fits(x) /\ x \in StreamStates /\ Says(t, s, x, M)
        BY DEF Inv, Goes, Fits
    <1>2. /\ str' \in [Streams -> StreamStates] /\ str'[t] = x
          /\ \A u \in Streams : u # t => str'[u] = str[u]
        BY <1>1 DEF Goes, StreamsFit
    <1>3. StreamsFit'
        BY <1>1, <1>2 DEF StreamsFit
    <1>4. TablesFit'
        BY <1>1 DEF TablesFit, Goes
    <1>5. \A m \in Messages : OnTheBus(m)' <=> OnTheBus(m) \/ m \in M
        BY DEF OnTheBus, Goes
    <1>6. MessagesFit'
        <2> SUFFICES ASSUME NEW m \in Messages, OnTheBus(m)'
                     PROVE  Speaks(m, str'[m.stream])
            BY DEF MessagesFit
        <2>1. m.stream \in Streams
            BY DEF Messages
        <2>2. CASE m \in M
            <3>1. m.stream = t
                BY <2>2 DEF Goes
            <3> QED
                BY <1>1, <1>2, <2>2, <3>1, NewsSpeaks
        <2>3. CASE m \notin M
            <3>1. Speaks(m, str[m.stream])
                BY <1>1, <1>5, <2>3 DEF MessagesFit
            <3>2. CASE m.stream = t
                BY <1>1, <1>2, <3>1, <3>2, StillSpeaks
            <3>3. CASE m.stream # t
                BY <1>2, <2>1, <3>1, <3>3
            <3> QED
                BY <3>2, <3>3
        <2> QED
            BY <2>2, <2>3
    <1>7. RowsFit'
        <2> SUFFICES ASSUME NEW u \in Streams
                     PROVE  /\ RowFits(str'[u], rows[u])
                            /\ u \in stored => str'[u].pc \in {"refused", "done"}
                            /\ u \notin lost => RowIsExact(str'[u], rows[u], u \in stored)
            BY DEF RowsFit
        <2>1. /\ RowFits(str[u], rows[u])
              /\ u \in stored => str[u].pc \in {"refused", "done"}
              /\ u \notin lost => RowIsExact(str[u], rows[u], u \in stored)
            BY <1>1 DEF RowsFit
        <2>2. CASE u = t
            <3> DEFINE kept == u \in stored
            <3>1. kept \in BOOLEAN /\ (kept => s.pc \in {"refused", "done"})
                  /\ RowFits(s, rows[u]) /\ (u \notin lost => RowIsExact(s, rows[u], kept))
                BY <2>1, <2>2
            <3>2. kept <=> u \in stored
                OBVIOUS
            <3> HIDE DEF kept
            <3>3. /\ ~kept /\ RowFits(x, rows[u])
                  /\ RowIsExact(s, rows[u], kept) => RowIsExact(x, rows[u], kept)
                BY <1>1, <3>1, RowStays
            <3>4. kept = (u \in stored)
                BY DEF kept
            <3> QED
                BY <1>2, <2>2, <3>1, <3>2, <3>3, <3>4
        <2>3. CASE u # t
            BY <1>2, <2>1, <2>3
        <2> QED
            BY <2>2, <2>3
    <1>8. Delivered'
        <2> SUFFICES ASSUME NEW u \in Streams, u \notin lost
                     PROVE  /\ str'[u].pc \notin {"idle", "calling"} =>
                                 \/ rows[u].virtual_model
                                 \/ \E m \in Messages :
                                      OnTheBus(m)' /\ m.stream = u /\ m.type = "event"
                            /\ str'[u].pc = "done" =>
                                 \/ u \in stored
                                 \/ \E m \in Messages :
                                      OnTheBus(m)' /\ m.stream = u /\ m.type = "capture"
            BY DEF Delivered
        <2>1. /\ str[u].pc \notin {"idle", "calling"} =>
                   \/ rows[u].virtual_model
                   \/ \E m \in Messages : OnTheBus(m)' /\ m.stream = u /\ m.type = "event"
              /\ str[u].pc = "done" =>
                   \/ u \in stored
                   \/ \E m \in Messages : OnTheBus(m)' /\ m.stream = u /\ m.type = "capture"
            BY <1>1, <1>5 DEF Delivered
        <2>2. CASE u # t
            BY <1>2, <2>1, <2>2
        <2>3. CASE u = t
            <3>1. M \subseteq Messages /\ (\A m \in M : m.stream = t)
                BY DEF Goes
            <3>2. /\ s.pc \in {"idle", "calling"} /\ x.pc # "calling" =>
                       x.pc # "done" /\ \E m \in M : m.type = "event"
                  /\ x.pc = "done" =>
                       s.pc \notin {"idle", "calling"} /\ \E m \in M : m.type = "capture"
                  /\ x.pc # "idle"
                BY <1>1, NewsType
            <3> QED
                BY <1>2, <1>5, <2>1, <2>3, <3>1, <3>2
        <2> QED
            BY <2>2, <2>3
    <1> QED
        BY <1>3, <1>4, <1>6, <1>7, <1>8 DEF Inv

-----------------------------------------------------------------------------
(* The bus and the sink.                                                   *)

LEMMA SendKeepsInv ==
    ASSUME Inv, NEW m \in spawned, Send(m)
    PROVE  Inv'
    <1>1. /\ StreamsFit /\ TablesFit /\ MessagesFit /\ RowsFit /\ Delivered
          /\ str' = str /\ rows' = rows /\ stored' = stored /\ health' = health /\ faults' = faults
          /\ spawned' = spawned \ {m}
        BY DEF Inv, Send
    <1>2. m \in Messages /\ m.stream \in Streams /\ queue \in Seq(Messages)
        BY <1>1 DEF TablesFit, Messages
    <1>3. /\ TablesFit'
          /\ \A n \in Messages : OnTheBus(n)' => OnTheBus(n)
          /\ \A n \in Messages : OnTheBus(n) => OnTheBus(n)' \/ n.stream \in lost'
          /\ lost \subseteq lost'
        <2>1. CASE Len(queue) < Capacity /\ queue' = Append(queue, m) /\ lost' = lost
            <3>1. /\ queue' \in Seq(Messages) /\ Len(queue') = Len(queue) + 1
                  /\ queue'[Len(queue) + 1] = m /\ Len(queue) \in Nat
                  /\ \A i \in 1..Len(queue) : queue'[i] = queue[i]
                BY <1>2, <2>1
            <3>2. \A i : i \in 1..(Len(queue) + 1) <=> i \in 1..Len(queue) \/ i = Len(queue) + 1
                BY <3>1
            <3>3. Len(queue) + 1 <= Capacity
                BY <2>1, <3>1, KindsKnown
            <3>4. TablesFit'
                BY <1>1, <2>1, <3>1, <3>3 DEF TablesFit
            <3>5. \A n \in Messages : OnTheBus(n)' <=> OnTheBus(n)
                BY <1>1, <3>1, <3>2 DEF OnTheBus
            <3> QED
                BY <2>1, <3>4, <3>5
        <2>2. CASE lost' = lost \cup {m.stream} /\ queue' = queue
            <3>1. TablesFit'
                BY <1>1, <1>2, <2>2 DEF TablesFit
            <3>2. \A n \in Messages : OnTheBus(n)' => OnTheBus(n)
                BY <1>1, <2>2 DEF OnTheBus
            <3>3. \A n \in Messages : OnTheBus(n) => OnTheBus(n)' \/ n = m
                BY <1>1, <2>2 DEF OnTheBus
            <3> QED
                BY <2>2, <3>1, <3>2, <3>3
        <2> QED
            BY <2>1, <2>2 DEF Send
    <1>4. StreamsFit' /\ MessagesFit'
        BY <1>1, <1>3 DEF StreamsFit, MessagesFit
    <1>5. RowsFit'
        BY <1>1, <1>3 DEF RowsFit
    <1>6. Delivered'
        BY <1>1, <1>3 DEF Delivered
    <1> QED
        BY <1>3, <1>4, <1>5, <1>6 DEF Inv

\* The database refuses finitely many statements.
LEMMA FewStatements ==
    ASSUME NEW m, NEW failed \in SUBSET Statements(m)
    PROVE  Cardinality(failed) \in Nat
    <1> DEFINE A == {"event", "cost", "payload"}
               B == {"tokens", "truncation", "failure"}
               C == {"disconnect", "duration", "upstream_error"}
    <1>1. ASSUME NEW a, NEW b, NEW c
          PROVE  IsFiniteSet({a, b, c})
        <2>1. IsFiniteSet({a})
            BY FS_Singleton
        <2>2. IsFiniteSet({a} \cup {b})
            BY <2>1, FS_AddElement
        <2>3. IsFiniteSet(({a} \cup {b}) \cup {c})
            BY <2>2, FS_AddElement
        <2>4. ({a} \cup {b}) \cup {c} = {a, b, c}
            OBVIOUS
        <2> QED
            BY <2>3, <2>4
    <1>2. IsFiniteSet(A) /\ IsFiniteSet(B) /\ IsFiniteSet(C)
        BY <1>1
    <1>3. IsFiniteSet((A \cup B) \cup C)
        <2> HIDE DEF A, B, C
        <2>1. IsFiniteSet(A \cup B)
            BY <1>2, FS_Union
        <2> QED
            BY <1>2, <2>1, FS_Union
    <1>4. failed \subseteq (A \cup B) \cup C
        BY DEF Statements
    <1> HIDE DEF A, B, C
    <1>5. IsFiniteSet(failed)
        BY <1>3, <1>4, FS_Subset
    <1> QED
        BY <1>5, FS_CardinalityType

\* The event leaves the row right.
LEMMA EventRowFits ==
    ASSUME NEW s, NEW row \in RowStates, NEW m \in Messages, m.type = "event", NEW failed,
           Speaks(m, s), RowFits(s, row), NEW kept
    PROVE  LET r == WriteRequestEvent(row, m, failed) IN
           /\ r \in RowStates /\ RowFits(s, r)
           /\ failed = {} =>
                r.virtual_model /\ (RowIsExact(s, row, kept) => RowIsExact(s, r, kept))
    <1> DEFINE r == WriteRequestEvent(row, m, failed)
    <1>1. /\ r \in RowStates /\ r.tokens = row.tokens /\ (row.cost => r.cost)
          /\ r.reason = row.reason
          /\ "event" \in failed => r = row
          /\ "event" \notin failed =>
               /\ r.virtual_model
               /\ row.reason # "none" => r.status = row.status /\ r.http = row.http
               /\ row.reason = "none" => r.status = m.status /\ r.http = m.http
          /\ failed = {} => (r.tokens /\ r.virtual_model => r.cost)
        BY EventRow
    <1> HIDE DEF r
    <1>2. s.pc \notin {"idle", "calling"} /\ (Open(s) => m.status = "success")
        BY DEF Speaks
    <1>3. RowFits(s, r)
        BY <1>1, <1>2 DEF RowFits
    <1>4. ASSUME failed = {}
          PROVE  r.virtual_model /\ (RowIsExact(s, row, kept) => RowIsExact(s, r, kept))
        BY <1>1, <1>2, <1>4 DEF RowIsExact
    <1> QED
        BY <1>1, <1>3, <1>4 DEF r

\* The capture as well.
LEMMA CaptureRowFits ==
    ASSUME NEW s, Fits(s), NEW row \in RowStates, NEW m \in Messages, m.type = "capture", NEW failed,
           Speaks(m, s), RowFits(s, row), NEW kept
    PROVE  LET r == WriteCapture(row, m, failed) IN
           /\ r \in RowStates /\ RowFits(s, r) /\ r.virtual_model = row.virtual_model
           /\ failed = {} => (RowIsExact(s, row, kept) => RowIsExact(s, r, TRUE))
    <1> DEFINE r == WriteCapture(row, m, failed)
    <1>1. /\ r \in RowStates /\ r.virtual_model = row.virtual_model
          /\ r.status = "failed" => row.status = "failed" \/ m.reason \in FailureReasons \/ m.error
          /\ r.status = "abnormal" =>
               \/ m.reason = "client_disconnect" /\ r.http = "499"
               \/ row.status = "abnormal" /\ r.http = row.http
        BY CaptureRow
    <1>2. failed = {} =>
            /\ m.reason \in FailureReasons \/ m.error => r.status = "failed" /\ r.reason # "none"
            /\ m.reason = "client_disconnect" /\ ~m.error =>
                 r.status = "abnormal" /\ r.reason # "none"
            /\ m.reason = "none" /\ ~m.error =>
                 /\ r.reason = row.reason
                 /\ row.status # "none" => r.status = row.status
            /\ r.tokens /\ r.virtual_model => r.cost
        BY CaptureRow
    <1> HIDE DEF r
    <1>3. /\ s.pc \in {"refused", "done"}
          /\ Open(s) => s.pc = "done" /\ m.reason = s.reason /\ m.error = s.error
        BY DEF Speaks, Open
    <1>4. /\ s.reason = "client_disconnect" => ~s.error
          /\ s.reason \in Reasons /\ s.error \in BOOLEAN
        BY DEF Fits, PhaseFits, StreamStates
    <1>5. RowFits(s, r)
        <2>1. Open(s) => (ShouldFail(s) <=> m.reason \in FailureReasons \/ m.error)
            BY <1>3 DEF ShouldFail
        <2> QED
            BY <1>1, <1>3, <2>1 DEF RowFits
    <1>6. ASSUME failed = {}, RowIsExact(s, row, kept)
          PROVE  RowIsExact(s, r, TRUE)
        <2>1. CASE ~Open(s)
            BY <1>2, <1>6, <2>1 DEF RowIsExact
        <2>2. CASE Open(s) /\ ShouldFail(s)
            <3>1. (m.reason \in FailureReasons \/ m.error) /\ s.reason # "client_disconnect"
                BY <1>3, <1>4, <2>2 DEF ShouldFail, FailureReasons
            <3> QED
                BY <1>2, <1>6, <2>2, <3>1 DEF RowIsExact
        <2>3. CASE Open(s) /\ s.reason = "client_disconnect"
            <3>1. m.reason = "client_disconnect" /\ ~m.error /\ ~ShouldFail(s)
                BY <1>3, <1>4, <2>3 DEF ShouldFail, FailureReasons
            <3> QED
                BY <1>2, <1>6, <2>3, <3>1 DEF RowIsExact
        <2>4. CASE Open(s) /\ ~ShouldFail(s) /\ s.reason # "client_disconnect"
            <3>1. m.reason = "none" /\ ~m.error
                BY <1>3, <1>4, <2>4 DEF ShouldFail, Reasons
            <3>2. row.reason = "none" /\ (row.virtual_model => row.status = "success")
                BY <1>6, <2>4 DEF RowIsExact
            <3> QED
                BY <1>1, <1>2, <1>6, <2>4, <3>1, <3>2 DEF RowIsExact
        <2> QED
            BY <2>1, <2>2, <2>3, <2>4
    <1> QED
        BY <1>1, <1>5, <1>6 DEF r

LEMMA SinkKeepsInv ==
    ASSUME Inv, Sink
    PROVE  Inv'
    <1> DEFINE m == Head(queue)
               t == m.stream
               s == str[t]
               row == rows[t]
    <1>1. /\ StreamsFit /\ TablesFit /\ MessagesFit /\ RowsFit /\ Delivered
          /\ str' = str /\ health' = health /\ spawned' = spawned
          /\ queue # <<>> /\ queue' = Tail(queue)
        BY DEF Inv, Sink
    <1>2. /\ queue \in Seq(Messages) /\ m \in Messages /\ m = queue[1] /\ 1 \in 1..Len(queue)
          /\ Tail(queue) \in Seq(Messages) /\ Len(queue) \in Nat /\ Len(Tail(queue)) = Len(queue) - 1
          /\ \A i \in 1..(Len(queue) - 1) : Tail(queue)[i] = queue[i + 1]
        BY <1>1 DEF TablesFit
    <1> HIDE DEF m
    <1>3. /\ t \in Streams /\ Fits(s) /\ row \in RowStates /\ RowFits(s, row)
          /\ t \in stored => s.pc \in {"refused", "done"}
          /\ t \notin lost => RowIsExact(s, row, t \in stored)
        BY <1>1, <1>2 DEF Messages, StreamsFit, TablesFit, RowsFit
    <1>4. Speaks(m, s)
        BY <1>1, <1>2 DEF MessagesFit, OnTheBus
    <1>5. /\ \A n \in Messages : OnTheBus(n)' => OnTheBus(n)
          /\ \A n \in Messages : OnTheBus(n) => OnTheBus(n)' \/ n = m
        <2>1. \A i \in 1..Len(queue') : i + 1 \in 1..Len(queue) /\ queue'[i] = queue[i + 1]
            BY <1>1, <1>2
        <2>2. \A i \in 1..Len(queue) :
                i = 1 \/ (i - 1 \in 1..Len(queue') /\ queue'[i - 1] = queue[i])
            <3> SUFFICES ASSUME NEW i \in 1..Len(queue), i # 1
                         PROVE  i - 1 \in 1..Len(queue') /\ queue'[i - 1] = queue[i]
                OBVIOUS
            <3>1. i - 1 \in 1..(Len(queue) - 1) /\ (i - 1) + 1 = i
                BY <1>2
            <3> QED
                BY <1>1, <1>2, <3>1
        <2> QED
            BY <1>1, <1>2, <2>1, <2>2 DEF OnTheBus
    <1>6. PICK failed \in SUBSET Statements(m) :
            /\ Cardinality(failed) <= MaxFaults - faults
            /\ faults' = faults + Cardinality(failed)
            /\ lost' = IF failed = {} THEN lost ELSE lost \cup {t}
            /\ \/ /\ m.type = "event"
                  /\ rows' = [rows EXCEPT ![t] = WriteRequestEvent(row, m, failed)]
                  /\ stored' = stored
               \/ /\ m.type = "capture"
                  /\ rows' = [rows EXCEPT ![t] = WriteCapture(row, m, failed)]
                  /\ stored' = IF "payload" \in failed THEN stored ELSE stored \cup {t}
        BY DEF Sink, m
    <1>7. faults' \in 0..MaxFaults
        <2>1. Cardinality(failed) \in Nat
            BY FewStatements
        <2> QED
            BY <1>1, <1>6, <2>1, KindsKnown DEF TablesFit
    <1>8. lost \subseteq lost' /\ lost' \subseteq Streams /\ (t \notin lost' => failed = {})
        BY <1>1, <1>3, <1>6 DEF TablesFit
    \* What either message makes of the row.
    <1>9. /\ rows' \in [Streams -> RowStates] /\ stored' \subseteq Streams
          /\ stored \subseteq stored' /\ (\A u \in Streams : u # t => rows'[u] = rows[u])
          /\ (\A u \in Streams : u # t /\ u \in stored' => u \in stored)
          /\ RowFits(s, rows'[t])
          /\ t \in stored' => s.pc \in {"refused", "done"}
          /\ t \notin lost' =>
               /\ RowIsExact(s, rows'[t], t \in stored')
               /\ row.virtual_model => rows'[t].virtual_model
               /\ m.type = "event" => rows'[t].virtual_model
               /\ m.type = "capture" => t \in stored'
        <2>1. CASE /\ m.type = "event" /\ stored' = stored
                   /\ rows' = [rows EXCEPT ![t] = WriteRequestEvent(row, m, failed)]
            <3> DEFINE r == WriteRequestEvent(row, m, failed)
                       kept == t \in stored
            <3>1. /\ r \in RowStates /\ RowFits(s, r)
                  /\ failed = {} =>
                       r.virtual_model /\ (RowIsExact(s, row, kept) => RowIsExact(s, r, kept))
                BY <1>2, <1>3, <1>4, <2>1, EventRowFits
            <3>2. rows' = [rows EXCEPT ![t] = r] /\ stored' = stored
                BY <2>1
            <3> HIDE DEF r, t
            <3>3. /\ rows' \in [Streams -> RowStates] /\ rows'[t] = r
                  /\ \A u \in Streams : u # t => rows'[u] = rows[u]
                BY <1>1, <1>3, <3>1, <3>2 DEF TablesFit
            <3>4. t \notin lost' => RowIsExact(s, rows'[t], t \in stored') /\ rows'[t].virtual_model
                BY <1>3, <1>8, <3>1, <3>2, <3>3
            <3> QED
                BY <1>1, <1>3, <2>1, <3>1, <3>2, <3>3, <3>4 DEF TablesFit
        <2>2. CASE /\ m.type = "capture"
                   /\ stored' = IF "payload" \in failed THEN stored ELSE stored \cup {t}
                   /\ rows' = [rows EXCEPT ![t] = WriteCapture(row, m, failed)]
            <3> DEFINE r == WriteCapture(row, m, failed)
                       kept == t \in stored
            <3>1. /\ r \in RowStates /\ RowFits(s, r) /\ r.virtual_model = row.virtual_model
                  /\ failed = {} => (RowIsExact(s, row, kept) => RowIsExact(s, r, TRUE))
                <4> HIDE DEF s, row, kept
                <4>1. /\ Fits(s) /\ row \in RowStates /\ m \in Messages /\ m.type = "capture"
                      /\ Speaks(m, s) /\ RowFits(s, row)
                    BY <1>2, <1>3, <1>4, <2>2
                <4> QED
                    BY <4>1, CaptureRowFits
            <3>2. rows' = [rows EXCEPT ![t] = r] /\ s.pc \in {"refused", "done"}
                BY <1>4, <2>2 DEF Speaks
            <3> HIDE DEF r, t
            <3>3. /\ rows' \in [Streams -> RowStates] /\ rows'[t] = r
                  /\ \A u \in Streams : u # t => rows'[u] = rows[u]
                BY <1>1, <1>3, <3>1, <3>2 DEF TablesFit
            <3>4. t \notin lost' => failed = {} /\ t \in stored'
                BY <1>8, <2>2
            <3>5. t \notin lost' => RowIsExact(s, rows'[t], TRUE) /\ (t \in stored') = TRUE
                BY <1>3, <1>8, <3>1, <3>3, <3>4
            <3>6. /\ stored' \subseteq Streams /\ stored \subseteq stored'
                  /\ \A u \in Streams : u # t /\ u \in stored' => u \in stored
                BY <1>1, <1>3, <2>2 DEF TablesFit
            <3> QED
                BY <1>1, <1>3, <2>2, <3>1, <3>2, <3>3, <3>4, <3>5, <3>6
        <2> QED
            BY <1>6, <2>1, <2>2
    <1> HIDE DEF t
    <1>10. TablesFit'
        <2>1. Len(Tail(queue)) <= Capacity
            BY <1>1, <1>2, KindsKnown DEF TablesFit
        <2> QED
            BY <1>1, <1>2, <1>7, <1>8, <1>9, <2>1 DEF TablesFit
    <1>11. StreamsFit' /\ MessagesFit'
        BY <1>1, <1>5 DEF StreamsFit, MessagesFit
    <1>12. RowsFit'
        <2> SUFFICES ASSUME NEW u \in Streams
                     PROVE  /\ RowFits(str[u], rows'[u])
                            /\ u \in stored' => str[u].pc \in {"refused", "done"}
                            /\ u \notin lost' => RowIsExact(str[u], rows'[u], u \in stored')
            BY <1>1 DEF RowsFit
        <2>1. CASE u = t
            BY <1>9, <2>1
        <2>2. CASE u # t
            <3>1. (u \in stored') = (u \in stored)
                BY <1>9, <2>2
            <3> QED
                BY <1>1, <1>8, <1>9, <2>2, <3>1 DEF RowsFit
        <2> QED
            BY <2>1, <2>2
    <1>13. Delivered'
        <2> SUFFICES ASSUME NEW u \in Streams, u \notin lost'
                     PROVE  /\ str[u].pc \notin {"idle", "calling"} =>
                                 \/ rows'[u].virtual_model
                                 \/ \E n \in Messages :
                                      OnTheBus(n)' /\ n.stream = u /\ n.type = "event"
                            /\ str[u].pc = "done" =>
                                 \/ u \in stored'
                                 \/ \E n \in Messages :
                                      OnTheBus(n)' /\ n.stream = u /\ n.type = "capture"
            BY <1>1 DEF Delivered
        <2>1. u \notin lost
            BY <1>8
        <2>2. /\ rows[u].virtual_model => rows'[u].virtual_model
              /\ u \in stored => u \in stored'
              /\ u = t /\ m.type = "event" => rows'[u].virtual_model
              /\ u = t /\ m.type = "capture" => u \in stored'
            BY <1>9
        <2>3. t = m.stream
            BY DEF t
        <2> QED
            BY <1>1, <1>5, <2>1, <2>2, <2>3 DEF Delivered
    <1> QED
        BY <1>10, <1>11, <1>12, <1>13 DEF Inv

-----------------------------------------------------------------------------
LEMMA InvInit == Init => Inv
    <1> SUFFICES ASSUME Init PROVE Inv
        OBVIOUS
    <1>1. /\ str = [t \in Streams |-> Idle] /\ spawned = {} /\ queue = <<>>
          /\ rows = [t \in Streams |-> NoRow] /\ stored = {} /\ lost = {} /\ faults = 0
        BY DEF Init
    <1>2. Fits(Idle) /\ Idle \in StreamStates /\ Idle.pc = "idle"
        BY IdleFits DEF Fits, Idle
    <1>3. StreamsFit
        BY <1>1, <1>2 DEF StreamsFit
    <1>4. health \in TargetHealth
        <2>1. Fresh \in TargetHealth
            BY DEF Fresh, TargetHealth
        <2>2. Now \in Nat \cup {Never} /\ FailureThreshold \in Nat
            BY RegistryAssumption DEF Now
        <2>3. [Fresh EXCEPT !.consecutive_failures = FailureThreshold,
                            !.last_failure_at = Now] \in TargetHealth
            BY <2>1, <2>2 DEF TargetHealth
        <2> QED
            BY <2>1, <2>3 DEF Init
    <1>5. NoRow \in RowStates
        BY DEF NoRow, RowStates, Reasons
    <1>6. TablesFit
        <2>1. queue \in Seq(Messages) /\ Len(queue) = 0 /\ 0 <= Capacity /\ 0 \in 0..MaxFaults
            BY <1>1, KindsKnown
        <2> QED
            BY <1>1, <1>4, <1>5, <2>1 DEF TablesFit
    <1>7. \A m : ~OnTheBus(m)
        BY <1>1 DEF OnTheBus
    <1>8. MessagesFit
        BY <1>7 DEF MessagesFit
    <1>9. RowsFit
        <2>1. \A t \in Streams : str[t] = Idle /\ rows[t] = NoRow /\ t \notin stored
            BY <1>1
        <2>2. RowFits(Idle, NoRow) /\ \A kept : RowIsExact(Idle, NoRow, kept)
            BY <1>2 DEF RowFits, RowIsExact, NoRow, Open
        <2> QED
            BY <2>1, <2>2 DEF RowsFit
    <1>10. Delivered
        BY <1>1, <1>2 DEF Delivered
    <1> QED
        BY <1>3, <1>6, <1>8, <1>9, <1>10 DEF Inv

LEMMA InvNext == Inv /\ [Next]_vars => Inv'
    <1> SUFFICES ASSUME Inv, [Next]_vars PROVE Inv'
        OBVIOUS
    <1>1. ASSUME NEW t \in Streams, Request(t) \/ Relay(t)
          PROVE  Inv'
        <2>1. StreamsFit /\ TablesFit
            BY DEF Inv
        <2>2. (\E x, M : Goes(t, x, M)) /\ UNCHANGED <<queue, rows, stored, lost, faults>>
            BY <1>1, <2>1, StreamGoes
        <2> QED
            BY <2>2, GoesKeepsInv
    <1>2. ASSUME NEW m \in spawned, Send(m)
          PROVE  Inv'
        BY <1>2, SendKeepsInv
    <1>3. CASE Sink
        BY <1>3, SinkKeepsInv
    <1>4. CASE UNCHANGED vars
        BY <1>4 DEF vars, Inv, StreamsFit, TablesFit, MessagesFit, RowsFit, Delivered, OnTheBus
    <1> QED
        BY <1>1, <1>2, <1>3, <1>4 DEF Next

LEMMA Invariance == Spec => []Inv
    BY InvInit, InvNext, PTL DEF Spec

-----------------------------------------------------------------------------
(* What follows.                                                           *)

LEMMA InvTypes == Inv => TypeOK
    <1> SUFFICES ASSUME Inv PROVE TypeOK
        OBVIOUS
    <1>1. ASSUME NEW t \in Streams
          PROVE  /\ str[t] \in StreamStates /\ rows[t] \in RowStates
        BY DEF Inv, StreamsFit, TablesFit
    <1>2. ASSUME NEW t \in Streams
          PROVE  LET s == str[t] IN
                 /\ s.pc \in {"idle", "calling", "refused", "relay", "closing", "done"}
                 /\ s.mode \in Modes \cup {"none"}
                 /\ {s.end_marker, s.error, s.terminal, s.saw_terminal, s.completed, s.cut}
                      \subseteq BOOLEAN
                 /\ s.held = NoLine \/ s.held \in [kind : Kinds, cut : {"line", "head"}]
                 /\ s.reason \in Reasons
                 /\ \A i \in 1..Len(s.client) : s.client[i] \in Lines
                 /\ \A i \in 1..Len(s.todo) : \A j \in 1..Len(s.todo[i]) : s.todo[i][j] \in Lines
                 /\ s.chunks \in 0..MaxChunks /\ s.sent \subseteq Kinds /\ s.fails \in 0..2
        <2> DEFINE s == str[t]
        <2>1. s \in StreamStates
            BY <1>1
        <2> HIDE DEF s
        <2>2. s.client \in Seq(Lines) /\ s.todo \in Seq(Seq(Lines))
            BY <2>1 DEF StreamStates
        <2>3. \A i \in 1..Len(s.client) : s.client[i] \in Lines
            BY <2>2
        <2>4. \A i \in 1..Len(s.todo) : \A j \in 1..Len(s.todo[i]) : s.todo[i][j] \in Lines
            <3>1. \A i \in 1..Len(s.todo) : s.todo[i] \in Seq(Lines)
                BY <2>2
            <3> QED
                BY <3>1
        <2>5. /\ s.pc \in {"idle", "calling", "refused", "relay", "closing", "done"}
              /\ s.mode \in Modes \cup {"none"}
              /\ {s.end_marker, s.error, s.terminal, s.saw_terminal, s.completed, s.cut}
                   \subseteq BOOLEAN
              /\ s.held = NoLine \/ s.held \in [kind : Kinds, cut : {"line", "head"}]
              /\ s.reason \in Reasons
              /\ s.chunks \in 0..MaxChunks /\ s.sent \subseteq Kinds /\ s.fails \in 0..2
            BY <2>1 DEF StreamStates, Held
        <2> QED
            BY <2>3, <2>4, <2>5 DEF s
    <1>3. ASSUME NEW t \in Streams
          PROVE  /\ rows[t].status \in {"none", "pending", "success", "failed", "abnormal"}
                 /\ rows[t].reason \in Reasons
                 /\ rows[t].http \in {"none", "200", "499", "error"}
                 /\ {rows[t].virtual_model, rows[t].tokens, rows[t].cost} \subseteq BOOLEAN
        BY <1>1 DEF RowStates
    <1>4. /\ health \in TargetHealth /\ spawned \subseteq Messages
          /\ Len(queue) <= Capacity /\ \A i \in 1..Len(queue) : queue[i] \in Messages
          /\ stored \subseteq Streams /\ lost \subseteq Streams /\ faults \in 0..MaxFaults
        BY DEF Inv, TablesFit
    <1> QED
        BY <1>2, <1>3, <1>4 DEF TypeOK

\* The gateway's own frames reach the client whole and only where the upstream's
\* are missing, whatever lines come, wherever the network cuts them and whenever
\* the stream ends (drive_upstream_stream): an error frame never follows a
\* half-written line, an end frame is never the second one.
THEOREM FramesReachWhole == Spec => []FramesAreWhole
    <1>1. Inv => FramesAreWhole
        <2> SUFFICES ASSUME Inv PROVE FramesAreWhole
            OBVIOUS
        <2>1. TypeOK
            BY InvTypes
        <2>2. \A t \in Streams : FramesFit(str[t]) /\ str[t].client \in Seq(Lines)
            BY DEF Inv, StreamsFit, Fits, StreamStates
        <2>3. ErrorFrameStandsAlone
            BY <2>2 DEF ErrorFrameStandsAlone, FramesFit
        <2>4. EndFrameIsNeeded
            <3> SUFFICES ASSUME NEW t \in Streams,
                                GatewayEnd \in {str[t].client[i] : i \in 1..Len(str[t].client)}
                         PROVE  /\ str[t].sent \cap (Errors \cup {"terminal", "finish"}) # {}
                                /\ ~str[t].cut => "terminal" \notin str[t].sent
                                /\ Cardinality({i \in 1..Len(str[t].client) :
                                                  str[t].client[i] = GatewayEnd}) = 1
                BY DEF EndFrameIsNeeded
            <3> DEFINE c == str[t].client
                       E == {i \in 1..Len(c) : c[i] = GatewayEnd}
            <3>1. PICK i \in 1..Len(c) : c[i] = GatewayEnd
                OBVIOUS
            <3>2. EndIsDue(str[t])
                BY <2>2, <3>1 DEF FramesFit
            <3>3. E = {i}
                BY <2>2, <3>1 DEF FramesFit
            <3>4. Cardinality(E) = 1
                BY <3>3, FS_Singleton
            <3> QED
                BY <3>2, <3>4 DEF EndIsDue
        <2> QED
            BY <2>1, <2>3, <2>4 DEF FramesAreWhole
    <1> QED
        BY <1>1, Invariance, PTL

\* Everything that is said of a settled stream has reached its row.
LEMMA SettledIsWritten ==
    ASSUME Inv, NEW t \in Streams, Settled(t), t \notin lost
    PROVE  /\ rows[t].virtual_model
           /\ str[t].pc = "done" => t \in stored
           /\ RowFits(str[t], rows[t]) /\ RowIsExact(str[t], rows[t], t \in stored)
           /\ Fits(str[t])
    <1>1. \A m \in Messages : OnTheBus(m) => m.stream # t
        BY DEF Settled, OnTheBus
    <1>2. str[t].pc \in {"refused", "done"}
        BY DEF Settled
    <1>3. /\ RowFits(str[t], rows[t]) /\ RowIsExact(str[t], rows[t], t \in stored) /\ Fits(str[t])
        BY DEF Inv, RowsFit, StreamsFit
    <1>4. rows[t].virtual_model /\ (str[t].pc = "done" => t \in stored)
        BY <1>1, <1>2 DEF Inv, Delivered
    <1> QED
        BY <1>3, <1>4

\* The row of a stream tells how it ended, in whichever order its event and its
\* capture reach the sink and whatever the bus drops or the database refuses
\* (write_request_event, write_capture), and the usage it holds has its price
\* (try_compute_cost).
THEOREM RowsTellTheTruth == Spec => []RowIsTrue
    <1>1. Inv => RowIsTrue
        <2> SUFFICES ASSUME Inv PROVE RowIsTrue
            OBVIOUS
        <2>1. UsageIsPriced
            BY SettledIsWritten DEF UsageIsPriced, RowIsExact
        <2>2. ASSUME NEW t \in Streams, Open(str[t])
              PROVE  /\ rows[t].status = "failed" => str[t].fails > 0
                     /\ rows[t].status = "abnormal" =>
                          str[t].reason = "client_disconnect" /\ rows[t].http = "499"
            <3>1. Fits(str[t]) /\ RowFits(str[t], rows[t])
                BY DEF Inv, StreamsFit, RowsFit
            <3> QED
                BY <2>2, <3>1 DEF RowFits, Fits, PhaseFits
        <2>3. ASSUME NEW t \in Streams, str[t].pc = "done", Settled(t), t \notin lost, ~str[t].cut,
                     ~(str[t].mode = "transcode" /\ "terminal" \in str[t].sent)
              PROVE  rows[t].status = Outcome(t)
            <3> DEFINE s == str[t]
                       row == rows[t]
                       kept == t \in stored
            <3>1. row.virtual_model /\ kept /\ RowIsExact(s, row, kept) /\ Fits(s) /\ s.pc = "done"
                BY <2>3, SettledIsWritten
            <3>2. Outcome(t) = IF s.reason \in FailureReasons \/ s.sent \cap Errors # {} THEN "failed"
                               ELSE IF s.completed \/ "terminal" \in s.sent THEN "success"
                               ELSE "abnormal"
                BY DEF Outcome
            <3>3. ~s.cut /\ ~(s.mode = "transcode" /\ "terminal" \in s.sent)
                BY <2>3
            <3> HIDE DEF s, row, kept
            <3>4. /\ s.sent \cap Errors # {} <=> s.error
                  /\ s.mode \in {"verbatim", "transcode"} /\ s.reason \in Reasons
                  /\ s.mode = "verbatim" => (s.terminal <=> s.sent \cap {"terminal", "failed"} # {})
                  /\ s.mode = "transcode" => ~s.terminal
                BY <3>1, <3>3 DEF Fits, SignalsFit, PhaseFits, Open, StreamStates
            <3>5. /\ s.reason = "client_disconnect" => ~s.error /\ ~s.terminal /\ ~s.completed
                  /\ s.completed => s.reason = "none"
                  /\ s.reason # "none" \/ s.completed \/ s.terminal \/ s.error
                BY <3>1 DEF Fits, PhaseFits
            <3>6. /\ ShouldFail(s) => row.status = "failed"
                  /\ s.reason = "client_disconnect" => row.status = "abnormal"
                  /\ ~ShouldFail(s) /\ s.reason # "client_disconnect" => row.status = "success"
                BY <3>1 DEF RowIsExact, Open
            <3>7. CASE ShouldFail(s)
                BY <3>2, <3>4, <3>6, <3>7 DEF ShouldFail, row
            <3>8. CASE s.reason = "client_disconnect"
                <4>1. /\ s.reason \notin FailureReasons /\ ~(s.sent \cap Errors # {}) /\ ~s.completed
                      /\ "terminal" \notin s.sent
                    BY <3>3, <3>4, <3>5, <3>8 DEF FailureReasons
                <4> QED
                    BY <3>2, <3>6, <3>8, <4>1 DEF row
            <3>9. CASE ~ShouldFail(s) /\ s.reason # "client_disconnect"
                <4>1. s.reason = "none" /\ ~(s.sent \cap Errors # {}) /\ ~s.error
                    BY <3>4, <3>9 DEF ShouldFail, Reasons
                <4>2. "failed" \notin s.sent /\ "none" \notin FailureReasons
                    BY <4>1 DEF Errors, FailureReasons
                <4>3. s.completed \/ "terminal" \in s.sent
                    BY <3>4, <3>5, <4>1, <4>2
                <4> QED
                    BY <3>2, <3>6, <3>9, <4>1, <4>2, <4>3 DEF row
            <3> QED
                BY <3>7, <3>8, <3>9
        <2>4. RowTellsTheEnd
            BY <2>2, <2>3 DEF RowTellsTheEnd, Open
        <2> QED
            BY <2>1, <2>4 DEF RowIsTrue
    <1> QED
        BY <1>1, Invariance, PTL

\* The registry and the log tell the same story of a stream whose messages have
\* arrived: it is logged as failed exactly if it counted against its target, and
\* a client that leaves never counts (record_health_failure_if_needed).
THEOREM HealthAndLogAgree == Spec => []RowAndHealthAgree
    <1>1. Inv => RowAndHealthAgree
        <2> SUFFICES ASSUME Inv, NEW t \in Streams, str[t].pc = "done", Settled(t), t \notin lost
                     PROVE  /\ rows[t].status = "failed" <=> str[t].fails > 0
                            /\ str[t].reason = "client_disconnect" => str[t].fails = 0
            BY DEF RowAndHealthAgree
        <2> DEFINE s == str[t]
                   row == rows[t]
                   kept == t \in stored
        <2>1. kept /\ RowFits(s, row) /\ RowIsExact(s, row, kept) /\ Fits(s) /\ s.pc = "done"
            BY SettledIsWritten
        <2> HIDE DEF s, row, kept
        <2>2. /\ ShouldFail(s) <=> s.fails > 0
              /\ s.fails \in 0..2 /\ (s.reason = "client_disconnect" => ~s.error)
            BY <2>1 DEF Fits, PhaseFits, StreamStates
        <2>3. row.status = "failed" <=> ShouldFail(s)
            BY <2>1 DEF RowFits, RowIsExact, Open
        <2>4. s.reason = "client_disconnect" => ~ShouldFail(s)
            BY <2>2 DEF ShouldFail, FailureReasons
        <2>5. s.reason = "client_disconnect" => s.fails = 0
            BY <2>2, <2>4
        <2> QED
            BY <2>2, <2>3, <2>5 DEF s, row
    <1> QED
        BY <1>1, Invariance, PTL

\* No order of the event and the capture takes the usage of a row back, nor its
\* cost (the COALESCEs of write_request_event).
THEOREM UsageStays == Spec => UsageIsKept
    <1> DEFINE Kept1 == \A t \in Streams : /\ rows[t].tokens => rows'[t].tokens
                                           /\ rows[t].cost => rows'[t].cost
    <1>1. Inv /\ [Next]_vars => [Kept1]_vars
        <2> SUFFICES ASSUME Inv, Next, NEW u \in Streams
                     PROVE  /\ rows[u].tokens => rows'[u].tokens
                            /\ rows[u].cost => rows'[u].cost
            OBVIOUS
        <2>1. CASE rows' = rows
            BY <2>1
        <2>2. CASE Sink
            <3> DEFINE m == Head(queue)
                       t == m.stream
            <3>1. m \in Messages /\ rows \in [Streams -> RowStates]
                BY <2>2 DEF Inv, TablesFit, Sink
            <3>2. PICK failed \in SUBSET Statements(m) :
                    \/ /\ m.type = "event"
                       /\ rows' = [rows EXCEPT ![t] = WriteRequestEvent(rows[t], m, failed)]
                    \/ /\ m.type = "capture"
                       /\ rows' = [rows EXCEPT ![t] = WriteCapture(rows[t], m, failed)]
                BY <2>2 DEF Sink
            <3> HIDE DEF m
            <3>3. t \in Streams
                BY <3>1 DEF Messages
            <3> DEFINE e == WriteRequestEvent(rows[t], m, failed)
                       c == WriteCapture(rows[t], m, failed)
            <3>4. /\ m.type = "event" => e.tokens = rows[t].tokens /\ (rows[t].cost => e.cost)
                  /\ m.type = "capture" =>
                       (rows[t].tokens => c.tokens) /\ (rows[t].cost => c.cost)
                BY <3>1, <3>3, EventRow, CaptureRow
            <3> HIDE DEF e, c
            <3>5. \/ m.type = "event" /\ rows' = [rows EXCEPT ![t] = e]
                  \/ m.type = "capture" /\ rows' = [rows EXCEPT ![t] = c]
                BY <3>2 DEF e, c
            <3> QED
                BY <3>1, <3>3, <3>4, <3>5
        <2>3. CASE rows' # rows /\ ~Sink
            <3>1. \A t \in Streams : Request(t) \/ Relay(t) => rows' = rows
                BY DEF Request, Relay, Route, Opened, CallFails, CallCancelled, Chunk, Truncate,
                       EndOfStream, Resume, Leave
            <3>2. \A m \in spawned : Send(m) => rows' = rows
                BY DEF Send
            <3> QED
                BY <2>3, <3>1, <3>2 DEF Next
        <2> QED
            BY <2>1, <2>2, <2>3
    <1> QED
        BY <1>1, Invariance, PTL DEF Spec, UsageIsKept

=============================================================================
