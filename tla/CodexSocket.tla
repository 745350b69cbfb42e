------------------------------ MODULE CodexSocket ------------------------------
(***************************************************************************)
(* The task that owns a Codex WebSocket.  It turns the frames of the       *)
(* socket into stream events in a bounded channel, and gives the socket up *)
(* when the answer is over or the receiving half is dropped.               *)
(***************************************************************************)
EXTENDS Naturals, Sequences, SequencesExt

CONSTANTS Buffer,     \* CODEX_WEBSOCKET_EVENT_BUFFER
          MaxFrames   \* bound: frames the upstream sends

ASSUME SocketAssumption == Buffer \in Nat \ {0} /\ MaxFrames \in Nat

VARIABLES sock,      \* "none", "open", "closed" or "dropped"
          pump,      \* where the task is
          held,      \* the event it is about to put into the channel
          chan,      \* the channel
          heard,     \* the frames read off the socket
          seen,      \* the events the relay has taken
          receiver   \* the relay still holds the receiving half

socketVars == <<sock, pump, held, chan, heard, seen, receiver>>

\* An "incomplete" answer is like a "failed" one.
EventFrames == {"delta", "completed", "done", "failed", "error"}
\* A frame that is no UTF-8, a pong that cannot be sent, an error of the socket.
FaultFrames == {"fault"}
QuietFrames == {"ping"}
Frames == EventFrames \cup FaultFrames \cup QuietFrames \cup {"close"}

SocketIdle ==
  /\ sock = "none" /\ pump = "idle" /\ held = "none"
  /\ chan = <<>> /\ heard = <<>> /\ seen = <<>> /\ receiver = TRUE

\* normalize_websocket_event: the event sent on, and whether it is the last one.
Normalized(f) == IF f = "done" THEN "completed" ELSE f

TerminalWithoutError(e) == e \in {"completed", "failed"}

Terminal(e) == e \in {"completed", "failed", "error"}

\* The frames of the socket as the relay is to see them.
EventsOf(frames) ==
  FlattenSeq([k \in DOMAIN frames |->
    IF frames[k] \in EventFrames THEN <<Normalized(frames[k])>>
    ELSE IF frames[k] \in FaultFrames THEN <<"fault">> ELSE <<>>])

PumpFrame ==
  /\ pump = "recv" /\ Len(heard) < MaxFrames
  /\ \E f \in Frames :
       /\ heard' = Append(heard, f)
       /\ \/ /\ f \in EventFrames
             /\ held' = Normalized(f) /\ pump' = "send"
             /\ UNCHANGED sock
          \/ /\ f \in FaultFrames
             /\ held' = "fault" /\ pump' = "last"
             /\ UNCHANGED sock
          \/ /\ f \in QuietFrames
             /\ UNCHANGED <<held, pump, sock>>
          \/ /\ f = "close"
             /\ pump' = "gone" /\ sock' = "closed"
             /\ UNCHANGED held
  /\ UNCHANGED <<chan, seen, receiver>>

\* After a terminal event the socket is closed, after a fault it is dropped.
PumpSend ==
  /\ pump \in {"send", "last"} /\ receiver /\ Len(chan) < Buffer
  /\ chan' = Append(chan, held)
  /\ held' = "none"
  /\ pump' = IF pump = "last" THEN "gone" ELSE IF Terminal(held) THEN "close" ELSE "recv"
  /\ sock' = IF pump = "last" THEN "dropped" ELSE sock
  /\ UNCHANGED <<heard, seen, receiver>>

\* The channel is closed, or the cancel signal wins over a full channel.
PumpSendFails ==
  /\ pump \in {"send", "last"} /\ ~receiver
  /\ held' = "none"
  /\ pump' = IF pump = "last" THEN "gone" ELSE "close"
  /\ sock' = IF pump = "last" THEN "dropped" ELSE sock
  /\ UNCHANGED <<chan, heard, seen, receiver>>

PumpCancelled ==
  /\ pump = "recv" /\ ~receiver
  /\ pump' = "close"
  /\ UNCHANGED <<sock, held, chan, heard, seen, receiver>>

\* Bounded by CODEX_WEBSOCKET_CLOSE_TIMEOUT.
PumpClose ==
  /\ pump = "close"
  /\ pump' = "gone" /\ sock' = "closed"
  /\ UNCHANGED <<held, chan, heard, seen, receiver>>

RelayPoll ==
  /\ pump # "idle" /\ receiver /\ chan # <<>>
  /\ seen' = Append(seen, Head(chan)) /\ chan' = Tail(chan)
  /\ UNCHANGED <<sock, pump, held, heard, receiver>>

\* The stream is dropped: its end, a timeout, or the client's departure.
RelayLeaves ==
  /\ pump # "idle" /\ receiver
  /\ receiver' = FALSE
  /\ UNCHANGED <<sock, pump, held, chan, heard, seen>>

PumpSteps == PumpSend \/ PumpSendFails \/ PumpCancelled \/ PumpClose

SocketNext == PumpFrame \/ PumpSteps \/ RelayPoll \/ RelayLeaves
================================================================================
