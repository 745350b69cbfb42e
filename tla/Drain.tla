------------------------------- MODULE Drain -------------------------------
(***************************************************************************)
(* Shutdown of one gateway process: the signal listener and the DrainState *)
(* of crates/server/src/drain.rs, the three tasks of run() in              *)
(* crates/server/src/main.rs that wait for it, the requests in flight and  *)
(* the telemetry channel they write to (crates/server/src/telemetry.rs).   *)
(*                                                                         *)
(* tokio::sync::Notify is external: notify_waiters wakes the waiters that  *)
(* are registered and leaves nothing behind for the ones that come later.  *)
(***************************************************************************)
EXTENDS Naturals, Sequences, FiniteSets

CONSTANTS
  Requests,
  Capacity,     \* DEFAULT_TELEMETRY_CHANNEL_CAPACITY
  MaxSignals    \* bound: SIGTERMs sent to the process

ASSUME DrainAssumption == Capacity \in Nat /\ MaxSignals \in Nat

VARIABLES
  proc,      \* the process: "running", "exited", or "killed" by a signal
  handler,   \* the task of spawn_signal_listener
  pending,   \* a signal that was delivered and not yet received
  sent,      \* signals sent so far
  waiter,    \* the futures that call wait_for_signal
  flag,      \* GLOBAL_DRAIN_SIGNALLED
  timedOut,  \* drain_timeout has elapsed
  req,       \* requests
  queue      \* events in the telemetry channel

drainVars == <<proc, handler, pending, sent, waiter, flag, timedOut, req, queue>>

\* The task that sets the flag, the server's shutdown future, the deadline.
Waiters == {"flag", "server", "deadline"}

DrainInit ==
  /\ proc = "running"
  /\ handler = "spawned"
  /\ pending = FALSE
  /\ sent = 0
  /\ waiter = [w \in Waiters |-> "unpolled"]
  /\ flag = FALSE
  /\ timedOut = FALSE
  /\ req = [r \in Requests |-> "new"]
  /\ queue = <<>>

Running == proc = "running"
-----------------------------------------------------------------------------
(***************************************************************************)
(* Signals.                                                                *)
(***************************************************************************)

\* Without a handler the signal ends the process; afterwards it is recorded
\* for the handler, whether or not somebody still receives it.
SendSignal ==
  /\ Running /\ sent < MaxSignals
  /\ sent' = sent + 1
  /\ IF handler = "spawned"
     THEN proc' = "killed" /\ UNCHANGED pending
     ELSE pending' = TRUE /\ UNCHANGED proc
  /\ UNCHANGED <<handler, waiter, flag, timedOut, req, queue>>

InstallHandler ==
  /\ Running /\ handler = "spawned"
  /\ handler' = "listening"
  /\ UNCHANGED <<proc, pending, sent, waiter, flag, timedOut, req, queue>>

\* notify_waiters.
Notified ==
  [w \in Waiters |-> IF waiter[w] = "registered" THEN "woken" ELSE waiter[w]]

\* Mutant of SignalDrain: notify_one, which wakes a single waiter.
BugSignalDrain ==
  /\ Running /\ handler = "listening" /\ pending
  /\ handler' = "done" /\ pending' = FALSE
  /\ \/ \E w \in Waiters : waiter[w] = "registered" /\ waiter' = [waiter EXCEPT ![w] = "woken"]
     \/ (\A w \in Waiters : waiter[w] # "registered") /\ waiter' = waiter
  /\ UNCHANGED <<proc, sent, flag, timedOut, req, queue>>

\* The listener task ends after the first signal.
SignalDrain ==
  /\ Running /\ handler = "listening" /\ pending
  /\ handler' = "done" /\ pending' = FALSE
  /\ waiter' = Notified
  /\ UNCHANGED <<proc, sent, flag, timedOut, req, queue>>

\* The first poll of wait_for_signal registers the waiter.
PollWaiter(w) ==
  /\ Running /\ waiter[w] = "unpolled"
  /\ waiter' = [waiter EXCEPT ![w] = "registered"]
  /\ UNCHANGED <<proc, handler, pending, sent, flag, timedOut, req, queue>>

SetGlobalDrainSignalled ==
  /\ Running /\ waiter["flag"] = "woken" /\ ~flag
  /\ flag' = TRUE
  /\ UNCHANGED <<proc, handler, pending, sent, waiter, timedOut, req, queue>>
-----------------------------------------------------------------------------
(***************************************************************************)
(* Requests and telemetry.                                                 *)
(***************************************************************************)

\* The server accepts until its shutdown future resolves.
Accept(r) ==
  /\ Running /\ waiter["server"] # "woken" /\ req[r] = "new"
  /\ req' = [req EXCEPT ![r] = "in_flight"]
  /\ UNCHANGED <<proc, handler, pending, sent, waiter, flag, timedOut, queue>>

\* try_send: the event is dropped when the channel is full.  The identifier
\* is free for the next request.
Finish(r) ==
  /\ Running /\ req[r] = "in_flight"
  /\ req' = [req EXCEPT ![r] = "new"]
  /\ queue' = IF Len(queue) < Capacity THEN Append(queue, r) ELSE queue
  /\ UNCHANGED <<proc, handler, pending, sent, waiter, flag, timedOut>>

\* The drain task of the bus writes the oldest event to the sink.
WriteEvent ==
  /\ Running /\ queue # <<>>
  /\ queue' = Tail(queue)
  /\ UNCHANGED <<proc, handler, pending, sent, waiter, flag, timedOut, req>>
-----------------------------------------------------------------------------
(***************************************************************************)
(* The select of run().  When it ends, run() returns and the runtime is    *)
(* dropped with all its tasks.                                             *)
(***************************************************************************)
InFlight == {r \in Requests : req[r] = "in_flight"}

\* Mutant of ServerDrained: connections are not waited for.
BugServerDrained ==
  /\ Running /\ waiter["server"] = "woken"
  /\ proc' = "exited"
  /\ UNCHANGED <<handler, pending, sent, waiter, flag, timedOut, req, queue>>

ServerDrained ==
  /\ Running /\ waiter["server"] = "woken" /\ InFlight = {}
  /\ proc' = "exited"
  /\ UNCHANGED <<handler, pending, sent, waiter, flag, timedOut, req, queue>>

DrainTimeout ==
  /\ Running /\ waiter["deadline"] = "woken"
  /\ timedOut' = TRUE
  /\ proc' = "exited"
  /\ UNCHANGED <<handler, pending, sent, waiter, flag, req, queue>>

Gateway ==
  \/ InstallHandler \/ SignalDrain \/ SetGlobalDrainSignalled
  \/ \E w \in Waiters : PollWaiter(w)
  \/ WriteEvent \/ ServerDrained \/ DrainTimeout

\* Everything has ended.
Ended == ~Running /\ UNCHANGED drainVars

DrainNext ==
  \/ Gateway \/ SendSignal \/ Ended
  \/ \E r \in Requests : Accept(r) \/ Finish(r)

DrainSpec == DrainInit /\ [][DrainNext]_drainVars

\* The runtime polls every task it was given; a request need not end.
FairSpec ==
  /\ DrainSpec
  /\ WF_drainVars(InstallHandler) /\ WF_drainVars(SignalDrain)
  /\ WF_drainVars(SetGlobalDrainSignalled)
  /\ \A w \in Waiters : WF_drainVars(PollWaiter(w))
  /\ WF_drainVars(WriteEvent) /\ WF_drainVars(ServerDrained) /\ WF_drainVars(DrainTimeout)
-----------------------------------------------------------------------------
\* Types of the process, its waiters and the telemetry channel, which is bounded.
DrainTypes ==
  /\ proc \in {"running", "exited", "killed"}
  /\ handler \in {"spawned", "listening", "done"}
  /\ pending \in BOOLEAN /\ flag \in BOOLEAN /\ timedOut \in BOOLEAN
  /\ sent \in 0..MaxSignals
  /\ waiter \in [Waiters -> {"unpolled", "registered", "woken"}]
  /\ req \in [Requests -> {"new", "in_flight"}]
  /\ queue \in Seq(Requests) /\ Len(queue) <= Capacity

\* A graceful exit leaves requests unfinished only after drain_timeout.
CutOnlyAtDeadline == proc = "exited" /\ InFlight # {} => timedOut

\* The state is well-typed, and requests are cut off only by the deadline of
\* main.rs.
DrainIsOrderly == DrainTypes /\ CutOnlyAtDeadline

\* A signal on its way to the listener that finds w waiting.
Awaited(w) == Running /\ pending /\ handler = "listening" /\ waiter[w] = "registered"

\* A signal ends the process, even if a request never does, once the deadline of
\* main.rs waits for it; where only the server does, it takes no more requests
\* and the process ends with the last of them.  A signal received before a
\* waiter's first poll is lost to that waiter for good: notify_waiters leaves
\* nothing behind and the listener does not come back (drain.rs).
SignalsAreHeard ==
  /\ Awaited("deadline") ~> ~Running
  /\ Awaited("server") ~> (~Running \/ (waiter["server"] = "woken" /\ InFlight # {}))
=============================================================================
