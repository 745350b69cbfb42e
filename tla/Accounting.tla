----------------------------- MODULE Accounting -----------------------------
(***************************************************************************)
(* What the ingress promises its operators about every request, whatever   *)
(* endpoint it came to: it is accepted once, works under at most one of    *)
(* the gateway's permits, and ends.  Either it is answered, and the log    *)
(* holds exactly one event, with the status the client got; or the client  *)
(* left first, and the log holds exactly one event saying so.  Module      *)
(* Ingress is shown to implement this.                                     *)
(***************************************************************************)
EXTENDS Naturals, Sequences, FiniteSets

CONSTANTS Requests, Statuses, Permits

VARIABLES
    life,       \* request -> "out", "in", "answered" or "left"
    answer,     \* request -> status sent to the client, 0 before
    log,        \* request -> statuses of its events, in order
    busy        \* requests that hold a permit

vars == <<life, answer, log, busy>>

\* What a request whose client left is filed under: before and after the
\* gateway started to wait for an upstream.
LeftStatuses == {499, 500}

Init ==
    /\ life = [q \in Requests |-> "out"]
    /\ answer = [q \in Requests |-> 0]
    /\ log = [q \in Requests |-> <<>>]
    /\ busy = {}

Accept(q) ==
    /\ life[q] = "out"
    /\ life' = [life EXCEPT ![q] = "in"]
    /\ UNCHANGED <<answer, log, busy>>

Take(q) ==
    /\ life[q] = "in" /\ q \notin busy
    /\ Cardinality(busy) < Permits
    /\ busy' = busy \cup {q}
    /\ UNCHANGED <<life, answer, log>>

Answer(q, s) ==
    /\ life[q] = "in"
    /\ life' = [life EXCEPT ![q] = "answered"]
    /\ answer' = [answer EXCEPT ![q] = s]
    /\ log' = [log EXCEPT ![q] = <<s>>]
    /\ busy' = busy \ {q}

Leave(q, s) ==
    /\ life[q] = "in"
    /\ life' = [life EXCEPT ![q] = "left"]
    /\ log' = [log EXCEPT ![q] = <<s>>]
    /\ busy' = busy \ {q}
    /\ UNCHANGED answer

Ends(q) ==
    \/ \E s \in Statuses : Answer(q, s)
    \/ \E s \in LeftStatuses : Leave(q, s)

Next == \E q \in Requests : Accept(q) \/ Take(q) \/ Ends(q)

\* What may happen, and with fairness what must.
SafeSpec == Init /\ [][Next]_vars

Spec == SafeSpec /\ \A q \in Requests : WF_vars(Ends(q))

=============================================================================
