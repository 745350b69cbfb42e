----------------------------- MODULE MCIngress ------------------------------
(* Two requests out of eight, one permit, two key rows. *)
EXTENDS Ingress

CONSTANTS k1, k2, sA, sB, small, large, none, anyone, blank, nobody, hi

\* k1 may use one model and has one request left a day; k2 is a row to be
\* created or imported.
MCKeys ==
    [k \in {k1, k2} |->
        IF k = k1 THEN [hash |-> sA, active |-> TRUE, allow |-> {small}, quota |-> 1]
        ELSE none]

Ask(end, cred, model) ==
    [end |-> end, cred |-> cred, model |-> model, words |-> hi, big |-> FALSE, body |-> "fine"]

MCInputs ==
    {Ask("chat", sA, small), Ask("embeddings", sA, small),
     Ask("messages", sA, large),
     [Ask("responses", sB, small) EXCEPT !.big = TRUE],
     [Ask("gemini", sB, small) EXCEPT !.body = "bad"],
     [Ask("gemini", nobody, small) EXCEPT !.body = "badpath"],
     Ask("images", nobody, small),
     Ask("edits", sB, large)}

Row(hash, active, allow, quota) ==
    [hash |-> hash, active |-> active, allow |-> allow, quota |-> quota]

MCEdits ==
    {[op |-> "create", id |-> k2, row |-> Row(sB, TRUE, anyone, none)],
     [op |-> "delete", id |-> k1], [op |-> "disable", id |-> k1],
     [op |-> "quota", id |-> k1, row |-> Row(sA, TRUE, anyone, none)],
     [op |-> "models", id |-> k1, row |-> Row(sA, TRUE, {}, none)],
     [op |-> "models", id |-> k1, row |-> Row(sA, TRUE, {blank}, none)],
     [op |-> "import", id |-> k1, row |-> Row(sB, TRUE, {small}, 1), schema |-> 1],
     [op |-> "import", id |-> k2, row |-> Row(sA, TRUE, {small}, 1), schema |-> 2],
     [op |-> "import", id |-> k2, row |-> Row(sB, FALSE, {small}, none), schema |-> 2]}

\* The defaults' shape (a queue shorter than the limit), a limit raised above
\* the semaphore, and a gateway that asks for no key.
MCTunables ==
    {[inflight |-> 1, depth |-> 1, require |-> TRUE],
     [inflight |-> 3, depth |-> 1, require |-> TRUE],
     [inflight |-> 2, depth |-> 0, require |-> FALSE]}

=============================================================================
