------------------------------ MODULE MCConfig ------------------------------
(* A replica with an admin session on it and another session elsewhere,    *)
(* two providers, and two route rows that may both be for one model.       *)
EXTENDS Config, TLC

\* The first row is routed over both providers; q is disabled.
MCInitDb ==
    [prov  |-> "p" :> [key |-> "k1", on |-> TRUE] @@ "q" :> [key |-> "k1", on |-> FALSE],
     route |-> "a" :> [model |-> "m", targets |-> {"p", "q"}, on |-> TRUE,
                       from |-> "edit"] @@ "b" :> Absent,
     set   |-> [require |-> TRUE, limit |-> TRUE]]

MCEnv == [require |-> TRUE, limit |-> TRUE]

\* One request of each kind: a rotated key, a provider turned on with its
\* key left out, a second row for the model, an import over all tables, one of
\* a route without targets, and two settings in one request.
MCEdits ==
    {[op |-> "provider", id |-> "p", key |-> NoSecret, on |-> FALSE],
     [op |-> "drop_provider", id |-> "p"],
     [op |-> "route", id |-> "b", model |-> "m", targets |-> {"p"}, on |-> FALSE],
     [op |-> "drop_route", id |-> "b"],
     [op |-> "import", prov |-> "q" :> [key |-> "k2", on |-> TRUE],
         route |-> "b" :> [model |-> "m", targets |-> {"q"}, on |-> TRUE, from |-> "file"],
         set |-> "limit" :> FALSE],
     [op |-> "import", prov |-> <<>>,
         route |-> "a" :> [model |-> "m", targets |-> {}, on |-> TRUE, from |-> "file"],
         set |-> <<>>],
     [op |-> "settings", list |-> <<<<"require", FALSE>>, <<"limit", FALSE>>>>]}
=============================================================================
