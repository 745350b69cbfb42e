------------------------------ MODULE MCOAuth ------------------------------
(***************************************************************************)
(* Two tasks: of two instances that share a PostgreSQL database, or of one *)
(* instance with SQLite.                                                   *)
(***************************************************************************)
EXTENDS OAuthRefresh

CONSTANTS i1, i2, t1, t2

Apart == [t \in Tasks |-> IF t = t1 THEN i1 ELSE i2]
Together == [t \in Tasks |-> i1]

\* Without "unreachable" a refresh would wait for ever at the bound MaxToken.
Scenario(kind, home, ops, faults) ==
  [kind |-> kind, home |-> home, ops |-> ops, faults |-> faults \cup {"unreachable"}]

MCScenarios ==
  {Scenario("postgres", Apart, Operations, {}),
   Scenario("postgres", Apart, {"request", "recover"}, Faults \ {"revoke"}),
   Scenario("postgres", Apart, {"keepalive", "mutate", "install"}, Faults),
   Scenario("postgres", Together, {"request", "force", "mutate"}, {"cancel"}),
   Scenario("sqlite", Together, {"request", "keepalive", "mutate", "edit"}, Faults)}
=============================================================================
