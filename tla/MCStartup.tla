------------------------------ MODULE MCStartup ------------------------------
(* Instances of Startup for TLC. *)
EXTENDS Startup

\* The steps of Startup that are left while PostgreSQL is not running: no
\* statement succeeds, and the query of AppliedVersions finds nothing.
NoPostgresNext ==
    \E p \in Processes :
        \/ \E n \in Versions, flag \in BOOLEAN : Start(p, n, flag)
        \/ Unreachable(p)
        \/ AppliedVersions(p) /\ known'[p] = {}
        \/ SkipFile(p)
        \/ RunFile(p)
        \/ Listen(p)
        \/ pc[p] # "reading" /\ Fail(p)
        \/ Stop(p)

NoPostgresSpec == StartupInit /\ [][NoPostgresNext]_startupVars
=============================================================================
