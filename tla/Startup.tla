------------------------------- MODULE Startup -------------------------------
(***************************************************************************)
(* What an API process does before it answers requests                      *)
(* (src/backend/cmd/api/main.go): it waits for PostgreSQL, then applies the *)
(* migration files it finds (src/backend/internal/database/migrate.go),     *)
(* each in a transaction of its own, then listens.  Any error on the way    *)
(* ends the process.                                                        *)
(*                                                                         *)
(* Processes are started, stopped and killed at any time and several may    *)
(* start at once on one database, as a rolling deployment does; a release   *)
(* ships a prefix of the migration files, so a process may be older or      *)
(* newer than another one.  Version v is the v-th file in the order of      *)
(* DiscoverMigrations.                                                      *)
(*                                                                         *)
(* A transaction's writes are its own until it commits.  Two transactions   *)
(* that create schema_migrations meet at the catalog's unique index, two    *)
(* that insert the same version at the primary key of the table: the second *)
(* waits until the first is over (CREATE TABLE may then fail although it    *)
(* says IF NOT EXISTS: Fail).  What the statements of a body do, and on     *)
(* which locks two bodies wait, is not modelled: a body succeeds or fails.  *)
(***************************************************************************)
EXTENDS Integers

CONSTANTS
    Processes,  \* API processes
    LastVersion \* the newest migration file

ASSUME StartupAssumption == LastVersion \in Nat \ {0}

Versions == 1..LastVersion

VARIABLES
    recorded,   \* table schema_migrations
    ran,        \* history: versions whose body was committed
    reran,      \* history: versions whose body was committed more than once
    pc,         \* where each process stands
    files,      \* how many migration files its release ships
    skip,       \* AUTHIX_SKIP_DB_STARTUP_CHECK is 1
    known,      \* the map that AppliedVersions returned
    at          \* the file its loop is at

databaseVars == <<recorded, ran, reran>>
processVars == <<pc, files, skip, known, at>>
startupVars == <<databaseVars, processVars>>

Querying == {"reading", "begin", "body", "record", "commit"}
Starting == {"waiting", "loop"} \cup Querying

-----------------------------------------------------------------------------
StartupInit ==
    /\ recorded = {} /\ ran = {} /\ reran = {}
    /\ pc = [p \in Processes |-> "off"]
    /\ files = [p \in Processes |-> 1]
    /\ skip = [p \in Processes |-> FALSE]
    /\ known = [p \in Processes |-> {}]
    /\ at = [p \in Processes |-> 1]

Go(p, step) == pc' = [pc EXCEPT ![p] = step]

\* The process is started, with the first n files and the skip flag or not.
Start(p, n, flag) ==
    /\ pc[p] = "off"
    /\ files' = [files EXCEPT ![p] = n]
    /\ skip' = [skip EXCEPT ![p] = flag]
    /\ Go(p, IF flag THEN "reading" ELSE "waiting")
    /\ UNCHANGED <<databaseVars, known, at>>

\* WaitForReady: a ping succeeds before the context expires.
Ready(p) ==
    /\ pc[p] = "waiting"
    /\ Go(p, "reading")
    /\ UNCHANGED <<databaseVars, files, skip, known, at>>

\* The context expires first: the process ends.
Unreachable(p) ==
    /\ pc[p] = "waiting"
    /\ Go(p, "exited")
    /\ UNCHANGED <<databaseVars, files, skip, known, at>>

\* Mutant: the loop of Run begins before its first file.
AppliedVersionsEarly(p) ==
    /\ pc[p] = "reading"
    /\ \E answer \in {recorded, {}} : known' = [known EXCEPT ![p] = answer]
    /\ at' = [at EXCEPT ![p] = 0]
    /\ Go(p, "loop")
    /\ UNCHANGED <<databaseVars, files, skip>>

\* AppliedVersions: a query that fails counts as "nothing applied".
AppliedVersions(p) ==
    /\ pc[p] = "reading"
    /\ \E answer \in {recorded, {}} : known' = [known EXCEPT ![p] = answer]
    /\ at' = [at EXCEPT ![p] = 1]
    /\ Go(p, "loop")
    /\ UNCHANGED <<databaseVars, files, skip>>

\* The loop of Run passes over a file it knows to be applied.
SkipFile(p) ==
    /\ pc[p] = "loop"
    /\ at[p] \in known[p] \cap 1..files[p]
    /\ at' = [at EXCEPT ![p] = @ + 1]
    /\ UNCHANGED <<databaseVars, pc, files, skip, known>>

\* ... and calls runOne for any other.
RunFile(p) ==
    /\ pc[p] = "loop"
    /\ at[p] \in 1..files[p] \ known[p]
    /\ Go(p, "begin")
    /\ UNCHANGED <<databaseVars, files, skip, known, at>>

\* After the last file the process listens.
Listen(p) ==
    /\ pc[p] = "loop"
    /\ at[p] > files[p]
    /\ Go(p, "serving")
    /\ UNCHANGED <<databaseVars, files, skip, known, at>>

\* The table is not there yet, another transaction has created it and is not
\* over.  It comes with the first version that is committed.
BeingCreated(p) ==
    recorded = {} /\ \E q \in Processes \ {p} : pc[q] \in {"body", "record", "commit"}

\* runOne: a transaction begins and creates schema_migrations if it has to.
Begin(p) ==
    /\ pc[p] = "begin"
    /\ ~BeingCreated(p)
    /\ Go(p, "body")
    /\ UNCHANGED <<databaseVars, files, skip, known, at>>

\* runOne: the body of the file is executed in the transaction.
ApplyBody(p) ==
    /\ pc[p] = "body"
    /\ Go(p, "record")
    /\ UNCHANGED <<databaseVars, files, skip, known, at>>

\* Another transaction has inserted version v and is not over.
Contended(p, v) ==
    v \notin recorded /\ \E q \in Processes \ {p} : pc[q] = "commit" /\ at[q] = v

\* Mutant: the version is recorded on the pool, not in the transaction.
RecordVersionOutside(p) ==
    /\ pc[p] = "record"
    /\ ~Contended(p, at[p])
    /\ recorded' = recorded \cup {at[p]}
    /\ Go(p, "commit")
    /\ UNCHANGED <<ran, reran, files, skip, known, at>>

\* runOne: INSERT ... ON CONFLICT DO NOTHING.
RecordVersion(p) ==
    /\ pc[p] = "record"
    /\ ~Contended(p, at[p])
    /\ Go(p, "commit")
    /\ UNCHANGED <<databaseVars, files, skip, known, at>>

\* runOne: the commit takes effect; a commit whose answer is lost is an error.
Commit(p) ==
    LET v == at[p]
    IN  /\ pc[p] = "commit"
        /\ recorded' = recorded \cup {v}
        /\ ran' = ran \cup {v}
        /\ reran' = reran \cup ({v} \cap ran)
        /\ \/ Go(p, "loop") /\ at' = [at EXCEPT ![p] = v + 1]
           \/ Go(p, "exited") /\ UNCHANGED at
        /\ UNCHANGED <<files, skip, known>>

\* Mutant: a file that cannot be applied is tried again.
FailRetries(p) ==
    /\ pc[p] \in Querying
    /\ Go(p, IF pc[p] = "reading" THEN "exited" ELSE "begin")
    /\ UNCHANGED <<databaseVars, files, skip, known, at>>

\* Mutant: a file that cannot be applied is passed over.
FailContinues(p) ==
    /\ pc[p] \in Querying \ {"reading"}
    /\ Go(p, "loop")
    /\ at' = [at EXCEPT ![p] = @ + 1]
    /\ UNCHANGED <<databaseVars, files, skip, known>>

\* Any other error rolls the transaction back and ends the process: a row
\* that cannot be read, an unreadable or empty file, a failing statement.
Fail(p) ==
    /\ pc[p] \in Querying
    /\ Go(p, "exited")
    /\ UNCHANGED <<databaseVars, files, skip, known, at>>

\* The process is stopped or killed, which rolls its transaction back; one
\* that has ended may be started again.
Stop(p) ==
    /\ pc[p] # "off"
    /\ Go(p, "off")
    /\ known' = [known EXCEPT ![p] = {}]
    /\ at' = [at EXCEPT ![p] = 1]
    /\ files' = [files EXCEPT ![p] = 1]
    /\ skip' = [skip EXCEPT ![p] = FALSE]
    /\ UNCHANGED databaseVars

\* What process p does while nothing fails.
Run(p) ==
    \/ AppliedVersions(p)
    \/ SkipFile(p)
    \/ RunFile(p)
    \/ Listen(p)
    \/ Begin(p)
    \/ ApplyBody(p)
    \/ RecordVersion(p)
    \/ Commit(p)

StartupNext ==
    \E p \in Processes :
        \/ \E n \in Versions, flag \in BOOLEAN : Start(p, n, flag)
        \/ Ready(p)
        \/ Unreachable(p)
        \/ Run(p)
        \/ Fail(p)
        \/ Stop(p)

StartupSpec == StartupInit /\ [][StartupNext]_startupVars

\* PostgreSQL answers a statement that does not wait for a lock and serves
\* those who wait for one in turn (SF), and the context of WaitForReady
\* expires.  No failure is fair: a process that waits for a lock is not saved
\* by an error.
FairStartupSpec ==
    /\ StartupSpec
    /\ \A p \in Processes :
          /\ WF_startupVars(Run(p))
          /\ SF_startupVars(Begin(p)) /\ SF_startupVars(RecordVersion(p))
          /\ WF_startupVars(Unreachable(p))

-----------------------------------------------------------------------------
StartupTypeOK ==
    /\ recorded \subseteq Versions /\ ran \subseteq Versions /\ reran \subseteq Versions
    /\ pc \in [Processes -> Starting \cup {"off", "serving", "exited"}]
    /\ files \in [Processes -> Versions]
    /\ skip \in [Processes -> BOOLEAN]
    /\ known \in [Processes -> SUBSET Versions]
    /\ at \in [Processes -> 1..(LastVersion + 1)]

\* A process that answers requests finds the schema of its release: the body
\* of every file it ships has been committed, by itself or by another
\* process, whatever failed or was killed before (main.go:57-68).
ServesMigrated ==
    \A p \in Processes : pc[p] = "serving" => 1..files[p] \subseteq ran

\* The database is always at some version: no body is in it without those of
\* all earlier files, although releases overlap and read the table at
\* different times (migrate.go:123-153).
RanInOrder == \A v \in ran : 1..v \subseteq ran

\* A process that starts does not hang, even when others are migrating the
\* same database: it comes to serve, or it ends.
StartupEnds ==
    \A p \in Processes : pc[p] \in Starting ~> pc[p] \notin Starting

\* docs/ARCHITECTURE.md:78-79: "already-applied files are never re-executed".
NeverReExecuted == reran = {}

\* README.md:129 of a process started with the skip flag while PostgreSQL is
\* not running: "the HTTP listener will come up".
ListenerComesUp == \A p \in Processes : skip[p] => pc[p] # "exited"
=============================================================================
