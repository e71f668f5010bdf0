---------------------------- MODULE Startup_proofs ----------------------------
(* Theorems about Startup, for any number of processes and releases. *)
EXTENDS Startup, TLAPS

Migrating == {"loop", "begin", "body", "record", "commit"}

\* What a process that is migrating, or has migrated, may rely on: nothing
\* leaves the database, so what it knew or applied itself is still there.
ProcessInv(p) ==
    /\ pc[p] \in Migrating => known[p] \subseteq ran /\ 1..(at[p] - 1) \subseteq ran
    /\ pc[p] \in Migrating \ {"loop"} => at[p] \in 1..files[p]
    /\ pc[p] = "serving" => 1..files[p] \subseteq ran

StartupInv ==
    /\ StartupTypeOK
    /\ recorded = ran
    /\ RanInOrder
    /\ \A p \in Processes : ProcessInv(p)

LEMMA StartupInitial == StartupInit => StartupInv
BY StartupAssumption
   DEF StartupInit, StartupInv, StartupTypeOK, RanInOrder, ProcessInv, Migrating,
       Starting, Querying, Versions

\* A step of process p that leaves the database alone and keeps what p may
\* rely on keeps it for everyone.
LEMMA LocalStep ==
    ASSUME NEW p \in Processes, StartupInv, StartupTypeOK', UNCHANGED databaseVars,
           ProcessInv(p)',
           \A q \in Processes \ {p} :
              pc'[q] = pc[q] /\ files'[q] = files[q] /\ known'[q] = known[q] /\ at'[q] = at[q]
    PROVE  StartupInv'
BY DEF StartupInv, RanInOrder, ProcessInv, databaseVars, Migrating

LEMMA StartupStep == StartupInv /\ [StartupNext]_startupVars => StartupInv'
<1> SUFFICES ASSUME StartupInv, [StartupNext]_startupVars PROVE StartupInv'
  OBVIOUS
<1> USE StartupAssumption DEF Versions, Starting, Querying, Migrating
<1> DEFINE Same(q) == pc'[q] = pc[q] /\ files'[q] = files[q] /\ known'[q] = known[q] /\ at'[q] = at[q]
<1>types. StartupTypeOK /\ recorded = ran /\ RanInOrder /\ \A p \in Processes : ProcessInv(p)
  BY DEF StartupInv
<1>1. ASSUME NEW p \in Processes, NEW n \in Versions, NEW flag \in BOOLEAN, Start(p, n, flag)
      PROVE StartupInv'
  <2>1. StartupTypeOK' /\ UNCHANGED databaseVars
    BY <1>1, <1>types DEF Start, Go, StartupTypeOK, databaseVars
  <2>2. ProcessInv(p)' /\ \A q \in Processes \ {p} : Same(q)
    BY <1>1, <1>types DEF Start, Go, StartupTypeOK, ProcessInv
  <2> QED BY <2>1, <2>2, LocalStep
<1>2. ASSUME NEW p \in Processes, Ready(p) \/ Unreachable(p) \/ Fail(p) PROVE StartupInv'
  <2>1. StartupTypeOK' /\ UNCHANGED databaseVars
    BY <1>2, <1>types DEF Ready, Unreachable, Fail, Go, StartupTypeOK, databaseVars
  <2>2. ProcessInv(p)' /\ \A q \in Processes \ {p} : Same(q)
    BY <1>2, <1>types DEF Ready, Unreachable, Fail, Go, StartupTypeOK, ProcessInv
  <2> QED BY <2>1, <2>2, LocalStep
<1>3. ASSUME NEW p \in Processes, AppliedVersions(p) PROVE StartupInv'
  <2>1. PICK answer \in {recorded, {}} : known' = [known EXCEPT ![p] = answer]
    BY <1>3 DEF AppliedVersions
  <2>2. StartupTypeOK' /\ UNCHANGED databaseVars
    BY <1>3, <1>types, <2>1 DEF AppliedVersions, Go, StartupTypeOK, databaseVars
  <2>3. /\ pc'[p] = "loop" /\ at'[p] = 1 /\ known'[p] = answer /\ ran' = ran
        /\ answer \subseteq ran
        /\ \A q \in Processes \ {p} : Same(q)
    BY <1>3, <1>types, <2>1, <2>2 DEF AppliedVersions, Go, StartupTypeOK, databaseVars
  <2>4. 1..(at'[p] - 1) = {}
    BY <2>3
  <2>5. ProcessInv(p)'
    BY <2>3, <2>4 DEF ProcessInv
  <2> QED BY <2>2, <2>3, <2>5, LocalStep
<1>4. ASSUME NEW p \in Processes, SkipFile(p) PROVE StartupInv'
  <2>0. at[p] \in 1..files[p] /\ at[p] \in ran /\ at'[p] = at[p] + 1 /\ files[p] \in Versions
    BY <1>4, <1>types DEF SkipFile, StartupTypeOK, ProcessInv
  <2>1. StartupTypeOK' /\ UNCHANGED databaseVars
    BY <1>4, <1>types, <2>0 DEF SkipFile, StartupTypeOK, databaseVars
  <2>2. ProcessInv(p)' /\ \A q \in Processes \ {p} : Same(q)
    BY <1>4, <1>types, <2>0 DEF SkipFile, StartupTypeOK, ProcessInv, databaseVars
  <2> QED BY <2>1, <2>2, LocalStep
<1>5. ASSUME NEW p \in Processes,
             RunFile(p) \/ Begin(p) \/ ApplyBody(p) \/ RecordVersion(p)
      PROVE StartupInv'
  <2>1. StartupTypeOK' /\ UNCHANGED databaseVars
    BY <1>5, <1>types DEF RunFile, Begin, ApplyBody, RecordVersion, Go, StartupTypeOK, databaseVars
  <2>2. ProcessInv(p)' /\ \A q \in Processes \ {p} : Same(q)
    BY <1>5, <1>types
       DEF RunFile, Begin, ApplyBody, RecordVersion, Go, StartupTypeOK, ProcessInv, databaseVars
  <2> QED BY <2>1, <2>2, LocalStep
<1>6. ASSUME NEW p \in Processes, Listen(p) PROVE StartupInv'
  <2>1. StartupTypeOK' /\ UNCHANGED databaseVars
    BY <1>6, <1>types DEF Listen, Go, StartupTypeOK, databaseVars
  <2>2. 1..files[p] \subseteq ran
    BY <1>6, <1>types DEF Listen, StartupTypeOK, ProcessInv
  <2>3. ProcessInv(p)' /\ \A q \in Processes \ {p} : Same(q)
    BY <1>6, <1>types, <2>2 DEF Listen, Go, StartupTypeOK, ProcessInv, databaseVars
  <2> QED BY <2>1, <2>3, LocalStep
\* The one step that changes the database: version at[p] joins, and all
\* earlier versions are there already.
<1>7. ASSUME NEW p \in Processes, Commit(p) PROVE StartupInv'
  <2>1. /\ at[p] \in 1..files[p] /\ files[p] \in Versions
        /\ 1..(at[p] - 1) \subseteq ran
        /\ ran' = ran \cup {at[p]} /\ recorded' = ran' /\ UNCHANGED <<files, skip, known>>
    BY <1>7, <1>types DEF Commit, StartupTypeOK, ProcessInv
  <2>2. \/ pc' = [pc EXCEPT ![p] = "loop"] /\ at' = [at EXCEPT ![p] = at[p] + 1]
        \/ pc' = [pc EXCEPT ![p] = "exited"] /\ UNCHANGED at
    BY <1>7 DEF Commit, Go
  <2>3. StartupTypeOK'
    <3>1. at[p] \in Versions /\ at[p] + 1 \in 1..(LastVersion + 1)
      BY <2>1
    <3>2. reran' \subseteq Versions
      BY <1>7, <1>types DEF Commit, StartupTypeOK
    <3> QED BY <1>types, <2>1, <2>2, <3>1, <3>2 DEF StartupTypeOK
  <2>4. RanInOrder'
    BY <1>types, <2>1 DEF RanInOrder, StartupTypeOK
  <2>5. \A q \in Processes : ProcessInv(q)'
    <3> SUFFICES ASSUME NEW q \in Processes PROVE ProcessInv(q)'
      OBVIOUS
    <3>1. CASE q = p
      <4>1. 1..at[p] \subseteq ran' /\ known'[p] \subseteq ran'
        BY <1>7, <1>types, <2>1 DEF Commit, ProcessInv
      <4>2. CASE pc' = [pc EXCEPT ![p] = "loop"] /\ at' = [at EXCEPT ![p] = at[p] + 1]
        <5>1. pc'[p] = "loop" /\ at'[p] - 1 = at[p]
          BY <1>types, <2>1, <4>2 DEF StartupTypeOK
        <5> QED BY <3>1, <4>1, <5>1 DEF ProcessInv
      <4>3. CASE pc' = [pc EXCEPT ![p] = "exited"]
        BY <1>types, <3>1, <4>3 DEF ProcessInv, StartupTypeOK
      <4> QED BY <2>2, <4>2, <4>3
    <3>2. CASE q # p
      BY <1>types, <2>1, <2>2, <3>2 DEF ProcessInv, StartupTypeOK
    <3> QED BY <3>1, <3>2
  <2> QED BY <2>1, <2>3, <2>4, <2>5 DEF StartupInv
<1>8. ASSUME NEW p \in Processes, Stop(p) PROVE StartupInv'
  <2>1. StartupTypeOK' /\ UNCHANGED databaseVars
    BY <1>8, <1>types DEF Stop, Go, StartupTypeOK, databaseVars
  <2>2. ProcessInv(p)' /\ \A q \in Processes \ {p} : Same(q)
    BY <1>8, <1>types DEF Stop, Go, StartupTypeOK, ProcessInv
  <2> QED BY <2>1, <2>2, LocalStep
<1>9. ASSUME UNCHANGED startupVars PROVE StartupInv'
  BY <1>9 DEF StartupInv, StartupTypeOK, RanInOrder, ProcessInv,
     startupVars, databaseVars, processVars
<1> QED
  BY <1>1, <1>2, <1>3, <1>4, <1>5, <1>6, <1>7, <1>8, <1>9 DEF StartupNext, Run

\* The inductive invariant of the start-up holds in every reachable state.
THEOREM StartupInvariant == StartupSpec => []StartupInv
BY StartupInitial, StartupStep, PTL DEF StartupSpec

\* However many processes of whatever releases start, fail and are killed,
\* one that answers requests finds every migration of its release applied
\* (main.go:57-68, migrate.go:123-190).
THEOREM ServesMigratedHolds == StartupSpec => []ServesMigrated
<1>1. StartupInv => ServesMigrated
  BY DEF StartupInv, ServesMigrated, ProcessInv
<1> QED BY <1>1, StartupInvariant, PTL

\* No migration is ever in the database without all earlier ones
\* (migrate.go:123-153).
THEOREM RanInOrderHolds == StartupSpec => []RanInOrder
<1>1. StartupInv => RanInOrder
  BY DEF StartupInv
<1> QED BY <1>1, StartupInvariant, PTL

\* The database and every process stay within the versions there are.
THEOREM StartupTypeCorrect == StartupSpec => []StartupTypeOK
<1>1. StartupInv => StartupTypeOK
    BY DEF StartupInv
<1>2. QED
    BY <1>1, StartupInvariant, PTL
=============================================================================
