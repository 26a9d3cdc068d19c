---------------------------- MODULE ServicesProofs ----------------------------
(***************************************************************************)
(* Proofs about the services that run beside the lottery, the outbox and   *)
(* the groups, for any number of users, sweepers, processes, requests,     *)
(* tabs and pages.  What has a proof module of its own is cited from it.   *)
(***************************************************************************)
EXTENDS Services, CheckinProofs, Sequences, WellFoundedInduction

-----------------------------------------------------------------------------
(* The schema (Migration).                                                 *)

SchemaParameters == LastVersion \in Nat /\ Builds \subseteq 0..LastVersion

\* What a process relies on.  SQLite: the scripts it has passed, and all of them once
\* it serves; nobody takes a table away.  PostgreSQL: whoever is past the table of
\* versions has it, and whoever has the lock knows the version, which never falls.
SchemaOf(p) ==
    /\ dialect = "sqlite" =>
          /\ proc[p].phase \notin {"wait", "locked"}
          /\ proc[p].phase \in {"upgrade", "script"} =>
                proc[p].at <= proc[p].build /\ 1..proc[p].at \subseteq applied
          /\ proc[p].phase = "ready" => 1..proc[p].build \subseteq applied
    /\ dialect = "postgres" =>
          /\ proc[p].phase \notin {"upgrade", "script", "clash"}
          /\ proc[p].phase \in {"beaten", "read", "wait", "locked", "ready"} => table = "made"
          /\ proc[p].phase = "locked" => lock = {p} /\ proc[p].at = version
          /\ proc[p].phase = "ready" => proc[p].build <= version

SchemaInv ==
    /\ Schema!TypeOK
    /\ 1..version \subseteq applied /\ (dialect = "postgres" => applied = 1..version)
    /\ dialect = "postgres" /\ version > 0 => table = "made"
    /\ \A p \in Processes : SchemaOf(p)

LEMMA ProcessTyped ==
    ASSUME SchemaParameters, Schema!TypeOK, NEW p \in Processes
    PROVE  /\ proc[p] \in Schema!Process
           /\ proc[p].at \in Nat /\ proc[p].build \in Nat /\ version \in Nat
           /\ proc[p].at <= LastVersion /\ proc[p].build <= LastVersion /\ version <= LastVersion
           /\ LastVersion \in Nat
  <1>1. proc[p] \in Schema!Process /\ version \in 0..LastVersion
    BY DEF Schema!TypeOK
  <1>2. proc[p].at \in 0..LastVersion /\ proc[p].build \in 0..LastVersion
    BY <1>1 DEF SchemaParameters, Schema!Process
  <1> QED
    BY <1>1, <1>2 DEF SchemaParameters

\* One process takes a step, the others keep what they rely on.
LEMMA ProcessMoves ==
    ASSUME SchemaParameters, Schema!TypeOK, NEW p \in Processes, NEW phase \in Schema!Phases,
           NEW at \in 0..LastVersion, Schema!Goes(p, phase, at)
    PROVE  /\ proc' \in [Processes -> Schema!Process]
           /\ proc'[p].phase = phase /\ proc'[p].at = at /\ proc'[p].build = proc[p].build
           /\ \A q \in Processes \ {p} : proc'[q] = proc[q]
  <1>1. proc[p] \in Schema!Process
    BY ProcessTyped
  <1>2. [proc[p] EXCEPT !.phase = phase, !.at = at, !.present = FALSE] \in Schema!Process
    BY <1>1 DEF Schema!Process
  <1>3. proc' = [proc EXCEPT ![p] = [proc[p] EXCEPT !.phase = phase, !.at = at, !.present = FALSE]]
    BY DEF Schema!Goes, Schema!TypeOK
  <1>4. [proc[p] EXCEPT !.phase = phase, !.at = at, !.present = FALSE].phase = phase
        /\ [proc[p] EXCEPT !.phase = phase, !.at = at, !.present = FALSE].at = at
        /\ [proc[p] EXCEPT !.phase = phase, !.at = at, !.present = FALSE].build = proc[p].build
    BY <1>1 DEF Schema!Process
  <1> DEFINE f == [proc[p] EXCEPT !.phase = phase, !.at = at, !.present = FALSE]
  <1> HIDE DEF f
  <1>5. proc' = [proc EXCEPT ![p] = f] /\ f \in Schema!Process
        /\ f.phase = phase /\ f.at = at /\ f.build = proc[p].build
        /\ proc \in [Processes -> Schema!Process]
    BY <1>2, <1>3, <1>4, Zenon DEF f, Schema!TypeOK
  <1> QED
    BY <1>5

LEMMA SchemaStarts == ASSUME SchemaParameters, Schema!Init PROVE SchemaInv
  <1>1. PICK b \in [Processes -> Builds] : proc = [p \in Processes |-> Schema!Off(b[p])]
    BY DEF Schema!Init
  <1>2. \A p \in Processes : proc[p] \in Schema!Process /\ proc[p].phase = "off"
    BY <1>1 DEF Schema!Off, Schema!Process, Schema!Phases, SchemaParameters
  <1>3. /\ proc \in [Processes -> Schema!Process] /\ LastVersion \in Nat
        /\ dialect \in {"sqlite", "postgres"} /\ version = 0 /\ applied = {} /\ table = "none" /\ lock = {}
    BY <1>1, <1>2 DEF Schema!Init, SchemaParameters
  <1>4. Schema!TypeOK
    BY <1>3 DEF Schema!TypeOK
  <1>5. \A p \in Processes : SchemaOf(p)
    BY <1>2, Zenon DEF SchemaOf
  <1> QED
    BY <1>3, <1>4, <1>5 DEF SchemaInv

\* The table of versions is found, made, or found to be made.
LEMMA TableKeeps ==
    ASSUME SchemaParameters, SchemaInv, NEW p \in Processes, Schema!FindTable(p) \/ Schema!CreateTable(p)
    PROVE  SchemaInv'
  <1>0. /\ UNCHANGED <<dialect, version, applied, lock>> /\ Schema!TypeOK
        /\ table' \in {"none", "made"} /\ (table = "made" => table' = "made") /\ 0 \in 0..LastVersion
        /\ dialect \in {"sqlite", "postgres"}
    BY DEF Schema!FindTable, Schema!CreateTable, SchemaInv, Schema!TypeOK, SchemaParameters
  <1>1. PICK phase \in {"create", "read", "beaten"} :
           Schema!Goes(p, phase, 0) /\ (phase # "create" => table' = "made")
    <2>1. CASE Schema!FindTable(p)
      BY <1>0, <2>1 DEF Schema!FindTable
    <2>2. CASE Schema!CreateTable(p)
      BY <1>0, <2>2 DEF Schema!CreateTable
    <2> QED BY <2>1, <2>2
  <1>2. /\ proc' \in [Processes -> Schema!Process] /\ proc'[p].phase = phase
        /\ \A q \in Processes \ {p} : proc'[q] = proc[q]
    BY <1>0, <1>1, ProcessMoves DEF Schema!Phases
  <1>3. Schema!TypeOK'
    BY <1>0, <1>2 DEF Schema!TypeOK
  <1>4. SchemaOf(p)'
    BY <1>0, <1>1, <1>2 DEF SchemaOf
  <1>5. ASSUME NEW q \in Processes \ {p} PROVE SchemaOf(q)'
    BY <1>0, <1>2 DEF SchemaInv, SchemaOf
  <1> QED
    BY <1>0, <1>3, <1>4, <1>5 DEF SchemaInv

\* A process reads the version, or looks for the columns of the next script.
LEMMA SchemaLooks ==
    ASSUME SchemaParameters, SchemaInv, NEW p \in Processes, Schema!ReadVersion(p) \/ Schema!Inspect(p)
    PROVE  SchemaInv'
  <1>0. /\ UNCHANGED <<dialect, version, applied, table, lock>> /\ proc \in [Processes -> Schema!Process]
        /\ dialect \in {"sqlite", "postgres"}
    BY DEF Schema!ReadVersion, Schema!Inspect, SchemaInv, Schema!TypeOK
  <1>1. proc[p] \in Schema!Process /\ version \in 0..LastVersion
    BY <1>0 DEF SchemaInv, Schema!TypeOK
  <1>2. CASE Schema!ReadVersion(p)
    <2> DEFINE f == [proc[p] EXCEPT !.known = version, !.at = version, !.present = FALSE,
                          !.phase = IF dialect = "sqlite" THEN "upgrade"
                                    ELSE IF version = proc[p].build THEN "ready" ELSE "wait"]
    <2>1. proc' = [proc EXCEPT ![p] = f] /\ version <= proc[p].build
      BY <1>0, <1>2 DEF Schema!ReadVersion
    <2>2. f \in Schema!Process /\ f.at = version /\ f.build = proc[p].build
          /\ f.phase = (IF dialect = "sqlite" THEN "upgrade"
                        ELSE IF version = proc[p].build THEN "ready" ELSE "wait")
      BY <1>1 DEF Schema!Process, Schema!Phases
    <2> HIDE DEF f
    <2>3. Schema!TypeOK'
      BY <1>0, <2>1, <2>2 DEF SchemaInv, Schema!TypeOK
    <2>4. proc'[p] = f /\ \A q \in Processes \ {p} : proc'[q] = proc[q]
      BY <1>0, <2>1
    <2>5. SchemaOf(p)'
      <3>1. CASE dialect = "sqlite"
        BY <1>0, <2>1, <2>2, <2>4, <3>1, ProcessTyped DEF SchemaInv, SchemaOf
      <3>2. CASE dialect = "postgres"
        <4>1. proc[p].phase = "read" /\ table = "made" /\ proc'[p].phase \in {"ready", "wait"}
              /\ (proc'[p].phase = "ready" => version = proc[p].build)
          BY <1>2, <2>2, <2>4, <3>2 DEF Schema!ReadVersion, SchemaInv, SchemaOf
        <4> QED
          BY <1>0, <2>2, <2>4, <3>2, <4>1, ProcessTyped DEF SchemaInv, SchemaOf
      <3> QED BY <1>0, <3>1, <3>2
    <2>6. ASSUME NEW q \in Processes \ {p} PROVE SchemaOf(q)'
      BY <1>0, <2>4 DEF SchemaInv, SchemaOf
    <2> QED
      BY <1>0, <2>3, <2>5, <2>6 DEF SchemaInv
  <1>3. CASE Schema!Inspect(p)
    <2>0. PICK seen \in BOOLEAN : proc' = [proc EXCEPT ![p].phase = "script", ![p].present = seen]
      <3>1. ((proc[p].at + 1) \in applied) \in BOOLEAN
        OBVIOUS
      <3> QED
        BY <1>3, <3>1, Zenon DEF Schema!Inspect
    <2> DEFINE f == [proc[p] EXCEPT !.phase = "script", !.present = seen]
    <2>1. proc' = [proc EXCEPT ![p] = f] /\ proc[p].phase = "upgrade"
      BY <1>0, <1>3, <2>0 DEF Schema!Inspect
    <2>2. f \in Schema!Process /\ f.at = proc[p].at /\ f.build = proc[p].build /\ f.phase = "script"
      BY <1>1 DEF Schema!Process, Schema!Phases
    <2> HIDE DEF f
    <2>3. Schema!TypeOK'
      BY <1>0, <2>1, <2>2 DEF SchemaInv, Schema!TypeOK
    <2>4. proc'[p] = f /\ \A q \in Processes \ {p} : proc'[q] = proc[q]
      BY <1>0, <2>1
    <2>5. SchemaOf(p)'
      BY <1>0, <2>1, <2>2, <2>4 DEF SchemaInv, SchemaOf
    <2>6. ASSUME NEW q \in Processes \ {p} PROVE SchemaOf(q)'
      BY <1>0, <2>4 DEF SchemaInv, SchemaOf
    <2> QED
      BY <1>0, <2>3, <2>5, <2>6 DEF SchemaInv
  <1> QED BY <1>2, <1>3

LEMMA SchemaCrashes ==
    ASSUME SchemaParameters, SchemaInv, NEW p \in Processes, Schema!Crash(p)
    PROVE  SchemaInv'
  <1>0. /\ UNCHANGED <<dialect, version, applied, table>> /\ proc' = [proc EXCEPT ![p] = Schema!Off(proc[p].build)]
        /\ lock' = lock \ {p} /\ proc \in [Processes -> Schema!Process] /\ proc[p] \in Schema!Process
    BY DEF Schema!Crash, SchemaInv, Schema!TypeOK
  <1>1. Schema!Off(proc[p].build) \in Schema!Process /\ Schema!Off(proc[p].build).phase = "off"
    BY <1>0 DEF Schema!Process, Schema!Phases, Schema!Off, SchemaParameters
  <1>2. Schema!TypeOK'
    BY <1>0, <1>1 DEF SchemaInv, Schema!TypeOK
  <1>3. proc'[p].phase = "off" /\ \A q \in Processes \ {p} : proc'[q] = proc[q]
    BY <1>0, <1>1
  <1>4. ASSUME NEW q \in Processes PROVE SchemaOf(q)'
    BY <1>0, <1>3 DEF SchemaInv, SchemaOf
  <1> QED
    BY <1>0, <1>2, <1>4 DEF SchemaInv

LEMMA ScriptRuns ==
    ASSUME SchemaParameters, SchemaInv, NEW p \in Processes, Schema!RunScript(p) \/ Schema!Serve(p)
    PROVE  SchemaInv'
  <1>0. /\ UNCHANGED <<dialect, table, lock>> /\ Schema!TypeOK /\ SchemaOf(p) /\ proc[p].phase \in {"upgrade", "script"}
        /\ dialect \in {"sqlite", "postgres"}
    BY DEF Schema!RunScript, Schema!Serve, SchemaInv, Schema!TypeOK
  <1>1. /\ dialect = "sqlite" /\ proc[p].at <= proc[p].build /\ 1..proc[p].at \subseteq applied
        /\ proc[p].at \in Nat /\ proc[p].build \in Nat /\ proc[p].build <= LastVersion /\ LastVersion \in Nat
    BY <1>0, ProcessTyped DEF SchemaOf
  <1>2. CASE Schema!Serve(p)
    <2>1. Schema!Goes(p, "ready", proc[p].at) /\ UNCHANGED <<version, applied>> /\ proc[p].at = proc[p].build
      BY <1>2 DEF Schema!Serve, Schema!Done
    <2>2. /\ proc' \in [Processes -> Schema!Process]
          /\ proc'[p].phase = "ready" /\ proc'[p].at = proc[p].at /\ proc'[p].build = proc[p].build
          /\ \A q \in Processes \ {p} : proc'[q] = proc[q]
      BY <1>0, <1>1, <2>1, ProcessMoves DEF Schema!Phases
    <2>3. Schema!TypeOK'
      BY <1>0, <2>1, <2>2 DEF Schema!TypeOK
    <2>4. SchemaOf(p)'
      BY <1>0, <1>1, <2>1, <2>2 DEF SchemaOf
    <2>5. ASSUME NEW q \in Processes \ {p} PROVE SchemaOf(q)'
      BY <1>0, <2>1, <2>2 DEF SchemaInv, SchemaOf
    <2> QED
      BY <1>0, <1>1, <2>1, <2>3, <2>4, <2>5 DEF SchemaInv
  <1>3. CASE Schema!RunScript(p)
    <2> DEFINE n == proc[p].at + 1
    <2>1. n \in 1..LastVersion /\ n <= proc[p].build /\ 1..n = (1..proc[p].at) \cup {n}
      BY <1>1, <1>3 DEF Schema!RunScript, Schema!Done
    <2>2. \/ Schema!Goes(p, "clash", n) /\ UNCHANGED <<version, applied>>
          \/ Schema!Goes(p, "upgrade", n) /\ version' = n /\ applied' = applied \cup {n}
      BY <1>3 DEF Schema!RunScript
    <2> HIDE DEF n
    <2>3. PICK phase \in {"clash", "upgrade"} :
             /\ Schema!Goes(p, phase, n)
             /\ phase = "clash" => UNCHANGED <<version, applied>>
             /\ phase = "upgrade" => version' = n /\ applied' = applied \cup {n}
      BY <2>2
    <2>4. /\ proc' \in [Processes -> Schema!Process]
          /\ proc'[p].phase = phase /\ proc'[p].at = n /\ proc'[p].build = proc[p].build
          /\ \A q \in Processes \ {p} : proc'[q] = proc[q]
      BY <1>0, <2>1, <2>3, ProcessMoves DEF Schema!Phases
    <2>5. applied \subseteq applied' /\ 1..version' \subseteq applied' /\ Schema!TypeOK'
      <3>1. applied \subseteq applied' /\ 1..version' \subseteq applied'
        BY <1>1, <2>1, <2>3 DEF SchemaInv
      <3>2. version' \in 0..LastVersion
        BY <1>0, <1>1, <2>1, <2>3 DEF Schema!TypeOK
      <3>3. applied' \subseteq 1..LastVersion
        BY <1>0, <2>1, <2>3 DEF Schema!TypeOK, Schema!Versions
      <3> QED
        BY <1>0, <2>4, <3>1, <3>2, <3>3 DEF Schema!TypeOK, Schema!Versions
    <2>6. SchemaOf(p)'
      <3>1. phase = "upgrade" => 1..n \subseteq applied'
        BY <1>1, <2>1, <2>3
      <3> QED
        BY <1>0, <1>1, <2>1, <2>4, <3>1 DEF SchemaOf
    <2>7. ASSUME NEW q \in Processes \ {p} PROVE SchemaOf(q)'
      BY <1>0, <1>1, <2>4, <2>5 DEF SchemaInv, SchemaOf
    <2> QED
      BY <1>0, <1>1, <2>5, <2>6, <2>7 DEF SchemaInv
  <1> QED BY <1>2, <1>3

LEMMA LockKeeps ==
    ASSUME SchemaParameters, SchemaInv, NEW p \in Processes, Schema!Lock(p)
    PROVE  SchemaInv'
  <1>0. /\ UNCHANGED <<dialect, version, applied, table>> /\ Schema!TypeOK /\ lock = {} /\ lock' = {p}
        /\ Schema!Goes(p, "locked", version) /\ proc[p].phase = "wait"
        /\ version \in 0..LastVersion /\ dialect \in {"sqlite", "postgres"}
    BY DEF Schema!Lock, Schema!VersionNow, SchemaInv, Schema!TypeOK
  <1>1. /\ proc' \in [Processes -> Schema!Process]
        /\ proc'[p].phase = "locked" /\ proc'[p].at = version
        /\ \A q \in Processes \ {p} : proc'[q] = proc[q]
    BY <1>0, ProcessMoves DEF Schema!Phases
  <1>2. Schema!TypeOK'
    BY <1>0, <1>1 DEF Schema!TypeOK
  <1>3. SchemaOf(p)'
    BY <1>0, <1>1 DEF SchemaInv, SchemaOf
  <1>4. ASSUME NEW q \in Processes \ {p} PROVE SchemaOf(q)'
    <2>1. dialect = "postgres" => proc[q].phase # "locked"
      BY <1>0 DEF SchemaInv, SchemaOf
    <2> QED
      BY <1>0, <1>1, <2>1 DEF SchemaInv, SchemaOf
  <1> QED
    BY <1>0, <1>2, <1>3, <1>4 DEF SchemaInv

\* What commits at once under the lock brings the version to that of the build.
LEMMA UpgradeKeeps ==
    ASSUME SchemaParameters, SchemaInv, NEW p \in Processes, Schema!Upgrade(p)
    PROVE  SchemaInv'
  <1> DEFINE build == proc[p].build
  <1>0. /\ UNCHANGED <<dialect, table>> /\ Schema!TypeOK /\ lock' = lock \ {p} /\ proc[p].phase = "locked"
        /\ version \in Nat /\ build \in Nat /\ build <= LastVersion /\ version <= LastVersion
        /\ proc[p].at \in Nat /\ LastVersion \in Nat /\ dialect \in {"sqlite", "postgres"}
    BY ProcessTyped DEF Schema!Upgrade, SchemaInv, Schema!TypeOK
  <1>1. dialect = "postgres" /\ lock = {p} /\ proc[p].at = version /\ applied = 1..version
    BY <1>0 DEF SchemaInv, SchemaOf
  <1>2. /\ Schema!Goes(p, "ready", build) /\ build <= version' /\ version <= version'
        /\ applied' = 1..version' /\ version' <= LastVersion /\ version' \in Nat
    <2>1. CASE proc[p].at = 0
      <3>1. applied = {}
        BY <1>1, <2>1
      <3>2. CASE Schema!WholeSchema(build) /\ version' = build /\ Schema!Goes(p, "ready", build)
        BY <1>0, <1>1, <2>1, <3>2 DEF Schema!WholeSchema
      <3>3. CASE proc[p].at >= build /\ Schema!Goes(p, "ready", build) /\ UNCHANGED <<version, applied>>
        BY <1>0, <1>1, <3>3
      <3> QED
        BY <1>0, <2>1, <3>1, <3>2, <3>3 DEF Schema!Upgrade
    <2>2. CASE proc[p].at # 0
      <3>1. CASE proc[p].at \in 1..build - 1 /\ Schema!MissingScripts(proc[p].at, build)
                 /\ version' = build /\ Schema!Goes(p, "ready", build)
        <4>1. (1..version) \cup (version + 1)..build = 1..build
          BY <1>0, <1>1, <3>1
        <4> QED
          BY <1>0, <1>1, <3>1, <4>1 DEF Schema!MissingScripts
      <3>2. CASE proc[p].at >= build /\ Schema!Goes(p, "ready", build) /\ UNCHANGED <<version, applied>>
        BY <1>0, <1>1, <3>2
      <3> QED
        BY <1>0, <2>2, <3>1, <3>2 DEF Schema!Upgrade
    <2> QED BY <2>1, <2>2
  <1>3. /\ proc' \in [Processes -> Schema!Process]
        /\ proc'[p].phase = "ready" /\ proc'[p].build = build
        /\ \A q \in Processes \ {p} : proc'[q] = proc[q]
    BY <1>0, <1>2, ProcessMoves DEF Schema!Phases
  <1>4. Schema!TypeOK'
    BY <1>0, <1>2, <1>3 DEF Schema!TypeOK, Schema!Versions
  <1>5. SchemaOf(p)' /\ (dialect = "postgres" => table = "made")
    BY <1>0, <1>1, <1>2, <1>3 DEF SchemaInv, SchemaOf
  <1>6. ASSUME NEW q \in Processes \ {p} PROVE SchemaOf(q)'
    <2>1. proc[q].phase # "locked" /\ proc[q].build \in Nat
      BY <1>0, <1>1, ProcessTyped DEF SchemaInv, SchemaOf
    <2> QED
      BY <1>0, <1>1, <1>2, <1>3, <2>1 DEF SchemaInv, SchemaOf
  <1> QED
    BY <1>0, <1>1, <1>2, <1>4, <1>5, <1>6 DEF SchemaInv

LEMMA SchemaNext == ASSUME SchemaParameters, SchemaInv, [Schema!Next]_(Schema!vars) PROVE SchemaInv'
  <1>1. CASE UNCHANGED Schema!vars
    BY <1>1 DEF Schema!vars, SchemaInv, SchemaOf, Schema!TypeOK
  <1> QED
    BY <1>1, TableKeeps, SchemaLooks, SchemaCrashes, ScriptRuns, LockKeeps, UpgradeKeeps DEF Schema!Next

\* Starting any number of processes of any builds, which die at any moment, leaves the
\* schema complete (migrate in db.js and in postgres-worker.js).
THEOREM SchemaIsComplete ==
    ASSUME SchemaParameters
    PROVE  Schema!Spec => []SchemaInv /\ []Schema!SchemaComplete
  <1>1. SchemaInv => Schema!SchemaComplete
    <2> SUFFICES ASSUME SchemaInv, NEW p \in Processes, proc[p].phase = "ready"
                 PROVE  1..proc[p].build \subseteq applied
      BY DEF Schema!SchemaComplete, SchemaInv, SchemaOf
    <2>1. /\ proc[p].build \in Nat /\ version \in Nat /\ dialect \in {"sqlite", "postgres"}
      BY ProcessTyped DEF SchemaInv, Schema!TypeOK
    <2> QED
      BY <2>1 DEF SchemaInv, SchemaOf
  <1> QED
    BY <1>1, SchemaStarts, SchemaNext, PTL DEF Schema!Spec

-----------------------------------------------------------------------------
(* The list of users or groups (Directory).                                *)

DirectoryParameters == MaxId \in Nat /\ PageSize \in Nat \ {0} /\ SweepHorizon \in Nat

\* The place of a member on the list, and a row that a sweep would delete.
Place(i)   == Cardinality({j \in members : j < i})
Owed(s, i) ==
    i \in members /\ rows[i].at # Listed!Never /\ rows[i].by = "sweep" /\ rows[i].at < sweep[s].started

\* Nothing is known of an id before it was given.
IssuedInv ==
    /\ \A i \in Listed!Ids : rows[i].at # Listed!Never => i <= issued
    /\ \A s \in Sweepers : sweep[s].phase # "rest" =>
          sweep[s].answer \subseteq 1..issued /\ sweep[s].started <= sweepTime /\ sweep[s].page >= 1
    /\ \A r \in Refreshes : upsert[r].phase = "store" => upsert[r].id <= issued

\* While nobody has left since it began, a sweep has what it would delete before it.
SweepOf(s) ==
    sweep[s].phase # "rest" /\ left < sweep[s].started =>
        \A i \in Listed!Ids : Owed(s, i) =>
            /\ sweep[s].phase = "ask" => Place(i) >= (sweep[s].page - 1) * PageSize
            /\ sweep[s].phase = "store" =>
                  i \in sweep[s].answer \/ (~sweep[s].last /\ Place(i) >= sweep[s].page * PageSize)
            /\ sweep[s].phase # "drop"

DirectoryInv == Listed!TypeOK /\ IssuedInv /\ \A s \in Sweepers : SweepOf(s)

\* The instance counts as the modules of this one do.
LEMMA SameCount == \A S : Listed!Cardinality(S) = Cardinality(S)
  BY Zenon DEF Listed!Cardinality, Cardinality, Listed!IsFiniteSet, IsFiniteSet

LEMMA MembersFinite ==
    ASSUME DirectoryParameters, Listed!TypeOK
    PROVE  /\ IsFiniteSet(members) /\ Cardinality(members) \in Nat
           /\ members \subseteq Listed!Ids /\ members \subseteq 1..issued /\ issued \in Nat /\ Listed!Ids \subseteq Nat
           /\ \A i \in Listed!Ids : Place(i) \in Nat
           /\ \A i \in members : Place(i) < Cardinality(members)
  <1>1. issued \in Nat /\ issued <= MaxId /\ members \subseteq 1..issued
    BY DEF Listed!TypeOK, DirectoryParameters
  <1>2. IsFiniteSet(members)
    <2>1. IsFiniteSet(1..issued)
      BY <1>1, FS_Interval
    <2> QED
      BY <1>1, <2>1, FS_Subset
  <1>3. members \subseteq Listed!Ids /\ Listed!Ids \subseteq Nat
    BY <1>1 DEF Listed!Ids, DirectoryParameters
  <1>4. ASSUME NEW i \in Listed!Ids
        PROVE  Place(i) \in Nat /\ (i \in members => Place(i) < Cardinality(members))
    <2>1. {j \in members : j < i} \subseteq members
      OBVIOUS
    <2>2. IsFiniteSet({j \in members : j < i}) /\ Place(i) \in Nat
      BY <1>2, <2>1, FS_Subset, FS_CardinalityType DEF Place
    <2>3. i \notin {j \in members : j < i}
      BY <1>3
    <2>4. ASSUME i \in members PROVE Cardinality({j \in members : j < i}) < Cardinality(members)
      <3>1. {j \in members : j < i} # members
        BY <2>3, <2>4
      <3> HIDE <2>3
      <3> QED
        BY <1>2, <2>1, <2>2, <3>1, FS_Subset, FS_CardinalityType
    <2> QED
      BY <2>2, <2>4 DEF Place
  <1> QED
    BY <1>1, <1>2, <1>3, <1>4, FS_CardinalityType

LEMMA DirectoryStarts == ASSUME DirectoryParameters, Listed!Init PROVE DirectoryInv
  <1>1. Listed!NoRow \in [at : Listed!Times \cup {Listed!Never}, by : {"sweep", "refresh"}]
        /\ Listed!NoRow.at = Listed!Never /\ Listed!Rest.phase = "rest"
    BY DEF Listed!NoRow, Listed!Rest
  <1>2. Listed!TypeOK
    BY <1>1 DEF Listed!Init, Listed!TypeOK, Listed!Times, DirectoryParameters
  <1> QED
    BY <1>1, <1>2 DEF Listed!Init, DirectoryInv, IssuedInv, SweepOf

\* One sweep takes a step.
LEMMA SweepMoves ==
    ASSUME DirectoryParameters, Listed!TypeOK, NEW s \in Sweepers, NEW f \in Listed!Sweeps \cup {Listed!Rest},
           sweep' = [sweep EXCEPT ![s] = f]
    PROVE  /\ sweep' \in [Sweepers -> Listed!Sweeps \cup {Listed!Rest}]
           /\ sweep'[s] = f /\ \A q \in Sweepers \ {s} : sweep'[q] = sweep[q]
  BY DEF Listed!TypeOK

LEMMA SweepTyped ==
    ASSUME DirectoryParameters, DirectoryInv, NEW s \in Sweepers, sweep[s].phase # "rest"
    PROVE  /\ sweep[s] \in Listed!Sweeps /\ sweep[s].page \in Nat \ {0} /\ sweep[s].started \in Nat
           /\ sweep[s].started \in Listed!Times
           /\ sweep[s].answer \subseteq Listed!Ids /\ sweep[s].answer \subseteq 1..issued
           /\ sweep[s].started <= sweepTime /\ sweepTime \in Nat /\ left \in Int
  <1>1. sweep[s] \in Listed!Sweeps
    BY DEF DirectoryInv, Listed!TypeOK, Listed!Rest
  <1>2. sweep[s].page \in Nat /\ sweep[s].started \in Listed!Times /\ sweep[s].answer \subseteq Listed!Ids
    BY <1>1 DEF Listed!Sweeps
  <1>3. sweepTime \in Nat /\ left \in Int
    BY DEF DirectoryInv, Listed!TypeOK, Listed!Times, Listed!Never, DirectoryParameters
  <1> QED
    BY <1>1, <1>2, <1>3 DEF DirectoryInv, IssuedInv, Listed!Times, DirectoryParameters

\* Who joins gets the last place and has no row yet.
LEMMA JoinKeeps == ASSUME DirectoryParameters, DirectoryInv, Listed!Join PROVE DirectoryInv'
  <1>1. /\ UNCHANGED <<sweepTime, rows, sweep, upsert, left>>
        /\ issued' = issued + 1 /\ members' = members \cup {issued + 1} /\ issued \in Nat /\ issued < MaxId
    BY DEF Listed!Join, DirectoryInv, Listed!TypeOK, DirectoryParameters
  <1>2. members \subseteq 1..issued
    BY DEF DirectoryInv, Listed!TypeOK
  <1>3. Listed!TypeOK'
    <2>1. members' \subseteq 1..issued' /\ issued' \in 0..MaxId
      BY <1>1, <1>2 DEF DirectoryParameters
    <2> QED
      BY <1>1, <2>1 DEF DirectoryInv, Listed!TypeOK
  <1>4. IssuedInv'
    <2>1. \A i \in Listed!Ids : i \in Int
      BY DEF Listed!Ids, DirectoryParameters
    <2>2. \A r \in Refreshes : upsert[r].phase = "store" => upsert[r].id \in Listed!Ids
      BY DEF DirectoryInv, Listed!TypeOK, Listed!Calls, Listed!Rest
    <2>3. 1..issued \subseteq 1..issued' /\ \A i \in Listed!Ids : i <= issued => i <= issued'
      BY <1>1, <2>1
    <2> QED
      BY <1>1, <2>2, <2>3 DEF DirectoryInv, IssuedInv
  <1>5. ASSUME NEW s \in Sweepers PROVE SweepOf(s)'
    <2>1. ASSUME NEW i \in Listed!Ids, Owed(s, i)' PROVE Owed(s, i) /\ Place(i)' = Place(i)
      <3>1. i <= issued /\ i \in Nat
        BY <1>1, <2>1 DEF Owed, DirectoryInv, IssuedInv, Listed!Ids, DirectoryParameters
      <3>2. {j \in members' : j < i} = {j \in members : j < i}
        BY <1>1, <3>1
      <3> QED
        BY <1>1, <2>1, <3>1, <3>2 DEF Owed, Place
    <2> QED
      BY <1>1, <2>1 DEF DirectoryInv, SweepOf
  <1> QED
    BY <1>3, <1>4, <1>5 DEF DirectoryInv

\* Who leaves shifts the pages: every sweep under way is excused.
LEMMA LeaveKeeps ==
    ASSUME DirectoryParameters, DirectoryInv, NEW i \in Listed!Ids, Listed!Leave(i)
    PROVE  DirectoryInv'
  <1>1. /\ UNCHANGED <<sweepTime, issued, rows, sweep, upsert>>
        /\ members' = members \ {i} /\ left' = sweepTime
    BY DEF Listed!Leave
  <1>2. Listed!TypeOK'
    BY <1>1 DEF DirectoryInv, Listed!TypeOK
  <1>3. IssuedInv'
    BY <1>1 DEF DirectoryInv, IssuedInv
  <1>4. ASSUME NEW s \in Sweepers, sweep[s].phase # "rest" PROVE ~(left' < sweep[s].started)
    BY <1>1, <1>4, SweepTyped
  <1> QED
    BY <1>1, <1>2, <1>3, <1>4 DEF DirectoryInv, SweepOf

LEMMA ClockKeeps == ASSUME DirectoryParameters, DirectoryInv, Listed!Tick PROVE DirectoryInv'
  <1>1. /\ UNCHANGED <<members, issued, rows, sweep, upsert, left>>
        /\ sweepTime' = sweepTime + 1 /\ sweepTime \in Nat /\ sweepTime' \in Listed!Times
    BY DEF Listed!Tick, DirectoryInv, Listed!TypeOK, Listed!Times, DirectoryParameters
  <1>2. Listed!TypeOK'
    BY <1>1 DEF DirectoryInv, Listed!TypeOK
  <1>3. \A s \in Sweepers : sweep[s].phase # "rest" => sweep[s].started <= sweepTime'
    BY <1>1, SweepTyped
  <1>4. IssuedInv'
    BY <1>1, <1>3 DEF DirectoryInv, IssuedInv
  <1>5. \A s \in Sweepers : SweepOf(s)'
    BY <1>1 DEF DirectoryInv, SweepOf, Owed, Place
  <1> QED
    BY <1>2, <1>4, <1>5 DEF DirectoryInv

\* A sweep begins, is given up, or is answered: what it owes is on the page or after it.
LEMMA SweepAsks ==
    ASSUME DirectoryParameters, DirectoryInv, NEW s \in Sweepers,
           Listed!StartSweep(s) \/ Listed!FailSweep(s) \/ Listed!Answer(s)
    PROVE  DirectoryInv'
  <1>0. UNCHANGED <<sweepTime, members, issued, rows, upsert, left>>
    BY DEF Listed!StartSweep, Listed!FailSweep, Listed!Answer
  <1>1. ASSUME NEW f \in Listed!Sweeps \cup {Listed!Rest}, sweep' = [sweep EXCEPT ![s] = f],
               f.phase # "rest" => f.answer \subseteq 1..issued /\ f.started <= sweepTime /\ f.page >= 1,
               SweepOf(s)'
        PROVE  DirectoryInv'
    <2>1. /\ sweep' \in [Sweepers -> Listed!Sweeps \cup {Listed!Rest}]
          /\ sweep'[s] = f /\ \A q \in Sweepers \ {s} : sweep'[q] = sweep[q]
      BY <1>1, SweepMoves DEF DirectoryInv
    <2>2. Listed!TypeOK'
      BY <1>0, <2>1 DEF DirectoryInv, Listed!TypeOK
    <2>3. IssuedInv'
      BY <1>0, <1>1, <2>1 DEF DirectoryInv, IssuedInv
    <2>4. \A q \in Sweepers \ {s} : SweepOf(q)'
      BY <1>0, <2>1 DEF DirectoryInv, SweepOf, Owed, Place
    <2> QED
      BY <1>1, <2>2, <2>3, <2>4 DEF DirectoryInv
  <1>2. CASE Listed!FailSweep(s)
    <2>1. sweep' = [sweep EXCEPT ![s] = Listed!Rest] /\ Listed!Rest.phase = "rest"
      BY <1>2 DEF Listed!FailSweep, Listed!Rest
    <2>2. sweep'[s] = Listed!Rest
      BY <2>1 DEF DirectoryInv, Listed!TypeOK
    <2>3. SweepOf(s)'
      BY <2>1, <2>2 DEF SweepOf
    <2> QED
      BY <1>1, <2>1, <2>3
  <1>3. CASE Listed!StartSweep(s)
    <2> DEFINE f == [phase |-> "ask", page |-> 1, started |-> sweepTime, answer |-> {}, last |-> FALSE]
    <2>1. sweep' = [sweep EXCEPT ![s] = f] /\ sweepTime \in Nat /\ sweepTime \in Listed!Times
      BY <1>3 DEF Listed!StartSweep, DirectoryInv, Listed!TypeOK, Listed!Times, DirectoryParameters
    <2>2. /\ f \in Listed!Sweeps /\ f.phase = "ask" /\ f.page = 1 /\ f.started = sweepTime /\ f.answer = {}
      BY <2>1 DEF Listed!Sweeps
    <2> HIDE DEF f
    <2>3. sweep'[s] = f
      BY <2>1 DEF DirectoryInv, Listed!TypeOK
    <2>4. \A i \in Listed!Ids : Place(i)' >= (1 - 1) * PageSize
      BY <1>0, MembersFinite DEF DirectoryInv, Place, DirectoryParameters
    <2>5. SweepOf(s)'
      BY <2>2, <2>3, <2>4 DEF SweepOf
    <2>6. f.answer \subseteq 1..issued /\ f.started <= sweepTime /\ f.page >= 1
      BY <2>1, <2>2
    <2> QED
      BY <1>1, <2>1, <2>2, <2>5, <2>6
  <1>4. CASE Listed!Answer(s)
    <2> DEFINE p == sweep[s].page
    <2>0. sweep[s].phase = "ask" /\ sweep[s] \in Listed!Sweeps /\ p \in Nat \ {0} /\ sweep[s].started <= sweepTime
      BY <1>4, SweepTyped DEF Listed!Answer
    <2>1. PICK end \in BOOLEAN :
             /\ end <=> p * PageSize >= Cardinality(members)
             /\ sweep' = [sweep EXCEPT ![s].phase = "store", ![s].answer = Listed!Page(p), ![s].last = end]
      <3>1. (p * PageSize >= Cardinality(members)) \in BOOLEAN
        OBVIOUS
      <3>2. sweep' = [sweep EXCEPT ![s].phase = "store", ![s].answer = Listed!Page(p),
                                   ![s].last = (p * PageSize >= Listed!Cardinality(members))]
        BY <1>4, Zenon DEF Listed!Answer
      <3>3. Listed!Cardinality(members) = Cardinality(members)
        BY SameCount
      <3> QED
        BY <3>1, <3>2, <3>3, Zenon
    <2> DEFINE f == [sweep[s] EXCEPT !.phase = "store", !.answer = Listed!Page(p), !.last = end]
    <2>2. Listed!Page(p) \subseteq members /\ Listed!Page(p) \in SUBSET Listed!Ids /\ Listed!Page(p) \subseteq 1..issued
      BY MembersFinite DEF Listed!Page, DirectoryInv
    <2>3. sweep' = [sweep EXCEPT ![s] = f]
      BY <2>1 DEF DirectoryInv, Listed!TypeOK
    <2>4. /\ f \in Listed!Sweeps /\ f.phase = "store" /\ f.page = p /\ f.started = sweep[s].started
          /\ f.answer = Listed!Page(p) /\ f.last = end
      BY <2>0, <2>2 DEF Listed!Sweeps
    <2> HIDE DEF f
    <2>5. sweep'[s] = f
      BY <2>3 DEF DirectoryInv, Listed!TypeOK
    <2>6. ASSUME NEW i \in Listed!Ids, i \in members, Place(i) >= (p - 1) * PageSize
          PROVE  i \in Listed!Page(p) \/ (~end /\ Place(i) >= p * PageSize)
      <3>1. Place(i) \in Nat /\ Place(i) < Cardinality(members) /\ Cardinality(members) \in Nat
        BY <2>6, MembersFinite DEF DirectoryInv
      <3>2. p * PageSize \in Nat /\ PageSize \in Nat \ {0}
        BY <2>0 DEF DirectoryParameters
      <3>3. Place(i) \div PageSize = p - 1 <=> Place(i) >= (p - 1) * PageSize /\ Place(i) < p * PageSize
        BY <2>0, <3>1, <3>2, Ledger!DivPage
      <3>4. i \in Listed!Page(p) <=> Place(i) \div PageSize = p - 1
        <4>1. i \in Listed!Page(p) <=>
                 i \in members /\ Listed!Cardinality({j \in members : j < i}) \div PageSize = p - 1
          BY Zenon DEF Listed!Page
        <4>2. Listed!Cardinality({j \in members : j < i}) = Place(i)
          BY SameCount DEF Place
        <4> QED
          BY <2>6, <4>1, <4>2
      <3>5. CASE Place(i) < p * PageSize
        BY <2>6, <3>3, <3>4, <3>5
      <3>6. CASE Place(i) >= p * PageSize
        BY <2>1, <3>1, <3>2, <3>6
      <3> QED BY <3>1, <3>2, <3>5, <3>6
    <2>7. ASSUME NEW i \in Listed!Ids, left < sweep[s].started, Owed(s, i)
          PROVE  i \in members /\ Place(i) >= (p - 1) * PageSize
      BY <2>0, <2>7 DEF DirectoryInv, SweepOf, Owed
    <2>8. \A i \in Listed!Ids : (Owed(s, i)' => Owed(s, i)) /\ Place(i)' = Place(i)
      BY <1>0, <2>4, <2>5 DEF Owed, Place
    <2>9. SweepOf(s)'
      BY <1>0, <2>4, <2>5, <2>6, <2>7, <2>8 DEF SweepOf
    <2>10. f.answer \subseteq 1..issued /\ f.started <= sweepTime /\ f.page >= 1
      BY <2>0, <2>2, <2>4
    <2> QED
      BY <1>1, <2>3, <2>4, <2>9, <2>10
  <1> QED BY <1>2, <1>3, <1>4

\* A page is written with the time of writing: nothing on it is owed to anybody.
LEMMA StoreKeeps ==
    ASSUME DirectoryParameters, DirectoryInv, NEW s \in Sweepers, Listed!Store(s)
    PROVE  DirectoryInv'
  <1> DEFINE written == [at |-> sweepTime, by |-> "sweep"]
             f == [sweep[s] EXCEPT !.phase = IF sweep[s].last THEN "drop" ELSE "ask",
                                   !.page = IF sweep[s].last THEN @ ELSE @ + 1,
                                   !.answer = {}, !.last = FALSE]
  <1>0. /\ UNCHANGED <<sweepTime, members, issued, upsert, left>>
        /\ rows' = [i \in Listed!Ids |-> IF i \in sweep[s].answer THEN written ELSE rows[i]]
        /\ sweep' = [sweep EXCEPT ![s] = f] /\ sweep[s].phase = "store"
    BY DEF Listed!Store, DirectoryInv, Listed!TypeOK
  <1>1. /\ sweep[s] \in Listed!Sweeps /\ sweep[s].page \in Nat \ {0} /\ sweepTime \in Nat
        /\ sweep[s].started <= sweepTime /\ sweep[s].answer \subseteq 1..issued /\ sweepTime \in Listed!Times
    BY <1>0, SweepTyped DEF DirectoryInv, Listed!TypeOK
  <1>2. /\ f \in Listed!Sweeps /\ f.phase = (IF sweep[s].last THEN "drop" ELSE "ask")
        /\ f.page = (IF sweep[s].last THEN sweep[s].page ELSE sweep[s].page + 1)
        /\ f.started = sweep[s].started /\ f.answer = {}
    <2>1. sweep[s].page + 1 \in Nat
      BY <1>1
    <2> QED
      BY <1>1, <2>1 DEF Listed!Sweeps
  <1>3. /\ written \in [at : Listed!Times \cup {Listed!Never}, by : {"sweep", "refresh"}]
        /\ written.at = sweepTime
    BY <1>1
  <1> HIDE DEF f, written
  <1>4. /\ sweep' \in [Sweepers -> Listed!Sweeps \cup {Listed!Rest}]
        /\ sweep'[s] = f /\ \A q \in Sweepers \ {s} : sweep'[q] = sweep[q]
    BY <1>0, <1>2, SweepMoves DEF DirectoryInv
  <1>5. Listed!TypeOK'
    BY <1>0, <1>3, <1>4 DEF DirectoryInv, Listed!TypeOK
  <1>6. IssuedInv'
    <2>1. \A i \in Listed!Ids : rows'[i].at # Listed!Never => i <= issued
      BY <1>0, <1>1 DEF DirectoryInv, IssuedInv
    <2>2. f.page >= 1
      BY <1>1, <1>2
    <2> QED
      BY <1>0, <1>1, <1>2, <1>4, <2>1, <2>2 DEF DirectoryInv, IssuedInv
  <1>7. \A q \in Sweepers : sweep'[q].started = sweep[q].started
    BY <1>2, <1>4
  <1>8. ASSUME NEW q \in Sweepers, sweep[q].phase # "rest", NEW i \in Listed!Ids, Owed(q, i)'
        PROVE  i \notin sweep[s].answer /\ Owed(q, i)
    <2>1. sweep[q].started \in Nat /\ sweep[q].started <= sweepTime
      BY <1>8, SweepTyped
    <2>2. rows'[i].at < sweep[q].started
      BY <1>7, <1>8 DEF Owed
    <2>3. i \notin sweep[s].answer
      BY <1>0, <1>1, <1>3, <2>1, <2>2
    <2> QED
      BY <1>0, <1>7, <1>8, <2>3 DEF Owed
  <1>9. \A i \in Listed!Ids : Place(i)' = Place(i)
    BY <1>0 DEF Place
  <1>10. SweepOf(s)'
    <2> SUFFICES ASSUME left < sweep[s].started, NEW i \in Listed!Ids, Owed(s, i)'
                 PROVE  /\ f.phase = "ask" => Place(i) >= (f.page - 1) * PageSize
                        /\ f.phase \notin {"store", "drop"}
      BY <1>0, <1>4, <1>7, <1>9 DEF SweepOf
    <2>1. ~sweep[s].last /\ Place(i) >= sweep[s].page * PageSize
      BY <1>0, <1>8 DEF DirectoryInv, SweepOf
    <2>2. f.phase = "ask" /\ f.page - 1 = sweep[s].page
      BY <1>1, <1>2, <2>1
    <2> QED
      BY <2>1, <2>2
  <1>11. ASSUME NEW q \in Sweepers \ {s} PROVE SweepOf(q)'
    BY <1>0, <1>4, <1>8, <1>9 DEF DirectoryInv, SweepOf
  <1> QED
    BY <1>5, <1>6, <1>10, <1>11 DEF DirectoryInv

LEMMA DropKeeps ==
    ASSUME DirectoryParameters, DirectoryInv, NEW s \in Sweepers, Listed!Drop(s)
    PROVE  DirectoryInv'
  <1>0. /\ UNCHANGED <<sweepTime, members, issued, upsert, left>>
        /\ rows' = [i \in Listed!Ids |-> IF rows[i].at < sweep[s].started THEN Listed!NoRow ELSE rows[i]]
        /\ sweep' = [sweep EXCEPT ![s] = Listed!Rest]
    BY DEF Listed!Drop
  <1>1. Listed!NoRow \in [at : Listed!Times \cup {Listed!Never}, by : {"sweep", "refresh"}]
        /\ Listed!NoRow.at = Listed!Never /\ Listed!Rest.phase = "rest"
    BY DEF Listed!NoRow, Listed!Rest
  <1>2. /\ sweep' \in [Sweepers -> Listed!Sweeps \cup {Listed!Rest}]
        /\ sweep'[s] = Listed!Rest /\ \A q \in Sweepers \ {s} : sweep'[q] = sweep[q]
    BY <1>0, SweepMoves DEF DirectoryInv
  <1>3. \A i \in Listed!Ids : rows'[i] = Listed!NoRow \/ rows'[i] = rows[i]
    BY <1>0
  <1>4. Listed!TypeOK'
    BY <1>0, <1>1, <1>2 DEF DirectoryInv, Listed!TypeOK
  <1>5. IssuedInv'
    BY <1>0, <1>1, <1>2, <1>3 DEF DirectoryInv, IssuedInv
  <1>6. ASSUME NEW q \in Sweepers PROVE SweepOf(q)'
    <2>1. CASE q = s
      BY <1>1, <1>2, <2>1 DEF SweepOf
    <2>2. CASE q # s
      <3>1. \A i \in Listed!Ids : (Owed(q, i)' => Owed(q, i)) /\ Place(i)' = Place(i)
        BY <1>0, <1>1, <1>2, <1>3, <2>2 DEF Owed, Place
      <3> QED
        BY <1>0, <1>2, <2>2, <3>1 DEF DirectoryInv, SweepOf
    <2> QED BY <2>1, <2>2
  <1> QED
    BY <1>4, <1>5, <1>6 DEF DirectoryInv

\* A refresh writes one row, which is then not the sweeps' to keep.
LEMMA RefreshKeeps ==
    ASSUME DirectoryParameters, DirectoryInv, NEW r \in Refreshes,
           (\E i \in Listed!Ids : Listed!Call(r, i)) \/ Listed!Found(r) \/ Listed!GiveUp(r) \/ Listed!Upsert(r)
    PROVE  DirectoryInv'
  <1>0. UNCHANGED <<sweepTime, members, issued, sweep, left>>
    BY DEF Listed!Call, Listed!Found, Listed!GiveUp, Listed!Upsert
  <1>1. ASSUME NEW f \in Listed!Calls \cup {Listed!Rest}, upsert' = [upsert EXCEPT ![r] = f],
               f.phase = "store" => f.id <= issued
        PROVE  /\ upsert' \in [Refreshes -> Listed!Calls \cup {Listed!Rest}]
               /\ \A q \in Refreshes : upsert'[q].phase = "store" => upsert'[q].id <= issued
    BY <1>1 DEF DirectoryInv, Listed!TypeOK, IssuedInv
  <1>2. ASSUME rows' = rows, NEW f \in Listed!Calls \cup {Listed!Rest}, upsert' = [upsert EXCEPT ![r] = f],
               f.phase = "store" => f.id <= issued
        PROVE  DirectoryInv'
    <2>1. Listed!TypeOK'
      BY <1>0, <1>1, <1>2 DEF DirectoryInv, Listed!TypeOK
    <2>2. IssuedInv'
      BY <1>0, <1>1, <1>2 DEF DirectoryInv, IssuedInv
    <2>3. \A s \in Sweepers : SweepOf(s)'
      BY <1>0, <1>2 DEF DirectoryInv, SweepOf, Owed, Place
    <2> QED
      BY <2>1, <2>2, <2>3 DEF DirectoryInv
  <1>3. Listed!Rest.phase = "rest"
    BY DEF Listed!Rest
  <1>4. ASSUME NEW i \in Listed!Ids, Listed!Call(r, i) PROVE DirectoryInv'
    <2> DEFINE f == [phase |-> "ask", id |-> i, called |-> sweepTime]
    <2>1. f \in Listed!Calls /\ f.phase = "ask"
      BY DEF Listed!Calls, DirectoryInv, Listed!TypeOK
    <2> QED
      BY <1>2, <1>4, <2>1 DEF Listed!Call
  <1>5. CASE Listed!Found(r)
    <2> DEFINE f == [upsert[r] EXCEPT !.phase = "store"]
    <2>1. upsert[r] \in Listed!Calls /\ upsert' = [upsert EXCEPT ![r] = f] /\ rows' = rows
          /\ upsert[r].id \in members
      BY <1>5 DEF Listed!Found, DirectoryInv, Listed!TypeOK, Listed!Rest
    <2>2. f \in Listed!Calls /\ f.id = upsert[r].id
      BY <2>1 DEF Listed!Calls
    <2>3. f.id <= issued
      BY <2>1, <2>2, MembersFinite DEF DirectoryInv
    <2> QED
      BY <1>2, <2>1, <2>2, <2>3
  <1>6. CASE Listed!GiveUp(r)
    BY <1>2, <1>3, <1>6 DEF Listed!GiveUp
  <1>7. CASE Listed!Upsert(r)
    <2> DEFINE id == upsert[r].id
               row == [at |-> upsert[r].called, by |-> "refresh"]
    <2>1. /\ upsert[r].phase = "store" /\ upsert[r] \in Listed!Calls
          /\ rows' = [rows EXCEPT ![id] = row] /\ upsert' = [upsert EXCEPT ![r] = Listed!Rest]
      BY <1>7 DEF Listed!Upsert, DirectoryInv, Listed!TypeOK, Listed!Rest
    <2>2. id \in Listed!Ids /\ id <= issued
          /\ row \in [at : Listed!Times \cup {Listed!Never}, by : {"sweep", "refresh"}] /\ row.by = "refresh"
      BY <2>1 DEF Listed!Calls, DirectoryInv, IssuedInv
    <2> HIDE DEF row
    <2>3. /\ rows' \in [Listed!Ids -> [at : Listed!Times \cup {Listed!Never}, by : {"sweep", "refresh"}]]
          /\ \A i \in Listed!Ids : rows'[i] = IF i = id THEN row ELSE rows[i]
      BY <2>1, <2>2 DEF DirectoryInv, Listed!TypeOK
    <2>4. Listed!TypeOK'
      BY <1>0, <1>1, <1>3, <2>1, <2>3 DEF DirectoryInv, Listed!TypeOK
    <2>5. IssuedInv'
      BY <1>0, <1>1, <1>3, <2>1, <2>2, <2>3 DEF DirectoryInv, IssuedInv
    <2>6. \A s \in Sweepers, i \in Listed!Ids : (Owed(s, i)' => Owed(s, i)) /\ Place(i)' = Place(i)
      BY <1>0, <2>2, <2>3 DEF Owed, Place
    <2>7. \A s \in Sweepers : SweepOf(s)'
      BY <1>0, <2>6 DEF DirectoryInv, SweepOf
    <2> QED
      BY <2>4, <2>5, <2>7 DEF DirectoryInv
  <1> QED BY <1>4, <1>5, <1>6, <1>7

LEMMA DirectoryNext ==
    ASSUME DirectoryParameters, DirectoryInv, [Listed!Next]_(Listed!vars) PROVE DirectoryInv'
  <1>1. CASE UNCHANGED Listed!vars
    BY <1>1 DEF Listed!vars, DirectoryInv, Listed!TypeOK, IssuedInv, SweepOf, Owed, Place
  <1> QED
    BY <1>1, JoinKeeps, LeaveKeeps, ClockKeeps, SweepAsks, StoreKeeps, DropKeeps, RefreshKeeps DEF Listed!Next

\* A sweep deletes no one who is on the list, but for the two ways the property names
\* (#syncUsers, #syncGroups).
THEOREM SweepsKeepMembers ==
    ASSUME DirectoryParameters
    PROVE  Listed!Spec => []DirectoryInv /\ Listed!ListedIsKept
  <1>1. ASSUME DirectoryInv, NEW s \in Sweepers, Listed!Drop(s),
               NEW i \in (Listed!Stored \ (Listed!Stored)') \cap members
        PROVE  left >= sweep[s].started \/ rows[i].by = "refresh"
    <2>1. i \in Listed!Ids /\ rows[i].at # Listed!Never /\ rows'[i].at = Listed!Never /\ i \in members
      BY <1>1 DEF Listed!Stored
    <2>2. sweep[s].phase = "drop" /\ rows[i].at < sweep[s].started
      BY <1>1, <2>1 DEF Listed!Drop
    <2>3. rows[i].by \in {"sweep", "refresh"} /\ sweep[s].started \in Nat /\ left \in Int
      BY <1>1, <2>1, <2>2, SweepTyped DEF DirectoryInv, Listed!TypeOK
    <2>4. ~(left < sweep[s].started /\ Owed(s, i))
      BY <1>1, <2>1, <2>2 DEF DirectoryInv, SweepOf
    <2> QED
      BY <2>1, <2>2, <2>3, <2>4 DEF Owed
  <1>2. DirectoryInv => [\A s \in Sweepers : Listed!Drop(s) =>
                            \A i \in (Listed!Stored \ (Listed!Stored)') \cap members :
                                left >= sweep[s].started \/ rows[i].by = "refresh"]_(Listed!vars)
    BY <1>1
  <1> QED
    BY <1>2, DirectoryStarts, DirectoryNext, PTL DEF Listed!Spec, Listed!ListedIsKept

-----------------------------------------------------------------------------
(* The page of the grants (GrantsPage).                                    *)

PageParameters ==
    /\ PageHorizon \in Nat /\ MaxChanges \in Nat /\ MaxRevocations \in Nat /\ MaxAnswers \in Nat
    /\ Schedules \subseteq [start : Int, end : Int, revoke : Int]

\* Whatever the page or a request has of a rule was valid once.
DatesInv ==
    /\ grantRule.row = "live" => Page!ValidDates(grantRule.dates)
    /\ copy.row = "live" => Page!ValidDates(copy.dates)
    /\ \A c \in lists : c.row = "live" => Page!ValidDates(c.dates)
    /\ \A input \in toggles : Page!ValidDates(input.dates)

\* The newest run is the one under way, and no successful expiry is newer.
RunsInv ==
    /\ revoking # Page!Idle =>
          lastRun.started = revoking.started /\ (revoking.mode = "expire" <=> lastRun.mode = "expire")
    /\ lastRun.started <= pageTime
    /\ \A t \in expired : t <= lastRun.started
    /\ lastRun.mode = "expire" /\ lastRun.status = "succeeded" => lastRun.started \in expired

PageInv == Page!TypeOK /\ DatesInv /\ RunsInv

LEMMA LiveRule ==
    ASSUME PageParameters, Page!TypeOK
    PROVE  /\ grantRule.row = "live" =>
                 /\ grantRule \in Page!Rules /\ grantRule.dates \in Schedules
                 /\ grantRule.updated \in Page!Times /\ grantRule.enabled \in BOOLEAN
           /\ copy.row = "live" => copy \in Page!Copies
           /\ \A d \in Schedules : d.start \in Int /\ d.end \in Int /\ d.revoke \in Int
           /\ lastRun.started \in Int /\ pageTime \in Nat /\ pageTime <= PageHorizon
           /\ expired \subseteq Nat
  <1>1. grantRule.row = "live" => grantRule \in Page!Rules
    BY DEF Page!TypeOK, Page!NoRule, Page!Deleted
  <1>2. copy.row = "live" => copy \in Page!Copies
    BY DEF Page!TypeOK, Page!NoRule
  <1>3. lastRun.started \in Int
    BY DEF Page!TypeOK, Page!NoRun, Page!RunRows, Page!Times
  <1>4. \A d \in Schedules : d.start \in Int /\ d.end \in Int /\ d.revoke \in Int
    BY DEF PageParameters
  <1>5. pageTime \in Nat /\ pageTime <= PageHorizon /\ expired \subseteq Nat
    BY DEF Page!TypeOK, Page!Times, PageParameters
  <1> QED
    BY <1>1, <1>2, <1>3, <1>4, <1>5 DEF Page!Rules

\* What the server answers of its rule.
LEMMA ApiTyped ==
    ASSUME PageParameters, Page!TypeOK, grantRule.row = "live" => Page!ValidDates(grantRule.dates)
    PROVE  /\ Page!Api \in Page!Copies \cup {Page!NoRule}
           /\ Page!Api.row = "live" => Page!ValidDates(Page!Api.dates)
  <1>1. CASE grantRule.row = "live"
    <2> DEFINE c == [row |-> "live", enabled |-> grantRule.enabled, dates |-> grantRule.dates,
                     updated |-> grantRule.updated, last |-> lastRun]
    <2>1. c \in Page!Copies /\ c.dates = grantRule.dates
      BY <1>1, LiveRule DEF Page!Copies, Page!TypeOK
    <2>2. Page!Api = c
      BY <1>1 DEF Page!Api
    <2> QED
      BY <1>1, <2>1, <2>2
  <1>2. CASE grantRule.row # "live"
    BY <1>2 DEF Page!Api, Page!NoRule
  <1> QED BY <1>1, <1>2

LEMMA PageStarts == ASSUME PageParameters, Page!Init PROVE PageInv
  <1>1. grantRule.row = "live" => grantRule \in Page!Rules /\ Page!ValidDates(grantRule.dates)
    BY DEF Page!Init, Page!NoRule
  <1>2. grantRule \in Page!Rules \cup {Page!NoRule}
    BY DEF Page!Init
  <1>3. Page!NoRule.row = "none" /\ Page!NoRun.started = -1 /\ Page!NoRun.mode = "none"
    BY DEF Page!NoRule, Page!NoRun
  <1>4. Page!TypeOK
    BY <1>2 DEF Page!Init, Page!TypeOK, Page!Times, PageParameters
  <1>5. DatesInv /\ RunsInv
    BY <1>1, <1>3 DEF Page!Init, DatesInv, RunsInv
  <1> QED
    BY <1>4, <1>5 DEF PageInv

\* An administrator stores a rule, or has it revoked or deleted.
LEMMA RuleKeeps ==
    ASSUME PageParameters, PageInv,
           \/ \E input \in Page!Inputs : Page!CreateRule(input) \/ Page!UpdateRule(input)
           \/ Page!RevokeNow \/ Page!DeleteRule
    PROVE  PageInv'
  <1>1. /\ UNCHANGED <<pageTime, revoking, lastRun, expired, revocations, copy, toggles, lists>>
        /\ changes < MaxChanges /\ changes' = changes + 1
    BY DEF Page!CreateRule, Page!UpdateRule, Page!RevokeNow, Page!DeleteRule, Page!Change, Page!runVars
  <1>2. changes' \in 0..MaxChanges
    BY <1>1 DEF PageInv, Page!TypeOK, PageParameters
  <1>3. RunsInv'
    BY <1>1 DEF PageInv, RunsInv
  <1>4. ASSUME NEW r \in Page!Rules, grantRule' = r, Page!ValidDates(r.dates), asked' \subseteq Page!Modes
        PROVE  PageInv'
    <2>1. Page!TypeOK'
      BY <1>1, <1>2, <1>4 DEF PageInv, Page!TypeOK
    <2>2. DatesInv'
      BY <1>1, <1>4 DEF PageInv, DatesInv, Page!ValidDates
    <2> QED
      BY <1>3, <2>1, <2>2 DEF PageInv
  <1>5. ASSUME NEW input \in Page!Inputs, Page!CreateRule(input) PROVE PageInv'
    <2>1. [row |-> "live", enabled |-> input.enabled, dates |-> input.dates, updated |-> pageTime] \in Page!Rules
      BY DEF Page!Inputs, Page!Rules, PageInv, Page!TypeOK
    <2> QED
      BY <1>4, <1>5, <2>1 DEF Page!CreateRule, PageInv, Page!TypeOK
  <1>6. ASSUME NEW input \in Page!Inputs, Page!UpdateRule(input) PROVE PageInv'
    <2>1. grantRule \in Page!Rules /\ Page!ValidDates(input.dates)
          /\ grantRule' = [grantRule EXCEPT !.enabled = input.enabled, !.dates = input.dates, !.updated = pageTime]
      BY <1>6, LiveRule DEF PageInv, Page!UpdateRule, Page!Store
    <2>2. grantRule' \in Page!Rules /\ grantRule'.dates = input.dates
      BY <2>1 DEF Page!Inputs, Page!Rules, PageInv, Page!TypeOK
    <2> QED
      BY <1>4, <1>6, <2>1, <2>2 DEF Page!UpdateRule, PageInv, Page!TypeOK
  <1>7. CASE Page!RevokeNow
    <2>1. grantRule \in Page!Rules /\ Page!ValidDates(grantRule.dates)
          /\ grantRule' = [grantRule EXCEPT !.enabled = FALSE, !.updated = pageTime]
          /\ asked' = asked \cup {"revoke"}
      BY <1>7, LiveRule DEF PageInv, DatesInv, Page!RevokeNow
    <2>2. grantRule' \in Page!Rules /\ grantRule'.dates = grantRule.dates
      BY <2>1 DEF Page!Rules, PageInv, Page!TypeOK
    <2>3. asked' \subseteq Page!Modes
      BY <2>1 DEF PageInv, Page!TypeOK, Page!Modes
    <2> QED
      BY <1>4, <2>1, <2>2, <2>3
  <1>8. CASE Page!DeleteRule
    <2>1. grantRule \in Page!Rules /\ Page!ValidDates(grantRule.dates)
          /\ grantRule' = grantRule /\ asked' = asked \cup {"delete"}
      BY <1>8, LiveRule DEF PageInv, DatesInv, Page!DeleteRule
    <2>2. asked' \subseteq Page!Modes
      BY <2>1 DEF PageInv, Page!TypeOK, Page!Modes
    <2> QED
      BY <1>4, <2>1, <2>2
  <1> QED
    BY <1>5, <1>6, <1>7, <1>8

\* The page asks, is answered, and toggles a rule.
LEMMA PageKeeps ==
    ASSUME PageParameters, PageInv,
           Page!ListRules \/ (\E c \in lists : Page!Arrive(c)) \/ Page!Toggle
    PROVE  PageInv'
  <1>1. UNCHANGED <<pageTime, grantRule, asked, revoking, lastRun, expired, revocations>>
    BY DEF Page!ListRules, Page!Arrive, Page!Toggle, Page!runVars
  <1>2. RunsInv'
    BY <1>1 DEF PageInv, RunsInv
  <1>3. CASE Page!ListRules
    <2>1. lists' = lists \cup {Page!Api} /\ UNCHANGED <<copy, toggles, changes>>
      BY <1>3 DEF Page!ListRules
    <2>2. Page!Api \in Page!Copies \cup {Page!NoRule}
          /\ (Page!Api.row = "live" => Page!ValidDates(Page!Api.dates))
      BY ApiTyped DEF PageInv, DatesInv
    <2>3. Page!TypeOK'
      BY <1>1, <2>1, <2>2 DEF PageInv, Page!TypeOK
    <2>4. DatesInv'
      BY <1>1, <2>1, <2>2 DEF PageInv, DatesInv, Page!ValidDates
    <2> QED
      BY <1>2, <2>3, <2>4 DEF PageInv
  <1>4. ASSUME NEW c \in lists, Page!Arrive(c) PROVE PageInv'
    <2>1. lists' = lists \ {c} /\ copy' = c /\ UNCHANGED <<toggles, changes>>
      BY <1>4 DEF Page!Arrive
    <2>2. Page!TypeOK' /\ DatesInv'
      BY <1>1, <2>1 DEF PageInv, DatesInv, Page!TypeOK, Page!ValidDates
    <2> QED
      BY <1>2, <2>2 DEF PageInv
  <1>5. CASE Page!Toggle
    <2>1. copy.row = "live" /\ changes < MaxChanges /\ changes' = changes + 1 /\ UNCHANGED <<copy, lists>>
      BY <1>5 DEF Page!Toggle, Page!Change
    <2>2. PICK on \in BOOLEAN : toggles' = toggles \cup {[enabled |-> on, dates |-> copy.dates]}
      <3>1. (~copy.enabled) \in BOOLEAN
        OBVIOUS
      <3> QED
        BY <1>5, <3>1, Zenon DEF Page!Toggle
    <2>3. copy \in Page!Copies /\ copy.dates \in Schedules /\ Page!ValidDates(copy.dates)
      BY <2>1, LiveRule DEF PageInv, DatesInv, Page!Copies
    <2>4. changes' \in 0..MaxChanges
      BY <2>1 DEF PageInv, Page!TypeOK, PageParameters
    <2>5. Page!TypeOK'
      BY <1>1, <2>1, <2>2, <2>3, <2>4 DEF PageInv, Page!TypeOK, Page!Inputs
    <2>6. DatesInv'
      BY <1>1, <2>1, <2>2, <2>3 DEF PageInv, DatesInv, Page!ValidDates
    <2> QED
      BY <1>2, <2>5, <2>6 DEF PageInv
  <1> QED BY <1>3, <1>4, <1>5

LEMMA ToggleKeeps ==
    ASSUME PageParameters, PageInv, NEW input \in toggles, Page!ServeToggle(input)
    PROVE  PageInv'
  <1>1. /\ toggles' = toggles \ {input}
        /\ UNCHANGED <<pageTime, asked, revoking, lastRun, expired, revocations, copy, changes>>
        /\ input \in Page!Inputs /\ Page!ValidDates(input.dates)
    BY DEF Page!ServeToggle, Page!runVars, PageInv, DatesInv, Page!TypeOK
  <1>2. RunsInv'
    BY <1>1 DEF PageInv, RunsInv
  <1>3. CASE grantRule.row = "live"
    <2>1. /\ grantRule \in Page!Rules /\ lists' = lists \cup {(Page!Api)'}
          /\ grantRule' = [grantRule EXCEPT !.enabled = input.enabled, !.dates = input.dates, !.updated = pageTime]
      BY <1>3, LiveRule DEF PageInv, Page!ServeToggle, Page!Store
    <2>2. grantRule' \in Page!Rules /\ grantRule'.dates = input.dates /\ grantRule'.row = "live"
      BY <1>1, <2>1 DEF Page!Inputs, Page!Rules, PageInv, Page!TypeOK
    <2> DEFINE c == [row |-> "live", enabled |-> grantRule'.enabled, dates |-> grantRule'.dates,
                     updated |-> grantRule'.updated, last |-> lastRun']
    <2>3. (Page!Api)' = c
      BY <2>2 DEF Page!Api
    <2>4. c \in Page!Copies /\ c.dates = input.dates
      BY <1>1, <2>2 DEF Page!Rules, Page!Copies, PageInv, Page!TypeOK
    <2> HIDE DEF c
    <2>5. Page!TypeOK'
      BY <1>1, <2>1, <2>2, <2>3, <2>4 DEF PageInv, Page!TypeOK
    <2>6. DatesInv'
      BY <1>1, <2>1, <2>2, <2>3, <2>4 DEF PageInv, DatesInv, Page!ValidDates
    <2> QED
      BY <1>2, <2>5, <2>6 DEF PageInv
  <1>4. CASE grantRule.row # "live"
    <2>1. UNCHANGED <<grantRule, lists>>
      BY <1>4 DEF Page!ServeToggle
    <2>2. Page!TypeOK' /\ DatesInv'
      BY <1>1, <2>1 DEF PageInv, DatesInv, Page!TypeOK, Page!ValidDates
    <2> QED
      BY <1>2, <2>2 DEF PageInv
  <1> QED BY <1>3, <1>4

\* The server's runs.
LEMMA BeginRunKeeps ==
    ASSUME PageParameters, PageInv, NEW m \in Page!Modes, Page!BeginRun(m)
    PROVE  PageInv'
  <1>1. /\ UNCHANGED <<pageTime, grantRule, expired, copy, toggles, lists, changes>>
        /\ asked' = asked \ {m} /\ revoking = Page!Idle
    BY DEF Page!BeginRun, Page!pageVars
  <1>2. DatesInv' /\ asked' \subseteq Page!Modes
    BY <1>1 DEF PageInv, DatesInv, Page!ValidDates, Page!TypeOK
  <1>3. CASE grantRule.row = "live"
    <2> DEFINE kind == IF m = "expire" THEN m ELSE "revoke"
               f == [mode |-> kind, status |-> "running", started |-> pageTime]
               g == [mode |-> m, started |-> pageTime]
    <2>1. revocations' \in 0..MaxRevocations /\ revoking' = g /\ lastRun' = f
      BY <1>3 DEF Page!BeginRun, PageInv, Page!TypeOK, PageParameters
    <2>2. /\ f \in Page!RunRows /\ f.started = pageTime /\ f.status = "running" /\ f.mode = kind
          /\ g \in [mode : Page!Modes, started : Page!Times] /\ g.mode = m /\ g.started = pageTime
      BY DEF Page!RunRows, PageInv, Page!TypeOK
    <2>3. kind = "expire" <=> m = "expire"
      OBVIOUS
    <2> HIDE DEF f, g, kind
    <2>4. Page!TypeOK'
      BY <1>1, <1>2, <2>1, <2>2 DEF PageInv, Page!TypeOK
    <2>5. \A t \in expired : t <= pageTime
      BY LiveRule DEF PageInv, RunsInv
    <2>6. RunsInv'
      BY <1>1, <2>1, <2>2, <2>3, <2>5, LiveRule DEF RunsInv, PageInv
    <2> QED
      BY <1>2, <2>4, <2>6 DEF PageInv
  <1>4. CASE grantRule.row # "live"
    <2>1. UNCHANGED <<revocations, revoking, lastRun>>
      BY <1>4 DEF Page!BeginRun
    <2>2. Page!TypeOK' /\ RunsInv'
      BY <1>1, <1>2, <2>1 DEF PageInv, Page!TypeOK, RunsInv
    <2> QED
      BY <1>2, <2>2 DEF PageInv
  <1> QED BY <1>3, <1>4

LEMMA EndRunKeeps ==
    ASSUME PageParameters, PageInv, NEW status \in {"succeeded", "failed"}, Page!EndRun(status)
    PROVE  PageInv'
  <1>1. /\ UNCHANGED <<pageTime, asked, revocations, copy, toggles, lists, changes>>
        /\ revoking # Page!Idle /\ revoking' = Page!Idle
        /\ lastRun' = [lastRun EXCEPT !.status = status]
        /\ expired' = IF revoking.mode = "expire" /\ status = "succeeded"
                      THEN expired \cup {revoking.started} ELSE expired
        /\ grantRule' \in {grantRule, Page!Deleted}
    BY DEF Page!EndRun, Page!pageVars
  <1>2. revoking \in [mode : Page!Modes, started : Page!Times] /\ revoking.started \in Page!Times
        /\ lastRun.started = revoking.started /\ (revoking.mode = "expire" <=> lastRun.mode = "expire")
    BY <1>1 DEF PageInv, Page!TypeOK, RunsInv
  <1>3. lastRun \in Page!RunRows
    <2>1. lastRun.started # -1
      BY <1>2 DEF Page!Times, PageParameters
    <2> QED
      BY <2>1 DEF PageInv, Page!TypeOK, Page!NoRun
  <1>4. lastRun' \in Page!RunRows /\ lastRun'.started = lastRun.started /\ lastRun'.mode = lastRun.mode
        /\ lastRun'.status = status
    BY <1>1, <1>3 DEF Page!RunRows
  <1>5. Page!TypeOK'
    BY <1>1, <1>2, <1>4 DEF PageInv, Page!TypeOK
  <1>6. DatesInv'
    BY <1>1 DEF PageInv, DatesInv, Page!ValidDates, Page!Deleted
  <1>7. \A t \in expired' : t <= lastRun.started
    <2>1. lastRun.started <= lastRun.started
      BY LiveRule DEF PageInv
    <2> QED
      BY <1>1, <1>2, <2>1 DEF PageInv, RunsInv
  <1>8. RunsInv'
    BY <1>1, <1>2, <1>4, <1>7 DEF PageInv, RunsInv
  <1> QED
    BY <1>5, <1>6, <1>8 DEF PageInv

LEMMA PageRestKeeps ==
    ASSUME PageParameters, PageInv, Page!Expire \/ Page!Crash \/ Page!Tick
    PROVE  PageInv'
  <1>1. UNCHANGED <<grantRule, lastRun, expired, revocations, copy, toggles, lists, changes>>
    BY DEF Page!Expire, Page!Crash, Page!Tick, Page!runVars, Page!pageVars
  <1>2. DatesInv'
    BY <1>1 DEF PageInv, DatesInv, Page!ValidDates
  <1>3. CASE Page!Expire
    <2>1. asked' = asked \cup {"expire"} /\ UNCHANGED <<pageTime, revoking>>
      BY <1>3 DEF Page!Expire, Page!runVars
    <2> QED
      BY <1>1, <1>2, <2>1 DEF PageInv, Page!TypeOK, RunsInv, Page!Modes
  <1>4. CASE Page!Crash
    <2>1. asked' = {} /\ revoking' = Page!Idle /\ pageTime' = pageTime
      BY <1>4 DEF Page!Crash
    <2> QED
      BY <1>1, <1>2, <2>1 DEF PageInv, Page!TypeOK, RunsInv
  <1>5. CASE Page!Tick
    <2>1. UNCHANGED <<asked, revoking>> /\ pageTime' \in Page!Times /\ pageTime' = pageTime + 1
      BY <1>5, LiveRule DEF Page!Tick, PageInv, Page!Times, Page!runVars, PageParameters
    <2>2. lastRun.started <= pageTime'
      BY <2>1, LiveRule DEF PageInv, RunsInv
    <2> QED
      BY <1>1, <1>2, <2>1, <2>2 DEF PageInv, Page!TypeOK, RunsInv
  <1> QED BY <1>3, <1>4, <1>5

LEMMA PageNext == ASSUME PageParameters, PageInv, [Page!Next]_(Page!vars) PROVE PageInv'
  <1>1. CASE UNCHANGED Page!vars
    BY <1>1 DEF Page!vars, Page!runVars, Page!pageVars, PageInv, Page!TypeOK, DatesInv, Page!ValidDates, RunsInv
  <1> QED
    BY <1>1, RuleKeeps, PageKeeps, ToggleKeeps, BeginRunKeeps, EndRunKeeps, PageRestKeeps DEF Page!Next

\* The state the page shows of an enabled rule is what the server makes of it
\* (groupGrantLifecycleStatus, #requireClaimable, #executeScheduledRevocations).
LEMMA StatusFollows == ASSUME PageParameters, PageInv PROVE Page!StatusAgrees
  <1> SUFFICES ASSUME copy.row = "live", copy = Page!Api, grantRule.enabled
               PROVE  LET status == Page!Status(copy, pageTime) IN
                      /\ Page!Claimable => status \in {"active", "revoke_failed"}
                      /\ status = "active" => Page!Claimable
                      /\ Page!Due => \/ status \in {"revoking", "revoke_failed"}
                                     \/ status = "revoked" /\ (lastRun.mode = "revoke" \/ lastRun.started < grantRule.dates.revoke)
                      /\ status = "revoking" => Page!Due \/ lastRun.status = "running"
    BY DEF Page!StatusAgrees
  <1> DEFINE d      == grantRule.dates
             status == Page!Status(copy, pageTime)
             cur    == IF lastRun.mode = "none" \/ lastRun.started < grantRule.updated THEN "none" ELSE lastRun.status
  <1>1. grantRule.row = "live"
    BY DEF Page!Api, Page!NoRule
  <1>2. copy.enabled = grantRule.enabled /\ copy.dates = d /\ copy.updated = grantRule.updated /\ copy.last = lastRun
    BY <1>1 DEF Page!Api
  <1>3. /\ d.start \in Int /\ d.end \in Int /\ d.revoke \in Int /\ pageTime \in Nat /\ pageTime <= PageHorizon
        /\ grantRule.updated \in Nat /\ lastRun.started \in Int /\ expired \subseteq Nat
        /\ PageHorizon \in Nat
    BY <1>1, LiveRule DEF PageInv, Page!Times, PageParameters
  <1>4. Page!ValidDates(d)
    BY <1>1 DEF PageInv, DatesInv
  <1>5. Page!CurrentRun(copy) = cur
    BY <1>2 DEF Page!CurrentRun
  <1>6. status = IF cur = "failed" THEN "revoke_failed"
                 ELSE IF d.start > pageTime THEN "upcoming"
                 ELSE IF d.end > pageTime THEN "active"
                 ELSE IF d.revoke = Page!Never THEN "activity_ended"
                 ELSE IF d.revoke > pageTime THEN "pending_revoke"
                 ELSE IF cur = "succeeded" THEN "revoked"
                 ELSE "revoking"
    BY <1>2, <1>5 DEF Page!Status
  <1>7. Page!Claimable <=> d.start <= pageTime /\ pageTime < d.end
    BY <1>1 DEF Page!Claimable
  <1>8. Page!Due <=> d.revoke <= pageTime /\ ~\E t \in expired : t >= grantRule.updated /\ t >= d.revoke
    BY <1>1 DEF Page!Due
  <1> HIDE DEF status
  <1>9. (Page!Claimable => status \in {"active", "revoke_failed"}) /\ (status = "active" => Page!Claimable)
    BY <1>3, <1>6, <1>7
  <1>10. ASSUME Page!Due
         PROVE  \/ status \in {"revoking", "revoke_failed"}
                \/ status = "revoked" /\ (lastRun.mode = "revoke" \/ lastRun.started < d.revoke)
    <2>1. d.revoke <= pageTime /\ d.revoke # Page!Never /\ d.end < d.revoke /\ d.start < d.end
      BY <1>3, <1>4, <1>8, <1>10 DEF Page!ValidDates, Page!Never
    <2>2. status \in {"revoking", "revoke_failed"} \/ (status = "revoked" /\ cur = "succeeded")
      BY <1>3, <1>6, <2>1
    <2>3. ASSUME cur = "succeeded", lastRun.started >= d.revoke PROVE lastRun.mode = "revoke"
      <3>1. lastRun.mode # "none" /\ lastRun.started >= grantRule.updated /\ lastRun.status = "succeeded"
        BY <1>3, <2>3
      <3>2. lastRun.mode \in {"expire", "revoke"}
        BY <3>1 DEF PageInv, Page!TypeOK, Page!RunRows, Page!NoRun
      <3> QED
        BY <1>8, <1>10, <2>3, <3>1, <3>2 DEF PageInv, RunsInv
    <2> QED
      BY <1>3, <2>2, <2>3
  <1>11. ASSUME status = "revoking" PROVE Page!Due \/ lastRun.status = "running"
    <2>1. cur # "failed" /\ cur # "succeeded" /\ d.revoke <= pageTime
      BY <1>3, <1>6, <1>11
    <2>2. CASE cur = "none"
      <3>1. \A t \in expired : ~(t >= grantRule.updated)
        <4>1. CASE lastRun.mode = "none"
          <5>1. lastRun.started = -1
            BY <4>1 DEF PageInv, Page!TypeOK, Page!RunRows, Page!NoRun
          <5> QED
            BY <1>3, <5>1 DEF PageInv, RunsInv
        <4>2. CASE lastRun.mode # "none" /\ lastRun.started < grantRule.updated
          BY <1>3, <4>2 DEF PageInv, RunsInv
        <4>3. CASE lastRun.mode # "none" /\ ~(lastRun.started < grantRule.updated)
          <5>1. lastRun.status = "none"
            BY <2>2, <4>3
          <5> QED
            BY <4>3, <5>1 DEF PageInv, Page!TypeOK, Page!RunRows, Page!NoRun
        <4> QED BY <4>1, <4>2, <4>3
      <3> QED
        BY <1>8, <2>1, <3>1
    <2>3. CASE cur # "none"
      <3>1. cur = lastRun.status
        BY <2>3
      <3> QED
        BY <2>1, <2>3, <3>1 DEF PageInv, Page!TypeOK, Page!RunRows, Page!NoRun
    <2> QED BY <2>2, <2>3
  <1> QED
    BY <1>9, <1>10, <1>11 DEF status

THEOREM PageIsRight ==
    ASSUME PageParameters
    PROVE  Page!Spec => []PageInv /\ []Page!StatusAgrees
  BY PageStarts, PageNext, StatusFollows, PTL DEF Page!Spec

-----------------------------------------------------------------------------
(* Sessions and CSRF tokens (Sessions).                                    *)

SessionParameters ==
    /\ Lifetime \in Nat /\ SessionHorizon \in Nat /\ MaxSessions \in Nat /\ MaxTokens \in Nat
    /\ "none" \notin Tabs

\* The session expects the newest token; the tab that loaded it last has that one, or
\* only answers with that one are under way to it.
TokenInv ==
    /\ last # "none" /\ cookie # 0 /\ sessions[cookie].row =>
          sessions[cookie].csrf = tokens /\ tokens > 0
    /\ \A t \in Tabs : last = t /\ t \notin crossed =>
          /\ \A a \in loads : a.tab = t => a.token = tokens
          /\ (\E a \in loads : a.tab = t) \/ held[t] = tokens

\* Who is found to be an administrator has been one since the request came.
AdminKnown(f) ==
    /\ f.phase = "asking" /\ standing = "admin" => f.admin
    /\ f.phase = "answered" /\ f.current = "admin" => f.admin
AdminInv == \A q \in AdminRequests : AdminKnown(calls[q])

BrowserInv == Browser!TypeOK /\ TokenInv /\ AdminInv

LEMMA BrowserStarts == ASSUME SessionParameters, Browser!Init PROVE BrowserInv
  <1>1. Browser!TypeOK
    BY DEF SessionParameters, Browser!Init, Browser!TypeOK, Browser!Rest
  <1> QED
    BY <1>1 DEF SessionParameters, Browser!Init, BrowserInv, TokenInv, AdminInv, AdminKnown, Browser!Rest

\* A request takes a step.
LEMMA RequestMoves ==
    ASSUME Browser!TypeOK, AdminInv, NEW q \in AdminRequests,
           NEW f \in Browser!Enters \cup Browser!Calls \cup {Browser!Rest},
           calls' = [calls EXCEPT ![q] = f], standing' = standing, AdminKnown(f)
    PROVE  /\ calls' \in [AdminRequests -> Browser!Enters \cup Browser!Calls \cup {Browser!Rest}]
           /\ AdminInv'
  <1>1. calls' \in [AdminRequests -> Browser!Enters \cup Browser!Calls \cup {Browser!Rest}]
    BY DEF Browser!TypeOK
  <1>2. ASSUME NEW r \in AdminRequests PROVE AdminKnown(calls[r])'
    <2>1. calls'[r] = IF r = q THEN f ELSE calls[r]
      BY DEF Browser!TypeOK
    <2>2. AdminKnown(calls'[r])
      BY <2>1 DEF AdminInv
    <2> QED
      BY <2>2 DEF AdminKnown
  <1> QED
    BY <1>1, <1>2 DEF AdminInv

\* Who logs out, or is refused, loses the session: what is left is as before.
LEMMA SessionEnds ==
    ASSUME Browser!TypeOK, TokenInv, NEW s \in Browser!Ids, Browser!Delete(s),
           UNCHANGED <<tokens, held, loads, last, crossed>>, cookie' \in {cookie, 0}
    PROVE  /\ sessions' \in [Browser!Ids -> Browser!Rows \cup {Browser!Gone}]
           /\ TokenInv' /\ ~sessions'[s].row
  <1>1. sessions' \in [Browser!Ids -> Browser!Rows \cup {Browser!Gone}]
    BY DEF Browser!TypeOK, Browser!Delete
  <1>2. cookie # 0 => cookie \in Browser!Ids
    BY DEF Browser!TypeOK, Browser!Ids
  <1>3. \A r \in Browser!Ids : sessions'[r] = IF r = s THEN Browser!Gone ELSE sessions[r]
    BY DEF Browser!TypeOK, Browser!Delete
  <1>4. ~Browser!Gone.row
    BY DEF Browser!Gone
  <1> QED
    BY <1>1, <1>2, <1>3, <1>4 DEF TokenInv

LEMMA EnterKeeps ==
    ASSUME SessionParameters, BrowserInv, NEW q \in AdminRequests, Browser!Enter(q)
    PROVE  BrowserInv'
  <1> DEFINE f == [phase |-> "entering", role |-> Browser!Role(standing)]
  <1>1. f \in Browser!Enters /\ AdminKnown(f)
    BY DEF Browser!Enters, Browser!Role, AdminKnown
  <1>2. calls' = [calls EXCEPT ![q] = f]
        /\ UNCHANGED <<hour, standing, sessions, made, tokens, cookie, held, loads, last, crossed>>
    BY DEF Browser!Enter
  <1> HIDE DEF f
  <1>3. calls' \in [AdminRequests -> Browser!Enters \cup Browser!Calls \cup {Browser!Rest}] /\ AdminInv'
    BY <1>1, <1>2, RequestMoves DEF BrowserInv
  <1> QED
    BY <1>2, <1>3 DEF BrowserInv, Browser!TypeOK, TokenInv

LEMMA CreateKeeps ==
    ASSUME SessionParameters, BrowserInv, NEW q \in AdminRequests, Browser!Create(q)
    PROVE  BrowserInv'
  <1>1. /\ made' = made + 1 /\ made' \in Browser!Ids /\ made' \in 0..MaxSessions
        /\ UNCHANGED <<hour, standing, tokens, held, loads, crossed>> /\ last' = "none" /\ cookie' = made'
        /\ sessions' = [sessions EXCEPT ![made'] = Browser!NewSession(calls[q].role)]
        /\ calls' = [calls EXCEPT ![q] = Browser!Rest]
    BY DEF Browser!Create, Browser!Finish, BrowserInv, Browser!TypeOK, Browser!Ids, SessionParameters
  <1>2. calls[q] \in Browser!Enters
    BY DEF Browser!Create, BrowserInv, Browser!TypeOK, Browser!Calls, Browser!Rest
  <1>3. Browser!NewSession(calls[q].role) \in Browser!Rows
    <2>1. hour + Lifetime \in Nat /\ 0 \in 0..MaxTokens /\ calls[q].role \in {"admin", "user"}
      BY <1>2 DEF BrowserInv, Browser!TypeOK, SessionParameters, Browser!Enters
    <2> QED
      BY <2>1 DEF Browser!NewSession, Browser!Rows
  <1>4. AdminKnown(Browser!Rest)
    BY DEF AdminKnown, Browser!Rest
  <1>5. calls' \in [AdminRequests -> Browser!Enters \cup Browser!Calls \cup {Browser!Rest}] /\ AdminInv'
    BY <1>1, <1>4, RequestMoves DEF BrowserInv
  <1>6. Browser!TypeOK'
    BY <1>1, <1>3, <1>5 DEF BrowserInv, Browser!TypeOK
  <1>7. TokenInv'
    BY <1>1 DEF TokenInv, SessionParameters
  <1> QED
    BY <1>5, <1>6, <1>7 DEF BrowserInv

LEMMA LoadKeeps ==
    ASSUME SessionParameters, BrowserInv, NEW t \in Tabs, Browser!Load(t)
    PROVE  BrowserInv'
  <1>1. /\ tokens' = tokens + 1 /\ tokens' \in 1..MaxTokens /\ tokens \in Nat
        /\ UNCHANGED <<hour, standing, made, cookie, held, calls>>
        /\ sessions' = [sessions EXCEPT ![cookie].csrf = tokens']
        /\ loads' = loads \cup {[tab |-> t, token |-> tokens']} /\ last' = t
        /\ crossed' = IF \E a \in loads : a.tab = t THEN crossed \cup {t} ELSE crossed \ {t}
    BY DEF Browser!Load, Browser!StoreToken, BrowserInv, Browser!TypeOK, SessionParameters
  <1>2. cookie \in Browser!Ids /\ sessions[cookie] \in Browser!Rows
    <2>1. cookie \in Browser!Ids /\ sessions[cookie].row
      BY DEF Browser!Load, Browser!Valid, BrowserInv, Browser!TypeOK, Browser!Ids
    <2> QED
      BY <2>1 DEF BrowserInv, Browser!TypeOK, Browser!Gone
  <1>3. /\ [sessions[cookie] EXCEPT !.csrf = tokens'] \in Browser!Rows
        /\ [sessions[cookie] EXCEPT !.csrf = tokens'].csrf = tokens'
    <2>1. tokens' \in 0..MaxTokens
      BY <1>1 DEF SessionParameters
    <2> QED
      BY <1>2, <2>1 DEF Browser!Rows
  <1>4. sessions'[cookie] = [sessions[cookie] EXCEPT !.csrf = tokens']
    BY <1>1, <1>2 DEF BrowserInv, Browser!TypeOK
  <1>5. Browser!TypeOK'
    <2>1. sessions' \in [Browser!Ids -> Browser!Rows \cup {Browser!Gone}]
      BY <1>1, <1>2, <1>3 DEF BrowserInv, Browser!TypeOK
    <2>2. loads' \subseteq [tab : Tabs, token : 1..MaxTokens]
      BY <1>1 DEF BrowserInv, Browser!TypeOK
    <2>3. tokens' \in 0..MaxTokens /\ last' \in Tabs \cup {"none"} /\ crossed' \subseteq Tabs
      BY <1>1 DEF BrowserInv, Browser!TypeOK
    <2> QED
      BY <1>1, <2>1, <2>2, <2>3 DEF BrowserInv, Browser!TypeOK
  <1>6. AdminInv'
    BY <1>1 DEF BrowserInv, AdminInv, AdminKnown
  <1>7. \A u \in Tabs : last' = u /\ u \notin crossed' =>
           /\ \A a \in loads' : a.tab = u => a.token = tokens'
           /\ \E a \in loads' : a.tab = u
    <2> SUFFICES ASSUME t \notin crossed'
                 PROVE  /\ \A a \in loads' : a.tab = t => a.token = tokens'
                        /\ \E a \in loads' : a.tab = t
      BY <1>1
    <2>1. \A a \in loads : a.tab # t
      BY <1>1
    <2> DEFINE b == [tab |-> t, token |-> tokens']
    <2>2. b.tab = t /\ b.token = tokens' /\ loads' = loads \cup {b}
      BY <1>1
    <2> HIDE DEF b
    <2> QED
      BY <2>1, <2>2
  <1>8. TokenInv'
    <2>1. tokens' > 0
      BY <1>1
    <2>2. cookie' = cookie
      BY <1>1
    <2>3. sessions'[cookie'].csrf = tokens'
      BY <1>3, <1>4, <2>2
    <2> QED
      BY <1>7, <2>1, <2>3 DEF TokenInv
  <1> QED
    BY <1>5, <1>6, <1>8 DEF BrowserInv

LEMMA ArriveKeeps ==
    ASSUME SessionParameters, BrowserInv, NEW a \in loads, Browser!Arrive(a)
    PROVE  BrowserInv'
  <1>1. /\ loads' = loads \ {a} /\ held' = [held EXCEPT ![a.tab] = a.token]
        /\ UNCHANGED <<hour, standing, sessions, made, tokens, cookie, calls, last, crossed>>
    BY DEF Browser!Arrive
  <1>2. a.tab \in Tabs /\ a.token \in 1..MaxTokens /\ loads \subseteq [tab : Tabs, token : 1..MaxTokens]
    BY DEF BrowserInv, Browser!TypeOK
  <1>3. \A t \in Tabs : held'[t] = IF t = a.tab THEN a.token ELSE held[t]
    BY <1>1 DEF BrowserInv, Browser!TypeOK
  <1>4. Browser!TypeOK'
    <2>1. held' \in [Tabs -> 0..MaxTokens]
      BY <1>1, <1>2 DEF BrowserInv, Browser!TypeOK, SessionParameters
    <2> QED
      BY <1>1, <2>1 DEF BrowserInv, Browser!TypeOK
  <1>5. ASSUME NEW t \in Tabs, last = t, t \notin crossed
        PROVE  /\ \A b \in loads' : b.tab = t => b.token = tokens
               /\ (\E b \in loads' : b.tab = t) \/ held'[t] = tokens
    <2>1. \A b \in loads : b.tab = t => b.token = tokens
      BY <1>5 DEF BrowserInv, TokenInv
    <2>2. CASE a.tab = t
      BY <1>1, <1>3, <1>5, <2>1, <2>2
    <2>3. CASE a.tab # t
      BY <1>1, <1>3, <1>5, <2>1, <2>3 DEF BrowserInv, TokenInv
    <2> QED BY <2>2, <2>3
  <1>6. TokenInv'
    BY <1>1, <1>5 DEF BrowserInv, TokenInv
  <1>7. AdminInv'
    BY <1>1 DEF BrowserInv, AdminInv, AdminKnown
  <1> QED
    BY <1>4, <1>6, <1>7 DEF BrowserInv

\* requireAdmin, and what upstream answers.
LEMMA AskKeeps ==
    ASSUME SessionParameters, BrowserInv, NEW q \in AdminRequests,
           (\E t \in Tabs : Browser!Ask(q, t)) \/ Browser!UpstreamAnswers(q)
    PROVE  BrowserInv'
  <1>1. UNCHANGED <<hour, standing, sessions, made, tokens, cookie, held, loads, last, crossed>>
        /\ standing \in Browser!Standings
    BY DEF Browser!Ask, Browser!UpstreamAnswers, BrowserInv, Browser!TypeOK
  <1>2. \E f \in Browser!Calls : calls' = [calls EXCEPT ![q] = f] /\ AdminKnown(f)
    <2>1. ASSUME NEW t \in Tabs, Browser!Ask(q, t)
          PROVE  \E f \in Browser!Calls : calls' = [calls EXCEPT ![q] = f] /\ AdminKnown(f)
      <3>1. PICK adm \in BOOLEAN : /\ adm <=> standing = "admin"
                                   /\ calls' = [calls EXCEPT ![q] = [phase |-> "asking", session |-> cookie,
                                                                     admin |-> adm, current |-> standing]]
        <4>1. (standing = "admin") \in BOOLEAN
          OBVIOUS
        <4> QED
          BY <2>1, <4>1, Zenon DEF Browser!Ask
      <3>2. cookie \in Browser!Ids
        BY <2>1 DEF Browser!Ask, Browser!Passes, Browser!Valid, BrowserInv, Browser!TypeOK, Browser!Ids
      <3> DEFINE f == [phase |-> "asking", session |-> cookie, admin |-> adm, current |-> standing]
      <3>3. f \in Browser!Calls
        BY <1>1, <3>2 DEF Browser!Calls
      <3>4. f.phase = "asking" /\ f.admin = adm
        OBVIOUS
      <3>5. AdminKnown(f)
        BY <3>1, <3>4 DEF AdminKnown
      <3> QED
        BY <3>1, <3>3, <3>5
    <2>2. ASSUME Browser!UpstreamAnswers(q)
          PROVE  \E f \in Browser!Calls : calls' = [calls EXCEPT ![q] = f] /\ AdminKnown(f)
      <3> DEFINE f == [calls[q] EXCEPT !.phase = "answered", !.current = standing]
      <3>1. calls[q].phase = "asking" /\ calls' = [calls EXCEPT ![q] = f]
        BY <2>2 DEF Browser!UpstreamAnswers, BrowserInv, Browser!TypeOK
      <3>2. calls[q] \in Browser!Calls
        BY <3>1 DEF BrowserInv, Browser!TypeOK, Browser!Enters, Browser!Rest
      <3>3. f \in Browser!Calls /\ f.phase = "answered" /\ f.current = standing /\ f.admin = calls[q].admin
        BY <1>1, <3>2 DEF Browser!Calls
      <3>4. AdminKnown(f)
        BY <3>1, <3>3 DEF BrowserInv, AdminInv, AdminKnown
      <3> QED
        BY <3>1, <3>3, <3>4
    <2> QED BY <2>1, <2>2
  <1>3. PICK f \in Browser!Calls : calls' = [calls EXCEPT ![q] = f] /\ AdminKnown(f)
    BY <1>2
  <1>4. calls' \in [AdminRequests -> Browser!Enters \cup Browser!Calls \cup {Browser!Rest}] /\ AdminInv'
    BY <1>1, <1>3, RequestMoves DEF BrowserInv
  <1> QED
    BY <1>1, <1>4 DEF BrowserInv, Browser!TypeOK, TokenInv

\* The request is over.
LEMMA FinishKeeps ==
    ASSUME SessionParameters, BrowserInv, NEW q \in AdminRequests,
           Browser!NoAnswer(q) \/ Browser!Handle(q) \/ Browser!Refuse(q)
    PROVE  BrowserInv' /\ (Browser!Refuse(q) => ~sessions'[calls[q].session].row)
  <1>1. /\ UNCHANGED <<hour, standing, made, tokens, cookie, held, loads, last, crossed>>
        /\ calls' = [calls EXCEPT ![q] = Browser!Rest]
    BY DEF Browser!NoAnswer, Browser!Handle, Browser!Refuse, Browser!Finish
  <1>2. AdminKnown(Browser!Rest)
    BY DEF AdminKnown, Browser!Rest
  <1>3. calls' \in [AdminRequests -> Browser!Enters \cup Browser!Calls \cup {Browser!Rest}] /\ AdminInv'
    BY <1>1, <1>2, RequestMoves DEF BrowserInv
  <1>4. CASE Browser!Refuse(q)
    <2>1. calls[q] \in Browser!Calls /\ Browser!Delete(calls[q].session)
      BY <1>4 DEF Browser!Refuse, BrowserInv, Browser!TypeOK, Browser!Enters, Browser!Rest
    <2>2. calls[q].session \in Browser!Ids
      BY <2>1 DEF Browser!Calls
    <2>3. /\ sessions' \in [Browser!Ids -> Browser!Rows \cup {Browser!Gone}]
          /\ TokenInv' /\ ~sessions'[calls[q].session].row
      BY <1>1, <2>1, <2>2, SessionEnds DEF BrowserInv
    <2> QED
      BY <1>1, <1>3, <2>3 DEF BrowserInv, Browser!TypeOK
  <1>5. CASE (Browser!NoAnswer(q) \/ Browser!Handle(q)) /\ ~Browser!Refuse(q)
    <2>1. sessions' = sessions
      BY <1>5 DEF Browser!NoAnswer, Browser!Handle
    <2> QED
      BY <1>1, <1>3, <1>5, <2>1 DEF BrowserInv, Browser!TypeOK, TokenInv
  <1> QED BY <1>4, <1>5

LEMMA LogoutKeeps ==
    ASSUME SessionParameters, BrowserInv, NEW t \in Tabs, Browser!Logout(t)
    PROVE  BrowserInv'
  <1>1. /\ UNCHANGED <<hour, standing, made, tokens, held, loads, calls, last, crossed>>
        /\ cookie' = 0 /\ Browser!Delete(cookie) /\ cookie \in Browser!Ids
    BY DEF Browser!Logout, Browser!Passes, Browser!Valid, BrowserInv, Browser!TypeOK, Browser!Ids
  <1>2. sessions' \in [Browser!Ids -> Browser!Rows \cup {Browser!Gone}] /\ TokenInv'
    BY <1>1, SessionEnds DEF BrowserInv
  <1>3. Browser!TypeOK' /\ AdminInv'
    BY <1>1, <1>2 DEF BrowserInv, Browser!TypeOK, AdminInv, AdminKnown, SessionParameters
  <1> QED
    BY <1>2, <1>3 DEF BrowserInv

LEMMA AroundKeeps ==
    ASSUME SessionParameters, BrowserInv,
           (\E st \in Browser!Standings : Browser!Change(st)) \/ Browser!Tick \/ Browser!Cleanup
    PROVE  BrowserInv'
  <1>1. UNCHANGED <<made, tokens, cookie, held, loads, last, crossed>>
    BY DEF Browser!Change, Browser!Tick, Browser!Cleanup
  <1>2. ASSUME NEW st \in Browser!Standings, Browser!Change(st) PROVE BrowserInv'
    <2>1. /\ UNCHANGED <<hour, sessions>> /\ standing' = st
          /\ calls' = [q \in AdminRequests |-> IF calls[q].phase = "asking" /\ st = "admin"
                                               THEN [calls[q] EXCEPT !.admin = TRUE] ELSE calls[q]]
      BY <1>2 DEF Browser!Change
    <2>2. ASSUME NEW q \in AdminRequests
          PROVE  /\ calls'[q] \in Browser!Enters \cup Browser!Calls \cup {Browser!Rest}
                 /\ AdminKnown(calls[q])'
      <3>1. CASE calls[q].phase = "asking" /\ st = "admin"
        <4>1. calls[q] \in Browser!Calls
          BY <3>1 DEF BrowserInv, Browser!TypeOK, Browser!Enters, Browser!Rest
        <4>2. calls'[q] = [calls[q] EXCEPT !.admin = TRUE]
          BY <2>1, <3>1
        <4>3. calls'[q] \in Browser!Calls /\ calls'[q].admin = TRUE
          BY <4>1, <4>2 DEF Browser!Calls
        <4> QED
          BY <4>3 DEF AdminKnown
      <3>2. CASE ~(calls[q].phase = "asking" /\ st = "admin")
        <4>1. calls'[q] = calls[q]
          BY <2>1, <3>2
        <4> QED
          BY <2>1, <3>2, <4>1 DEF BrowserInv, Browser!TypeOK, AdminInv, AdminKnown
      <3> QED BY <3>1, <3>2
    <2>3. Browser!TypeOK'
      BY <1>1, <2>1, <2>2 DEF BrowserInv, Browser!TypeOK
    <2>4. TokenInv'
      BY <1>1, <2>1 DEF BrowserInv, TokenInv
    <2> QED
      BY <2>2, <2>3, <2>4 DEF BrowserInv, AdminInv
  <1>3. CASE Browser!Tick
    <2>1. hour' \in 0..SessionHorizon /\ UNCHANGED <<standing, sessions, calls>>
      BY <1>3 DEF Browser!Tick, BrowserInv, Browser!TypeOK, SessionParameters
    <2> QED
      BY <1>1, <2>1 DEF BrowserInv, Browser!TypeOK, TokenInv, AdminInv, AdminKnown
  <1>4. CASE Browser!Cleanup
    <2>1. /\ UNCHANGED <<hour, standing, calls>>
          /\ \A s \in Browser!Ids : sessions'[s] \in {sessions[s], Browser!Gone}
          /\ sessions' \in [Browser!Ids -> Browser!Rows \cup {Browser!Gone}]
      BY <1>4 DEF Browser!Cleanup, BrowserInv, Browser!TypeOK
    <2>2. cookie # 0 => cookie \in Browser!Ids
      BY DEF BrowserInv, Browser!TypeOK, Browser!Ids
    <2>3. ~Browser!Gone.row
      BY DEF Browser!Gone
    <2>4. TokenInv'
      BY <1>1, <2>1, <2>2, <2>3 DEF BrowserInv, TokenInv
    <2> QED
      BY <1>1, <2>1, <2>4 DEF BrowserInv, Browser!TypeOK, AdminInv, AdminKnown
  <1> QED BY <1>2, <1>3, <1>4

LEMMA BrowserNext == ASSUME SessionParameters, BrowserInv, [Browser!Next]_(Browser!vars) PROVE BrowserInv'
  <1>1. CASE UNCHANGED Browser!vars
    BY <1>1 DEF Browser!vars, BrowserInv, Browser!TypeOK, TokenInv, AdminInv, AdminKnown
  <1> QED
    BY <1>1, EnterKeeps, CreateKeeps, LoadKeeps, ArriveKeeps, AskKeeps, FinishKeeps, LogoutKeeps,
       AroundKeeps DEF Browser!Next

\* The tab that loaded the session last holds the token the session expects once its
\* answer is there (csrfTokenForSession).
THEOREM TokenIsInStep ==
    ASSUME SessionParameters
    PROVE  Browser!Spec => []BrowserInv /\ []Browser!TokenInStep
  <1>1. BrowserInv => Browser!TokenInStep
    BY DEF BrowserInv, Browser!TypeOK, TokenInv, Browser!TokenInStep, Browser!Passes, Browser!Valid,
           SessionParameters
  <1> QED
    BY <1>1, BrowserStarts, BrowserNext, PTL DEF Browser!Spec

\* A handler of the administration runs for who was an administrator after the request
\* had come, and who is refused has no session left (#verifyCurrentAdmin).
THEOREM AdminsAreCurrent ==
    ASSUME SessionParameters
    PROVE  Browser!Spec => Browser!AdminIsCurrent
  <1>1. ASSUME BrowserInv, NEW q \in AdminRequests
        PROVE  /\ Browser!Handle(q) => calls[q].admin
               /\ Browser!Refuse(q) => ~sessions'[calls[q].session].row
    BY <1>1, FinishKeeps DEF BrowserInv, AdminInv, AdminKnown, Browser!Handle, Browser!AdminNow
  <1>2. BrowserInv => [\A q \in AdminRequests :
                          /\ Browser!Handle(q) => calls[q].admin
                          /\ Browser!Refuse(q) => ~sessions'[calls[q].session].row]_(Browser!vars)
    BY <1>1
  <1> QED
    BY <1>2, TokenIsInStep, PTL DEF Browser!AdminIsCurrent

-----------------------------------------------------------------------------
(* The conditions (Rules).                                                 *)

\* What holds of a node once it holds of those after it holds of all: of the last
\* node, and so on up to the root.
LEMMA FromTheEnd ==
    ASSUME NEW n \in Nat, NEW T,
           \A i \in 1..n : (\A j \in 1..n : j > i => j \in T) => i \in T
    PROVE  \A i \in 1..n : i \in T
  <1> DEFINE R == {p \in Nat \X Nat : p[1] < p[2]}
             Missed == {k \in Nat : k < n /\ n - k \notin T}
  <1>1. IsWellFoundedOn(R, Nat)
    <2>1. R = OpToRel(<, Nat)
      BY DEF OpToRel
    <2> QED BY <2>1, NatLessThanWellFounded
  <1> SUFFICES ASSUME NEW i \in 1..n, i \notin T PROVE FALSE
    OBVIOUS
  <1>2. n - i \in Missed
    <2>1. n - i \in Nat /\ n - i < n /\ n - (n - i) = i
      OBVIOUS
    <2> QED BY <2>1
  <1>3. PICK k \in Missed : \A l \in Missed : <<l, k>> \notin R
    <2>1. Missed \subseteq Nat /\ Missed # {}
      BY <1>2
    <2> QED BY <1>1, <2>1, WFMin
  <1>4. k \in Nat /\ k < n /\ n - k \in 1..n /\ n - k \notin T
    OBVIOUS
  <1>5. PICK j \in 1..n : j > n - k /\ j \notin T
    BY <1>4
  <1>6. n - j \in Nat /\ n - j < n /\ n - (n - j) = j /\ n - j < k
    BY <1>4, <1>5
  <1>7. n - j \in Missed /\ <<n - j, k>> \in R
    BY <1>4, <1>5, <1>6
  <1> QED BY <1>3, <1>7

\* H gives the value at each place from the values at later ones.
Founded(n, V, H) ==
    /\ n \in Nat \ {0} /\ V # {} /\ H \in [1..n -> [[1..n -> V] -> V]]
    /\ \A i \in 1..n : \A g, h \in [1..n -> V] :
          (\A j \in 1..n : j > i => g[j] = h[j]) => H[i][g] = H[i][h]

\* Then there is a function that has these values.
LEMMA Recursion ==
    ASSUME NEW n, NEW V, NEW H, Founded(n, V, H)
    PROVE  \E g \in [1..n -> V] : \A i \in 1..n : g[i] = H[i][g]
  <1> USE DEF Founded
  <1> DEFINE D == 1..n
             Solved(m) == \E g \in [D -> V] : \A i \in D : i >= m => g[i] = H[i][g]
             T == {m \in D : Solved(m)}
  <1>1. n + 1 = n + 1 /\ Solved(n + 1)
    <2>1. PICK v : v \in V
      OBVIOUS
    <2>2. [i \in D |-> v] \in [D -> V]
      BY <2>1
    <2>3. \A i \in D : ~(i >= n + 1)
      OBVIOUS
    <2> QED BY <2>2, <2>3
  <1>2. ASSUME NEW m \in D, Solved(m + 1) PROVE Solved(m)
    <2>1. PICK g \in [D -> V] : \A i \in D : i >= m + 1 => g[i] = H[i][g]
      BY <1>2
    <2> DEFINE h == [g EXCEPT ![m] = H[m][g]]
    <2>2. h \in [D -> V] /\ h[m] = H[m][g] /\ \A j \in D : j # m => h[j] = g[j]
      OBVIOUS
    <2> HIDE DEF h
    <2>3. ASSUME NEW i \in D, i >= m PROVE h[i] = H[i][h]
      <3>1. H[i][h] = H[i][g]
        <4>1. \A j \in D : j > i => h[j] = g[j]
          BY <2>2, <2>3
        <4> QED BY <2>2, <4>1
      <3>2. i = m \/ (i # m /\ i >= m + 1)
        BY <2>3
      <3> QED BY <2>1, <2>2, <3>1, <3>2
    <2> QED BY <2>2, <2>3
  <1>3. ASSUME NEW i \in D, \A j \in D : j > i => j \in T PROVE i \in T
    <2>1. CASE i = n
      BY <1>1, <1>2, <2>1
    <2>2. CASE i # n
      <3>1. i + 1 \in D /\ i + 1 > i
        BY <2>2
      <3> QED BY <1>2, <1>3, <3>1
    <2> QED BY <2>1, <2>2
  <1>4. \A i \in D : i \in T
    <2> HIDE DEF T, Solved
    <2> QED BY <1>3, FromTheEnd
  <1>5. 1 \in D
    OBVIOUS
  <1>6. Solved(1)
    <2> HIDE DEF Solved, D
    <2> QED BY <1>4, <1>5
  <1>7. \A i \in D : i >= 1
    OBVIOUS
  <1> QED BY <1>6, <1>7

Tree(rule) ==
    /\ Len(rule) \in Nat \ {0} /\ DOMAIN rule = 1..Len(rule)
    /\ \A i \in DOMAIN rule :
          /\ rule[i].type \in {"fact", "group"}
          /\ rule[i].type = "group" => rule[i].children \subseteq (i + 1)..Len(rule)

\* Each verdict is that of the fact, or follows from those of the children.
Verdict(rule, f, m, i) ==
    IF rule[i].type = "fact" THEN Conditions!Holds(rule[i], f)
    ELSE IF rule[i].operator = "all" THEN \A c \in rule[i].children : m[c]
    ELSE \E c \in rule[i].children : m[c]

LEMMA VerdictsFollow ==
    ASSUME NEW rule, NEW f, Tree(rule)
    PROVE  /\ Conditions!Verdicts(rule, f) \in [DOMAIN rule -> BOOLEAN]
           /\ \A i \in DOMAIN rule :
                 Conditions!Verdicts(rule, f)[i] = Verdict(rule, f, Conditions!Verdicts(rule, f), i)
  <1> DEFINE n == Len(rule)
             D == 1..n
             H == [i \in D |-> [m \in [D -> BOOLEAN] |-> Verdict(rule, f, m, i)]]
  <1>1. \A i, m : Verdict(rule, f, m, i) \in BOOLEAN
    BY Zenon DEF Verdict, Conditions!Holds, Conditions!Compare
  <1>2. H \in [D -> [[D -> BOOLEAN] -> BOOLEAN]]
    BY <1>1, Zenon
  <1>3. ASSUME NEW i \in D, NEW g \in [D -> BOOLEAN], NEW h \in [D -> BOOLEAN],
               \A j \in D : j > i => g[j] = h[j]
        PROVE  H[i][g] = H[i][h]
    <2>1. rule[i].type # "fact" => \A c \in rule[i].children : g[c] = h[c]
      <3>1. rule[i].type # "fact" => \A c \in rule[i].children : c \in D /\ c > i
        BY DEF Tree
      <3> QED BY <1>3, <3>1
    <2>2. Verdict(rule, f, g, i) = Verdict(rule, f, h, i)
      BY <2>1, Zenon DEF Verdict
    <2> QED BY <2>2, Zenon
  <1>4. n \in Nat \ {0} /\ DOMAIN rule = D
    BY DEF Tree
  <1>5. PICK g \in [D -> BOOLEAN] : \A i \in D : g[i] = H[i][g]
    <2>1. BOOLEAN # {}
      BY Zenon
    <2>2. \A i \in D : \A g, h \in [D -> BOOLEAN] :
             (\A j \in D : j > i => g[j] = h[j]) => H[i][g] = H[i][h]
      BY <1>3, Zenon
    <2>3. Founded(n, BOOLEAN, H)
      BY <1>2, <1>4, <2>1, <2>2, Zenon DEF Founded
    <2> HIDE DEF H, n
    <2> QED BY <2>3, Recursion, SMT
  <1>6. g = [i \in D |-> Verdict(rule, f, g, i)]
    BY <1>5, Zenon
  <1>7. Conditions!Verdicts(rule, f) = [i \in D |-> Verdict(rule, f, Conditions!Verdicts(rule, f), i)]
    BY <1>4, <1>6, Zenon DEF Conditions!Verdicts, Verdict
  <1> QED BY <1>1, <1>4, <1>7, Zenon

\* The reasons of each node are those of its children.
Reason(rule, f, m, i) ==
    IF Conditions!Verdicts(rule, f)[i] THEN {}
    ELSE IF rule[i].type = "fact" THEN {rule[i]}
    ELSE LET below == UNION {m[c] : c \in rule[i].children}
         IN  IF rule[i].operator = "any" THEN below \cup {Conditions!NoOption} ELSE below

LEMMA ReasonsFollow ==
    ASSUME NEW rule, NEW f, Tree(rule)
    PROVE  \A i \in DOMAIN rule :
              Conditions!ReasonsOf(rule, f)[i] = Reason(rule, f, Conditions!ReasonsOf(rule, f), i)
  <1> DEFINE n == Len(rule)
             D == 1..n
             V == SUBSET ({rule[i] : i \in D} \cup {Conditions!NoOption})
             H == [i \in D |-> [m \in [D -> V] |-> Reason(rule, f, m, i)]]
  <1>0. n \in Nat \ {0} /\ DOMAIN rule = D
    BY DEF Tree
  <1>1. \A i \in D : rule[i].type # "fact" /\ rule[i].type = "group" =>
           \A c \in rule[i].children : c \in D /\ c > i
    BY DEF Tree
  <1>2. \A i \in D : rule[i].type \in {"fact", "group"}
    BY <1>0, Zenon DEF Tree
  <1>3. ASSUME NEW i \in D, NEW m \in [D -> V] PROVE Reason(rule, f, m, i) \in V
    <2>1. CASE rule[i].type = "fact"
      BY <2>1, Zenon DEF Reason
    <2>2. CASE rule[i].type # "fact"
      <3>1. \A c \in rule[i].children : m[c] \in V
        BY <1>1, <1>2, <2>2, Zenon
      <3> QED BY <2>2, <3>1, Zenon DEF Reason
    <2> QED BY <2>1, <2>2
  <1>4. H \in [D -> [[D -> V] -> V]]
    <2> HIDE DEF V
    <2> QED BY <1>3, Zenon
  <1>5. ASSUME NEW i \in D, NEW g \in [D -> V], NEW h \in [D -> V],
               \A j \in D : j > i => g[j] = h[j]
        PROVE  H[i][g] = H[i][h]
    <2> HIDE DEF V
    <2>1. rule[i].type # "fact" => \A c \in rule[i].children : g[c] = h[c]
      BY <1>1, <1>2, <1>5, Zenon
    <2>2. Reason(rule, f, g, i) = Reason(rule, f, h, i)
      <3>1. CASE rule[i].type = "fact"
        BY <3>1, Zenon DEF Reason
      <3>2. CASE rule[i].type # "fact"
        <4>1. {g[c] : c \in rule[i].children} = {h[c] : c \in rule[i].children}
          BY <2>1, <3>2
        <4> QED BY <3>2, <4>1, Zenon DEF Reason
      <3> QED BY <3>1, <3>2
    <2> QED BY <2>2, Zenon
  <1>6. PICK g \in [D -> V] : \A i \in D : g[i] = H[i][g]
    <2>1. V # {}
      OBVIOUS
    <2> HIDE DEF H, n, V
    <2>2. \A i \in D : \A g, h \in [D -> V] :
             (\A j \in D : j > i => g[j] = h[j]) => H[i][g] = H[i][h]
      BY <1>5, Zenon
    <2>3. Founded(n, V, H)
      BY <1>0, <1>4, <2>1, <2>2, Zenon DEF Founded
    <2> QED BY <2>3, Recursion, SMT
  <1>7. g = [i \in D |-> Reason(rule, f, g, i)]
    <2> HIDE DEF V
    <2> QED BY <1>6, Zenon
  <1>8. Conditions!ReasonsOf(rule, f) = [i \in D |-> Reason(rule, f, Conditions!ReasonsOf(rule, f), i)]
    <2> HIDE DEF V, H, n
    <2>1. Conditions!ReasonsOf(rule, f) = CHOOSE m : m = [i \in DOMAIN rule |-> Reason(rule, f, m, i)]
      BY DEF Conditions!ReasonsOf, Reason
    <2> QED BY <1>0, <1>7, <2>1, Zenon
  <1> QED BY <1>0, <1>8, Zenon

\* And the browser's verdicts.
BrowserVerdict(condition, api, m, i) ==
    IF condition[i].type = "fact" THEN Conditions!BrowserHolds(condition[i], api)
    ELSE \/ condition[i].children = {}
         \/ IF condition[i].operator = "and" THEN \A c \in condition[i].children : m[c]
                                             ELSE \E c \in condition[i].children : m[c]

LEMMA BrowserFollows ==
    ASSUME NEW rule, NEW f, Tree(rule)
    PROVE  /\ Conditions!BrowserVerdicts(rule, f) \in [DOMAIN rule -> BOOLEAN]
           /\ \A i \in DOMAIN rule : Conditions!BrowserVerdicts(rule, f)[i]
                                      = BrowserVerdict(rule, f, Conditions!BrowserVerdicts(rule, f), i)
  <1> DEFINE n == Len(rule)
             D == 1..n
             H == [i \in D |-> [m \in [D -> BOOLEAN] |-> BrowserVerdict(rule, f, m, i)]]
  <1>1. \A i, m : BrowserVerdict(rule, f, m, i) \in BOOLEAN
    BY Zenon DEF BrowserVerdict, Conditions!BrowserHolds, Conditions!Compare
  <1>2. H \in [D -> [[D -> BOOLEAN] -> BOOLEAN]]
    BY <1>1, Zenon
  <1>3. ASSUME NEW i \in D, NEW g \in [D -> BOOLEAN], NEW h \in [D -> BOOLEAN],
               \A j \in D : j > i => g[j] = h[j]
        PROVE  H[i][g] = H[i][h]
    <2>1. rule[i].type # "fact" => \A c \in rule[i].children : g[c] = h[c]
      <3>1. rule[i].type # "fact" => \A c \in rule[i].children : c \in D /\ c > i
        BY DEF Tree
      <3> QED BY <1>3, <3>1
    <2>2. BrowserVerdict(rule, f, g, i) = BrowserVerdict(rule, f, h, i)
      BY <2>1, Zenon DEF BrowserVerdict
    <2> QED BY <2>2, Zenon
  <1>4. n \in Nat \ {0} /\ DOMAIN rule = D
    BY DEF Tree
  <1>5. PICK g \in [D -> BOOLEAN] : \A i \in D : g[i] = H[i][g]
    <2>1. BOOLEAN # {}
      BY Zenon
    <2>2. \A i \in D : \A g, h \in [D -> BOOLEAN] :
             (\A j \in D : j > i => g[j] = h[j]) => H[i][g] = H[i][h]
      BY <1>3, Zenon
    <2>3. Founded(n, BOOLEAN, H)
      BY <1>2, <1>4, <2>1, <2>2, Zenon DEF Founded
    <2> HIDE DEF H, n
    <2> QED BY <2>3, Recursion, SMT
  <1>6. g = [i \in D |-> BrowserVerdict(rule, f, g, i)]
    BY <1>5, Zenon
  <1>7. Conditions!BrowserVerdicts(rule, f)
        = [i \in D |-> BrowserVerdict(rule, f, Conditions!BrowserVerdicts(rule, f), i)]
    BY <1>4, <1>6, Zenon DEF Conditions!BrowserVerdicts, BrowserVerdict
  <1> QED BY <1>1, <1>4, <1>7, Zenon

\* Two rules of one shape, whose facts hold alike, are judged alike.
Alike(rule, f, other, g) ==
    /\ DOMAIN other = DOMAIN rule
    /\ \A i \in DOMAIN rule :
          /\ other[i].type = rule[i].type
          /\ rule[i].type = "fact" => Conditions!Holds(other[i], g) = Conditions!Holds(rule[i], f)
          /\ rule[i].type = "group" => /\ other[i].children = rule[i].children
                                       /\ ((other[i].operator = "all") <=> (rule[i].operator = "all"))

LEMMA JudgedAlike ==
    ASSUME NEW rule, NEW f, NEW other, NEW g, Tree(rule), Tree(other), Alike(rule, f, other, g)
    PROVE  Conditions!Matches(other, g) = Conditions!Matches(rule, f)
  <1> DEFINE V == Conditions!Verdicts(rule, f)
             W == Conditions!Verdicts(other, g)
             n == Len(rule)
             T == {i \in 1..n : W[i] = V[i]}
  <1>1. n \in Nat \ {0} /\ DOMAIN rule = 1..n
    BY DEF Tree
  <1>0. /\ \A i \in DOMAIN rule : V[i] = Verdict(rule, f, V, i)
        /\ \A i \in DOMAIN other : W[i] = Verdict(other, g, W, i)
    BY VerdictsFollow, Zenon
  <1>2. ASSUME NEW i \in 1..n, \A j \in 1..n : j > i => j \in T PROVE i \in T
    <2> HIDE DEF V, W
    <2>1. rule[i].type # "fact" => \A c \in rule[i].children : W[c] = V[c]
      <3>1. rule[i].type # "fact" => \A c \in rule[i].children : c \in 1..n /\ c > i
        BY <1>1 DEF Tree
      <3> QED BY <1>2, <3>1
    <2>2. V[i] = Verdict(rule, f, V, i) /\ W[i] = Verdict(other, g, W, i)
      BY <1>0, <1>1, Zenon DEF Alike
    <2>3. Verdict(other, g, W, i) = Verdict(rule, f, V, i)
      <3>0. /\ other[i].type = rule[i].type
            /\ rule[i].type = "fact" => Conditions!Holds(other[i], g) = Conditions!Holds(rule[i], f)
            /\ rule[i].type = "group" => /\ other[i].children = rule[i].children
                                         /\ ((other[i].operator = "all") <=> (rule[i].operator = "all"))
        BY <1>1, Zenon DEF Alike
      <3>1. CASE rule[i].type = "fact"
        BY <3>0, <3>1, Zenon DEF Verdict
      <3>2. CASE rule[i].type # "fact"
        <4>1. /\ other[i].type # "fact" /\ other[i].children = rule[i].children
              /\ (other[i].operator = "all") <=> (rule[i].operator = "all")
          <5>1. rule[i].type = "group"
            BY <1>1, <3>2 DEF Tree
          <5> QED BY <3>0, <3>2, <5>1, SMT
        <4> QED BY <2>1, <3>2, <4>1, Zenon DEF Verdict
      <3> QED BY <3>1, <3>2
    <2> QED BY <2>2, <2>3, Zenon
  <1>3. \A i \in 1..n : i \in T
    <2> HIDE DEF T, n
    <2> QED BY <1>1, <1>2, FromTheEnd
  <1>4. 1 \in 1..n
    BY <1>1
  <1> QED BY <1>3, <1>4, Zenon DEF Conditions!Matches

\* There are reasons exactly for what is not matched, and each is a fact that fails.
LEMMA ReasonsAreTrue ==
    ASSUME NEW rule, NEW f, Tree(rule),
           \A i \in DOMAIN rule : rule[i].type = "group" => rule[i].operator \in {"all", "any"}
    PROVE  /\ Conditions!Matches(rule, f) <=> Conditions!Reasons(rule, f) = {}
           /\ \A r \in Conditions!Reasons(rule, f) \ {Conditions!NoOption} : ~Conditions!Holds(r, f)
  <1> DEFINE V == Conditions!Verdicts(rule, f)
             R == Conditions!ReasonsOf(rule, f)
             n == Len(rule)
             T == {i \in 1..n : /\ V[i] <=> R[i] = {}
                                /\ \A r \in R[i] \ {Conditions!NoOption} : ~Conditions!Holds(r, f)}
  <1>1. n \in Nat \ {0} /\ DOMAIN rule = 1..n
    BY DEF Tree
  <1>0. \A i \in DOMAIN rule : V[i] = Verdict(rule, f, V, i) /\ R[i] = Reason(rule, f, R, i)
    BY VerdictsFollow, ReasonsFollow, Zenon
  <1>2. ASSUME NEW i \in 1..n, \A j \in 1..n : j > i => j \in T PROVE i \in T
    <2>1. /\ rule[i].type \in {"fact", "group"} /\ i \in DOMAIN rule
          /\ rule[i].type # "fact" => \A c \in rule[i].children : c \in T
      <3>1. rule[i].type # "fact" => \A c \in rule[i].children : c \in 1..n /\ c > i
        BY <1>1 DEF Tree
      <3> HIDE DEF T
      <3> QED BY <1>1, <1>2, <3>1 DEF Tree
    <2> HIDE DEF V, R
    <2>2. V[i] = Verdict(rule, f, V, i) /\ R[i] = Reason(rule, f, R, i)
      BY <1>0, <1>1, Zenon
    <2>4. CASE V[i]
      BY <2>2, <2>4, Zenon DEF Reason, V
    <2>5. CASE ~V[i] /\ rule[i].type = "fact"
      BY <2>2, <2>5, Zenon DEF Verdict, Reason, V
    <2>6. CASE ~V[i] /\ rule[i].type # "fact"
      <3> DEFINE below == UNION {R[c] : c \in rule[i].children}
      <3>1. R[i] = IF rule[i].operator = "any" THEN below \cup {Conditions!NoOption} ELSE below
        BY <2>2, <2>6 DEF Reason, V
      <3>2. \A r \in R[i] \ {Conditions!NoOption} : ~Conditions!Holds(r, f)
        <4>1. \A r \in R[i] : r # Conditions!NoOption => \E c \in rule[i].children : r \in R[c]
          BY <3>1
        <4> QED BY <2>1, <2>6, <4>1, Zenon
      <3>3. R[i] # {}
        <4>1. CASE rule[i].operator = "any"
          BY <3>1, <4>1
        <4>2. CASE rule[i].operator # "any"
          <5>1. rule[i].operator = "all"
            BY <1>1, <2>1, <2>6, <4>2
          <5>2. PICK c \in rule[i].children : ~V[c]
            BY <2>2, <2>6, <5>1, Zenon DEF Verdict
          <5>3. R[c] # {}
            BY <2>1, <2>6, <5>2, Zenon
          <5> QED BY <3>1, <4>2, <5>2, <5>3
        <4> QED BY <4>1, <4>2
      <3> QED BY <2>6, <3>2, <3>3, Zenon
    <2> QED BY <2>4, <2>5, <2>6
  <1>3. \A i \in 1..n : i \in T
    <2> HIDE DEF T, n
    <2> QED BY <1>1, <1>2, FromTheEnd
  <1>4. 1 \in 1..n
    BY <1>1
  <1> QED BY <1>3, <1>4, Zenon DEF Conditions!Matches, Conditions!Reasons

\* The browser judges what it is shown as the server judges what is stored.
Editable(rule) ==
    /\ Conditions!NoAmountDiffers(rule)
    /\ \A i \in DOMAIN rule : rule[i].type = "fact" => rule[i].fact \in Conditions!StoredNames
NoEmptyAny(rule) ==
    \A i \in DOMAIN rule : rule[i].type = "group" /\ rule[i].operator # "all" => rule[i].children # {}

\* The facts of a user that the windows of a rule were asked of.
Measured(rule, f) ==
    /\ f.balance_cents \in Int /\ f.recharge_total_cents \in Int
    /\ DOMAIN f.recent \subseteq Nat \ {0} /\ \A w \in DOMAIN f.recent : f.recent[w] \in Int
    /\ \A i \in DOMAIN rule :
          rule[i].type = "fact" /\ rule[i].fact = "recent_recharge_total_cents" =>
             rule[i].window \in DOMAIN f.recent

LEMMA Names ==
    /\ Conditions!StoredNames
          = {"balance_cents", "recharge_total_cents", "recent_recharge_total_cents"}
    /\ Conditions!StoredName("current_balance") = "balance_cents"
    /\ Conditions!StoredName("recharge_total") = "recharge_total_cents"
    /\ Conditions!StoredName("recent_recharge_total") = "recent_recharge_total_cents"
    /\ Conditions!ShownName("balance_cents") = "current_balance"
    /\ Conditions!ShownName("recharge_total_cents") = "recharge_total"
    /\ Conditions!ShownName("recent_recharge_total_cents") = "recent_recharge_total"
  <1>1. /\ Conditions!StoredName("current_balance") = "balance_cents"
        /\ Conditions!StoredName("recharge_total") = "recharge_total_cents"
        /\ Conditions!StoredName("recent_recharge_total") = "recent_recharge_total_cents"
    BY DEF Conditions!StoredName
  <1>2. Conditions!StoredNames
          = {"balance_cents", "recharge_total_cents", "recent_recharge_total_cents"}
    BY <1>1 DEF Conditions!StoredNames, Conditions!AmountFacts
  <1>3. \A a, b \in Conditions!AmountFacts :
           Conditions!StoredName(a) = Conditions!StoredName(b) => a = b
    BY <1>1 DEF Conditions!AmountFacts
  <1>4. ASSUME NEW a \in Conditions!AmountFacts PROVE Conditions!ShownName(Conditions!StoredName(a)) = a
    BY <1>3, <1>4, Zenon DEF Conditions!ShownName
  <1>5. "current_balance" \in Conditions!AmountFacts /\ "recharge_total" \in Conditions!AmountFacts
        /\ "recent_recharge_total" \in Conditions!AmountFacts
    BY DEF Conditions!AmountFacts
  <1> QED BY <1>1, <1>2, <1>4, <1>5

\* Ten times two amounts compare as they do.
LEMMA ComparesInYuan ==
    ASSUME NEW a \in Int, NEW b \in Int, NEW op
    PROVE  Conditions!Compare(Conditions!Thousandths(a), op, Conditions!Thousandths(b))
              <=> Conditions!Compare(a, op, b)
  BY DEF Conditions!Compare, Conditions!Thousandths

LEMMA BrowserHoldsAlike ==
    ASSUME NEW f, NEW node, f.balance_cents \in Int, f.recharge_total_cents \in Int,
           DOMAIN f.recent \subseteq Nat \ {0}, \A w \in DOMAIN f.recent : f.recent[w] \in Int,
           node.type = "fact", node.fact \in Conditions!StoredNames, node.value \in Int,
           node.operator \in Conditions!Orders,
           node.fact = "recent_recharge_total_cents" => node.window \in DOMAIN f.recent
    PROVE  Conditions!BrowserHolds(Conditions!ShownNode(node), Conditions!FactsToApi(f))
              <=> Conditions!Holds(node, f)
  <1> DEFINE api == Conditions!FactsToApi(f)
             seen == Conditions!ShownNode(node)
  <1>1. /\ seen.fact = Conditions!ShownName(node.fact) /\ seen.operator = node.operator
        /\ seen.value = Conditions!Thousandths(node.value) /\ seen.window = node.window
    BY DEF Conditions!ShownNode, Conditions!Fact
  <1>2. /\ api.current_balance = Conditions!Thousandths(f.balance_cents)
        /\ api.recharge_total = Conditions!Thousandths(f.recharge_total_cents)
        /\ DOMAIN api.recent = DOMAIN f.recent
        /\ \A w \in DOMAIN f.recent : api.recent[w] = Conditions!Thousandths(f.recent[w])
    BY DEF Conditions!FactsToApi
  <1> HIDE DEF api, seen
  <1>3. CASE node.fact = "balance_cents"
    <2>1. Conditions!BrowserHolds(seen, api) <=> Conditions!Compare(api.current_balance, seen.operator, seen.value)
      BY <1>1, <1>3, Names DEF Conditions!BrowserHolds
    <2>2. Conditions!Holds(node, f) <=> Conditions!Compare(f.balance_cents, node.operator, node.value)
      BY <1>3 DEF Conditions!Holds
    <2> QED BY <1>1, <1>2, <2>1, <2>2, ComparesInYuan DEF api, seen
  <1>4. CASE node.fact = "recharge_total_cents"
    <2>1. Conditions!BrowserHolds(seen, api) <=> Conditions!Compare(api.recharge_total, seen.operator, seen.value)
      BY <1>1, <1>4, Names DEF Conditions!BrowserHolds
    <2>2. Conditions!Holds(node, f) <=> Conditions!Compare(f.recharge_total_cents, node.operator, node.value)
      BY <1>4 DEF Conditions!Holds
    <2> QED BY <1>1, <1>2, <2>1, <2>2, ComparesInYuan DEF api, seen
  <1>5. CASE node.fact = "recent_recharge_total_cents"
    <2>0. node.window \in DOMAIN f.recent /\ node.window # 0
      BY <1>5
    <2>1. Conditions!BrowserHolds(seen, api) <=> Conditions!Compare(api.recent[node.window], seen.operator, seen.value)
      BY <1>1, <1>2, <1>5, <2>0, Names DEF Conditions!BrowserHolds
    <2>2. Conditions!Holds(node, f) <=> Conditions!Compare(f.recent[node.window], node.operator, node.value)
      BY <1>5, <2>0 DEF Conditions!Holds
    <2> QED BY <1>1, <1>2, <2>0, <2>1, <2>2, ComparesInYuan DEF api, seen
  <1> QED BY <1>3, <1>4, <1>5, Names

LEMMA BrowserAgrees ==
    ASSUME NEW rule, NEW f, Tree(rule), Tree(Conditions!ToApi(rule)), Editable(rule), NoEmptyAny(rule),
           Measured(rule, f),
           \A i \in DOMAIN rule : rule[i].type = "fact" =>
              rule[i].value \in Int /\ rule[i].operator \in Conditions!Operators
    PROVE  Conditions!BrowserMatches(Conditions!ToApi(rule), Conditions!FactsToApi(f))
              = Conditions!Matches(rule, f)
  <1> DEFINE api == Conditions!FactsToApi(f)
             condition == Conditions!ToApi(rule)
             V == Conditions!Verdicts(rule, f)
             B == Conditions!BrowserVerdicts(condition, api)
             n == Len(rule)
             T == {i \in 1..n : B[i] = V[i]}
  <1>1. /\ n \in Nat \ {0} /\ DOMAIN rule = 1..n /\ DOMAIN condition = DOMAIN rule
        /\ \A i \in DOMAIN rule : condition[i] = Conditions!ShownNode(rule[i])
    BY DEF Tree, Conditions!ToApi
  <1>2. /\ \A i \in DOMAIN rule : V[i] = Verdict(rule, f, V, i) /\ V[i] \in BOOLEAN
        /\ \A i \in DOMAIN condition : B[i] = BrowserVerdict(condition, api, B, i) /\ B[i] \in BOOLEAN
    <2> HIDE DEF n, T
    <2>1. \A i \in DOMAIN rule : V[i] = Verdict(rule, f, V, i) /\ V[i] \in BOOLEAN
      BY VerdictsFollow, Zenon
    <2>2. \A i \in DOMAIN condition : B[i] = BrowserVerdict(condition, api, B, i) /\ B[i] \in BOOLEAN
      <3>1. Tree(condition)
        OBVIOUS
      <3> HIDE DEF condition, api
      <3> QED BY <3>1, BrowserFollows, Zenon DEF B
    <2> QED BY <2>1, <2>2, Zenon
  <1>3. ASSUME NEW i \in 1..n, \A j \in 1..n : j > i => j \in T PROVE i \in T
    <2>1. rule[i].type # "fact" => \A c \in rule[i].children : B[c] = V[c]
      <3>1. rule[i].type # "fact" => \A c \in rule[i].children : c \in 1..n /\ c > i
        BY <1>1 DEF Tree
      <3> QED BY <1>3, <3>1
    <2> HIDE DEF V, B, api, condition
    <2>2. V[i] = Verdict(rule, f, V, i) /\ B[i] = BrowserVerdict(condition, api, B, i)
          /\ condition[i] = Conditions!ShownNode(rule[i])
      BY <1>1, <1>2, Zenon
    <2>3. CASE rule[i].type = "fact"
      <3>1. condition[i].type = "fact"
        BY <2>2, <2>3 DEF Conditions!ShownNode, Conditions!Fact
      <3>2. Conditions!BrowserHolds(condition[i], api) <=> Conditions!Holds(rule[i], f)
        <4>1. /\ rule[i].fact \in Conditions!StoredNames /\ rule[i].operator \in Conditions!Orders
              /\ rule[i].fact = "recent_recharge_total_cents" => rule[i].window \in DOMAIN f.recent
              /\ rule[i].value \in Int
          BY <1>1, <2>3 DEF Editable, Measured, Conditions!NoAmountDiffers, Conditions!Operators
        <4> QED BY <2>2, <2>3, <4>1, BrowserHoldsAlike DEF Measured, api
      <3>3. B[i] <=> V[i]
        BY <2>2, <2>3, <3>1, <3>2, Zenon DEF Verdict, BrowserVerdict
      <3> QED BY <1>1, <1>2, <3>3, Zenon
    <2>4. CASE rule[i].type # "fact"
      <3>1. /\ condition[i].type # "fact" /\ condition[i].children = rule[i].children
            /\ (condition[i].operator = "and") <=> (rule[i].operator = "all")
        <4>1. rule[i].type = "group"
          BY <1>1, <2>4 DEF Tree
        <4> QED BY <2>2, <4>1 DEF Conditions!ShownNode, Conditions!Group
      <3>2. rule[i].operator # "all" => rule[i].children # {}
        BY <1>1, <2>4 DEF Tree, NoEmptyAny
      <3>3. B[i] <=> V[i]
        BY <2>1, <2>2, <2>4, <3>1, <3>2, Zenon DEF Verdict, BrowserVerdict
      <3> QED BY <1>1, <1>2, <3>3, Zenon
    <2> QED BY <2>3, <2>4
  <1>4. \A i \in 1..n : i \in T
    <2> HIDE DEF T, n
    <2> QED BY <1>1, <1>3, FromTheEnd
  <1>5. 1 \in 1..n
    BY <1>1
  <1> QED BY <1>4, <1>5, Zenon DEF Conditions!Matches, Conditions!BrowserMatches

RuleParameters ==
    /\ RecentDays \subseteq 1..365 /\ Totals \subseteq Int /\ Statuses \cap Int = {}
    /\ \A condition \in Forms : Conditions!IsCondition(condition, Conditions!ApiFacts, {"and", "or"})
    /\ \A rule \in OldRules :
          /\ Conditions!IsCondition(rule, Conditions!StoredFacts, {"all", "any"})
          /\ Conditions!Storable(rule) /\ NoEmptyAny(rule)

LEMMA ConditionIsTree ==
    ASSUME NEW rule, NEW facts, NEW ops, Conditions!IsCondition(rule, facts, ops)
    PROVE  /\ Tree(rule)
           /\ \A i \in DOMAIN rule :
                 \/ /\ rule[i].type = "fact" /\ rule[i].fact \in facts /\ rule[i].value \in Statuses \cup Int
                    /\ rule[i].fact # "user_status" => rule[i].value \in Int
                    /\ rule[i].operator \in Conditions!Operators /\ rule[i].window \in RecentDays \cup {0}
                    /\ rule[i] \in Conditions!Nodes(facts, ops)
                 \/ /\ rule[i].type = "group" /\ rule[i].operator \in ops
                    /\ rule[i].children \in SUBSET Nat
  <1>1. /\ rule \in Seq(Conditions!Nodes(facts, ops)) /\ rule # <<>>
        /\ \A i \in DOMAIN rule : rule[i].type = "group" => rule[i].children \subseteq (i + 1)..Len(rule)
    BY DEF Conditions!IsCondition, Conditions!NoRule
  <1>2. /\ Len(rule) \in Nat \ {0} /\ DOMAIN rule = 1..Len(rule)
        /\ \A i \in DOMAIN rule : rule[i] \in Conditions!Nodes(facts, ops)
    BY <1>1
  <1>3. \A node \in Conditions!Nodes(facts, ops) :
           \/ /\ node.type = "fact" /\ node.fact \in facts /\ node.value \in Statuses \cup Int
              /\ node.operator \in Conditions!Operators /\ node.window \in RecentDays \cup {0}
           \/ /\ node.type = "group" /\ node.operator \in ops /\ node.children \in SUBSET Nat
    BY DEF Conditions!Nodes
  <1>4. \A i \in DOMAIN rule : rule[i].type = "fact" /\ rule[i].fact # "user_status" => rule[i].value \in Int
    BY DEF Conditions!IsCondition
  <1> QED BY <1>1, <1>2, <1>3, <1>4 DEF Tree

\* What is shown of a stored rule, and what is stored of a valid condition, are conditions.
LEMMA ShownTyped ==
    ASSUME NEW rule, Conditions!IsCondition(rule, Conditions!StoredFacts, {"all", "any"})
    PROVE  Conditions!IsCondition(Conditions!ToApi(rule), Conditions!ApiFacts, {"and", "or"})
  <1> DEFINE seen == Conditions!ToApi(rule)
  <1>1. /\ Len(rule) \in Nat \ {0} /\ DOMAIN rule = 1..Len(rule)
        /\ \A i \in DOMAIN rule : seen[i] = Conditions!ShownNode(rule[i])
        /\ DOMAIN seen = DOMAIN rule
    BY ConditionIsTree DEF Tree, Conditions!ToApi
  <1> HIDE DEF seen
  <1>2. ASSUME NEW i \in DOMAIN rule
        PROVE  /\ seen[i] \in Conditions!Nodes(Conditions!ApiFacts, {"and", "or"})
               /\ seen[i].type = rule[i].type
               /\ rule[i].type = "group" => seen[i].children = rule[i].children
               /\ rule[i].type = "fact" =>
                     /\ seen[i].fact # "has_recharged"
                     /\ seen[i].fact # "user_status" => seen[i].value \in Int
                     /\ seen[i].fact \in {"recent_recharge_total", "recent_recharge_total_cents"} =>
                           seen[i].window \in RecentDays
    <2>1. seen[i] = Conditions!ShownNode(rule[i])
      BY <1>1
    <2>2. CASE rule[i].type = "group"
      <3>1. rule[i].children \in SUBSET Nat
        BY <2>2, ConditionIsTree
      <3>2. seen[i] = [type |-> "group", operator |-> IF rule[i].operator = "all" THEN "and" ELSE "or",
                       children |-> rule[i].children]
        BY <2>1, <2>2 DEF Conditions!ShownNode, Conditions!Group
      <3> QED BY <2>2, <3>1, <3>2 DEF Conditions!Nodes
    <2>3. CASE rule[i].type = "fact"
      <3>1. /\ rule[i].fact \in Conditions!StoredFacts
            /\ rule[i].fact # "user_status" => rule[i].value \in Int
            /\ rule[i].operator \in Conditions!Operators /\ rule[i].window \in RecentDays \cup {0}
            /\ rule[i] \in Conditions!Nodes(Conditions!StoredFacts, {"all", "any"})
            /\ rule[i].fact = "recent_recharge_total_cents" => rule[i].window \in RecentDays
        BY <2>3, ConditionIsTree DEF Conditions!IsCondition
      <3>2. CASE rule[i].fact \in Conditions!StoredNames
        <4>1. seen[i] = [type |-> "fact", fact |-> Conditions!ShownName(rule[i].fact),
                         operator |-> rule[i].operator, value |-> 10 * rule[i].value,
                         window |-> rule[i].window]
          BY <2>1, <2>3, <3>2 DEF Conditions!ShownNode, Conditions!Fact, Conditions!Thousandths
        <4>2. /\ Conditions!ShownName(rule[i].fact) \in Conditions!AmountFacts
              /\ Conditions!ShownName(rule[i].fact) = "recent_recharge_total" =>
                    rule[i].fact = "recent_recharge_total_cents"
              /\ 10 * rule[i].value \in Int
          BY <3>1, <3>2, Names DEF Conditions!AmountFacts
        <4> QED BY <2>3, <3>1, <4>1, <4>2
                DEF Conditions!Nodes, Conditions!ApiFacts, Conditions!AmountFacts
      <3>3. CASE rule[i].fact \notin Conditions!StoredNames /\ rule[i].fact = "has_recharged"
        <4>1. PICK op \in {"gt", "lte"} :
                 seen[i] = [type |-> "fact", fact |-> "recharge_total", operator |-> op, value |-> 0, window |-> 0]
          BY <2>1, <2>3, <3>3 DEF Conditions!ShownNode, Conditions!Fact
        <4> QED BY <2>3, <4>1 DEF Conditions!Nodes, Conditions!ApiFacts, Conditions!AmountFacts,
                                  Conditions!Operators, Conditions!Orders
      <3>4. CASE rule[i].fact \notin Conditions!StoredNames /\ rule[i].fact # "has_recharged"
        <4>1. seen[i] = rule[i]
          BY <2>1, <2>3, <3>4 DEF Conditions!ShownNode
        <4>2. rule[i].fact \notin {"recent_recharge_total", "recent_recharge_total_cents"}
          BY <3>1, <3>4, Names DEF Conditions!StoredFacts
        <4> QED BY <2>3, <3>1, <3>4, <4>1, <4>2 DEF Conditions!Nodes, Conditions!ApiFacts
      <3> QED BY <3>2, <3>3, <3>4
    <2> QED BY <2>2, <2>3, ConditionIsTree
  <1>3. seen \in Seq(Conditions!Nodes(Conditions!ApiFacts, {"and", "or"})) /\ Len(seen) = Len(rule)
    <2>1. seen = [i \in 1..Len(rule) |-> Conditions!ShownNode(rule[i])]
      BY <1>1 DEF seen, Conditions!ToApi
    <2> QED BY <1>1, <1>2, <2>1
  <1>4. seen # <<>>
    BY <1>1, <1>3
  <1> QED BY <1>1, <1>2, <1>3, <1>4 DEF Conditions!IsCondition, Conditions!NoRule, seen

LEMMA StoredTyped ==
    ASSUME NEW condition, Conditions!IsCondition(condition, Conditions!ApiFacts, {"and", "or"}),
           Conditions!Valid(condition)
    PROVE  /\ Conditions!IsCondition(Conditions!FromApi(condition), Conditions!StoredFacts, {"all", "any"})
           /\ NoEmptyAny(Conditions!FromApi(condition))
  <1> DEFINE rule == Conditions!FromApi(condition)
  <1>1. /\ Len(condition) \in Nat \ {0} /\ DOMAIN condition = 1..Len(condition)
        /\ \A i \in DOMAIN condition : rule[i] = Conditions!StoredNode(condition[i])
        /\ DOMAIN rule = DOMAIN condition
    BY ConditionIsTree DEF Tree, Conditions!FromApi
  <1> HIDE DEF rule
  <1>2. ASSUME NEW i \in DOMAIN condition
        PROVE  /\ rule[i] \in Conditions!Nodes(Conditions!StoredFacts, {"all", "any"})
               /\ rule[i].type = condition[i].type
               /\ condition[i].type = "group" =>
                     /\ rule[i].children = condition[i].children
                     /\ rule[i].children = {} => rule[i].operator = "all"
               /\ condition[i].type = "fact" =>
                     /\ rule[i].fact # "user_status" => rule[i].value \in Int
                     /\ rule[i].fact = "has_recharged" => rule[i].value \in {0, 1}
                     /\ rule[i].fact \in {"recent_recharge_total", "recent_recharge_total_cents"} =>
                           rule[i].window \in RecentDays
    <2>1. rule[i] = Conditions!StoredNode(condition[i])
      BY <1>1
    <2>2. CASE condition[i].type = "group"
      <3>1. condition[i].children \in SUBSET Nat
        BY <2>2, ConditionIsTree
      <3>2. rule[i] = [type |-> "group",
                       operator |-> IF condition[i].children = {} \/ condition[i].operator = "and" THEN "all" ELSE "any",
                       children |-> condition[i].children]
        BY <2>1, <2>2 DEF Conditions!StoredNode, Conditions!Group
      <3> QED BY <2>2, <3>1, <3>2 DEF Conditions!Nodes
    <2>3. CASE condition[i].type = "fact"
      <3>1. /\ condition[i].fact \in Conditions!ApiFacts
            /\ condition[i].fact # "user_status" => condition[i].value \in Int
            /\ condition[i].operator \in Conditions!Operators /\ condition[i].window \in RecentDays \cup {0}
            /\ condition[i] \in Conditions!Nodes(Conditions!ApiFacts, {"and", "or"})
            /\ condition[i].fact = "has_recharged" => condition[i].value \in {0, 1}
            /\ condition[i].fact \in {"recent_recharge_total", "recent_recharge_total_cents"} =>
                  condition[i].window \in RecentDays
        BY <2>3, ConditionIsTree DEF Conditions!IsCondition
      <3>2. CASE condition[i].fact \in Conditions!AmountFacts
        <4>1. rule[i] = [type |-> "fact", fact |-> Conditions!StoredName(condition[i].fact),
                         operator |-> condition[i].operator, value |-> Conditions!Cents(condition[i].value),
                         window |-> condition[i].window]
          BY <2>1, <2>3, <3>2 DEF Conditions!StoredNode, Conditions!Fact
        <4>2. /\ Conditions!StoredName(condition[i].fact) \in Conditions!StoredNames
              /\ Conditions!StoredName(condition[i].fact) = "recent_recharge_total_cents" =>
                    condition[i].fact = "recent_recharge_total"
              /\ Conditions!StoredName(condition[i].fact) \notin {"has_recharged", "recent_recharge_total"}
          BY <3>2, Names DEF Conditions!AmountFacts
        <4>3. Conditions!Cents(condition[i].value) \in Int
          BY <3>1, <3>2 DEF Conditions!Cents, Conditions!AmountFacts
        <4> QED BY <2>3, <3>1, <4>1, <4>2, <4>3 DEF Conditions!Nodes, Conditions!StoredFacts
      <3>3. CASE condition[i].fact \notin Conditions!AmountFacts
        <4>1. rule[i] = condition[i] /\ condition[i].fact \in Conditions!StoredFacts
          BY <2>1, <2>3, <3>1, <3>3 DEF Conditions!StoredNode, Conditions!ApiFacts
        <4> QED BY <2>3, <3>1, <4>1 DEF Conditions!Nodes
      <3> QED BY <3>2, <3>3
    <2> QED BY <2>2, <2>3, ConditionIsTree
  <1>3. rule \in Seq(Conditions!Nodes(Conditions!StoredFacts, {"all", "any"})) /\ Len(rule) = Len(condition)
    <2>1. rule = [i \in 1..Len(condition) |-> Conditions!StoredNode(condition[i])]
      BY <1>1 DEF rule, Conditions!FromApi
    <2> QED BY <1>1, <1>2, <2>1
  <1>4. rule # <<>>
    BY <1>1, <1>3
  <1>5. NoEmptyAny(rule)
    BY <1>1, <1>2 DEF NoEmptyAny
  <1>6. \A i \in DOMAIN condition :
           condition[i].type = "group" => condition[i].children \subseteq (i + 1)..Len(condition)
    BY DEF Conditions!IsCondition
  <1> QED BY <1>1, <1>2, <1>3, <1>4, <1>5, <1>6 DEF Conditions!IsCondition, Conditions!NoRule, rule

\* Nodes change their facts and operators between the form and the database, not their places.
Shape(other, rule) ==
    /\ DOMAIN other = DOMAIN rule /\ Len(other) = Len(rule)
    /\ \A i \in DOMAIN rule : /\ other[i].type = rule[i].type
                              /\ rule[i].type = "group" => other[i].children = rule[i].children

LEMMA ShapesKept ==
    ASSUME NEW rule, NEW facts, NEW ops, Conditions!IsCondition(rule, facts, ops)
    PROVE  Shape(Conditions!ToApi(rule), rule) /\ Shape(Conditions!FromApi(rule), rule)
  <1>1. Len(rule) \in Nat \ {0} /\ DOMAIN rule = 1..Len(rule)
        /\ \A i \in DOMAIN rule : rule[i].type \in {"fact", "group"}
    BY ConditionIsTree DEF Tree
  <1>2. \A i \in DOMAIN rule : /\ Conditions!ShownNode(rule[i]).type = rule[i].type
                               /\ Conditions!StoredNode(rule[i]).type = rule[i].type
                               /\ rule[i].type = "group" =>
                                     /\ Conditions!ShownNode(rule[i]).children = rule[i].children
                                     /\ Conditions!StoredNode(rule[i]).children = rule[i].children
    BY <1>1 DEF Conditions!ShownNode, Conditions!StoredNode, Conditions!Group, Conditions!Fact
  <1>3. Len(Conditions!ToApi(rule)) = Len(rule) /\ Len(Conditions!FromApi(rule)) = Len(rule)
    BY <1>1 DEF Conditions!ToApi, Conditions!FromApi
  <1> QED BY <1>1, <1>2, <1>3 DEF Shape, Conditions!ToApi, Conditions!FromApi

LEMMA SameLimits ==
    ASSUME NEW rule, NEW other, Shape(other, rule), Conditions!WithinLimits(rule)
    PROVE  Conditions!WithinLimits(other)
  <1>1. PICK level \in Conditions!Levels(rule) : TRUE
    BY DEF Conditions!WithinLimits
  <1>2. level \in Conditions!Levels(other)
    BY <1>1 DEF Conditions!Levels, Shape
  <1> QED BY <1>2 DEF Conditions!WithinLimits, Shape

LEMMA StoredStorable ==
    ASSUME NEW condition, Conditions!IsCondition(condition, Conditions!ApiFacts, {"and", "or"}),
           Conditions!Valid(condition)
    PROVE  Conditions!Storable(Conditions!FromApi(condition))
  <1>1. Conditions!WithinLimits(Conditions!FromApi(condition))
    BY ShapesKept, SameLimits DEF Conditions!Valid
  <1>2. ASSUME NEW i \in DOMAIN condition PROVE Conditions!Suits(Conditions!StoredNode(condition[i]))
    <2>1. Conditions!Accepted(condition[i])
      BY DEF Conditions!Valid
    <2>2. \/ condition[i].type = "group"
          \/ condition[i].type = "fact" /\ condition[i].fact \in Conditions!ApiFacts
      BY ConditionIsTree
    <2>3. CASE condition[i].type = "group"
      BY <2>3 DEF Conditions!Suits, Conditions!StoredNode, Conditions!Group
    <2>4. CASE condition[i].type = "fact" /\ condition[i].fact \in Conditions!AmountFacts
      BY <2>4, Names DEF Conditions!Suits, Conditions!StoredNode, Conditions!Fact, Conditions!AmountFacts
    <2>5. CASE condition[i].type = "fact" /\ condition[i].fact \notin Conditions!AmountFacts
      BY <2>1, <2>5 DEF Conditions!Accepted, Conditions!Suits, Conditions!StoredNode
    <2> QED BY <2>2, <2>3, <2>4, <2>5
  <1> QED BY <1>1, <1>2 DEF Conditions!Storable, Conditions!FromApi

LEMMA ShownValid ==
    ASSUME NEW rule, Conditions!IsCondition(rule, Conditions!StoredFacts, {"all", "any"}),
           Conditions!Storable(rule), Conditions!NoAmountDiffers(rule)
    PROVE  Conditions!Valid(Conditions!ToApi(rule))
  <1>1. Conditions!WithinLimits(Conditions!ToApi(rule))
    BY ShapesKept, SameLimits DEF Conditions!Storable
  <1>2. ASSUME NEW i \in DOMAIN rule PROVE Conditions!Accepted(Conditions!ShownNode(rule[i]))
    <2>1. Conditions!Suits(rule[i])
      BY DEF Conditions!Storable
    <2>2. \/ rule[i].type = "group"
          \/ /\ rule[i].type = "fact" /\ rule[i].fact \in Conditions!StoredFacts
             /\ rule[i].operator \in Conditions!Operators
      BY ConditionIsTree
    <2>3. CASE rule[i].type = "group"
      BY <2>3 DEF Conditions!Accepted, Conditions!ShownNode, Conditions!Group
    <2>4. CASE rule[i].type = "fact" /\ rule[i].fact \in Conditions!StoredNames
      <3>1. rule[i].operator \in Conditions!Orders
        BY <2>2, <2>4 DEF Conditions!NoAmountDiffers, Conditions!Operators
      <3>2. /\ Conditions!ShownName(rule[i].fact) \in Conditions!AmountFacts
            /\ Conditions!ShownName(rule[i].fact) \notin {"has_recharged", "recent_recharge_total_cents"}
        BY <2>4, Names DEF Conditions!AmountFacts
      <3>3. Conditions!ShownNode(rule[i])
               = Conditions!Fact(Conditions!ShownName(rule[i].fact), rule[i].operator,
                                 Conditions!Thousandths(rule[i].value), rule[i].window)
        BY <2>4 DEF Conditions!ShownNode
      <3> QED BY <3>1, <3>2, <3>3 DEF Conditions!Accepted, Conditions!Fact
    <2>5. CASE rule[i].type = "fact" /\ rule[i].fact \notin Conditions!StoredNames
               /\ rule[i].fact = "has_recharged"
      BY <2>5 DEF Conditions!Accepted, Conditions!ShownNode, Conditions!Fact, Conditions!AmountFacts,
                  Conditions!Orders
    <2>6. CASE rule[i].type = "fact" /\ rule[i].fact \notin Conditions!StoredNames
               /\ rule[i].fact # "has_recharged"
      <3>1. Conditions!ShownNode(rule[i]) = rule[i]
        BY <2>6 DEF Conditions!ShownNode
      <3>2. rule[i].fact \in {"recharge_count", "user_status"}
        BY <2>2, <2>6, Names DEF Conditions!StoredFacts
      <3>3. rule[i].fact \notin Conditions!AmountFacts \cup {"has_recharged", "recent_recharge_total_cents"}
        BY <3>2 DEF Conditions!AmountFacts
      <3> QED BY <2>1, <3>1, <3>3 DEF Conditions!Accepted
    <2> QED BY <2>2, <2>3, <2>4, <2>5, <2>6
  <1> QED BY <1>1, <1>2 DEF Conditions!Valid, Conditions!ToApi

\* What becomes of each node of a rule that is shown and stored again.
LEMMA StoredAgain ==
    ASSUME NEW rule, Conditions!IsCondition(rule, Conditions!StoredFacts, {"all", "any"}), NoEmptyAny(rule),
           NEW i \in DOMAIN rule
    PROVE  LET again == Conditions!FromApi(Conditions!ToApi(rule))[i] IN
           \/ /\ rule[i].type = "group" /\ again.type = "group"
              /\ again.children = rule[i].children /\ again.operator = rule[i].operator
           \/ /\ rule[i].type = "fact" /\ again.type = "fact" /\ rule[i].fact \in Conditions!StoredNames
              /\ again.fact = rule[i].fact /\ again.operator = rule[i].operator
              /\ again.value = rule[i].value /\ again.window = rule[i].window
           \/ /\ rule[i].type = "fact" /\ rule[i].fact = "has_recharged"
              /\ again = Conditions!Fact("recharge_total_cents",
                            IF Conditions!RequiresRecharge(rule[i]) THEN "gt" ELSE "lte", 0, 0)
           \/ /\ rule[i].type = "fact" /\ rule[i].fact \in {"recharge_count", "user_status"}
              /\ again = rule[i]
  <1> DEFINE seen == Conditions!ShownNode(rule[i])
             again == Conditions!StoredNode(seen)
  <1>1. Conditions!FromApi(Conditions!ToApi(rule))[i] = again
    BY DEF Conditions!FromApi, Conditions!ToApi
  <1>2. \/ /\ rule[i].type = "fact" /\ rule[i].fact \in Conditions!StoredFacts
           /\ rule[i].fact \in Conditions!StoredNames => rule[i].value \in Int
        \/ rule[i].type = "group" /\ rule[i].operator \in {"all", "any"}
    BY ConditionIsTree, Names
  <1>3. CASE rule[i].type = "group" /\ rule[i].operator \in {"all", "any"}
    <2>1. rule[i].operator # "all" => rule[i].children # {}
      BY <1>3 DEF NoEmptyAny
    <2>2. seen = [type |-> "group", operator |-> IF rule[i].operator = "all" THEN "and" ELSE "or",
                  children |-> rule[i].children]
      BY <1>3 DEF Conditions!ShownNode, Conditions!Group
    <2>3. again = [type |-> "group", operator |-> rule[i].operator, children |-> rule[i].children]
      <3> HIDE DEF seen
      <3> QED BY <1>3, <2>1, <2>2 DEF Conditions!StoredNode, Conditions!Group
    <2> QED BY <1>1, <1>3, <2>3
  <1>4. CASE /\ rule[i].type = "fact" /\ rule[i].fact \in Conditions!StoredNames /\ rule[i].value \in Int
    <2>1. seen = [type |-> "fact", fact |-> Conditions!ShownName(rule[i].fact), operator |-> rule[i].operator,
                  value |-> 10 * rule[i].value, window |-> rule[i].window]
      BY <1>4 DEF Conditions!ShownNode, Conditions!Fact, Conditions!Thousandths
    <2>2. /\ Conditions!ShownName(rule[i].fact) \in Conditions!AmountFacts
          /\ Conditions!StoredName(Conditions!ShownName(rule[i].fact)) = rule[i].fact
      BY <1>4, Names DEF Conditions!AmountFacts
    <2>3. Conditions!Cents(10 * rule[i].value) = rule[i].value
      BY <1>4 DEF Conditions!Cents
    <2>4. again = [type |-> "fact", fact |-> rule[i].fact, operator |-> rule[i].operator,
                   value |-> rule[i].value, window |-> rule[i].window]
      <3> HIDE DEF seen
      <3> QED BY <2>1, <2>2, <2>3 DEF Conditions!StoredNode, Conditions!Fact
    <2> QED BY <1>1, <1>4, <2>4
  <1>5. CASE /\ rule[i].type = "fact" /\ rule[i].fact \notin Conditions!StoredNames
             /\ rule[i].fact = "has_recharged"
    <2> DEFINE op == IF Conditions!RequiresRecharge(rule[i]) THEN "gt" ELSE "lte"
    <2>1. seen = [type |-> "fact", fact |-> "recharge_total", operator |-> op, value |-> 0, window |-> 0]
      BY <1>5 DEF Conditions!ShownNode, Conditions!Fact
    <2>2. again = Conditions!Fact("recharge_total_cents", op, 0, 0)
      <3> HIDE DEF seen, op
      <3> QED BY <2>1, Names DEF Conditions!StoredNode, Conditions!Fact, Conditions!AmountFacts, Conditions!Cents
    <2> QED BY <1>1, <1>5, <2>2
  <1>6. CASE /\ rule[i].type = "fact" /\ rule[i].fact \notin Conditions!StoredNames
             /\ rule[i].fact # "has_recharged" /\ rule[i].fact \in Conditions!StoredFacts
    <2>1. rule[i].fact \in {"recharge_count", "user_status"}
      BY <1>6, Names DEF Conditions!StoredFacts
    <2>2. seen = rule[i]
      BY <1>6 DEF Conditions!ShownNode
    <2>3. again = rule[i]
      <3> HIDE DEF seen
      <3> QED BY <1>6, <2>1, <2>2 DEF Conditions!StoredNode, Conditions!AmountFacts
    <2> QED BY <1>1, <1>6, <2>1, <2>3
  <1> QED BY <1>2, <1>3, <1>4, <1>5, <1>6

\* Facts as they are made of what is known of a user.
LEMMA FactsTyped ==
    ASSUME RuleParameters, NEW f \in Conditions!Facts
    PROVE  /\ f.balance_cents \in Int /\ f.recharge_total_cents \in Int
           /\ f.has_recharged = IF f.recharge_total_cents > 0 THEN 1 ELSE 0
           /\ f.recent \in [RecentDays -> Int]
  <1>1. PICK in \in Conditions!Inputs : f = Conditions!MakeUserFacts(in)
    BY DEF Conditions!Facts
  <1>0. /\ in.balance \in Totals \cup {-1} /\ in.upstream \in Totals /\ in.excluded \in Totals
        /\ in.events \in Totals /\ in.recent \in [RecentDays -> Totals]
    BY DEF Conditions!Inputs
  <1>2. /\ in.balance \in Int /\ in.upstream \in Int /\ in.excluded \in Int /\ in.events \in Int
        /\ in.recent \in [RecentDays -> Totals]
    <2>1. Totals \subseteq Int
      BY DEF RuleParameters
    <2>2. in.balance \in Int
      <3>1. in.balance \in Totals \/ in.balance = -1
        BY <1>0, Zenon
      <3>2. -1 \in Int
        OBVIOUS
      <3> QED BY <2>1, <3>1, <3>2, Zenon
    <2>3. in.upstream \in Int /\ in.excluded \in Int /\ in.events \in Int
      BY <1>0, <2>1
    <2> QED BY <1>0, <2>2, <2>3
  <1>3. Conditions!Total(in) \in Int
    BY <1>2 DEF Conditions!Total, Conditions!Direct
  <1>4. in.recent \in [RecentDays -> Int]
    BY <1>2 DEF RuleParameters
  <1> QED BY <1>1, <1>2, <1>3, <1>4 DEF Conditions!MakeUserFacts

\* A rule that is shown and stored again lets in whom it let in.
LEMMA MeaningSame ==
    ASSUME RuleParameters, NEW rule,
           Conditions!IsCondition(rule, Conditions!StoredFacts, {"all", "any"}), NoEmptyAny(rule),
           Conditions!Storable(rule), Conditions!Valid(Conditions!ToApi(rule)), NEW f \in Conditions!Facts
    PROVE  Conditions!Matches(Conditions!FromApi(Conditions!ToApi(rule)), f) = Conditions!Matches(rule, f)
  <1> DEFINE again == Conditions!FromApi(Conditions!ToApi(rule))
  <1>1. Tree(rule) /\ Tree(again)
    BY ConditionIsTree, ShownTyped, StoredTyped
  <1>2. DOMAIN again = DOMAIN rule
    BY DEF Conditions!FromApi, Conditions!ToApi
  <1>3. ASSUME NEW i \in DOMAIN rule, rule[i].type = "fact"
        PROVE  Conditions!Holds(again[i], f) = Conditions!Holds(rule[i], f)
    <2> HIDE DEF again
    <2>1. CASE /\ rule[i].fact \in Conditions!StoredNames
               /\ again[i].fact = rule[i].fact /\ again[i].operator = rule[i].operator
               /\ again[i].value = rule[i].value /\ again[i].window = rule[i].window
      BY <2>1, Zenon DEF Conditions!Holds
    <2>2. CASE /\ rule[i].fact = "has_recharged"
               /\ again[i] = Conditions!Fact("recharge_total_cents",
                                IF Conditions!RequiresRecharge(rule[i]) THEN "gt" ELSE "lte", 0, 0)
      <3>1. rule[i].value \in {0, 1} /\ rule[i].operator \in {"eq", "neq"}
        BY <1>3, <2>2 DEF Conditions!IsCondition, Conditions!Storable, Conditions!Suits
      <3> QED BY <2>2, <3>1, FactsTyped DEF Conditions!Holds, Conditions!Fact, Conditions!Compare,
                                            Conditions!RequiresRecharge
    <2>3. CASE again[i] = rule[i]
      BY <2>3, Zenon
    <2> QED BY <1>3, <2>1, <2>2, <2>3, StoredAgain DEF again
  <1>4. Alike(rule, f, again, f)
    <2>1. ASSUME NEW i \in DOMAIN rule
          PROVE  /\ again[i].type = rule[i].type
                 /\ rule[i].type = "group" => again[i].children = rule[i].children
                                             /\ again[i].operator = rule[i].operator
      <3>1. \A r : Conditions!Fact("recharge_total_cents", r, 0, 0).type = "fact"
        BY DEF Conditions!Fact
      <3> HIDE DEF again
      <3> QED BY <3>1, StoredAgain, SMTT(20) DEF again
    <2> HIDE DEF again
    <2> QED BY <1>2, <1>3, <2>1, Zenon DEF Alike
  <1> QED BY <1>1, <1>4, JudgedAlike

\* And is shown as before.
LEMMA ShownAgain ==
    ASSUME NEW rule, Conditions!IsCondition(rule, Conditions!StoredFacts, {"all", "any"}), NoEmptyAny(rule)
    PROVE  Conditions!ToApi(Conditions!FromApi(Conditions!ToApi(rule))) = Conditions!ToApi(rule)
  <1> DEFINE again == Conditions!FromApi(Conditions!ToApi(rule))
  <1>1. DOMAIN again = DOMAIN rule
    BY DEF Conditions!FromApi, Conditions!ToApi
  <1>2. ASSUME NEW i \in DOMAIN rule
        PROVE  Conditions!ShownNode(again[i]) = Conditions!ShownNode(rule[i])
    <2> HIDE DEF again
    <2>1. CASE /\ rule[i].type = "group" /\ again[i].type = "group"
               /\ again[i].children = rule[i].children /\ again[i].operator = rule[i].operator
      BY <2>1, Zenon DEF Conditions!ShownNode
    <2>2. CASE /\ rule[i].type = "fact" /\ again[i].type = "fact" /\ rule[i].fact \in Conditions!StoredNames
               /\ again[i].fact = rule[i].fact /\ again[i].operator = rule[i].operator
               /\ again[i].value = rule[i].value /\ again[i].window = rule[i].window
      BY <2>2 DEF Conditions!ShownNode
    <2>3. CASE /\ rule[i].type = "fact" /\ rule[i].fact = "has_recharged"
               /\ again[i] = Conditions!Fact("recharge_total_cents",
                                IF Conditions!RequiresRecharge(rule[i]) THEN "gt" ELSE "lte", 0, 0)
      <3> DEFINE op == IF Conditions!RequiresRecharge(rule[i]) THEN "gt" ELSE "lte"
      <3>1. Conditions!ShownNode(rule[i]) = Conditions!Fact("recharge_total", op, 0, 0)
        BY <2>3, Names DEF Conditions!ShownNode
      <3> HIDE DEF op
      <3>2. again[i] = Conditions!Fact("recharge_total_cents", op, 0, 0)
        BY <2>3 DEF op
      <3>3. Conditions!ShownNode(again[i]) = Conditions!Fact("recharge_total", op, 0, 0)
        BY <3>2, Names DEF Conditions!ShownNode, Conditions!Fact, Conditions!Thousandths
      <3> QED BY <3>1, <3>3
    <2>4. CASE again[i] = rule[i]
      BY <2>4
    <2> QED BY <2>1, <2>2, <2>3, <2>4, StoredAgain DEF again
  <1>3. Conditions!ToApi(again) = [i \in DOMAIN again |-> Conditions!ShownNode(again[i])]
    BY DEF Conditions!ToApi
  <1>4. Conditions!ToApi(rule) = [i \in DOMAIN rule |-> Conditions!ShownNode(rule[i])]
    BY DEF Conditions!ToApi
  <1> HIDE DEF again
  <1>5. [i \in DOMAIN again |-> Conditions!ShownNode(again[i])] = [i \in DOMAIN rule |-> Conditions!ShownNode(rule[i])]
    BY <1>1, <1>2
  <1> QED BY <1>3, <1>4, <1>5 DEF again

\* What the page makes of a condition is one.
LEMMA NormalizedTyped ==
    ASSUME RuleParameters, NEW condition,
           Conditions!IsCondition(condition, Conditions!ApiFacts, {"and", "or"})
    PROVE  Conditions!IsCondition(Conditions!Normalized(condition), Conditions!ApiFacts, {"and", "or"})
  <1> DEFINE sent == Conditions!Normalized(condition)
  <1>1. /\ Len(condition) \in Nat \ {0} /\ DOMAIN condition = 1..Len(condition)
        /\ \A i \in DOMAIN condition : sent[i] = Conditions!NormalizedNode(condition[i])
        /\ DOMAIN sent = DOMAIN condition
    BY ConditionIsTree DEF Tree, Conditions!Normalized
  <1> HIDE DEF sent
  <1>2. ASSUME NEW i \in DOMAIN condition
        PROVE  /\ sent[i] \in Conditions!Nodes(Conditions!ApiFacts, {"and", "or"})
               /\ sent[i].type = condition[i].type
               /\ condition[i].type = "group" => sent[i].children = condition[i].children
               /\ condition[i].type = "fact" =>
                     /\ sent[i].fact # "user_status" => sent[i].value \in Int
                     /\ sent[i].fact = "has_recharged" => sent[i].value \in {0, 1}
                     /\ sent[i].fact \in {"recent_recharge_total", "recent_recharge_total_cents"} =>
                           sent[i].window \in RecentDays
    <2>1. sent[i] = Conditions!NormalizedNode(condition[i])
      BY <1>1
    <2>2. CASE condition[i].type = "group"
      BY <2>1, <2>2, ConditionIsTree DEF Conditions!NormalizedNode, Conditions!IsCondition
    <2>3. CASE condition[i].type = "fact"
      <3>1. /\ condition[i].fact \in Conditions!ApiFacts
            /\ condition[i].value \in Statuses \cup Int
            /\ condition[i].fact # "user_status" => condition[i].value \in Int
            /\ condition[i].operator \in Conditions!Operators /\ condition[i].window \in RecentDays \cup {0}
            /\ condition[i].fact = "has_recharged" => condition[i].value \in {0, 1}
            /\ condition[i].fact \in {"recent_recharge_total", "recent_recharge_total_cents"} =>
                  condition[i].window \in RecentDays
        BY <2>3, ConditionIsTree DEF Conditions!IsCondition
      <3>2. /\ Conditions!Number(condition[i].value) \in Int
            /\ condition[i].value \in Int =>
                  Conditions!Number(condition[i].value) = condition[i].value
        BY <3>1 DEF Conditions!Number, RuleParameters
      <3>3. condition[i].fact = "recent_recharge_total" =>
               Conditions!Days(condition[i].window) = condition[i].window
        <4>1. condition[i].fact = "recent_recharge_total" => condition[i].window \in 1..365
          BY <3>1 DEF RuleParameters
        <4> QED BY <4>1 DEF Conditions!Days
      <3>4. sent[i] = [type |-> "fact", fact |-> condition[i].fact, operator |-> condition[i].operator,
                       value |-> Conditions!Number(condition[i].value), window |-> condition[i].window]
        BY <2>1, <2>3, <3>1, <3>3 DEF Conditions!NormalizedNode, Conditions!Fact
      <3> QED BY <2>3, <3>1, <3>2, <3>4 DEF Conditions!Nodes
    <2> QED BY <2>2, <2>3, ConditionIsTree
  <1>3. sent \in Seq(Conditions!Nodes(Conditions!ApiFacts, {"and", "or"})) /\ Len(sent) = Len(condition)
    <2>1. sent = [i \in 1..Len(condition) |-> Conditions!NormalizedNode(condition[i])]
      BY <1>1 DEF sent, Conditions!Normalized
    <2> QED BY <1>1, <1>2, <2>1
  <1>4. sent # <<>>
    BY <1>1, <1>3
  <1>5. \A i \in DOMAIN condition :
           condition[i].type = "group" => condition[i].children \subseteq (i + 1)..Len(condition)
    BY DEF Conditions!IsCondition
  <1> QED BY <1>1, <1>2, <1>3, <1>4, <1>5 DEF Conditions!IsCondition, Conditions!NoRule, sent

\* A status is shown only of a rule that asks for one.
LEMMA StatusIsShown ==
    ASSUME NEW rule, Conditions!IsCondition(rule, Conditions!StoredFacts, {"all", "any"}),
           Conditions!AsksNoStatus(rule)
    PROVE  Conditions!AsksNoStatus(Conditions!ToApi(rule))
  <1> SUFFICES ASSUME NEW i \in DOMAIN rule, Conditions!ShownNode(rule[i]).type = "fact",
                      Conditions!ShownNode(rule[i]).fact = "user_status"
               PROVE  FALSE
    BY DEF Conditions!AsksNoStatus, Conditions!ToApi
  <1>1. rule[i].type = "fact" \/ rule[i].type = "group"
    BY ConditionIsTree
  <1>2. rule[i].type # "group"
    BY DEF Conditions!ShownNode, Conditions!Group
  <1>3. rule[i].fact # "user_status"
    BY <1>1, <1>2 DEF Conditions!AsksNoStatus
  <1>4. CASE rule[i].fact \in Conditions!StoredNames
    <2>1. Conditions!ShownName(rule[i].fact) # "user_status"
      BY <1>4, Names
    <2> QED BY <1>2, <1>4, <2>1 DEF Conditions!ShownNode, Conditions!Fact
  <1>5. CASE rule[i].fact \notin Conditions!StoredNames
    BY <1>2, <1>3, <1>5 DEF Conditions!ShownNode, Conditions!Fact
  <1> QED BY <1>4, <1>5

\* The page changes nothing but the values of statuses.
LEMMA NumbersStay ==
    ASSUME RuleParameters, NEW condition,
           Conditions!IsCondition(condition, Conditions!ApiFacts, {"and", "or"}),
           Conditions!AsksNoStatus(condition)
    PROVE  Conditions!Normalized(condition) = condition
  <1>1. condition = [i \in DOMAIN condition |-> condition[i]]
    BY DEF Conditions!IsCondition
  <1>2. ASSUME NEW i \in DOMAIN condition
        PROVE  Conditions!NormalizedNode(condition[i]) = condition[i]
    <2>1. CASE condition[i].type = "group"
      BY <2>1 DEF Conditions!NormalizedNode
    <2>2. CASE condition[i].type = "fact"
      <3>1. /\ condition[i] \in Conditions!Nodes(Conditions!ApiFacts, {"and", "or"})
            /\ condition[i].value \in Int
            /\ condition[i].fact = "recent_recharge_total" => condition[i].window \in RecentDays
        BY <2>2, ConditionIsTree DEF Conditions!AsksNoStatus, Conditions!IsCondition
      <3>2. Conditions!Number(condition[i].value) = condition[i].value
        BY <3>1 DEF Conditions!Number, RuleParameters
      <3>3. condition[i].fact = "recent_recharge_total" =>
               Conditions!Days(condition[i].window) = condition[i].window
        <4>1. condition[i].fact = "recent_recharge_total" => condition[i].window \in 1..365
          BY <3>1 DEF RuleParameters
        <4> QED BY <4>1 DEF Conditions!Days
      <3>4. condition[i] = [type |-> "fact", fact |-> condition[i].fact, operator |-> condition[i].operator,
                            value |-> condition[i].value, window |-> condition[i].window]
        BY <2>2, <3>1 DEF Conditions!Nodes
      <3>5. Conditions!NormalizedNode(condition[i])
               = Conditions!Fact(condition[i].fact, condition[i].operator, condition[i].value, condition[i].window)
        BY <2>2, <3>2, <3>3, Zenon DEF Conditions!NormalizedNode
      <3> QED BY <3>4, <3>5, Zenon DEF Conditions!Fact
    <2> QED BY <2>1, <2>2, ConditionIsTree
  <1>3. [i \in DOMAIN condition |-> Conditions!NormalizedNode(condition[i])]
           = [i \in DOMAIN condition |-> condition[i]]
    BY <1>2, Zenon
  <1> QED BY <1>1, <1>3, Zenon DEF Conditions!Normalized

\* Once its value is a number, a status is refused.
LEMMA NumberIsNoStatus ==
    ASSUME RuleParameters, NEW condition,
           Conditions!IsCondition(condition, Conditions!ApiFacts, {"and", "or"}),
           Conditions!Valid(Conditions!Normalized(condition))
    PROVE  Conditions!AsksNoStatus(condition)
  <1> SUFFICES ASSUME NEW i \in DOMAIN condition,
                      condition[i].type = "fact", condition[i].fact = "user_status"
               PROVE  FALSE
    BY DEF Conditions!AsksNoStatus
  <1> DEFINE node == Conditions!NormalizedNode(condition[i])
  <1>1. Conditions!Accepted(node)
    BY DEF Conditions!Valid, Conditions!Normalized
  <1>2. /\ node.type = "fact" /\ node.fact = "user_status"
        /\ node.value = Conditions!Number(condition[i].value)
    BY DEF Conditions!NormalizedNode, Conditions!Fact
  <1> HIDE DEF node
  <1>3. node.value \in Statuses
    BY <1>1, <1>2 DEF Conditions!Accepted, Conditions!Suits, Conditions!AmountFacts
  <1>4. Conditions!Number(condition[i].value) \notin Statuses
    BY DEF Conditions!Number, RuleParameters
  <1> QED BY <1>2, <1>3, <1>4

\* The page names the facts it was given.
LEMMA NamesStay ==
    ASSUME NEW condition
    PROVE  Conditions!AsksNoStatus(Conditions!Normalized(condition)) => Conditions!AsksNoStatus(condition)
  <1> DEFINE sent == Conditions!Normalized(condition)
  <1>1. DOMAIN sent = DOMAIN condition
    BY DEF Conditions!Normalized
  <1>2. ASSUME NEW i \in DOMAIN condition, condition[i].type = "fact"
        PROVE  sent[i].type = "fact" /\ sent[i].fact = condition[i].fact
    BY <1>2 DEF Conditions!Normalized, Conditions!NormalizedNode, Conditions!Fact
  <1> HIDE DEF sent
  <1>3. Conditions!AsksNoStatus(sent) => Conditions!AsksNoStatus(condition)
    BY <1>1, <1>2 DEF Conditions!AsksNoStatus
  <1> QED BY <1>3 DEF sent

\* What is stored can be judged; it is what the form shows or was entered as.
RulesInv ==
    /\ Conditions!TypeOK
    /\ stored # Conditions!NoRule => Conditions!Storable(stored) /\ NoEmptyAny(stored)
    /\ shown => stored # Conditions!NoRule /\ form = Conditions!Normalized(Conditions!ToApi(stored))
    /\ ~shown /\ form # Conditions!NoRule /\ stored # Conditions!NoRule =>
          /\ DOMAIN stored = DOMAIN form
          /\ \A i \in DOMAIN form :
                form[i].type = "fact" /\ form[i].fact \in Conditions!AmountFacts =>
                   /\ stored[i].type = "fact" /\ stored[i].fact \in Conditions!StoredNames
                   /\ stored[i].value = Conditions!Cents(form[i].value)

\* What the page sends and the server takes is what the server has shown; without a
\* status it always is.
LEMMA PageSends ==
    ASSUME RuleParameters, RulesInv, shown
    PROVE  /\ Conditions!Valid(Conditions!Sent) \/ Conditions!AsksNoStatus(Conditions!ToApi(stored)) =>
                 Conditions!Sent = Conditions!ToApi(stored) /\ form = Conditions!ToApi(stored)
  <1> DEFINE seen == Conditions!ToApi(stored)
  <1>1. /\ form = Conditions!Normalized(seen) /\ stored # Conditions!NoRule
        /\ Conditions!IsCondition(stored, Conditions!StoredFacts, {"all", "any"})
    BY Zenon DEF RulesInv, Conditions!TypeOK
  <1>2. Conditions!IsCondition(seen, Conditions!ApiFacts, {"and", "or"})
    BY <1>1, ShownTyped, Zenon
  <1>3. Conditions!Sent = Conditions!Normalized(form)
    BY Zenon DEF Conditions!Sent
  <1> HIDE DEF seen
  <1>4. Conditions!IsCondition(form, Conditions!ApiFacts, {"and", "or"})
    BY <1>1, <1>2, NormalizedTyped, Zenon
  <1>5. Conditions!Valid(Conditions!Sent) => Conditions!AsksNoStatus(seen)
    BY <1>1, <1>3, <1>4, NumberIsNoStatus, NamesStay, Zenon
  <1>6. Conditions!AsksNoStatus(seen) => Conditions!Normalized(seen) = seen
    BY <1>2, NumbersStay, Zenon
  <1> QED BY <1>1, <1>3, <1>5, <1>6, Zenon DEF seen

LEMMA RulesStart == ASSUME RuleParameters, Conditions!Init PROVE RulesInv
  <1>1. CASE form \in Forms /\ stored = Conditions!NoRule
    BY <1>1, Zenon DEF Conditions!Init, RulesInv, Conditions!TypeOK, RuleParameters
  <1>2. CASE form = Conditions!NoRule /\ stored \in OldRules
    BY <1>2, Zenon DEF Conditions!Init, RulesInv, Conditions!TypeOK, RuleParameters
  <1> QED BY <1>1, <1>2, Zenon DEF Conditions!Init

LEMMA SaveKeeps == ASSUME RuleParameters, RulesInv, Conditions!Save PROVE RulesInv'
  <1>0. /\ form # Conditions!NoRule /\ Conditions!Valid(Conditions!Sent)
        /\ stored' = Conditions!FromApi(Conditions!Sent)
        /\ form' = form /\ shown' = shown /\ shown \in BOOLEAN
        /\ Conditions!IsCondition(form, Conditions!ApiFacts, {"and", "or"})
    BY Zenon DEF Conditions!Save, RulesInv, Conditions!TypeOK
  <1>s. Conditions!Sent = form /\ (shown => form = Conditions!ToApi(stored))
    BY <1>0, PageSends, Zenon DEF Conditions!Sent
  <1>1. /\ form # Conditions!NoRule /\ Conditions!Valid(form) /\ stored' = Conditions!FromApi(form)
        /\ form' = form /\ shown' = shown /\ shown \in BOOLEAN
        /\ Conditions!IsCondition(form, Conditions!ApiFacts, {"and", "or"})
    BY <1>0, <1>s, Zenon
  <1>2. /\ Conditions!IsCondition(stored', Conditions!StoredFacts, {"all", "any"})
        /\ NoEmptyAny(stored') /\ Conditions!Storable(stored')
    BY <1>1, StoredTyped, StoredStorable, Zenon
  <1>3. stored' # Conditions!NoRule
    BY <1>2, Zenon DEF Conditions!IsCondition
  <1>4. shown => form = Conditions!Normalized(Conditions!ToApi(stored'))
    <2> SUFFICES ASSUME shown PROVE form = Conditions!Normalized(Conditions!ToApi(stored'))
      OBVIOUS
    <2>1. /\ form = Conditions!ToApi(stored) /\ NoEmptyAny(stored)
          /\ form = Conditions!Normalized(Conditions!ToApi(stored))
          /\ Conditions!IsCondition(stored, Conditions!StoredFacts, {"all", "any"})
      BY <1>s, Zenon DEF RulesInv, Conditions!TypeOK
    <2>2. Conditions!ToApi(stored') = Conditions!ToApi(stored)
      BY <1>1, <2>1, ShownAgain, Zenon
    <2> QED BY <2>1, <2>2, Zenon
  <1>5. /\ DOMAIN stored' = DOMAIN form
        /\ \A i \in DOMAIN form :
              form[i].type = "fact" /\ form[i].fact \in Conditions!AmountFacts =>
                 /\ stored'[i].type = "fact" /\ stored'[i].fact \in Conditions!StoredNames
                 /\ stored'[i].value = Conditions!Cents(form[i].value)
    <2>1. ASSUME NEW i \in DOMAIN form, form[i].type = "fact", form[i].fact \in Conditions!AmountFacts
          PROVE  LET node == Conditions!StoredNode(form[i]) IN
                 /\ node.type = "fact" /\ node.fact \in Conditions!StoredNames
                 /\ node.value = Conditions!Cents(form[i].value)
      BY <2>1 DEF Conditions!StoredNode, Conditions!Fact, Conditions!StoredNames
    <2> QED BY <1>1, <2>1 DEF Conditions!FromApi
  <1> QED BY <1>1, <1>2, <1>3, <1>4, <1>5, Zenon DEF RulesInv, Conditions!TypeOK

LEMMA OpenKeeps == ASSUME RuleParameters, RulesInv, Conditions!Open PROVE RulesInv'
  <1>1. /\ stored # Conditions!NoRule /\ form' = Conditions!Normalized(Conditions!ToApi(stored))
        /\ shown' = TRUE /\ stored' = stored
        /\ Conditions!Storable(stored) /\ NoEmptyAny(stored)
        /\ Conditions!IsCondition(stored, Conditions!StoredFacts, {"all", "any"})
    BY Zenon DEF Conditions!Open, RulesInv, Conditions!TypeOK
  <1>2. Conditions!IsCondition(form', Conditions!ApiFacts, {"and", "or"})
    BY <1>1, ShownTyped, NormalizedTyped, Zenon
  <1> QED BY <1>1, <1>2, Zenon DEF RulesInv, Conditions!TypeOK

LEMMA KeepKeeps == ASSUME RuleParameters, RulesInv, Conditions!Keep PROVE RulesInv'
  <1>1. /\ stored # Conditions!NoRule /\ stored' = Conditions!FromApi(Conditions!ToApi(stored))
        /\ form' = form /\ shown' = shown /\ shown \in BOOLEAN /\ Conditions!Valid(Conditions!ToApi(stored))
        /\ Conditions!Storable(stored) /\ NoEmptyAny(stored)
        /\ Conditions!IsCondition(stored, Conditions!StoredFacts, {"all", "any"})
        /\ form = Conditions!NoRule \/ Conditions!IsCondition(form, Conditions!ApiFacts, {"and", "or"})
    BY Zenon DEF Conditions!Keep, RulesInv, Conditions!TypeOK
  <1>2. /\ Conditions!IsCondition(stored', Conditions!StoredFacts, {"all", "any"})
        /\ NoEmptyAny(stored') /\ Conditions!Storable(stored')
    BY <1>1, ShownTyped, StoredTyped, StoredStorable, Zenon
  <1>3. stored' # Conditions!NoRule
    BY <1>2, Zenon DEF Conditions!IsCondition
  <1>4. shown => form = Conditions!Normalized(Conditions!ToApi(stored'))
    <2>1. shown => form = Conditions!Normalized(Conditions!ToApi(stored))
      BY Zenon DEF RulesInv
    <2>2. Conditions!ToApi(stored') = Conditions!ToApi(stored)
      BY <1>1, ShownAgain, Zenon
    <2> QED BY <2>1, <2>2, Zenon
  <1>5. ASSUME ~shown, form # Conditions!NoRule
        PROVE  /\ DOMAIN stored' = DOMAIN form
               /\ \A i \in DOMAIN form :
                     form[i].type = "fact" /\ form[i].fact \in Conditions!AmountFacts =>
                        /\ stored'[i].type = "fact" /\ stored'[i].fact \in Conditions!StoredNames
                        /\ stored'[i].value = Conditions!Cents(form[i].value)
    <2>1. /\ DOMAIN stored = DOMAIN form
          /\ \A i \in DOMAIN form :
                form[i].type = "fact" /\ form[i].fact \in Conditions!AmountFacts =>
                   /\ stored[i].type = "fact" /\ stored[i].fact \in Conditions!StoredNames
                   /\ stored[i].value = Conditions!Cents(form[i].value)
      BY <1>1, <1>5, Zenon DEF RulesInv
    <2>2. DOMAIN stored' = DOMAIN stored
      BY <1>1 DEF Conditions!FromApi, Conditions!ToApi
    <2>3. ASSUME NEW i \in DOMAIN stored, stored[i].type = "fact", stored[i].fact \in Conditions!StoredNames
          PROVE  /\ stored'[i].type = "fact" /\ stored'[i].fact = stored[i].fact
                 /\ stored'[i].value = stored[i].value
      <3>1. stored[i].fact \notin {"has_recharged", "recharge_count", "user_status"}
        BY <2>3, Names
      <3> DEFINE again == Conditions!FromApi(Conditions!ToApi(stored))
      <3>2. stored' = again
        BY <1>1
      <3>3. \/ stored[i].type = "group"
            \/ again[i].type = "fact" /\ again[i].fact = stored[i].fact /\ again[i].value = stored[i].value
        BY <1>1, <3>1, StoredAgain
      <3> HIDE DEF again
      <3> QED BY <2>3, <3>2, <3>3
    <2> QED BY <2>1, <2>2, <2>3, Zenon
  <1> QED BY <1>1, <1>2, <1>3, <1>4, <1>5, Zenon DEF RulesInv, Conditions!TypeOK

LEMMA RulesNext == ASSUME RuleParameters, RulesInv, [Conditions!Next]_(Conditions!vars) PROVE RulesInv'
  <1>1. CASE UNCHANGED Conditions!vars
    <2>1. form' = form /\ stored' = stored /\ shown' = shown
      BY <1>1 DEF Conditions!vars
    <2> QED BY <2>1, Zenon DEF RulesInv, Conditions!TypeOK
  <1> QED
    BY <1>1, SaveKeeps, OpenKeeps, KeepKeeps DEF Conditions!Next

\* What is asked for is all that a rule needs.
LEMMA AskedSuffices ==
    ASSUME RuleParameters, NEW rule, NEW f \in Conditions!Facts,
           Conditions!IsCondition(rule, Conditions!StoredFacts, {"all", "any"})
    PROVE  /\ Measured(rule, Conditions!Asked(rule, f))
           /\ Conditions!Matches(rule, Conditions!Asked(rule, f)) = Conditions!Matches(rule, f)
  <1> DEFINE gathered == Conditions!Asked(rule, f)
             days == DOMAIN f.recent \cap Conditions!WindowsOf(rule)
  <1>1. /\ f.balance_cents \in Int /\ f.recharge_total_cents \in Int /\ f.recent \in [RecentDays -> Int]
        /\ RecentDays \subseteq Nat \ {0}
    BY FactsTyped DEF RuleParameters
  <1>2. /\ gathered.recent = [w \in days |-> f.recent[w]]
        /\ \A fact \in Conditions!StoredFacts : fact # "recent_recharge_total_cents" => gathered[fact] = f[fact]
    <2>1. PICK in \in Conditions!Inputs : f = Conditions!MakeUserFacts(in)
      BY DEF Conditions!Facts
    <2> QED BY <2>1, Names DEF Conditions!Asked, Conditions!MakeUserFacts, Conditions!StoredFacts
  <1>3. ASSUME NEW i \in DOMAIN rule, rule[i].type = "fact", rule[i].fact = "recent_recharge_total_cents"
        PROVE  rule[i].window \in DOMAIN f.recent /\ rule[i].window \in days
    <2>1. rule[i].window \in RecentDays
      BY <1>3 DEF Conditions!IsCondition
    <2>2. rule[i].window \in Conditions!WindowsOf(rule)
      BY <1>3 DEF Conditions!WindowsOf
    <2> QED BY <1>1, <2>1, <2>2
  <1> HIDE DEF gathered
  <1>4. ASSUME NEW i \in DOMAIN rule, rule[i].type = "fact"
        PROVE  Conditions!Holds(rule[i], gathered) = Conditions!Holds(rule[i], f)
    <2>1. CASE rule[i].fact = "recent_recharge_total_cents"
      <3>1. /\ rule[i].window \in DOMAIN f.recent /\ rule[i].window \in DOMAIN gathered.recent
            /\ gathered.recent[rule[i].window] = f.recent[rule[i].window]
        BY <1>2, <1>3, <1>4, <2>1
      <3> QED BY <2>1, <3>1, Zenon DEF Conditions!Holds
    <2>2. CASE rule[i].fact # "recent_recharge_total_cents"
      <3>1. rule[i].fact \in Conditions!StoredFacts
        BY <1>4, ConditionIsTree
      <3>2. gathered[rule[i].fact] = f[rule[i].fact]
        BY <1>2, <2>2, <3>1, Zenon
      <3> QED BY <2>2, <3>2, Zenon DEF Conditions!Holds
    <2> QED BY <2>1, <2>2
  <1>5. Tree(rule)
    BY ConditionIsTree
  <1>6. Alike(rule, f, rule, gathered)
    BY <1>4, Zenon DEF Alike
  <1>7. gathered.balance_cents \in Int /\ gathered.recharge_total_cents \in Int
    BY <1>1, <1>2, Names DEF Conditions!StoredFacts
  <1>8. DOMAIN gathered.recent = days /\ \A w \in days : w \in Nat \ {0} /\ gathered.recent[w] \in Int
    BY <1>1, <1>2
  <1>9. Measured(rule, gathered)
    BY <1>3, <1>7, <1>8 DEF Measured
  <1> QED BY <1>5, <1>6, <1>9, JudgedAlike DEF gathered

\* Cents are the nearest there are.
LEMMA CentsAreNear ==
    ASSUME NEW t \in Int
    PROVE  t - Conditions!Thousandths(Conditions!Cents(t)) \in -5..5
  <1> DEFINE c == Conditions!Cents(t)
  <1>1. c \in Int /\ t - 10 * c >= -5 /\ t - 10 * c <= 5
    <2>1. CASE t < 0
      <3> DEFINE q == (5 - t) \div 10
      <3>1. q \in Int /\ 10 * q <= 5 - t /\ 5 - t < 10 * q + 10
        OBVIOUS
      <3>2. c = -q
        BY <2>1 DEF Conditions!Cents
      <3> HIDE DEF q, c
      <3> QED BY <3>1, <3>2
    <2>2. CASE ~(t < 0)
      <3> DEFINE q == (t + 5) \div 10
      <3>1. q \in Int /\ 10 * q <= t + 5 /\ t + 5 < 10 * q + 10
        OBVIOUS
      <3>2. c = q
        BY <2>2 DEF Conditions!Cents
      <3> HIDE DEF q, c
      <3> QED BY <3>1, <3>2
    <2> QED BY <2>1, <2>2
  <1> HIDE DEF c
  <1>2. t - 10 * c \in -5..5
    BY <1>1
  <1> QED BY <1>2 DEF Conditions!Thousandths, c

\* Everyone who judges a rule says the same (evaluateRule, rechargeWindowDays,
\* evaluateCondition).
LEMMA VerdictsFollowInv == ASSUME RuleParameters, RulesInv PROVE Conditions!VerdictsAgree
  <1> SUFFICES ASSUME stored # Conditions!NoRule
               PROVE  Conditions!VerdictsAgree
    BY DEF Conditions!VerdictsAgree
  <1>1. /\ Conditions!IsCondition(stored, Conditions!StoredFacts, {"all", "any"})
        /\ Conditions!Storable(stored) /\ NoEmptyAny(stored)
        /\ form = Conditions!NoRule \/ Conditions!IsCondition(form, Conditions!ApiFacts, {"and", "or"})
    BY Zenon DEF RulesInv, Conditions!TypeOK
  <1>2. ASSUME ~shown, form # Conditions!NoRule, NEW i \in DOMAIN form,
               form[i].type = "fact", form[i].fact \in Conditions!AmountFacts
        PROVE  form[i].value - Conditions!Thousandths(stored[i].value) \in -5..5
    <2>1. stored[i].value = Conditions!Cents(form[i].value)
      BY <1>2, Zenon DEF RulesInv
    <2>2. form[i].value \in Int
      <3>1. form[i].fact # "user_status"
        BY <1>2 DEF Conditions!AmountFacts
      <3>2. form[i].type = "fact" /\ form[i].fact # "user_status" => form[i].value \in Int
        BY <1>1, <1>2, ConditionIsTree, Zenon DEF Conditions!IsCondition
      <3> QED BY <1>2, <3>1, <3>2
    <2> QED BY <2>1, <2>2, CentsAreNear
  <1>3. ASSUME NEW f \in Conditions!Facts
        PROVE  LET gathered == Conditions!Asked(stored, f) IN
               /\ Conditions!Matches(stored, gathered) = Conditions!Matches(stored, f)
               /\ Conditions!Matches(stored, gathered) <=> Conditions!Reasons(stored, gathered) = {}
               /\ \A r \in Conditions!Reasons(stored, gathered) \ {Conditions!NoOption} : ~Conditions!Holds(r, gathered)
               /\ Editable(stored) =>
                     Conditions!BrowserMatches(Conditions!ToApi(stored), Conditions!FactsToApi(gathered))
                        = Conditions!Matches(stored, gathered)
    <2> DEFINE gathered == Conditions!Asked(stored, f)
    <2>1. Measured(stored, gathered) /\ Conditions!Matches(stored, gathered) = Conditions!Matches(stored, f)
      BY <1>1, AskedSuffices
    <2>2. /\ Tree(stored) /\ Tree(Conditions!ToApi(stored))
          /\ \A i \in DOMAIN stored : stored[i].type = "group" => stored[i].operator \in {"all", "any"}
          /\ Editable(stored) => \A i \in DOMAIN stored : stored[i].type = "fact" =>
                stored[i].value \in Int /\ stored[i].operator \in Conditions!Operators
      <3>1. Conditions!IsCondition(Conditions!ToApi(stored), Conditions!ApiFacts, {"and", "or"})
        BY <1>1, ShownTyped, Zenon
      <3>2. \A i \in DOMAIN stored :
               /\ stored[i].type = "fact" =>
                     /\ stored[i].fact # "user_status" => stored[i].value \in Int
                     /\ stored[i].operator \in Conditions!Operators
               /\ stored[i].type = "group" => stored[i].operator \in {"all", "any"}
        BY <1>1, ConditionIsTree
      <3>3. "user_status" \notin Conditions!StoredNames
        BY Names
      <3> QED BY <1>1, <3>1, <3>2, <3>3, ConditionIsTree, Zenon DEF Editable
    <2> HIDE DEF gathered
    <2>3. /\ Conditions!Matches(stored, gathered) <=> Conditions!Reasons(stored, gathered) = {}
          /\ \A r \in Conditions!Reasons(stored, gathered) \ {Conditions!NoOption} : ~Conditions!Holds(r, gathered)
      BY <2>2, ReasonsAreTrue, Zenon
    <2>4. Editable(stored) =>
             Conditions!BrowserMatches(Conditions!ToApi(stored), Conditions!FactsToApi(gathered))
                = Conditions!Matches(stored, gathered)
      BY <1>1, <2>1, <2>2, BrowserAgrees, Zenon
    <2> QED BY <2>1, <2>3, <2>4, Zenon DEF gathered
  <1> QED BY <1>1, <1>2, <1>3, Zenon DEF Conditions!VerdictsAgree, Editable

\* A stored rule can be judged, and everyone who judges it says the same (evaluateRule,
\* rechargeWindowDays, evaluateCondition).
THEOREM RulesAgree ==
    ASSUME RuleParameters
    PROVE  Conditions!Spec => []RulesInv /\ []Conditions!VerdictsAgree
  BY RulesStart, RulesNext, VerdictsFollowInv, PTL DEF Conditions!Spec

\* A rule keeps its meaning when it is shown and stored again (conditionToApi,
\* conditionFromApi).
THEOREM RulesKeepMeaning ==
    ASSUME RuleParameters
    PROVE  Conditions!Spec => Conditions!MeaningIsKept
  <1> DEFINE Kept == /\ Conditions!NoAmountDiffers(stored) => Conditions!Valid(Conditions!ToApi(stored))
                     /\ shown /\ Conditions!NoAmountDiffers(stored) /\ Conditions!AsksNoStatus(stored) =>
                           Conditions!Valid(Conditions!Sent)
                     /\ \A f \in Conditions!Facts : Conditions!Matches(stored', f) = Conditions!Matches(stored, f)
  <1>1. ASSUME RulesInv, Conditions!Next, shown \/ Conditions!Keep PROVE Kept \/ UNCHANGED Conditions!vars
    <2>1. /\ stored # Conditions!NoRule
          /\ Conditions!IsCondition(stored, Conditions!StoredFacts, {"all", "any"})
          /\ Conditions!Storable(stored) /\ NoEmptyAny(stored)
      BY <1>1, Zenon DEF RulesInv, Conditions!TypeOK, Conditions!Keep
    <2>2. Conditions!NoAmountDiffers(stored) => Conditions!Valid(Conditions!ToApi(stored))
      BY <2>1, ShownValid, Zenon
    <2>3. \/ stored' = stored
          \/ /\ stored' = Conditions!FromApi(Conditions!ToApi(stored))
             /\ Conditions!Valid(Conditions!ToApi(stored))
      <3>1. CASE Conditions!Save /\ shown
        <4>1. Conditions!Valid(Conditions!Sent) /\ stored' = Conditions!FromApi(Conditions!Sent)
          BY <3>1, Zenon DEF Conditions!Save
        <4> QED BY <1>1, <3>1, <4>1, PageSends, Zenon
      <3> QED BY <1>1, <3>1, Zenon DEF Conditions!Next, Conditions!Open, Conditions!Keep
    <2>4. \A f \in Conditions!Facts : Conditions!Matches(stored', f) = Conditions!Matches(stored, f)
      BY <2>1, <2>3, MeaningSame, Zenon
    <2>5. shown /\ Conditions!NoAmountDiffers(stored) /\ Conditions!AsksNoStatus(stored) =>
             Conditions!Valid(Conditions!Sent)
      <3>1. Conditions!AsksNoStatus(stored) => Conditions!AsksNoStatus(Conditions!ToApi(stored))
        BY <2>1, StatusIsShown, Zenon
      <3> QED BY <1>1, <2>2, <3>1, PageSends, Zenon
    <2> QED BY <2>2, <2>4, <2>5, Zenon
  <1>2. RulesInv /\ [Conditions!Next]_(Conditions!vars)
           => [shown \/ Conditions!Keep => Kept]_<<form, stored, shown>>
    BY <1>1, Zenon DEF Conditions!vars
  <1> QED BY <1>2, RulesAgree, PTL DEF Conditions!MeaningIsKept, Conditions!Spec

-----------------------------------------------------------------------------
(* The composition.                                                        *)

\* An execution of the services is one of each of them.
LEMMA OfEach ==
    ServicesSpec => /\ Spec /\ Ledger!Spec /\ Listed!Spec /\ Schema!Spec /\ Bridge!Spec
                    /\ Limits!Spec /\ Browser!Spec /\ Page!Spec /\ Conditions!Spec
  <1>1. ServicesInit =>
           /\ Init /\ Ledger!Init /\ Listed!Init /\ Schema!Init /\ Bridge!Init
           /\ Limits!Init /\ Browser!Init /\ Page!Init /\ Conditions!Init
    BY DEF ServicesInit
  <1>2. [ServicesNext]_allVars =>
           /\ [Next]_vars /\ [Ledger!Next]_(Ledger!vars)
           /\ [Listed!Next]_(Listed!vars) /\ [Schema!Next]_(Schema!vars)
    BY DEF ServicesNext, allVars, ledgerVars, directoryVars, schemaVars,
           Ledger!vars, Listed!vars, Schema!vars
  <1>3. [ServicesNext]_allVars =>
           /\ [Bridge!Next]_(Bridge!vars) /\ [Limits!Next]_(Limits!vars)
           /\ [Browser!Next]_(Browser!vars) /\ [Page!Next]_(Page!vars)
    BY DEF ServicesNext, allVars, bridgeVars, limitsVars, browserVars, pageVars,
           Bridge!vars, Limits!vars, Browser!vars, Page!vars, Page!runVars, Page!pageVars
  <1>4. [ServicesNext]_allVars => [Conditions!Next]_(Conditions!vars)
    BY DEF ServicesNext, allVars, rulesVars, Conditions!vars
  <1> QED
    BY <1>1, <1>2, <1>3, <1>4, PTL
       DEF ServicesSpec, Spec, Ledger!Spec, Listed!Spec, Schema!Spec, Bridge!Spec, Limits!Spec,
           Browser!Spec, Page!Spec, Conditions!Spec

ServicesParameters ==
    /\ Ledger!Parameters /\ DirectoryParameters /\ SchemaParameters /\ Bridge!Parameters
    /\ Limits!Parameters /\ SessionParameters /\ PageParameters /\ RuleParameters

\* Every variable of the part that moves has its type.
THEOREM PartsTyped ==
    ASSUME ServicesParameters
    PROVE  ServicesSpec => []PartTypeOK
  <1> USE DEF ServicesParameters
  <1>1. Spec => []IInv
    BY InductiveInvariant
  <1>2. Ledger!Spec => []Ledger!IInv
    BY Ledger!InductiveInvariant
  <1>3. Listed!Spec => []DirectoryInv
    BY SweepsKeepMembers
  <1>4. Schema!Spec => []SchemaInv
    BY SchemaIsComplete
  <1>5. Bridge!Spec => []Bridge!Pipeline
    BY Bridge!PipelineCorrect
  <1>6. Limits!Spec => []Limits!IInv
    BY Limits!InductiveInvariant
  <1>7. Browser!Spec => []BrowserInv
    BY TokenIsInStep
  <1>8. Page!Spec => []PageInv
    BY PageIsRight
  <1>9. Conditions!Spec => []RulesInv
    BY RulesAgree
  <1>10. ServicesSpec => [](part \in Parts)
    <2>1. ServicesInit => part \in Parts
      BY DEF ServicesInit
    <2>2. part \in Parts /\ [ServicesNext]_allVars => (part \in Parts)'
      BY DEF ServicesNext, allVars
    <2> QED
      BY <2>1, <2>2, PTL DEF ServicesSpec
  <1>11. /\ part \in Parts /\ IInv /\ Ledger!IInv /\ DirectoryInv /\ SchemaInv
         /\ Bridge!Pipeline /\ Limits!IInv /\ BrowserInv /\ PageInv /\ RulesInv
         => PartTypeOK
    BY DEF Parts, PartTypeOK, IInv, Ledger!IInv, DirectoryInv, SchemaInv, Bridge!Pipeline,
           Limits!IInv, BrowserInv, PageInv, RulesInv
  <1> QED
    BY <1>1, <1>2, <1>3, <1>4, <1>5, <1>6, <1>7, <1>8, <1>9, <1>10, <1>11, OfEach, PTL

\* What is below the saved cursor is in the ledger (#syncRedeemCodes).
THEOREM NoRechargeMissed ==
    ASSUME Ledger!Parameters
    PROVE  ServicesSpec => []LedgerComplete
  <1>1. Ledger!Spec => []Ledger!LedgerComplete
    BY Ledger!LedgerCorrect
  <1>2. Ledger!LedgerComplete => LedgerComplete
    BY DEF LedgerComplete
  <1> QED
    BY <1>1, <1>2, OfEach, PTL

\* What a refresh stores is complete for its window and its user (refreshUser).
THEOREM RefreshIsExact ==
    ASSUME Ledger!Parameters
    PROVE  ServicesSpec => RecentIsExact
  <1>1. Ledger!Spec => Ledger!RecentIsExact
    BY Ledger!RefreshCorrect
  <1> QED
    BY <1>1, OfEach, PTL DEF RecentIsExact

\* A sweep deletes no one who is listed (#syncUsers, #syncGroups).
THEOREM MembersAreKept ==
    ASSUME DirectoryParameters
    PROVE  ServicesSpec => ListedIsKept
  BY SweepsKeepMembers, OfEach, PTL DEF ListedIsKept

\* The schema has what its version says, and what whoever serves was built for (migrate).
THEOREM MigrationCompletes ==
    ASSUME SchemaParameters
    PROVE  ServicesSpec => []SchemaComplete
  <1>1. Schema!SchemaComplete => SchemaComplete
    BY DEF SchemaComplete
  <1> QED
    BY <1>1, SchemaIsComplete, OfEach, PTL

\* A query is given its own answer (#waitForResponse).
THEOREM AnswersAreOwn ==
    ASSUME Bridge!Parameters
    PROVE  ServicesSpec => []OwnAnswer
  <1>1. Bridge!Spec => []Bridge!OwnAnswer
    BY Bridge!AnswersMatch
  <1>2. Bridge!OwnAnswer => OwnAnswer
    BY DEF OwnAnswer
  <1> QED
    BY <1>1, <1>2, OfEach, PTL

\* Callers and data base agree on a unit of work while no query was given up (transaction).
THEOREM TransactionsAreAtomic ==
    ASSUME Bridge!Parameters
    PROVE  ServicesSpec => []UnitsAtomic
  <1>1. Bridge!Spec => []Bridge!UnitsAtomic
    BY Bridge!UnitsAreAtomic
  <1>2. Bridge!UnitsAtomic => UnitsAtomic
    BY DEF UnitsAtomic
  <1> QED
    BY <1>1, <1>2, OfEach, PTL

\* A source has its limit in each window (assert).
THEOREM LimitsAreKept ==
    ASSUME Limits!Parameters
    PROVE  ServicesSpec => []LimitHolds
  <1>1. Limits!Spec => []Limits!LimitHolds
    BY Limits!LimitIsKept
  <1>2. Limits!LimitHolds => LimitHolds
    BY DEF LimitHolds
  <1> QED
    BY <1>1, <1>2, OfEach, PTL

\* No refused request is lost or counted twice (#queueBlocked, flush).
THEOREM RefusalsAreCounted ==
    ASSUME Limits!Parameters
    PROVE  ServicesSpec => []RefusedAreCounted
  <1>1. Limits!Spec => []Limits!RefusedAreCounted
    BY Limits!RefusedCounted
  <1>2. Limits!RefusedAreCounted => RefusedAreCounted
    BY DEF RefusedAreCounted
  <1> QED
    BY <1>1, <1>2, OfEach, PTL

\* The administration is for current administrators (#verifyCurrentAdmin).
THEOREM AdministrationIsCurrent ==
    ASSUME SessionParameters
    PROVE  ServicesSpec => AdminIsCurrent
  BY AdminsAreCurrent, OfEach, PTL DEF AdminIsCurrent

\* The tab that loaded the session last can use it (csrfTokenForSession).
THEOREM TokensAreInStep ==
    ASSUME SessionParameters
    PROVE  ServicesSpec => []TokenInStep
  <1>1. Browser!TokenInStep => TokenInStep
    BY DEF TokenInStep
  <1> QED
    BY <1>1, TokenIsInStep, OfEach, PTL

\* Administrators are shown what the server makes of a rule (groupGrantLifecycleStatus).
THEOREM StatusIsRight ==
    ASSUME PageParameters
    PROVE  ServicesSpec => []StatusAgrees
  <1>1. Page!StatusAgrees => StatusAgrees
    BY DEF StatusAgrees
  <1> QED
    BY <1>1, PageIsRight, OfEach, PTL

\* Evaluation, reasons, needed windows and the browser agree on every condition
\* (evaluateRule, rechargeWindowDays, evaluateCondition).
THEOREM VerdictsCorrect ==
    ASSUME RuleParameters
    PROVE  ServicesSpec => []VerdictsAgree
  <1>1. Conditions!VerdictsAgree => VerdictsAgree
    BY DEF VerdictsAgree
  <1> QED
    BY <1>1, RulesAgree, OfEach, PTL

\* A condition means the same after it was shown and stored again (conditionToApi,
\* conditionFromApi).
THEOREM MeaningCorrect ==
    ASSUME RuleParameters
    PROVE  ServicesSpec => MeaningIsKept
  BY RulesKeepMeaning, OfEach, PTL DEF MeaningIsKept
=============================================================================
