------------------------------ MODULE Migration ------------------------------
(***************************************************************************)
(* The upgrade of the database schema when processes start, several at a   *)
(* time and not all of the same build.                                     *)
(*                                                                         *)
(* SQLite (server/src/db.js): the version is read once, then every missing *)
(* script runs in a transaction of its own.  Scripts fail on a schema that *)
(* has them already; the last ones look first (Inspected).                 *)
(* PostgreSQL (server/src/postgres-worker.js): the table of versions is    *)
(* made where it is missing, before any lock; then one transaction under   *)
(* an advisory lock, in which the version is read again.                   *)
(*                                                                         *)
(* Abstracted: what the scripts create; `applied' holds the versions whose *)
(* tables and columns are there.                                           *)
(***************************************************************************)
EXTENDS Integers

CONSTANTS
    Processes,
    LastVersion,      \* versions are 1..LastVersion
    Builds,      \* the SCHEMA_VERSIONs of the builds that are started
    Inspected    \* SQLite scripts that look for their columns first

VARIABLES
    dialect,
    version,     \* PRAGMA user_version, or MAX(version) of the migrations table
    applied,
    table,       \* extension_schema_migrations (PostgreSQL)
    lock,        \* pg_advisory_xact_lock: its holders
    proc

vars == <<dialect, version, applied, table, lock, proc>>

Versions == 1..LastVersion
\* known is the version the process has read, at the last script it has done,
\* present what it has seen of the next one.
\* A start has failed in "clash", at a script, and in "beaten", at the table of versions.
Phases   == {"off", "create", "read", "upgrade", "script", "wait", "locked", "clash", "beaten", "ready"}
Process  == [phase : Phases, build : Builds, known : 0..LastVersion, at : 0..LastVersion, present : BOOLEAN]
Off(b)   == [phase |-> "off", build |-> b, known |-> 0, at |-> 0, present |-> FALSE]

TypeOK ==
    /\ dialect \in {"sqlite", "postgres"}
    /\ version \in 0..LastVersion /\ applied \subseteq Versions /\ table \in {"none", "made"}
    /\ lock \subseteq Processes /\ proc \in [Processes -> Process]

Init ==
    /\ dialect \in {"sqlite", "postgres"}
    /\ version = 0 /\ applied = {} /\ table = "none" /\ lock = {}
    /\ \E b \in [Processes -> Builds] : proc = [p \in Processes |-> Off(b[p])]

Goes(p, phase, at) == proc' = [proc EXCEPT ![p].phase = phase, ![p].at = at, ![p].present = FALSE]
Done(p) == proc[p].at = proc[p].build

-----------------------------------------------------------------------------
(* Plausible faults, against which the property below is tried.            *)

\* The version of before the lock decides what is still to do.
VersionKnown(p) == proc[p].known

-----------------------------------------------------------------------------

\* CREATE TABLE IF NOT EXISTS looks for the table first, then makes it.  Nothing keeps
\* another process from making it in between: then the statement, and the start, fails.
FindTable(p) ==
    /\ dialect = "postgres" /\ proc[p].phase = "off"
    /\ Goes(p, IF table = "made" THEN "read" ELSE "create", 0)
    /\ UNCHANGED <<dialect, version, applied, table, lock>>

CreateTable(p) ==
    /\ proc[p].phase = "create" /\ table' = "made"
    /\ Goes(p, IF table = "made" THEN "beaten" ELSE "read", 0)
    /\ UNCHANGED <<dialect, version, applied, lock>>

\* A process does not start on a version that is too new; in the PostgreSQL worker
\* one that is right needs nothing more.
ReadVersion(p) ==
    /\ proc[p].phase = IF dialect = "sqlite" THEN "off" ELSE "read"
    /\ version <= proc[p].build
    /\ proc' = [proc EXCEPT ![p].known = version, ![p].at = version, ![p].present = FALSE,
                            ![p].phase = IF dialect = "sqlite" THEN "upgrade"
                                         ELSE IF version = proc[p].build THEN "ready" ELSE "wait"]
    /\ UNCHANGED <<dialect, version, applied, table, lock>>

\* The process ends, and with it its lock and its transaction.
Crash(p) ==
    /\ proc[p].phase # "off"
    /\ proc' = [proc EXCEPT ![p] = Off(proc[p].build)]
    /\ lock' = lock \ {p}
    /\ UNCHANGED <<dialect, version, applied, table>>

-----------------------------------------------------------------------------
(* SQLite: migrate, one script after the other.                            *)

\* pragma_table_info, before the transaction.
Inspect(p) ==
    /\ proc[p].phase = "upgrade" /\ ~Done(p) /\ proc[p].at + 1 \in Inspected
    /\ proc' = [proc EXCEPT ![p].phase = "script", ![p].present = (proc[p].at + 1) \in applied]
    /\ UNCHANGED <<dialect, version, applied, table, lock>>

\* BEGIN IMMEDIATE ... PRAGMA user_version = n; COMMIT.  What is there already is
\* not made again, or the script fails and the process ends.
RunScript(p) ==
    LET n == proc[p].at + 1 IN
    /\ proc[p].phase = IF n \in Inspected THEN "script" ELSE "upgrade"
    /\ ~Done(p)
    /\ IF n \in applied /\ ~proc[p].present
       THEN Goes(p, "clash", n) /\ UNCHANGED <<version, applied>>
       ELSE Goes(p, "upgrade", n) /\ version' = n /\ applied' = applied \cup {n}
    /\ UNCHANGED <<dialect, table, lock>>

Serve(p) ==
    /\ proc[p].phase = "upgrade" /\ Done(p) /\ Goes(p, "ready", proc[p].at)
    /\ UNCHANGED <<dialect, version, applied, table, lock>>

-----------------------------------------------------------------------------
(* PostgreSQL: migrate.                                                    *)

VersionNow(p) == version

\* BEGIN; pg_advisory_xact_lock; SELECT MAX(version).
Lock(p) ==
    /\ proc[p].phase = "wait" /\ lock = {} /\ lock' = {p}
    /\ Goes(p, "locked", VersionNow(p))
    /\ UNCHANGED <<dialect, version, applied, table>>

\* POSTGRES_SCHEMA_SQL, for an empty database: it fails on tables that exist.
WholeSchema(build) == applied = {} /\ applied' = 1..build

\* POSTGRES_SCHEMA_MIGRATIONS, for any other: they make nothing twice.
MissingScripts(from, build) == applied' = applied \cup (from + 1)..build

\* All of it commits at once.
Upgrade(p) ==
    LET from  == proc[p].at
        build == proc[p].build
    IN
    /\ proc[p].phase = "locked" /\ lock' = lock \ {p}
    /\ \/ /\ from = 0 /\ WholeSchema(build)
          /\ version' = build /\ Goes(p, "ready", build)
       \/ /\ from \in 1..build - 1 /\ MissingScripts(from, build)
          /\ version' = build /\ Goes(p, "ready", build)
       \/ /\ from >= build /\ Goes(p, "ready", build)
          /\ UNCHANGED <<version, applied>>
       \/ /\ from = 0 /\ applied # {} /\ Goes(p, "clash", 0)
          /\ UNCHANGED <<version, applied>>
    /\ UNCHANGED <<dialect, table>>

Next ==
    \E p \in Processes :
        \/ FindTable(p) \/ CreateTable(p) \/ ReadVersion(p) \/ Crash(p)
        \/ Inspect(p) \/ RunScript(p) \/ Serve(p)
        \/ Lock(p) \/ Upgrade(p)

Spec == Init /\ [][Next]_vars

-----------------------------------------------------------------------------
(* A property.                                                             *)

\* Processes that start together, and die half-way, leave a schema that has all
\* its version says and all that whoever serves was built for.  On PostgreSQL no upgrade
\* fails because another one has been faster, nor loses what it wrote; a start that fails
\* at the table of versions finds it the next time, and nobody upgrades without it.
SchemaComplete ==
    /\ 1..version \subseteq applied
    /\ \A p \in Processes : proc[p].phase = "ready" => 1..proc[p].build \subseteq applied
    /\ dialect = "postgres" =>
          /\ \A p \in Processes :
                /\ proc[p].phase # "clash"
                /\ proc[p].phase \in {"beaten", "read", "wait", "locked", "ready"} => table = "made"
          /\ applied = 1..version /\ (version > 0 => table = "made")
=============================================================================
