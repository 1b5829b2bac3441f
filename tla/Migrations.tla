----------------------------- MODULE Migrations -----------------------------
(***************************************************************************)
(* The start of a server process on a database file that outlives it:      *)
(* init_db and _run_migrations (app/db/connection.py) with the scripts of  *)
(* app/db/migrations, and the backfill of context ids with which the       *)
(* runtime repository is constructed (context_catalog.py:46).              *)
(*                                                                         *)
(* executescript() runs outside a transaction: each statement is committed *)
(* by itself, and between any two the process may die or the environment   *)
(* refuse the next (a full disk, a locked file).  Of the columns that a    *)
(* script adds to one table in a row, two stand for all.                   *)
(***************************************************************************)
EXTENDS Integers, Sequences, FiniteSets

CONSTANTS
  OldRows,     \* rows of contexts that an older server left: [name, version]
  MaxCrashes   \* bound on the number of crashes and failures of the environment

ASSUME OldRowsAssumption ==
  /\ OldRows \subseteq [name : Nat, version : Nat]
  /\ IsFiniteSet(OldRows)
ASSUME MaxCrashesAssumption == MaxCrashes \in Nat

-----------------------------------------------------------------------------
(* The scripts.  A statement adds an object of the schema or a version row; *)
(* it fails without the objects it needs, and, unless it says IF NOT EXISTS *)
(* or OR IGNORE, when what it adds is there.                                *)

Statement(adds, needs, again) == [adds |-> adds, needs |-> needs, again |-> again]
Create(object) == Statement(object, {}, TRUE)
Index(object, on) == Statement(object, {on}, TRUE)
AddColumn(table, column) == Statement(column, {table}, FALSE)
Record(row) == Statement(row, {"schema_version"}, TRUE)

Initial ==
  << Create("schema_version"), Create("contexts"), Create("providers"),
     Create("identity_maps"), Create("audit_log"), Record("version 1") >>

\* Mutant of Snapshots: a table is created without IF NOT EXISTS.
Snapshots_Once ==
  << Statement("context_snapshots", {}, FALSE),
     Index("idx_context_snapshots_current", "context_snapshots"),
     Create("context_membership_history"),
     Index("idx_membership_history_context", "context_membership_history"),
     Index("idx_membership_history_effective", "context_membership_history"),
     Record("version 2") >>

Snapshots ==
  << Create("context_snapshots"),
     Index("idx_context_snapshots_current", "context_snapshots"),
     Create("context_membership_history"),
     Index("idx_membership_history_context", "context_membership_history"),
     Index("idx_membership_history_effective", "context_membership_history"),
     Record("version 2") >>

\* Mutant of RuntimeState: the version row comes first.
RuntimeState_RecordFirst ==
  << Record("version 3"), AddColumn("contexts", "context_id"),
     AddColumn("contexts", "source_kind"), Create("context_sync_events") >>

RuntimeState ==
  << AddColumn("contexts", "context_id"), AddColumn("contexts", "source_kind"),
     Index("idx_contexts_runtime_version", "context_id"),
     Index("idx_contexts_runtime_name", "contexts"),
     AddColumn("context_snapshots", "definition_version"),
     AddColumn("context_snapshots", "score_sha256"),
     Index("idx_context_snapshots_one_current", "context_snapshots"),
     Create("context_snapshot_payloads"),
     AddColumn("context_membership_history", "definition_hash"),
     AddColumn("context_membership_history", "event_id"),
     Index("idx_membership_history_event", "event_id"),
     Create("context_sync_state"), Create("context_sync_events"),
     Record("version 3") >>

Scripts == <<Initial, Snapshots, RuntimeState>>

VersionRow == <<"version 1", "version 2", "version 3">>

Adds(script) == {Scripts[script][i].adds : i \in DOMAIN Scripts[script]}
Schema == UNION {Adds(script) : script \in DOMAIN Scripts}

VARIABLES
  schema,     \* the objects and version rows of the database file
  contextId,  \* context_id of the old rows, NoId where it is NULL
  uuids,      \* identifiers generated so far
  phase,      \* how far the process is
  script,     \* the script it runs, and the statement in it
  statement,
  corrupt,    \* a payload in the file does not have its checksum
  crashes,    \* crashes and failures of the environment so far
  refused     \* auxiliary: a statement of the last start could not be executed

startVars == <<schema, contextId, uuids, phase, script, statement, corrupt, crashes, refused>>

NoId == 0
Phases == {"down", "migrating", "backfilling", "loading", "serving"}

StartTypeOK ==
  /\ schema \subseteq Schema
  /\ contextId \in [OldRows -> Nat] \/ contextId = << >>
  /\ uuids \in Nat
  /\ phase \in Phases
  /\ script \in 1 .. Len(Scripts) + 1 /\ statement \in Nat \ {0}
  /\ crashes \in 0 .. MaxCrashes
  /\ corrupt \in BOOLEAN /\ refused \in BOOLEAN

\* Mutant of Recorded: the first version row counts, not the last.
Recorded_First == IF VersionRow[1] \in schema THEN 1 ELSE 0

\* The version the file says it has: MAX(version), or 0.
Recorded ==
  Cardinality({v \in DOMAIN Scripts : \E w \in DOMAIN Scripts :
                 v <= w /\ VersionRow[w] \in schema})

OldNames == {r.name : r \in OldRows}

\* The order of GROUP BY name.
Place(name, names) == Cardinality({n \in names : n <= name})

\* A file as one of the released servers left it, with the first v scripts
\* applied.  No row has an identifier before the third; after it some rows may
\* have none, those an older server added to the migrated file, and a payload
\* may have been damaged.
StartInit ==
  /\ \E v \in 0 .. Len(Scripts), identified \in SUBSET OldRows :
       /\ identified = {} \/ v = Len(Scripts)
       /\ corrupt \in IF v = Len(Scripts) THEN BOOLEAN ELSE {FALSE}
       /\ schema = UNION {Adds(s) : s \in 1 .. v}
       /\ contextId = IF v = 0 THEN << >>
                      ELSE [r \in OldRows |-> IF r \in identified
                                             THEN Place(r.name, OldNames) ELSE NoId]
       /\ uuids = IF v = Len(Scripts) THEN Cardinality(OldNames) ELSE 0
  /\ phase = "down" /\ script = 1 /\ statement = 1
  /\ crashes = 0 /\ refused = FALSE

-----------------------------------------------------------------------------
(* init_db() *)

\* connect(), CREATE TABLE IF NOT EXISTS schema_version, SELECT MAX(version).
OpenDatabase ==
  /\ phase = "down"
  /\ schema' = schema \cup {"schema_version"}
  /\ script' = Recorded + 1 /\ statement' = 1
  /\ phase' = "migrating" /\ refused' = FALSE
  /\ UNCHANGED <<contextId, uuids, corrupt, crashes>>

Pending == Scripts[script][statement]
Executable == Pending.needs \subseteq schema /\ (Pending.again \/ Pending.adds \notin schema)

RunStatement ==
  /\ phase = "migrating" /\ script <= Len(Scripts)
  /\ Executable
  /\ schema' = schema \cup {Pending.adds}
  /\ IF statement < Len(Scripts[script])
     THEN statement' = statement + 1 /\ script' = script
     ELSE statement' = 1 /\ script' = script + 1
  /\ UNCHANGED <<contextId, uuids, phase, corrupt, crashes, refused>>

\* OperationalError: the exception ends the lifespan, and with it the process.
StatementFails ==
  /\ phase = "migrating" /\ script <= Len(Scripts)
  /\ ~Executable
  /\ phase' = "down" /\ refused' = TRUE
  /\ UNCHANGED <<schema, contextId, uuids, script, statement, corrupt, crashes>>

Migrated ==
  /\ phase = "migrating" /\ script > Len(Scripts)
  /\ phase' = "backfilling"
  /\ UNCHANGED <<schema, contextId, uuids, script, statement, corrupt, crashes, refused>>

-----------------------------------------------------------------------------
(* _backfill_v2_rows(): one transaction.  The UPDATE is for all rows of the *)
(* context, those that have an identifier included.                         *)

\* Mutant of Unidentified: every context gets an identifier at every start.
Unidentified_All == {r.name : r \in DOMAIN contextId}

Unidentified == {r.name : r \in {q \in DOMAIN contextId : contextId[q] = NoId}}

\* Mutant of BackfilledId: the UPDATE is for one version.
BackfilledId_OneVersion(r) ==
  IF r.name \in Unidentified
  THEN uuids + Place(r.name, Unidentified) + 10 * r.version ELSE contextId[r]

BackfilledId(r) ==
  IF r.name \in Unidentified THEN uuids + Place(r.name, Unidentified) ELSE contextId[r]

Backfill ==
  /\ phase = "backfilling"
  /\ contextId' = [r \in DOMAIN contextId |-> BackfilledId(r)]
  /\ uuids' = uuids + Cardinality(Unidentified)
  /\ phase' = "loading"
  /\ UNCHANGED <<schema, script, statement, corrupt, crashes, refused>>

\* hydrate_runtime(): E201 for a payload without its checksum ends the process.
HydrationFails ==
  /\ phase = "loading" /\ corrupt
  /\ phase' = "down"
  /\ UNCHANGED <<schema, contextId, uuids, script, statement, corrupt, crashes, refused>>

StartStep ==
  OpenDatabase \/ RunStatement \/ StatementFails \/ Migrated \/ Backfill \/ HydrationFails

\* The environment refuses a statement, and the exception ends the process; an
\* open transaction is lost, what executescript() has done stays.
EnvironmentFails ==
  /\ phase \in {"migrating", "backfilling", "loading"} /\ crashes < MaxCrashes
  /\ phase' = "down" /\ crashes' = crashes + 1
  /\ UNCHANGED <<schema, contextId, uuids, script, statement, corrupt, refused>>

-----------------------------------------------------------------------------
(* Correctness *)

\* The version rows never promise more than is there, at whatever statement
\* the scripts were interrupted, and a process that got past init_db has all
\* of the schema (connection.py:46-70).
SchemaIsComplete ==
  /\ \A v \in DOMAIN Scripts : VersionRow[v] \in schema => Adds(v) \subseteq schema
  /\ phase \in {"backfilling", "loading", "serving"} => schema = Schema

\* No two contexts share an identifier, and the engine finds all versions of a
\* context under one, even if only some had one (context_catalog.py:46-77).
OneIdPerContext ==
  \A r, q \in DOMAIN contextId :
    /\ contextId[r] # NoId /\ contextId[r] = contextId[q] => r.name = q.name
    /\ phase \in {"loading", "serving"} /\ r.name = q.name =>
         contextId[r] # NoId /\ contextId[r] = contextId[q]

\* The identifier of a context of which every version has one is kept for
\* ever, through crashes and restarts and whatever the backfill does to other
\* contexts (context_catalog.py:51, test_hardening_runtime.py:326).
IdsAreStable ==
  [][\A r \in DOMAIN contextId :
       (\A q \in DOMAIN contextId : q.name = r.name => contextId[q] # NoId) =>
         contextId'[r] = contextId[r]]_contextId

\* The third script was interrupted after it had added a column.
Torn ==
  /\ VersionRow[3] \notin schema
  /\ \E i \in DOMAIN RuntimeState : ~RuntimeState[i].again /\ RuntimeState[i].adds \in schema

\* A statement of a start cannot be executed only on a file that an earlier
\* start tore, which a crash or the environment interrupted
\* (connection.py:59-68, 003_context_runtime_state.sql:3).
FailsOnlyWhenTorn == refused => Torn /\ crashes > 0
=============================================================================
