---------------------------- MODULE ControlPlane ----------------------------
(***************************************************************************)
(* The server's life around its requests: each run starts with Migrations, *)
(* copies the identity maps to the engine (main.py:62), serves requests on *)
(* the provider and identity registries from a pool of threads, and ends   *)
(* by a stop or a crash.                                                   *)
(*                                                                         *)
(* A change is a statement and a commit(), its audit row another statement *)
(* and another commit(), on the connection that all components share: a    *)
(* commit() of any thread makes durable what the others have executed, a   *)
(* rollback() of the runtime repository or of the synchronizer's state     *)
(* store discards it.  Of a change the tables keep that it happened.       *)
(***************************************************************************)
EXTENDS Migrations, SequencesExt

CONSTANTS
  Providers,   \* names, numbered from 1 in the order of ORDER BY name
  MapRows,     \* the identity maps a client may register: [name, namespace, path]
  Threads,     \* requests that run at the same time
  PageLimit,   \* the limit of a client that pages through a listing
  MaxChanges   \* bound on the requests for a change

ASSUME ProvidersAssumption == Providers \subseteq Nat \ {0} /\ IsFiniteSet(Providers)
ASSUME PageLimitAssumption == PageLimit \in Nat \ {0}

VARIABLES
  db,          \* the tables as the shared connection sees them
  saved,       \* the tables as of the last commit
  pending,     \* where each thread is in its request
  changes,     \* requests for a change so far, which number them
  answered,    \* auxiliary: those that were answered with success
  undone,      \* auxiliary: those whose statement a rollback discarded
  unlogged,    \* auxiliary: those whose audit row a rollback discarded
  engineMaps,  \* the engine's identity maps, by name
  loaded,      \* auxiliary: rows of identity_maps when the engine was loaded
  reader       \* a client that lists a table page by page

requestVars == <<pending, changes, answered>>
engineVars == <<engineMaps, loaded>>
vars == <<startVars, db, saved, requestVars, undone, unlogged, engineVars, reader>>

-----------------------------------------------------------------------------
(* Tables and requests *)

\* The providers, the identity maps by rowid, the changes that the rows hold,
\* and the audit log by id: a row is the number of its change.
Tables ==
  [providers : SUBSET Providers, maps : Seq(MapRows), changed : SUBSET Nat, log : Seq(Nat)]

NoTables == [providers |-> {}, maps |-> << >>, changed |-> {}, log |-> << >>]

Steps == {"idle", "update", "commit", "log", "commit log"}
Nobody == 0
NoRequest == [step |-> "idle", change |-> 0, provider |-> Nobody]

\* unread holds the rows that were there when the client began and that no
\* page has shown it; missed, that it stopped with some left.  raced: a row
\* came after the page's count; shrunk: a rollback took rows away.
NoReader ==
  [table |-> "none", step |-> "idle", offset |-> 0, total |-> 0, unread |-> {},
   raced |-> FALSE, shrunk |-> FALSE]

TypeOK ==
  /\ StartTypeOK
  /\ db \in Tables /\ saved \in Tables
  /\ \A i, j \in DOMAIN db.maps :
       db.maps[i].name = db.maps[j].name /\ db.maps[i].namespace = db.maps[j].namespace => i = j
  /\ pending \in [Threads -> [step : Steps, change : Nat, provider : Providers \cup {Nobody}]]
  /\ changes \in Nat
  /\ answered \subseteq Nat /\ undone \subseteq Nat /\ unlogged \subseteq Nat
  /\ loaded \in Nat

Init ==
  /\ StartInit
  /\ db = NoTables /\ saved = NoTables
  /\ pending = [t \in Threads |-> NoRequest] /\ changes = 0 /\ answered = {}
  /\ undone = {} /\ unlogged = {}
  /\ engineMaps = << >> /\ loaded = 0
  /\ reader = NoReader

-----------------------------------------------------------------------------
(* The end of a start: IdentityService.sync_to_engine() *)

\* The rows come in the order of their ids; the engine keeps one map of a name.
\* Mutant of MapsByName: the first row of a name wins.
MapsByName_First ==
  [name \in {db.maps[i].name : i \in DOMAIN db.maps} |->
     db.maps[SelectInSeq(db.maps, LAMBDA m : m.name = name)].path]

MapsByName ==
  [name \in {db.maps[i].name : i \in DOMAIN db.maps} |->
     db.maps[SelectLastInSeq(db.maps, LAMBDA m : m.name = name)].path]

LoadEngine ==
  /\ phase = "loading" /\ ~corrupt
  /\ engineMaps' = MapsByName /\ loaded' = Len(db.maps)
  /\ phase' = "serving"
  /\ UNCHANGED <<schema, contextId, uuids, script, statement, corrupt, crashes, refused>>
  /\ UNCHANGED <<db, saved, requestVars, undone, unlogged, reader>>

-----------------------------------------------------------------------------
(* Requests.  A statement that SQLite refuses (UNIQUE, or a file that is    *)
(* locked) changes nothing and ends the request.                            *)

Begin(t, step, p) ==
  /\ phase = "serving" /\ pending[t].step = "idle" /\ changes < MaxChanges
  /\ changes' = changes + 1
  /\ pending' = [pending EXCEPT ![t] = [step |-> step, change |-> changes + 1, provider |-> p]]
  /\ UNCHANGED <<startVars, saved, answered, unlogged, engineVars>>

\* INSERT INTO providers; UNIQUE(name, namespace) refuses a second row.
Register(t, p) ==
  /\ Begin(t, "commit", Nobody)
  /\ p \notin db.providers
  /\ db' = [db EXCEPT !.providers = @ \cup {p}, !.changed = @ \cup {changes + 1}]
  /\ reader' = [reader EXCEPT !.raced =
                  @ \/ (reader.step = "counted" /\ reader.table = "providers")]
  /\ UNCHANGED undone

\* UNIQUE(name, namespace)
Fresh(m) ==
  \A i \in DOMAIN db.maps : db.maps[i].name = m.name => db.maps[i].namespace # m.namespace

\* INSERT INTO identity_maps; the engine is not told.
RegisterMap(t, m) ==
  /\ Begin(t, "commit", Nobody)
  /\ Fresh(m)
  /\ db' = [db EXCEPT !.maps = Append(@, m), !.changed = @ \cup {changes + 1}]
  /\ UNCHANGED <<undone, reader>>

\* update() with at least one field, enable(), disable(), record_health(): the
\* row is read first (404 or "not found" without it) ...
Find(t, p) ==
  /\ Begin(t, "update", p)
  /\ p \in db.providers
  /\ UNCHANGED <<db, undone, reader>>

\* ... and an UPDATE that then finds no row changes nothing, and does not raise.
Update(t) ==
  /\ phase = "serving" /\ pending[t].step = "update"
  /\ IF pending[t].provider \in db.providers
     THEN db' = [db EXCEPT !.changed = @ \cup {pending[t].change}] /\ undone' = undone
     ELSE undone' = undone \cup {pending[t].change} /\ db' = db
  /\ pending' = [pending EXCEPT ![t].step = "commit"]
  /\ UNCHANGED <<startVars, saved, changes, answered, unlogged, engineVars, reader>>

CommitChange(t) ==
  /\ phase = "serving" /\ pending[t].step = "commit"
  /\ saved' = db
  /\ pending' = [pending EXCEPT ![t].step = "log"]
  /\ UNCHANGED <<startVars, db, changes, answered, undone, unlogged, engineVars, reader>>

\* audit.log(): INSERT INTO audit_log ...
Log(t) ==
  /\ phase = "serving" /\ pending[t].step = "log"
  /\ db' = [db EXCEPT !.log = Append(@, pending[t].change)]
  /\ pending' = [pending EXCEPT ![t].step = "commit log"]
  /\ UNCHANGED <<startVars, saved, changes, answered, undone, unlogged, engineVars, reader>>

\* Mutant of CommitLog: without the commit.
CommitLog_Later(t) ==
  /\ phase = "serving" /\ pending[t].step = "commit log"
  /\ answered' = answered \cup {pending[t].change}
  /\ pending' = [pending EXCEPT ![t] = NoRequest]
  /\ UNCHANGED <<startVars, db, saved, changes, undone, unlogged, engineVars, reader>>

\* ... and its commit; then the row is read and the request is answered.
CommitLog(t) ==
  /\ phase = "serving" /\ pending[t].step = "commit log"
  /\ saved' = db
  /\ answered' = answered \cup {pending[t].change}
  /\ pending' = [pending EXCEPT ![t] = NoRequest]
  /\ UNCHANGED <<startVars, db, changes, undone, unlogged, engineVars, reader>>

\* A statement or a commit() raises: the request fails (register_provider
\* answers 400, the others 500), and what it has executed stays where it is.
Raise(t) ==
  /\ phase = "serving" /\ pending[t].step # "idle"
  /\ pending' = [pending EXCEPT ![t] = NoRequest]
  /\ UNCHANGED <<startVars, db, saved, changes, answered, undone, unlogged, engineVars, reader>>

-----------------------------------------------------------------------------
(* Other components on the shared connection *)

\* commit() of the catalog, the runtime repository or the state store.
CommitElsewhere ==
  /\ phase = "serving" /\ db # saved
  /\ saved' = db
  /\ UNCHANGED <<startVars, db, requestVars, undone, unlogged, engineVars, reader>>

\* The keys of a listing's rows: names, and ids.
Listing(tables, table) ==
  IF table = "providers" THEN tables.providers ELSE DOMAIN tables.log

\* The tables are what they were at the last commit.
Rewind ==
  /\ db' = saved
  /\ reader' = [reader EXCEPT !.shrunk =
                  @ \/ /\ reader.step \in {"count", "counted"}
                       /\ Listing(db, reader.table) # Listing(saved, reader.table)]
  /\ UNCHANGED saved

\* rollback() of a promotion that failed, or of a state commit.
RollBackElsewhere ==
  /\ phase = "serving" /\ db # saved
  /\ Rewind
  /\ undone' = undone \cup (db.changed \ saved.changed)
  /\ unlogged' = unlogged \cup (ToSet(db.log) \ ToSet(saved.log))
  /\ UNCHANGED <<startVars, requestVars, engineVars>>

-----------------------------------------------------------------------------
(* A client that reads a listing page by page, by limit and offset.  The    *)
(* providers' pages come with the number of rows, from a statement of its   *)
(* own; with it the client stops, without it at a short page.               *)

\* Where a row stands: ORDER BY name, and ORDER BY id DESC.
Position(table, key) ==
  IF table = "providers" THEN Place(key, db.providers) ELSE Len(db.log) + 1 - key

Read(next) ==
  /\ phase = "serving" /\ reader' = next
  /\ UNCHANGED <<startVars, db, saved, requestVars, undone, unlogged, engineVars>>

StartListing(table) ==
  /\ reader.step = "idle"
  /\ Read([NoReader EXCEPT !.table = table, !.unread = Listing(db, table),
                            !.step = IF table = "providers" THEN "count" ELSE "counted"])

\* SELECT COUNT(*)
CountRows ==
  /\ reader.step = "count"
  /\ Read([reader EXCEPT !.total = Cardinality(db.providers), !.step = "counted"])

\* Mutant of NextOffset: the offset of the next page is one too far.
NextOffset_Skips == reader.offset + PageLimit + 1

NextOffset == reader.offset + PageLimit

\* The rows of a page: those at the places the client asks for.
PageRows ==
  {key \in Listing(db, reader.table) :
     Position(reader.table, key) \in reader.offset + 1 .. reader.offset + PageLimit}

\* SELECT ... LIMIT ? OFFSET ?
SelectRows ==
  /\ reader.step = "counted"
  /\ LET unread == reader.unread \ PageRows
         more == [reader EXCEPT !.unread = unread, !.offset = NextOffset]
     IN Read(IF reader.table = "log" /\ Cardinality(PageRows) = PageLimit THEN more
             ELSE IF reader.table = "providers" /\ NextOffset < reader.total
             THEN [more EXCEPT !.step = "count", !.total = 0, !.raced = FALSE]
             ELSE IF unread = {} THEN NoReader
             ELSE [NoReader EXCEPT !.step = "missed", !.raced = reader.raced,
                                   !.shrunk = reader.shrunk])

-----------------------------------------------------------------------------
(* The start and the end of a run *)

Start(step) ==
  /\ step
  /\ UNCHANGED <<db, saved, requestVars, undone, unlogged, engineVars, reader>>

ServerStart == Start(StartStep)
StartInterrupted == Start(EnvironmentFails)

\* The process dies wherever it is, and with it the open transaction.
Crash ==
  /\ phase # "down" /\ crashes < MaxCrashes
  /\ phase' = "down" /\ crashes' = crashes + 1
  /\ Rewind
  /\ pending' = [t \in Threads |-> NoRequest]
  /\ engineMaps' = << >>
  /\ UNCHANGED <<schema, contextId, uuids, script, statement, corrupt, refused>>
  /\ UNCHANGED <<changes, answered, undone, unlogged, loaded>>

\* The server waits for its requests, then lifespan() logs the stop, whose
\* commit is for all that is open, and closes the database.
Stop ==
  /\ phase = "serving" /\ \A t \in Threads : pending[t].step = "idle"
  /\ phase' = "down" /\ saved' = db /\ engineMaps' = << >>
  /\ UNCHANGED <<schema, contextId, uuids, script, statement, corrupt, crashes, refused>>
  /\ UNCHANGED <<db, requestVars, undone, unlogged, loaded, reader>>

Request(t) ==
  \/ \E p \in Providers : Register(t, p) \/ Find(t, p)
  \/ \E m \in MapRows : RegisterMap(t, m)
  \/ Update(t)
  \/ CommitChange(t)
  \/ Log(t)
  \/ CommitLog(t)
  \/ Raise(t)

Next ==
  \/ ServerStart
  \/ StartInterrupted
  \/ LoadEngine
  \/ \E t \in Threads : Request(t)
  \/ CommitElsewhere
  \/ RollBackElsewhere
  \/ \E table \in {"providers", "log"} : StartListing(table)
  \/ CountRows
  \/ SelectRows
  \/ Stop
  \/ Crash

Spec == Init /\ [][Next]_vars

\* A server that is down is started again, and its start runs on.
FairSpec == Spec /\ WF_vars(ServerStart) /\ WF_vars(LoadEngine)

-----------------------------------------------------------------------------
(* Correctness *)

\* A change that was answered is durable and has a durable audit row, and a
\* durable audit row has its change, at whatever statement of whichever thread
\* requests failed or the process died; except what another component's
\* rollback discarded between a statement and its commit
\* (provider_service.py:30-42, 114-120, audit_service.py:31-40,
\* context_catalog.py:349).
AnswersAreAudited ==
  /\ answered \ undone \subseteq saved.changed
  /\ answered \ unlogged \subseteq ToSet(saved.log)
  /\ ToSet(saved.log) \ undone \subseteq saved.changed

\* The engine has the maps that were registered before the server started and
\* none of those that came since; of two maps of one name in two namespaces it
\* has the later, and no rollback takes one from under it
\* (identity_service.py:37-54, 97-110, main.py:62).
EngineServesRegisteredMaps ==
  phase = "serving" =>
    /\ loaded <= Len(saved.maps)
    /\ DOMAIN engineMaps = {saved.maps[i].name : i \in 1 .. loaded}
    /\ \A i \in 1 .. loaded :
         (\A j \in i + 1 .. loaded : saved.maps[j].name # saved.maps[i].name) =>
           engineMaps[saved.maps[i].name] = saved.maps[i].path

\* A client that pages through a listing while rows are added may read a row
\* twice, but misses none that was there when it began, unless a provider came
\* between the last page's count and its rows, or a rollback took rows of the
\* table away (provider_service.py:73-83, audit_service.py:73-78).
ListingMissesNothing ==
  reader.step = "missed" => reader.raced \/ reader.shrunk

\* A server gets to serve again and again, unless an interrupted start has torn
\* the third migration, or a payload is damaged: then it never does
\* (connection.py:46-70, context_catalog.py:369).
StartupConverges == []<>(phase = "serving") \/ <>[](Torn \/ corrupt)
=============================================================================
