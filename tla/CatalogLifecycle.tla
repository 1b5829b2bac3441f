-------------------------- MODULE CatalogLifecycle --------------------------
(***************************************************************************)
(* CatalogService (app/services/catalog_service.py): the versions and      *)
(* lifecycle states of one context name under concurrent REST requests.    *)
(* A request is a sequence of engine statements, each committed on its own *)
(* by save_context or drop_context; the engine works from its in-memory    *)
(* entry, the service's reads from the table.                              *)
(*                                                                         *)
(* The engine is external: it carries out one statement on the name at a   *)
(* time, changes its entry, then has the repository save it.  What raises  *)
(* before the change, or makes the engine take it back, changes nothing;   *)
(* a save that fails otherwise leaves an entry that the table does not     *)
(* hold.                                                                   *)
(***************************************************************************)
EXTENDS Integers, FiniteSets

CONSTANTS
  Requests,    \* requests that may be under way at one time
  MaxFields,   \* fields of an update that are ALTER statements
  MaxVersion,  \* bound on the versions of a context
  MaxContexts  \* bound on the contexts created under the name

ASSUME BoundsAssumption ==
  MaxFields \in Nat /\ MaxVersion \in Nat \ {0} /\ MaxContexts \in Nat \ {0}

VARIABLES
  contexts,  \* the name's rows: [version |-> context_id and lifecycle_state]
  dropped,   \* versions whose row has dropped_at set
  entry,     \* the engine's entry: context_id, version, state; id 0 is no entry
  created,   \* the context_ids given so far are 1 .. created
  request,   \* [request |-> its next statement, the one after it, the context
             \*  it drops, ALTERs left, state it will set]
  deleted,   \* auxiliary: the context_ids whose DROP has been saved
  unsaved    \* auxiliary: since the engine last changed its entry, neither was
             \* that saved nor has a restart made good that it was not

vars == <<contexts, dropped, entry, created, request, deleted, unsaved>>

Versions == 1 .. MaxVersion
LifecycleStates == {"draft", "validated", "active", "retired"}
Ids == 0 .. MaxContexts
NoRow == [id |-> 0, state |-> "draft"]
NoEntry == [id |-> 0, version |-> 0, state |-> "draft"]

Steps == {"idle", "create", "alter", "validate", "set_state", "drop",
          "save", "mark", "audit"}
StepsAfterSave == {"idle", "alter", "set_state", "audit"}
RequestRecords ==
  [at : Steps, then : StepsAfterSave, id : Ids, left : 0 .. MaxFields, target : LifecycleStates]

TypeOK ==
  /\ contexts \in [Versions -> [id : Ids, state : LifecycleStates]]
  /\ dropped \subseteq Versions
  /\ entry \in [id : Ids, version : 0 .. MaxVersion, state : LifecycleStates]
  /\ created \in Ids
  /\ request \in [Requests -> RequestRecords]
  /\ deleted \subseteq Ids
  /\ unsaved \in BOOLEAN

Idle == [at |-> "idle", then |-> "idle", id |-> 0, left |-> 0, target |-> "draft"]

Init ==
  /\ contexts = [v \in Versions |-> NoRow]
  /\ dropped = {}
  /\ entry = NoEntry
  /\ created = 0
  /\ request = [r \in Requests |-> Idle]
  /\ deleted = {}
  /\ unsaved = FALSE

-----------------------------------------------------------------------------
(* Reads *)

Greatest(S) == CHOOSE v \in S : \A u \in S : u <= v

RowsOf(i) == {v \in Versions : contexts[v].id = i}
Visible == {v \in Versions : contexts[v].id # 0 /\ v \notin dropped}

\* The rows that are not dropped are of one context.
OneContext == \A v, w \in Visible : contexts[v].id = contexts[w].id

\* get() returns the row of version Latest, if there is one.
Exists == Visible # {}
Latest == Greatest(Visible)

\* list(lifecycle_state=s): the greatest version among the rows that match.
Listed(s) ==
  LET matching == {v \in Visible : contexts[v].state = s}
  IN  IF matching = {} THEN {} ELSE {Greatest(matching)}

-----------------------------------------------------------------------------
(* The repository *)

\* Mutant of SaveContext: the UPDATE's WHERE names the context only.
SaveContext_AllVersions(e) ==
  contexts' = [v \in Versions |->
                 IF v = e.version \/ contexts[v].id = e.id
                 THEN [id |-> e.id, state |-> e.state] ELSE contexts[v]]

\* UPDATE of the row with this context_id and version, else INSERT.
SaveContext(e) ==
  contexts' = [contexts EXCEPT ![e.version] = [id |-> e.id, state |-> e.state]]

\* UNIQUE(name, namespace, version) refuses a version of which another context
\* has a row, be it dropped.
InsertIsRefused(e) == contexts[e.version].id \notin {0, e.id}

\* Mutant of DropContext: only the latest version's row is marked.
DropContext_OneRow(i) == dropped' = dropped \cup {Greatest(RowsOf(i))}

DropContext(i) == dropped' = dropped \cup RowsOf(i)

Loaded(v) == [id |-> contexts[v].id, version |-> v, state |-> contexts[v].state]

\* Mutant of LoadContexts: the oldest row is taken for the latest.
LoadContexts_Oldest ==
  IF Exists
  THEN {Loaded(v) : v \in {v \in Visible : \A u \in Visible \cap RowsOf(contexts[v].id) : v <= u}}
  ELSE {NoEntry}

\* The latest row of each context; of two contexts of one name the engine keeps
\* either.
LoadContexts ==
  IF Exists
  THEN {Loaded(v) : v \in {v \in Visible : \A u \in Visible \cap RowsOf(contexts[v].id) : u <= v}}
  ELSE {NoEntry}

-----------------------------------------------------------------------------
(* Requests.  Each begins with get(), except create(). *)

At(r, step) == request[r].at = step
Become(r, next) == request' = [request EXCEPT ![r] = next]
Goto(r, step) == request' = [request EXCEPT ![r].at = step]

Begin(r, first) ==
  /\ At(r, "idle")
  /\ Become(r, first)
  /\ UNCHANGED <<contexts, dropped, entry, created, deleted, unsaved>>

Create(r) == Begin(r, [Idle EXCEPT !.at = "create"])

Update(r) ==
  Exists /\ \E n \in 0 .. MaxFields : Begin(r, [Idle EXCEPT !.at = "alter", !.left = n])

Validate(r) == Exists /\ Begin(r, [Idle EXCEPT !.at = "validate", !.target = "validated"])
Activate(r) == Exists /\ Begin(r, [Idle EXCEPT !.at = "set_state", !.target = "active"])
Retire(r) == Exists /\ Begin(r, [Idle EXCEPT !.at = "set_state", !.target = "retired"])

Delete(r) ==
  Exists /\ contexts[Latest].state = "draft" /\ Begin(r, [Idle EXCEPT !.at = "drop"])

-----------------------------------------------------------------------------
(* Statements: the engine's change of its entry ... *)

Busy == \E r \in Requests : At(r, "save") \/ At(r, "mark")

Enter(e) ==
  /\ ~Busy
  /\ entry' = e
  /\ unsaved' = TRUE
  /\ UNCHANGED <<contexts, dropped, deleted>>

CreateContext(r) ==
  /\ At(r, "create")
  /\ entry = NoEntry /\ created < MaxContexts
  /\ created' = created + 1
  /\ \E s \in {"draft", "active"} : Enter([id |-> created + 1, version |-> 1, state |-> s])
  /\ Become(r, [request[r] EXCEPT !.at = "save", !.then = "set_state"])

\* ALTER CONTEXT of one field: a new version, in the old one's state or active.
Alter(r, s) ==
  /\ At(r, "alter")
  /\ entry # NoEntry /\ entry.version < MaxVersion
  /\ s \in {entry.state, "active"}
  /\ Enter([entry EXCEPT !.version = @ + 1, !.state = s])
  /\ Become(r, [request[r] EXCEPT !.at = "save", !.then = "alter", !.left = @ - 1])
  /\ UNCHANGED created

\* Mutant of AlterField: an ALTER is sent also for a field that was not given.
AlterField_Always(r) == \E s \in LifecycleStates : Alter(r, s)

AlterField(r) == request[r].left > 0 /\ \E s \in LifecycleStates : Alter(r, s)

NoFieldLeft(r) ==
  /\ At(r, "alter") /\ request[r].left = 0
  /\ Goto(r, "set_state")
  /\ UNCHANGED <<contexts, dropped, entry, created, deleted, unsaved>>

ValidateContext(r) ==
  /\ At(r, "validate") /\ entry # NoEntry
  /\ Goto(r, "set_state")
  /\ UNCHANGED <<contexts, dropped, entry, created, deleted, unsaved>>

SetState(r) ==
  /\ At(r, "set_state") /\ entry # NoEntry
  /\ Enter([entry EXCEPT !.state = request[r].target])
  /\ Become(r, [request[r] EXCEPT !.at = "save", !.then = "audit"])
  /\ UNCHANGED created

Drop(r) ==
  /\ At(r, "drop") /\ entry # NoEntry
  /\ Enter(NoEntry)
  /\ Become(r, [request[r] EXCEPT !.at = "mark", !.then = "audit", !.id = entry.id])
  /\ UNCHANGED created

-----------------------------------------------------------------------------
(* ... and its save *)

Resume(r) ==
  Become(r, [request[r] EXCEPT !.at = request[r].then, !.then = "idle", !.id = 0])

Save(r) ==
  /\ At(r, "save") /\ ~InsertIsRefused(entry)
  /\ SaveContext(entry)
  /\ Resume(r)
  /\ UNCHANGED <<dropped, entry, created, deleted>>
  /\ unsaved' = ~OneContext'

Mark(r) ==
  /\ At(r, "mark")
  /\ DropContext(request[r].id)
  /\ deleted' = deleted \cup {request[r].id}
  /\ Resume(r)
  /\ UNCHANGED <<contexts, entry, created>>
  /\ unsaved' = Exists'

\* _audit_log, and the request returns.
Audit(r) ==
  /\ At(r, "audit")
  /\ Become(r, Idle)
  /\ UNCHANGED <<contexts, dropped, entry, created, deleted, unsaved>>

\* A statement raises: the engine refuses it, a constraint or a full disk its
\* save, or the audit log its row.  What the engine has entered stays entered.
Raise(r) ==
  /\ ~At(r, "idle")
  /\ Become(r, Idle)
  /\ UNCHANGED <<contexts, dropped, entry, created, deleted, unsaved>>

\* The process stops; the next one's engine loads its entries.
Restart ==
  /\ request' = [r \in Requests |-> Idle]
  /\ entry' \in LoadContexts
  /\ unsaved' = ~OneContext
  /\ UNCHANGED <<contexts, dropped, created, deleted>>

-----------------------------------------------------------------------------
Next ==
  \/ \E r \in Requests :
       \/ Create(r) \/ Update(r) \/ Validate(r) \/ Activate(r) \/ Retire(r) \/ Delete(r)
       \/ CreateContext(r) \/ AlterField(r) \/ NoFieldLeft(r) \/ ValidateContext(r)
       \/ SetState(r) \/ Drop(r) \/ Save(r) \/ Mark(r) \/ Audit(r) \/ Raise(r)
  \/ Restart

Spec == Init /\ [][Next]_vars

-----------------------------------------------------------------------------
(* Correctness *)

\* Two views of one context agree, restarts included: the engine's entry is
\* what get() returns, and it has none for a context that get() does not find
\* (catalog_service.py:92-104, context_catalog.py:79-96).  They differ while a
\* statement is being saved, and after a save that has failed, until the next
\* one or a restart; for longer only if the name has come to have rows of two
\* contexts.
EntryIsLatestRow ==
  ~unsaved =>
    IF Exists THEN entry = Loaded(Latest) ELSE entry = NoEntry

\* Versions are a history: no request, and no interleaving of two, touches the
\* row of a version that a later one of the same context has replaced, nor does
\* a statement whose predecessor's save failed (context_catalog.py:184-197).
OldVersionsFrozen ==
  [][\A v, w \in Versions :
       v < w /\ contexts[v].id # 0 /\ contexts[w].id = contexts[v].id =>
         contexts'[v] = contexts[v]]_vars

\* A context that has been dropped never comes back, in the table, in the
\* engine or by a restart, although other requests were under way and saves
\* failed (catalog_service.py:198-215, context_catalog.py:200-210).
DeletedStaysDeleted ==
  \A i \in deleted : RowsOf(i) \subseteq dropped /\ entry.id # i

\* The claim of catalog_service.py:126: a listing shows latest versions only.
ListShowsLatest == \A s \in LifecycleStates : \A v \in Listed(s) : v = Latest
=============================================================================
