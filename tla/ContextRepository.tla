-------------------------- MODULE ContextRepository --------------------------
(***************************************************************************)
(* The catalog database and the one SQLite connection every service of the *)
(* server shares (app/db/connection.py opens it with                       *)
(* check_same_thread=False).  A step is one statement on the connection:   *)
(* statements are atomic, but a transaction belongs to the connection and  *)
(* not to the thread that began it, so any thread's commit() or rollback() *)
(* ends whatever transaction is open.  The repository's own operations     *)
(* exclude each other by its _lock; the others take no lock or another.    *)
(*                                                                         *)
(* The operations are those of SQLiteContextRuntimeRepository for one      *)
(* context, of SQLiteSynchronizerStateRepository, and the writes that are  *)
(* one statement and a commit(): those of the audit, provider and identity *)
(* services, save_context and record_execution.                            *)
(***************************************************************************)
EXTENDS Integers, FiniteSets

CONSTANTS
  Writers,        \* threads that make plain writes
  LockedWriters,  \* those of them that call the repository and hold its _lock
  Refresher, Saver, Pruner,  \* the threads of the three transactional operations
  MaxVersion,     \* bound on snapshot versions
  Eventful,       \* the versions whose members differ from the version before
  MaxWrites,      \* bound on the writes and state commits of one thread
  MaxFaults       \* bound on failing statements and crashes

ASSUME WritersAssumption == IsFiniteSet(Writers) /\ LockedWriters \subseteq Writers
ASSUME ThreadsAssumption ==
  /\ Refresher \notin Writers \cup {Saver, Pruner}
  /\ Saver \notin Writers \cup {Pruner}
  /\ Pruner \notin Writers
ASSUME BoundsAssumption == MaxVersion \in Nat /\ MaxWrites \in Nat /\ MaxFaults \in Nat

Threads == Writers \cup {Refresher, Saver, Pruner}
Versions == 1 .. MaxVersion
Rows == Writers \X (1 .. MaxWrites)

VARIABLES
  disk,      \* the committed database
  conn,      \* the database as the connection sees it
  inTx,      \* is a transaction open on the connection?
  pc,        \* [thread |-> its next statement]
  version,   \* the version the refresher promotes
  anchor,    \* the snapshot the pruner keeps
  memory,    \* version of the engine's in-memory current snapshot
  entry,     \* current_snapshot_version of the engine's catalog entry
  argument,  \* [locked writer |-> that field of the entry it hands to save_context]
  written,   \* [thread |-> writes it has begun]
  returned,  \* rows whose write has returned to its caller
  faults,    \* failed statements and crashes so far
  cut,       \* has a thread without the _lock ended a transaction half-way?
  lost       \* rows rolled back by a thread that shares no lock with their writer

engineVars == <<memory, entry>>
writerVars == <<argument, written, returned>>
histVars == <<cut, lost>>
localVars == <<version, anchor, engineVars, writerVars>>
vars == <<disk, conn, inTx, pc, localVars, faults, histVars>>

States == {"none", "building", "current", "superseded"}

Database ==
  [payloads : SUBSET Versions,      \* context_snapshot_payloads
   state : [Versions -> States],    \* context_snapshots; "none" is no row
   pointer : 0 .. MaxVersion,       \* contexts.current_snapshot_version
   stale : BOOLEAN,                 \* did save_context write another than the current?
   history : SUBSET Versions,       \* versions with context_membership_history rows
   mark : 0 .. MaxWrites,           \* context_sync_state.committed_watermark
   rows : SUBSET Rows]              \* everything the plain writes insert

PromoteCalls == {"payload", "snapshot", "supersede", "current", "point", "history",
                 "commit", "publish"}
PruneCalls == {"delete_payloads", "delete_snapshots", "delete_history", "commit"}
SaveCalls == {"upsert", "commit"}

TypeOK ==
  /\ disk \in Database /\ conn \in Database
  /\ inTx \in BOOLEAN
  /\ pc \in [Threads -> {"idle", "save", "rollback"}
                          \cup PromoteCalls \cup PruneCalls \cup SaveCalls]
  /\ version \in 0 .. MaxVersion /\ anchor \in 0 .. MaxVersion
  /\ memory \in 0 .. MaxVersion /\ entry \in 0 .. MaxVersion
  /\ argument \in [LockedWriters -> 0 .. MaxVersion]
  /\ written \in [Writers \cup {Saver} -> 0 .. MaxWrites]
  /\ returned \subseteq Rows /\ lost \subseteq Rows
  /\ faults \in 0 .. MaxFaults
  /\ cut \in BOOLEAN

EmptyDatabase ==
  [payloads |-> {}, state |-> [v \in Versions |-> "none"], pointer |-> 0,
   stale |-> FALSE, history |-> {}, mark |-> 0, rows |-> {}]

Init ==
  /\ disk = EmptyDatabase /\ conn = EmptyDatabase /\ inTx = FALSE
  /\ pc = [t \in Threads |-> "idle"]
  /\ version = 0 /\ anchor = 0 /\ memory = 0 /\ entry = 0
  /\ argument = [w \in LockedWriters |-> 0]
  /\ written = [t \in Writers \cup {Saver} |-> 0]
  /\ returned = {}
  /\ faults = 0
  /\ cut = FALSE /\ lost = {}

-----------------------------------------------------------------------------
(* The connection *)

Goto(t, call) == pc' = [pc EXCEPT ![t] = call]

\* The threads that share the repository's RLock, and those that hold it: from
\* an operation's first statement to its return.
Guarded == LockedWriters \cup {Refresher, Pruner}
Holding == {t \in Guarded : pc[t] \notin {"idle", "save", "publish"}}

\* A thread of the repository waits for the lock; the synchronizer repository
\* and the services have locks of their own or none.
FreeLock(t) == t \in Guarded => Holding = {}

\* Has a promotion or a pruning statements that are not committed?
HalfWay ==
  \/ conn.payloads # disk.payloads
  \/ conn.state # disk.state
  \/ conn.history # disk.history

EndsTransaction(t) == cut' = (cut \/ (t \notin Guarded /\ HalfWay))

\* BEGIN IMMEDIATE, which fails inside a transaction.
BeginImmediate(t, call) ==
  /\ pc[t] = "idle" /\ FreeLock(t)
  /\ IF inTx THEN Goto(t, "rollback") /\ UNCHANGED inTx
             ELSE Goto(t, call) /\ inTx' = TRUE
  /\ UNCHANGED <<disk, conn, engineVars, faults, histVars>>

\* A statement that changes rows; outside a transaction sqlite3 opens one.
Execute(db) == conn' = db /\ inTx' = TRUE /\ UNCHANGED disk

\* commit() and rollback() end the transaction that is open, whose ever it is.
Commit(t) ==
  /\ disk' = conn /\ inTx' = FALSE
  /\ EndsTransaction(t)
  /\ UNCHANGED <<conn, lost>>

SharesNoLock(t, w) == t # w /\ ~(t \in Guarded /\ w \in Guarded)

Rollback(t) ==
  /\ conn' = disk /\ inTx' = FALSE
  /\ EndsTransaction(t)
  /\ lost' = lost \cup {r \in conn.rows \ disk.rows : SharesNoLock(t, r[1])}
  /\ UNCHANGED disk

\* One statement of a transactional operation, and one that a constraint
\* refuses.
Statement(t, call, next, db) ==
  /\ pc[t] = call /\ Goto(t, next)
  /\ Execute(db)
  /\ UNCHANGED <<localVars, faults, histVars>>

Refused(t, call) == Statement(t, call, "rollback", conn)

\* In a transactional operation a failing statement, or a failing commit(),
\* leads to rollback().
StatementFails(t) ==
  /\ pc[t] \notin {"idle", "rollback", "publish"}
  /\ faults < MaxFaults /\ faults' = faults + 1
  /\ Goto(t, "rollback")
  /\ UNCHANGED <<disk, conn, inTx, localVars, histVars>>

\* Mutant of RollBackAndRaise: the except clause raises without rollback().
RollBackAndRaise_NoRollback(t) ==
  /\ pc[t] = "rollback" /\ Goto(t, "idle")
  /\ UNCHANGED <<disk, conn, inTx, localVars, faults, histVars>>

RollBackAndRaise(t) ==
  /\ pc[t] = "rollback" /\ Goto(t, "idle")
  /\ Rollback(t)
  /\ UNCHANGED <<localVars, faults>>

-----------------------------------------------------------------------------
(* promote_snapshot.  The engine stages the next version, has it promoted   *)
(* and only then publishes it in memory.                                    *)

BeginsWith(n) ==
  /\ memory < MaxVersion
  /\ BeginImmediate(Refresher, "payload")
  /\ version' = n
  /\ UNCHANGED <<anchor, writerVars>>

\* Mutant of BeginPromotion: a failed promotion has used its number up.
BeginPromotion_NumberUsedUp == BeginsWith(version + 1)

BeginPromotion == BeginsWith(memory + 1)

\* PRIMARY KEY (context_id, version)
InsertPayload ==
  IF version \in conn.payloads
  THEN Refused(Refresher, "payload")
  ELSE Statement(Refresher, "payload", "snapshot",
         [conn EXCEPT !.payloads = @ \cup {version}])

\* UNIQUE(context_id, version)
InsertSnapshot ==
  /\ pc[Refresher] = "snapshot"
  /\ IF conn.state[version] # "none"
     THEN Refused(Refresher, "snapshot")
     ELSE Statement(Refresher, "snapshot", "supersede",
            [conn EXCEPT !.state[version] = "building"])

\* Mutant of SupersedeCurrent: the UPDATE is missing.
SupersedeCurrent_Missing == Statement(Refresher, "supersede", "current", conn)

SupersedeCurrent ==
  Statement(Refresher, "supersede", "current",
    [conn EXCEPT !.state =
       [v \in Versions |-> IF @[v] = "current" THEN "superseded" ELSE @[v]]])

\* An UPDATE of a row that may have gone; the partial unique index allows one
\* current row.
MakeCurrent ==
  /\ pc[Refresher] = "current"
  /\ CASE conn.state[version] = "none" ->
            Statement(Refresher, "current", "point", conn)
       [] conn.state[version] # "none" /\ \E v \in Versions : conn.state[v] = "current" ->
            Refused(Refresher, "current")
       [] OTHER ->
            Statement(Refresher, "current", "point",
              [conn EXCEPT !.state[version] = "current"])

\* Mutant of PointContext: the transaction is committed before the history.
PointContext_CommitsEarly ==
  /\ pc[Refresher] = "point" /\ Goto(Refresher, "history")
  /\ conn' = [conn EXCEPT !.pointer = version, !.stale = FALSE]
  /\ disk' = conn' /\ inTx' = FALSE
  /\ UNCHANGED <<localVars, faults, histVars>>

PointContext ==
  Statement(Refresher, "point", "history",
    [conn EXCEPT !.pointer = version, !.stale = FALSE])

\* INSERT OR IGNORE, a row for each member that came, went or changed its score.
InsertHistory ==
  Statement(Refresher, "history", "commit",
    [conn EXCEPT !.history = @ \cup ({version} \cap Eventful)])

CommitPromotion ==
  /\ pc[Refresher] = "commit" /\ Goto(Refresher, "publish")
  /\ Commit(Refresher)
  /\ UNCHANGED <<localVars, faults>>

\* promote_snapshot has returned, its lock is free: the engine publishes.
PublishInMemory ==
  /\ pc[Refresher] = "publish" /\ Goto(Refresher, "idle")
  /\ memory' = version /\ entry' = version
  /\ UNCHANGED <<disk, conn, inTx, version, anchor, writerVars, faults, histVars>>

-----------------------------------------------------------------------------
(* prune_history.  The anchor is the latest snapshot whose data_as_of is    *)
(* not after the cutoff; history rows before the cutoff go, the anchor's    *)
(* own perhaps among them.                                                  *)

BeginPrune ==
  /\ \E a \in {v \in Versions : conn.state[v] # "none"} : anchor' = a
  /\ BeginImmediate(Pruner, "delete_payloads")
  /\ UNCHANGED <<version, writerVars>>

DeletePayloads ==
  Statement(Pruner, "delete_payloads", "delete_snapshots",
    [conn EXCEPT !.payloads = {v \in @ : v >= anchor}])

DeleteSnapshots ==
  Statement(Pruner, "delete_snapshots", "delete_history",
    [conn EXCEPT !.state = [v \in Versions |-> IF v < anchor THEN "none" ELSE @[v]]])

DeleteHistory ==
  \E last \in {anchor - 1, anchor} :
    Statement(Pruner, "delete_history", "commit",
      [conn EXCEPT !.history = {v \in @ : v > last}])

CommitPrune ==
  /\ pc[Pruner] = "commit" /\ Goto(Pruner, "idle")
  /\ Commit(Pruner)
  /\ UNCHANGED <<localVars, faults>>

-----------------------------------------------------------------------------
(* SQLiteSynchronizerStateRepository.commit *)

Writes(t) == written[t] < MaxWrites /\ written' = [written EXCEPT ![t] = @ + 1]

BeginSave ==
  /\ Writes(Saver)
  /\ BeginImmediate(Saver, "upsert")
  /\ UNCHANGED <<version, anchor, argument, returned>>

UpsertMark == Statement(Saver, "upsert", "commit", [conn EXCEPT !.mark = written[Saver]])

CommitSave ==
  /\ pc[Saver] = "commit" /\ Goto(Saver, "idle")
  /\ Commit(Saver)
  /\ UNCHANGED <<localVars, faults>>

-----------------------------------------------------------------------------
(* Plain writes: one statement and commit(), with no rollback on failure.   *)

Inserts(w, db) ==
  /\ Writes(w) /\ Goto(w, "commit")
  /\ Execute([db EXCEPT !.rows = @ \cup {<<w, written'[w]>>}])
  /\ UNCHANGED <<version, anchor, engineVars, argument, returned, faults, histVars>>

\* Mutant of InsertRow: the repository writes without its lock.
InsertRow_Unlocked(w) == pc[w] = "idle" /\ Inserts(w, conn)

InsertRow(w) == pc[w] = "idle" /\ FreeLock(w) /\ Inserts(w, conn)

\* The engine hands its entry to save_context, which then waits for the lock.
CallSaveContext(w) ==
  /\ pc[w] = "idle" /\ Goto(w, "save")
  /\ written[w] < MaxWrites
  /\ argument' = [argument EXCEPT ![w] = entry]
  /\ UNCHANGED <<disk, conn, inTx, version, anchor, engineVars, written, returned,
                 faults, histVars>>

PointsTo(db, p) == \A v \in Versions : db.state[v] = "current" <=> v = p

\* save_context rewrites every column of the context's row, the snapshot pointer
\* among them, from the entry it was called with.
SaveContext(w) ==
  /\ pc[w] = "save" /\ FreeLock(w)
  /\ Inserts(w, [conn EXCEPT !.pointer = argument[w],
                             !.stale = ~PointsTo(conn, argument[w])])

\* A constraint refuses the INSERT (a provider registered twice), or commit()
\* raises: the exception leaves the transaction open.
WriteRaises(w) ==
  /\ \/ pc[w] \in {"idle", "save"} /\ FreeLock(w) /\ inTx' = TRUE
     \/ pc[w] = "commit" /\ UNCHANGED inTx
  /\ Goto(w, "idle")
  /\ faults < MaxFaults /\ faults' = faults + 1
  /\ UNCHANGED <<disk, conn, localVars, histVars>>

CommitRow(w) ==
  /\ pc[w] = "commit" /\ Goto(w, "idle")
  /\ Commit(w)
  /\ returned' = returned \cup {<<w, written[w]>>}
  /\ UNCHANGED <<version, anchor, engineVars, argument, written, faults>>

-----------------------------------------------------------------------------
(* The process dies and starts again: load_contexts reads the entry with    *)
(* its pointer, hydrate_runtime restores the snapshots that are current or   *)
(* superseded and have their payload.                                       *)

Hydratable(db) ==
  {v \in Versions : v \in db.payloads /\ db.state[v] \in {"current", "superseded"}}

LastOf(S) == IF S = {} THEN 0 ELSE CHOOSE v \in S : \A u \in S : u <= v

Crash ==
  /\ faults < MaxFaults /\ faults' = faults + 1
  /\ conn' = disk /\ inTx' = FALSE
  /\ pc' = [t \in Threads |-> "idle"]
  /\ memory' = LastOf(Hydratable(disk)) /\ entry' = disk.pointer
  /\ UNCHANGED <<disk, version, anchor, writerVars, histVars>>

-----------------------------------------------------------------------------
Promote ==
  \/ BeginPromotion \/ InsertPayload \/ InsertSnapshot \/ SupersedeCurrent
  \/ MakeCurrent \/ PointContext \/ InsertHistory \/ CommitPromotion
  \/ PublishInMemory \/ RollBackAndRaise(Refresher)

Prune ==
  \/ BeginPrune \/ DeletePayloads \/ DeleteSnapshots \/ DeleteHistory
  \/ CommitPrune \/ RollBackAndRaise(Pruner)

SaveState == BeginSave \/ UpsertMark \/ CommitSave \/ RollBackAndRaise(Saver)

Write(w) ==
  \/ InsertRow(w)
  \/ w \in LockedWriters /\ (CallSaveContext(w) \/ SaveContext(w))
  \/ CommitRow(w)

Next ==
  \/ Promote \/ Prune \/ SaveState
  \/ \E w \in Writers : Write(w) \/ WriteRaises(w)
  \/ \E t \in {Refresher, Saver, Pruner} : StatementFails(t)
  \/ Crash

Spec == Init /\ [][Next]_vars

\* Every operation that was begun is carried on, and a refresh is tried again.
Fairness ==
  /\ SF_vars(Promote)
  /\ WF_vars(Prune /\ pc[Pruner] # "idle") /\ WF_vars(SaveState /\ pc[Saver] # "idle")
  /\ \A w \in Writers : WF_vars(Write(w) /\ pc[w] # "idle")

FairSpec == Spec /\ Fairness

-----------------------------------------------------------------------------
(* Correctness *)

\* What is on disk is between two promotions, never inside one
\* (context_catalog.py:239-350): one snapshot is current and the pointer is at
\* it, every snapshot has its payload and, unless pruned, its history, none is
\* half built.  Two steps of the code break this and nothing else does: a
\* commit() or rollback() without the repository's lock while a promotion or a
\* pruning is half-way (audit_service.py:40), and save_context rewriting the
\* pointer from an entry that a promotion has overtaken (context_catalog.py:143),
\* which spoils the pointer until the next promotion.
PromotionIsAtomic ==
  ~cut =>
    /\ disk.stale \/ PointsTo(disk, disk.pointer)
    /\ \A v \in Versions :
         /\ disk.state[v] # "building"
         /\ v \in disk.payloads <=> disk.state[v] # "none"
    /\ disk.history \subseteq disk.payloads
    /\ \A v \in disk.payloads \cap Eventful : v > anchor => v \in disk.history

\* Whenever no refresh is under way, the version the engine serves from memory
\* is the one current snapshot of the database, and the pointer is at it: a
\* failed promotion has moved neither, and a crash loses no promotion that
\* returned (context_catalog.py:288-311, 347-350, 352-363).  The same two steps
\* are excepted.
ServedSnapshotIsDurable ==
  ~cut /\ pc[Refresher] = "idle" =>
    PointsTo(disk, memory) /\ (disk.stale \/ disk.pointer = memory)

\* A promotion that is about to raise has left the database's pointer where it
\* was (context_catalog.py:296-311, 348-350).
FailedPromotionKeepsPointer ==
  pc[Refresher] = "rollback" => disk.stale \/ disk.pointer = memory

\* A write that returned to its caller is on disk for good, unless a thread that
\* shares no lock with the writer rolled the row back between its statement and
\* its commit(): between two operations of the repository nothing is lost
\* (context_catalog.py:223-234, 348-350, audit_service.py:31-41,
\* provider_service.py:30-40).
ReturnedWriteIsDurable == returned \subseteq disk.rows \cup lost

\* However many statements fail or processes die, refreshing goes on: nothing
\* left behind by a failure blocks every later promotion, but for a promotion
\* that another thread's commit() made durable half-way.
RefreshNeverWedged == <>(memory = MaxVersion \/ cut)
=============================================================================
