---------------------- MODULE ContextRepositoryProofs ----------------------
(***************************************************************************)
(* Theorems about the shared connection with every thread interleaving,    *)
(* for any writers, any number of versions, writes and faults.             *)
(***************************************************************************)
EXTENDS ContextRepository, WellFoundedInduction, TLAPS

-----------------------------------------------------------------------------
(* The inductive invariant *)

Calls == {"idle", "save", "rollback"} \cup PromoteCalls \cup PruneCalls \cup SaveCalls

\* Where a thread does not hold the repository's lock.
Free == {"idle", "save", "publish"}

\* The repository's lock has one holder, only a writer waits to save, and without
\* a transaction nothing is uncommitted.
Locked ==
  /\ \A t, u \in Holding : t = u
  /\ \A t \in Threads \ Writers : pc[t] # "save"
Committed == ~inTx => conn = disk

\* The numbers an operation under way works with.
Numbers ==
  /\ pc[Refresher] \in PromoteCalls => version = memory + 1 /\ version \in Versions
  /\ \A w \in Writers : pc[w] = "commit" => written[w] \in 1 .. MaxWrites

\* A row that was written is on the connection until it is on disk, or lost.
WrittenRows ==
  /\ disk.rows \subseteq conn.rows
  /\ \A w \in Writers : pc[w] = "commit" => <<w, written[w]>> \in conn.rows \cup lost
  /\ returned \subseteq disk.rows \cup lost

\* The version whose promotion is committed.
Served == IF pc[Refresher] = "publish" THEN version ELSE memory

\* A database between two promotions.  A snapshot without its history is the
\* oldest one, or the pruner's anchor.
Between(db) ==
  /\ \A v \in Versions :
       /\ db.state[v] # "building"
       /\ db.state[v] = "current" <=> v = Served
       /\ v \in db.payloads <=> db.state[v] # "none"
       /\ v > Served => db.state[v] = "none"
  /\ db.history \subseteq db.payloads
  /\ \A u \in db.payloads, v \in db.payloads \cap Eventful : u < v => v \in db.history
  /\ \A v \in db.payloads \cap Eventful : v > anchor => v \in db.history

Fits(db) == db.stale \/ db.pointer = Served

\* What the connection sees of the snapshot tables.
Sees(payloads, state, history) ==
  conn.payloads = payloads /\ conn.state = state /\ conn.history = history

\* The states of the snapshots as a promotion goes on.
Inserted == [disk.state EXCEPT ![version] = "building"]
Superseding ==
  [v \in Versions |-> IF v = version THEN "building"
                      ELSE IF disk.state[v] = "current" THEN "superseded" ELSE disk.state[v]]
Promoted ==
  [v \in Versions |-> IF v = version THEN "current"
                      ELSE IF disk.state[v] = "current" THEN "superseded" ELSE disk.state[v]]
Events == {version} \cap Eventful

RefreshStage ==
  LET call == pc[Refresher]
      payloads == disk.payloads \cup {version}
  IN /\ call = "payload" => Sees(disk.payloads, disk.state, disk.history)
     /\ call = "snapshot" => Sees(payloads, disk.state, disk.history)
     /\ call = "supersede" => Sees(payloads, Inserted, disk.history)
     /\ call = "current" => Sees(payloads, Superseding, disk.history)
     /\ call \in {"point", "history"} => Sees(payloads, Promoted, disk.history)
     /\ call = "commit" => Sees(payloads, Promoted, disk.history \cup Events)
     /\ call \in {"history", "commit"} => conn.pointer = version

\* What the pruner keeps.
Kept == {v \in disk.payloads : v >= anchor}
Pruned == [v \in Versions |-> IF v < anchor THEN "none" ELSE disk.state[v]]

PruneStage ==
  LET call == pc[Pruner]
  IN /\ call \in PruneCalls => anchor \in Versions /\ disk.state[anchor] # "none"
     /\ call = "delete_payloads" => Sees(disk.payloads, disk.state, disk.history)
     /\ call = "delete_snapshots" => Sees(Kept, disk.state, disk.history)
     /\ call = "delete_history" => Sees(Kept, Pruned, disk.history)
     /\ call = "commit" =>
          \E last \in {anchor - 1, anchor} :
            Sees(Kept, Pruned, {v \in disk.history : v > last})

\* Outside a promotion and a pruning the snapshots are all committed, and only
\* the end of a promotion moves the pointer.
QuietStage ==
  pc[Refresher] \in Free /\ pc[Pruner] \in Free => ~HalfWay
PointerStage ==
  \/ Fits(conn)
  \/ pc[Refresher] \in {"history", "commit", "rollback"} /\ HalfWay

Snapshots ==
  /\ Between(disk) /\ Fits(disk)
  /\ RefreshStage /\ PruneStage /\ QuietStage /\ PointerStage

IInv ==
  /\ TypeOK
  /\ Locked
  /\ Committed
  /\ Numbers
  /\ WrittenRows
  /\ ~cut => Snapshots

-----------------------------------------------------------------------------
(* Threads and the lock *)

\* The threads are different ones.
LEMMA Distinct ==
  /\ Refresher \in Threads /\ Pruner \in Threads /\ Saver \in Threads
  /\ \A w \in Writers : w \in Threads /\ w # Refresher /\ w # Pruner /\ w # Saver
  /\ Refresher # Pruner /\ Refresher # Saver /\ Saver # Pruner
  /\ Refresher \in Guarded /\ Pruner \in Guarded /\ Saver \notin Guarded
  /\ Guarded \subseteq Threads
  /\ \A w \in Writers : w \in Guarded <=> w \in LockedWriters
BY ThreadsAssumption, WritersAssumption DEF Threads, Guarded

\* A step of one thread leaves the others where they are, and the lock with one
\* holder.
LEMMA Moves ==
  ASSUME TypeOK, Locked, NEW t \in Threads, NEW call \in Calls, Goto(t, call),
         t \in Holding \/ FreeLock(t) \/ call \in Free,
         call = "save" => t \in Writers
  PROVE  /\ pc' \in [Threads -> Calls]
         /\ pc'[t] = call /\ \A u \in Threads \ {t} : pc'[u] = pc[u]
         /\ Locked'
<1>1. /\ pc' \in [Threads -> Calls]
      /\ pc'[t] = call /\ \A u \in Threads \ {t} : pc'[u] = pc[u]
  BY DEF TypeOK, Goto, Calls
<1>2. Holding' \subseteq Holding \cup {t}
  BY <1>1, Distinct DEF Holding, Guarded
<1>3. Holding' \subseteq {t} \/ Holding' \subseteq Holding
  <2>1. CASE t \in Holding
    BY <1>2, <2>1 DEF Locked
  <2>2. CASE call \in Free
    <3>1. t \notin Holding'
      BY <1>1, <2>2 DEF Holding, Free
    <3> QED
      BY <1>2, <3>1
  <2>3. CASE FreeLock(t)
    <3>1. CASE t \in Guarded
      BY <1>2, <2>3, <3>1 DEF FreeLock
    <3>2. CASE t \notin Guarded
      <4>1. t \notin Holding'
        BY <3>2 DEF Holding, Guarded
      <4> QED
        BY <1>2, <4>1
    <3> QED
      BY <3>1, <3>2
  <2> QED
    BY <2>1, <2>2, <2>3
<1>4. \A u \in Threads \ Writers : pc'[u] # "save"
  BY <1>1 DEF Locked
<1> QED
  BY <1>1, <1>3, <1>4 DEF Locked

\* Who holds the lock works alone among those that share it.
LEMMA HoldsAlone ==
  ASSUME Locked, NEW t \in Holding, NEW u \in Guarded, u # t
  PROVE  pc[u] \in Free
BY DEF Locked, Holding, Free

LEMMA Working ==
  ASSUME NEW t \in Guarded, pc[t] \notin Free
  PROVE  t \in Holding
BY DEF Holding, Free

\* A database after an update of one of its fields.
LEMMA UpdatedPayloads ==
  ASSUME NEW db \in Database, NEW S \in SUBSET Versions,
         NEW new, new = [db EXCEPT !.payloads = S]
  PROVE  /\ new \in Database /\ new.payloads = S
         /\ new.state = db.state /\ new.history = db.history
         /\ new.pointer = db.pointer /\ new.stale = db.stale /\ new.rows = db.rows
BY DEF Database

LEMMA UpdatedStates ==
  ASSUME NEW db \in Database, NEW f \in [Versions -> States],
         NEW new, new = [db EXCEPT !.state = f]
  PROVE  /\ new \in Database /\ new.state = f
         /\ new.payloads = db.payloads /\ new.history = db.history
         /\ new.pointer = db.pointer /\ new.stale = db.stale /\ new.rows = db.rows
BY DEF Database

LEMMA UpdatedHistory ==
  ASSUME NEW db \in Database, NEW S \in SUBSET Versions,
         NEW new, new = [db EXCEPT !.history = S]
  PROVE  /\ new \in Database /\ new.history = S
         /\ new.payloads = db.payloads /\ new.state = db.state
         /\ new.pointer = db.pointer /\ new.stale = db.stale /\ new.rows = db.rows
BY DEF Database

LEMMA UpdatedMark ==
  ASSUME NEW db \in Database, NEW m \in 0 .. MaxWrites,
         NEW new, new = [db EXCEPT !.mark = m]
  PROVE  /\ new \in Database
         /\ new.payloads = db.payloads /\ new.state = db.state /\ new.history = db.history
         /\ new.pointer = db.pointer /\ new.stale = db.stale /\ new.rows = db.rows
BY DEF Database

LEMMA UpdatedRows ==
  ASSUME NEW db \in Database, NEW S \in SUBSET Rows,
         NEW new, new = [db EXCEPT !.rows = S]
  PROVE  /\ new \in Database /\ new.rows = S
         /\ new.payloads = db.payloads /\ new.state = db.state /\ new.history = db.history
         /\ new.pointer = db.pointer /\ new.stale = db.stale
BY DEF Database

\* The fields of a database.
LEMMA Fields ==
  ASSUME NEW db \in Database
  PROVE  /\ db.payloads \subseteq Versions /\ db.state \in [Versions -> States]
         /\ db.history \subseteq Versions /\ db.rows \subseteq Rows
         /\ db.pointer \in 0 .. MaxVersion /\ db.stale \in BOOLEAN
BY DEF Database

-----------------------------------------------------------------------------
(* What the steps have in common *)

Core == TypeOK /\ Locked /\ Committed /\ Numbers /\ WrittenRows

\* What every thread that ends a transaction or executes a statement keeps.
LEMMA Kinds ==
  /\ PromoteCalls \subseteq Calls /\ PruneCalls \subseteq Calls /\ SaveCalls \subseteq Calls
  /\ "idle" \in Calls /\ "save" \in Calls /\ "rollback" \in Calls
  /\ "publish" \in PromoteCalls /\ Free \subseteq Calls /\ "rollback" \notin Free
BY DEF Calls, PromoteCalls, PruneCalls, SaveCalls, Free

\* A statement of a transactional operation.
LEMMA StatementStep ==
  ASSUME IInv, NEW t \in {Refresher, Pruner, Saver},
         NEW call \in Calls \ Free, NEW next \in Calls \ Free,
         NEW db \in Database, db.rows = conn.rows, Statement(t, call, next, db),
         t = Refresher /\ next \in PromoteCalls => call \in PromoteCalls
  PROVE  /\ pc[t] = call /\ pc'[t] = next /\ \A u \in Threads \ {t} : pc'[u] = pc[u]
         /\ conn' = db
         /\ UNCHANGED <<disk, version, anchor, memory, cut>>
         /\ Core'
<1>1. /\ pc[t] = call /\ Goto(t, next) /\ conn' = db /\ inTx' = TRUE
      /\ UNCHANGED <<disk, version, anchor, memory, entry, argument, written, returned,
                     faults, cut, lost>>
  BY DEF Statement, Execute, localVars, engineVars, writerVars, histVars
<1>2. t \in Threads /\ (t \in Holding \/ FreeLock(t)) /\ next # "save"
  BY <1>1, Distinct, Working DEF FreeLock, Free
<1>3. /\ pc' \in [Threads -> Calls]
      /\ pc'[t] = next /\ \A u \in Threads \ {t} : pc'[u] = pc[u]
      /\ Locked'
  BY <1>1, <1>2, Moves DEF IInv
<1>4. TypeOK'
  BY <1>1, <1>3 DEF IInv, TypeOK, Calls
<1>5. Committed' 
  BY <1>1 DEF Committed
<1>6. Numbers'
  <2>1. pc'[Refresher] \in PromoteCalls => pc[Refresher] \in PromoteCalls
    BY <1>1, <1>3, Distinct
  <2>2. \A w \in Writers : pc'[w] = pc[w]
    BY <1>3, Distinct
  <2> QED
    BY <1>1, <2>1, <2>2 DEF IInv, Numbers, Versions
<1>7. WrittenRows'
  <2>1. \A w \in Writers : pc'[w] = pc[w]
    BY <1>3, Distinct
  <2> QED
    BY <1>1, <2>1 DEF IInv, WrittenRows
<1> QED
  BY <1>1, <1>3, <1>4, <1>5, <1>6, <1>7 DEF Core

\* A BEGIN IMMEDIATE.
LEMMA BeginStep ==
  ASSUME IInv, NEW t \in {Refresher, Pruner, Saver}, NEW call \in Calls \ Free,
         BeginImmediate(t, call),
         version' \in 0 .. MaxVersion, anchor' \in 0 .. MaxVersion,
         written' \in [Writers \cup {Saver} -> 0 .. MaxWrites],
         \A w \in Writers : written'[w] = written[w],
         argument' = argument, returned' = returned,
         IF t = Refresher THEN version' = memory + 1 /\ version' \in Versions
                          ELSE version' = version
  PROVE  /\ pc[t] = "idle" /\ FreeLock(t)
         /\ pc'[t] = (IF inTx THEN "rollback" ELSE call)
         /\ \A u \in Threads \ {t} : pc'[u] = pc[u]
         /\ UNCHANGED <<conn, disk, memory, cut>>
         /\ Core'
<1>1. /\ pc[t] = "idle" /\ FreeLock(t)
      /\ Goto(t, IF inTx THEN "rollback" ELSE call) /\ inTx' = TRUE
      /\ UNCHANGED <<conn, disk, memory, entry, faults, cut, lost>>
  BY DEF BeginImmediate, engineVars, histVars, IInv, TypeOK
<1>2. t \in Threads /\ (IF inTx THEN "rollback" ELSE call) \in Calls \ {"save"}
  BY Distinct, Kinds DEF Free
<1>3. /\ pc' \in [Threads -> Calls]
      /\ pc'[t] = (IF inTx THEN "rollback" ELSE call)
      /\ \A u \in Threads \ {t} : pc'[u] = pc[u]
      /\ Locked'
  BY <1>1, <1>2, Moves DEF IInv
<1>4. TypeOK'
  BY <1>1, <1>3 DEF IInv, TypeOK, Calls
<1>5. Committed'
  BY <1>1 DEF Committed
<1>6. Numbers'
  <2>1. \A w \in Writers : pc'[w] = pc[w]
    BY <1>3, Distinct
  <2>2. t # Refresher => pc'[Refresher] = pc[Refresher]
    BY <1>3, Distinct
  <2>3. CASE t = Refresher
    BY <1>1, <2>1, <2>3 DEF IInv, Numbers, Versions
  <2>4. CASE t # Refresher
    BY <1>1, <2>1, <2>2, <2>4 DEF IInv, Numbers, Versions
  <2> QED
    BY <2>3, <2>4
<1>7. WrittenRows'
  <2>1. \A w \in Writers : pc'[w] = pc[w]
    BY <1>3, Distinct
  <2> QED
    BY <1>1, <2>1 DEF IInv, WrittenRows
<1> QED
  BY <1>1, <1>3, <1>4, <1>5, <1>6, <1>7 DEF Core

\* A commit() of a transactional operation.
LEMMA CommitStep ==
  ASSUME IInv, NEW t \in {Refresher, Pruner, Saver}, pc[t] = "commit",
         NEW next \in {"idle", "publish"}, Goto(t, next),
         next = "publish" => t = Refresher,
         Commit(t), UNCHANGED <<localVars, faults>>
  PROVE  /\ pc'[t] = next /\ \A u \in Threads \ {t} : pc'[u] = pc[u]
         /\ disk' = conn
         /\ UNCHANGED <<conn, version, anchor, memory>>
         /\ cut' = (cut \/ (t \notin Guarded /\ HalfWay))
         /\ Core'
<1>1. /\ disk' = conn /\ inTx' = FALSE
      /\ cut' = (cut \/ (t \notin Guarded /\ HalfWay))
      /\ UNCHANGED <<conn, lost, version, anchor, memory, entry, argument, written,
                     returned, faults>>
  BY DEF Commit, EndsTransaction, localVars, engineVars, writerVars
<1>2. t \in Threads /\ next \in Calls /\ next \in Free
  BY Distinct, Kinds DEF Free
<1>3. /\ pc' \in [Threads -> Calls]
      /\ pc'[t] = next /\ \A u \in Threads \ {t} : pc'[u] = pc[u]
      /\ Locked'
  BY <1>2, Moves DEF IInv
<1>4. TypeOK'
  <2>1. cut' \in BOOLEAN
    BY <1>1 DEF IInv, TypeOK
  <2> QED
    BY <1>1, <1>3, <2>1 DEF IInv, TypeOK, Calls
<1>5. Committed'
  BY <1>1 DEF Committed
<1>6. Numbers'
  <2>1. \A w \in Writers : pc'[w] = pc[w]
    BY <1>3, Distinct
  <2>2. t # Refresher => pc'[Refresher] = pc[Refresher]
    BY <1>3, Distinct
  <2>3. pc'[Refresher] \in PromoteCalls => pc[Refresher] \in PromoteCalls
    BY <1>3, <2>2 DEF PromoteCalls
  <2> QED
    BY <1>1, <2>1, <2>3 DEF IInv, Numbers, Versions
<1>7. WrittenRows'
  <2>1. \A w \in Writers : pc'[w] = pc[w]
    BY <1>3, Distinct
  <2> QED
    BY <1>1, <2>1 DEF IInv, WrittenRows
<1> QED
  BY <1>1, <1>3, <1>4, <1>5, <1>6, <1>7 DEF Core

\* A rollback() loses no row of a writer that shares the lock.
LEMMA RollbackStep ==
  ASSUME IInv, NEW t \in {Refresher, Pruner, Saver}, RollBackAndRaise(t)
  PROVE  /\ pc[t] = "rollback" /\ pc'[t] = "idle" /\ \A u \in Threads \ {t} : pc'[u] = pc[u]
         /\ conn' = disk
         /\ UNCHANGED <<disk, version, anchor, memory>>
         /\ cut' = (cut \/ (t \notin Guarded /\ HalfWay))
         /\ Core'
<1>1. /\ pc[t] = "rollback" /\ Goto(t, "idle") /\ conn' = disk /\ inTx' = FALSE
      /\ cut' = (cut \/ (t \notin Guarded /\ HalfWay))
      /\ lost' = lost \cup {r \in conn.rows \ disk.rows : SharesNoLock(t, r[1])}
      /\ UNCHANGED <<disk, version, anchor, memory, entry, argument, written,
                     returned, faults>>
  BY DEF RollBackAndRaise, Rollback, EndsTransaction, localVars, engineVars, writerVars
<1>2. t \in Threads /\ "idle" \in Calls /\ "idle" \in Free
  BY Distinct, Kinds DEF Free
<1>3. /\ pc' \in [Threads -> Calls]
      /\ pc'[t] = "idle" /\ \A u \in Threads \ {t} : pc'[u] = pc[u]
      /\ Locked'
  BY <1>1, <1>2, Moves DEF IInv
<1>4. TypeOK'
  <2>1. cut' \in BOOLEAN
    BY <1>1 DEF IInv, TypeOK
  <2>2. lost' \subseteq Rows
    BY <1>1, Fields DEF IInv, TypeOK
  <2> QED
    BY <1>1, <1>3, <2>1, <2>2 DEF IInv, TypeOK, Calls
<1>5. Committed'
  BY <1>1 DEF Committed
<1>6. Numbers'
  <2>1. \A w \in Writers : pc'[w] = pc[w]
    BY <1>3, Distinct
  <2>2. pc'[Refresher] \in PromoteCalls => pc'[Refresher] = pc[Refresher]
    BY <1>3, Distinct DEF PromoteCalls
  <2> QED
    BY <1>1, <2>1, <2>2 DEF IInv, Numbers, Versions
<1>7. WrittenRows'
  <2>1. ASSUME NEW w \in Writers, pc'[w] = "commit"
        PROVE  <<w, written[w]>> \in disk.rows \cup lost'
    <3>1. pc[w] = "commit" /\ w \in Threads /\ w # t
      BY <1>3, <2>1, Distinct
    <3>2. <<w, written[w]>> \in conn.rows \cup lost
      BY <3>1 DEF IInv, WrittenRows
    <3>3. CASE t \in Guarded /\ w \in Guarded
      <4>1. t \in Holding /\ w \in Holding
        BY <1>1, <3>1, <3>3 DEF Holding
      <4> QED
        BY <3>1, <4>1 DEF IInv, Locked
    <3>4. CASE ~(t \in Guarded /\ w \in Guarded)
      <4>1. SharesNoLock(t, <<w, written[w]>>[1])
        BY <3>1, <3>4 DEF SharesNoLock
      <4> QED
        BY <1>1, <3>2, <4>1
    <3> QED
      BY <3>3, <3>4
  <2> QED
    BY <1>1, <2>1 DEF IInv, WrittenRows
<1> QED
  BY <1>1, <1>3, <1>4, <1>5, <1>6, <1>7 DEF Core

-----------------------------------------------------------------------------
(* The snapshots under the steps of the other threads *)

\* Two databases with the same snapshots and the same pointer.
Alike(a, b) ==
  /\ a.payloads = b.payloads /\ a.state = b.state /\ a.history = b.history
  /\ a.pointer = b.pointer /\ a.stale = b.stale

Still ==
  /\ pc'[Refresher] = pc[Refresher] /\ pc'[Pruner] = pc[Pruner]
  /\ UNCHANGED <<version, anchor, memory>>

\* A step that touches neither the snapshots nor the two threads that write
\* them.
LEMMA SnapshotsStay ==
  ASSUME Snapshots, Still, Alike(conn', conn), Alike(disk', disk)
  PROVE  Snapshots'
<1>1. Served' = Served
  BY DEF Still, Served
<1>2. Between(disk)' /\ Fits(disk)'
  BY <1>1 DEF Snapshots, Between, Fits, Alike, Still
<1>3. HalfWay' = HalfWay
  BY DEF HalfWay, Alike
<1>4. RefreshStage'
  <2>1. Inserted' = Inserted /\ Superseding' = Superseding /\ Promoted' = Promoted
        /\ Events' = Events
    BY DEF Inserted, Superseding, Promoted, Events, Alike, Still
  <2> QED
    BY <2>1 DEF Snapshots, RefreshStage, Sees, Alike, Still
<1>5. PruneStage'
  <2>1. Kept' = Kept /\ Pruned' = Pruned
    BY DEF Kept, Pruned, Alike, Still
  <2> QED
    BY <2>1 DEF Snapshots, PruneStage, Sees, Alike, Still
<1>6. QuietStage' /\ PointerStage'
  BY <1>1, <1>3 DEF Snapshots, QuietStage, PointerStage, Fits, Alike, Still
<1> QED
  BY <1>2, <1>4, <1>5, <1>6 DEF Snapshots

\* The version that is promoted has no row on disk.
LEMMA NewVersion ==
  ASSUME IInv, ~cut, pc[Refresher] \in PromoteCalls \ {"publish"}
  PROVE  /\ version \in Versions /\ version = memory + 1 /\ Served = memory
         /\ version > Served /\ disk.state[version] = "none" /\ version \notin disk.payloads
<1>1. version \in Versions /\ version = memory + 1 /\ Served = memory
  BY DEF IInv, Numbers, Served
<1>2. memory \in 0 .. MaxVersion /\ Between(disk)
  BY DEF IInv, TypeOK, Snapshots
<1> QED
  BY <1>1, <1>2 DEF Between, Versions

\* A promotion that has moved the pointer is half-way.
LEMMA PointedIsHalfWay ==
  ASSUME IInv, ~cut, pc[Refresher] \in {"history", "commit"}
  PROVE  HalfWay
<1>1. pc[Refresher] \in PromoteCalls \ {"publish"}
  BY DEF PromoteCalls
<1>2. conn.payloads = disk.payloads \cup {version}
  BY DEF IInv, Snapshots, RefreshStage, Sees
<1> QED
  BY <1>1, <1>2, NewVersion DEF HalfWay

\* commit() or rollback() while nothing is half-way.
LEMMA EndsBetween ==
  ASSUME IInv, ~cut, ~HalfWay, Still,
         \/ disk' = conn /\ conn' = conn
         \/ disk' = disk /\ conn' = disk
  PROVE  Snapshots'
<1>1. Snapshots
  BY DEF IInv
<1>2. Served' = Served
  BY DEF Still, Served
<1>3. /\ conn.payloads = disk.payloads /\ conn.state = disk.state
      /\ conn.history = disk.history
  BY DEF HalfWay
<1>4. pc[Refresher] \notin {"history", "commit"}
  BY PointedIsHalfWay
<1>5. Fits(conn) /\ Fits(disk)
  BY <1>1 DEF Snapshots, PointerStage
<1>6. /\ conn'.payloads = conn.payloads /\ conn'.state = conn.state
      /\ conn'.history = conn.history
      /\ disk'.payloads = disk.payloads /\ disk'.state = disk.state
      /\ disk'.history = disk.history
  BY <1>3
<1>7. Fits(conn)' /\ Fits(disk)'
  BY <1>2, <1>5 DEF Fits
<1>8. Between(disk)'
  BY <1>1, <1>2, <1>6 DEF Snapshots, Between, Still
<1>9. RefreshStage'
  <2>1. Inserted' = Inserted /\ Superseding' = Superseding /\ Promoted' = Promoted
        /\ Events' = Events
    BY <1>6 DEF Inserted, Superseding, Promoted, Events, Still
  <2>2. RefreshStage
    BY <1>1 DEF Snapshots
  <2> QED
    BY <1>4, <1>6, <2>1, <2>2 DEF RefreshStage, Sees, Still
<1>10. PruneStage'
  <2>1. Kept' = Kept /\ Pruned' = Pruned
    BY <1>6 DEF Kept, Pruned, Still
  <2>2. PruneStage
    BY <1>1 DEF Snapshots
  <2> QED
    BY <1>6, <2>1, <2>2 DEF PruneStage, Sees, Still
<1>11. ~HalfWay'
  BY <1>3, <1>6 DEF HalfWay
<1> QED
  BY <1>7, <1>8, <1>9, <1>10, <1>11 DEF Snapshots, QuietStage, PointerStage

\* While the lock is free, and while a writer holds it, nothing is half-way.
LEMMA NotHalfWay ==
  ASSUME IInv, ~cut, NEW w \in LockedWriters, w \in Holding \/ FreeLock(w)
  PROVE  pc[Refresher] \in Free /\ pc[Pruner] \in Free /\ ~HalfWay
<1>1. /\ w \in Guarded /\ Refresher \in Guarded /\ Pruner \in Guarded
      /\ w # Refresher /\ w # Pruner
  BY Distinct, WritersAssumption
<1>2. pc[Refresher] \in Free /\ pc[Pruner] \in Free
  <2>1. CASE w \in Holding
    BY <1>1, <2>1, HoldsAlone DEF IInv
  <2>2. CASE FreeLock(w)
    BY <1>1, <2>2 DEF FreeLock, Holding, Free
  <2> QED
    BY <2>1, <2>2
<1> QED
  BY <1>2 DEF IInv, Snapshots, QuietStage

-----------------------------------------------------------------------------
(* promote_snapshot *)

\* While the refresher or the pruner works, the other one does not.
LEMMA PrunerIdle ==
  ASSUME IInv, pc[Refresher] \notin Free
  PROVE  pc[Pruner] \in Free /\ pc[Pruner] \notin PruneCalls
<1>1. Refresher \in Holding /\ Pruner \in Guarded /\ Pruner # Refresher
  BY Distinct, Working
<1>2. pc[Pruner] \in Free
  BY <1>1, HoldsAlone DEF IInv
<1> QED
  BY <1>2 DEF Free, PruneCalls

LEMMA RefresherIdle ==
  ASSUME IInv, pc[Pruner] \notin Free
  PROVE  pc[Refresher] \in Free
<1>1. Pruner \in Holding /\ Refresher \in Guarded /\ Pruner # Refresher
  BY Distinct, Working
<1> QED
  BY <1>1, HoldsAlone DEF IInv

PromoteStatements == PromoteCalls \ {"publish"}

\* What holds after the refresher's step from one statement to the next.
LEMMA RefresherMoves ==
  ASSUME IInv, ~cut, pc[Refresher] \in PromoteStatements,
         pc'[Refresher] \in PromoteStatements \cup {"rollback"}, pc'[Pruner] = pc[Pruner],
         UNCHANGED <<disk, version, anchor, memory>>,
         RefreshStage', PointerStage'
  PROVE  Snapshots'
<1>1. Snapshots /\ pc[Pruner] \notin PruneCalls
  BY PrunerIdle DEF IInv, PromoteStatements, PromoteCalls, Free
<1>2. Served' = Served
  BY DEF Served, PromoteStatements, PromoteCalls
<1>3. Between(disk)' /\ Fits(disk)'
  BY <1>1, <1>2 DEF Snapshots, Between, Fits
<1>4. PruneStage'
  BY <1>1 DEF PruneStage, PruneCalls
<1>5. QuietStage'
  BY DEF QuietStage, Free, PromoteStatements, PromoteCalls
<1> QED
  BY <1>3, <1>4, <1>5 DEF Snapshots

\* A statement of a promotion.
LEMMA PromoteStep ==
  ASSUME IInv, NEW call \in PromoteStatements, NEW next \in PromoteStatements \cup {"rollback"},
         NEW db \in Database, db.rows = conn.rows, Statement(Refresher, call, next, db)
  PROVE  /\ pc[Refresher] = call /\ pc'[Refresher] = next
         /\ conn' = db /\ UNCHANGED <<disk, version, anchor, memory, cut>>
         /\ (~cut => RefreshStage' /\ PointerStage') => IInv'
<1>1. call \in Calls \ Free /\ next \in Calls \ Free /\ call \in PromoteCalls
  BY DEF PromoteStatements, PromoteCalls, Calls, Free
<1>2. /\ pc[Refresher] = call /\ pc'[Refresher] = next
      /\ \A u \in Threads \ {Refresher} : pc'[u] = pc[u]
      /\ conn' = db
      /\ UNCHANGED <<disk, version, anchor, memory, cut>>
      /\ Core'
  BY <1>1, StatementStep
<1>3. pc'[Pruner] = pc[Pruner]
  BY <1>2, Distinct
<1>4. (~cut => RefreshStage' /\ PointerStage') => (~cut' => Snapshots')
  BY <1>2, <1>3, RefresherMoves
<1> QED
  BY <1>2, <1>4 DEF IInv, Core

\* A promotion that fails keeps what it has done so far until rollback().
LEMMA PromotionRefused ==
  ASSUME IInv, NEW call \in PromoteStatements, Refused(Refresher, call)
  PROVE  IInv'
<1>1. conn \in Database /\ Statement(Refresher, call, "rollback", conn)
  BY DEF Refused, IInv, TypeOK
<1>2. /\ pc[Refresher] = call /\ pc'[Refresher] = "rollback"
      /\ conn' = conn /\ UNCHANGED <<disk, version, anchor, memory, cut>>
      /\ (~cut => RefreshStage' /\ PointerStage') => IInv'
  BY <1>1, PromoteStep
<1>3. ASSUME ~cut
      PROVE  RefreshStage' /\ PointerStage'
  <2>1. RefreshStage'
    BY <1>2 DEF RefreshStage
  <2>2. PointerStage
    BY <1>3 DEF IInv, Snapshots
  <2>3. Served' = Served /\ HalfWay' = HalfWay
    BY <1>2 DEF Served, HalfWay, PromoteStatements
  <2> QED
    BY <1>2, <2>1, <2>2, <2>3 DEF PointerStage, Fits
<1> QED
  BY <1>2, <1>3

\* What a promotion sees as it goes on.
LEMMA StageTypes ==
  ASSUME IInv
  PROVE  /\ version \in Versions => /\ Inserted \in [Versions -> States]
                                    /\ Superseding \in [Versions -> States]
                                    /\ Promoted \in [Versions -> States]
         /\ Pruned \in [Versions -> States] /\ Kept \subseteq Versions
<1>1. disk.payloads \subseteq Versions /\ disk.state \in [Versions -> States]
  BY Fields DEF IInv, TypeOK
<1> QED
  BY <1>1 DEF Inserted, Superseding, Promoted, Pruned, Kept, States

\* The pointer stays where it is until PointContext.
LEMMA PointerStays ==
  ASSUME IInv, ~cut, pc[Refresher] \in PromoteStatements \ {"history", "commit"},
         pc'[Refresher] \in PromoteStatements,
         conn'.pointer = conn.pointer, conn'.stale = conn.stale,
         version' = version, memory' = memory
  PROVE  PointerStage'
<1>1. Fits(conn)
  BY DEF IInv, Snapshots, PointerStage, PromoteStatements, PromoteCalls
<1> QED
  BY <1>1 DEF PointerStage, Fits, Served, PromoteStatements

LEMMA BeginPromotionNext == ASSUME IInv, BeginPromotion PROVE IInv'
<1>1. /\ memory < MaxVersion /\ BeginImmediate(Refresher, "payload")
      /\ version' = memory + 1 /\ UNCHANGED <<anchor, argument, written, returned>>
  BY DEF BeginPromotion, BeginsWith, writerVars
<1>2. /\ version' \in 0 .. MaxVersion /\ version' \in Versions /\ anchor' \in 0 .. MaxVersion
      /\ written' \in [Writers \cup {Saver} -> 0 .. MaxWrites]
      /\ \A w \in Writers : written'[w] = written[w]
  BY <1>1, BoundsAssumption DEF IInv, TypeOK, Versions
<1>3. "payload" \in Calls \ Free
  BY DEF Calls, PromoteCalls, Free
<1>4. /\ pc[Refresher] = "idle" /\ FreeLock(Refresher)
      /\ pc'[Refresher] = (IF inTx THEN "rollback" ELSE "payload")
      /\ \A u \in Threads \ {Refresher} : pc'[u] = pc[u]
      /\ UNCHANGED <<conn, disk, memory, cut>>
      /\ Core'
  BY <1>1, <1>2, <1>3, BeginStep
<1>5. ASSUME ~cut
      PROVE  Snapshots'
  <2>1. pc'[Pruner] = pc[Pruner] /\ pc[Pruner] \in Free
    BY <1>4, Distinct DEF FreeLock, Holding, Free
  <2>2. ~HalfWay /\ Snapshots
    BY <1>4, <1>5, <2>1 DEF IInv, Snapshots, QuietStage, Free
  <2>3. Served' = Served
    BY <1>4 DEF Served
  <2>4. Between(disk)' /\ Fits(disk)'
    BY <1>1, <1>4, <2>2, <2>3 DEF Snapshots, Between, Fits
  <2>5. RefreshStage'
    BY <1>4, <2>2 DEF RefreshStage, Sees, HalfWay
  <2>6. PruneStage'
    BY <2>1 DEF PruneStage, PruneCalls, Free
  <2>7. QuietStage'
    BY <1>4, <2>2 DEF QuietStage, HalfWay
  <2>8. Fits(conn)'
    BY <1>4, <2>2, <2>3 DEF Snapshots, PointerStage, Fits
  <2> QED
    BY <2>4, <2>5, <2>6, <2>7, <2>8 DEF Snapshots, PointerStage
<1> QED
  BY <1>4, <1>5 DEF IInv, Core

LEMMA InsertPayloadNext == ASSUME IInv, InsertPayload PROVE IInv'
<1>1. {"payload", "snapshot"} \subseteq PromoteStatements
  BY DEF PromoteStatements, PromoteCalls
<1>2. CASE version \in conn.payloads
  BY <1>1, <1>2, PromotionRefused DEF InsertPayload
<1>3. CASE version \notin conn.payloads
  <2> DEFINE db == [conn EXCEPT !.payloads = @ \cup {version}]
  <2>1. Statement(Refresher, "payload", "snapshot", db)
    BY <1>3 DEF InsertPayload
  <2>2. pc[Refresher] = "payload" /\ version \in Versions
    BY <2>1 DEF Statement, IInv, Numbers, PromoteCalls
  <2>3. /\ db \in Database /\ db.payloads = conn.payloads \cup {version}
        /\ db.state = conn.state /\ db.history = conn.history
        /\ db.pointer = conn.pointer /\ db.stale = conn.stale /\ db.rows = conn.rows
    <3>1. conn \in Database /\ conn.payloads \cup {version} \in SUBSET Versions
      BY <2>2, Fields DEF IInv, TypeOK
    <3> QED
      BY <3>1, UpdatedPayloads
  <2> HIDE DEF db
  <2>4. /\ pc'[Refresher] = "snapshot"
        /\ conn' = db /\ UNCHANGED <<disk, version, anchor, memory, cut>>
        /\ (~cut => RefreshStage' /\ PointerStage') => IInv'
    BY <1>1, <2>1, <2>3, PromoteStep
  <2>5. ASSUME ~cut
        PROVE  RefreshStage' /\ PointerStage'
    <3>1. Sees(disk.payloads, disk.state, disk.history)
      BY <2>2, <2>5 DEF IInv, Snapshots, RefreshStage
    <3>2. RefreshStage'
      BY <2>3, <2>4, <3>1 DEF RefreshStage, Sees
    <3> QED
      BY <1>1, <2>2, <2>3, <2>4, <2>5, <3>2, PointerStays
  <2> QED
    BY <2>4, <2>5
<1> QED
  BY <1>2, <1>3

LEMMA InsertSnapshotNext == ASSUME IInv, InsertSnapshot PROVE IInv'
<1>1. {"snapshot", "supersede"} \subseteq PromoteStatements
  BY DEF PromoteStatements, PromoteCalls
<1>2. CASE conn.state[version] # "none"
  BY <1>1, <1>2, PromotionRefused DEF InsertSnapshot
<1>3. CASE conn.state[version] = "none"
  <2> DEFINE db == [conn EXCEPT !.state[version] = "building"]
  <2>1. Statement(Refresher, "snapshot", "supersede", db)
    BY <1>3 DEF InsertSnapshot
  <2>2. pc[Refresher] = "snapshot" /\ version \in Versions
    BY <2>1 DEF Statement, IInv, Numbers, PromoteCalls
  <2>3. /\ db \in Database /\ db.state = [conn.state EXCEPT ![version] = "building"]
        /\ db.payloads = conn.payloads /\ db.history = conn.history
        /\ db.pointer = conn.pointer /\ db.stale = conn.stale /\ db.rows = conn.rows
    <3>1. conn \in Database /\ conn.state \in [Versions -> States]
      BY Fields DEF IInv, TypeOK
    <3> DEFINE f == [conn.state EXCEPT ![version] = "building"]
    <3>2. f \in [Versions -> States] /\ db = [conn EXCEPT !.state = f]
      BY <3>1 DEF States
    <3> HIDE DEF f, db
    <3>3. db \in Database /\ db.state = f
          /\ db.payloads = conn.payloads /\ db.history = conn.history
          /\ db.pointer = conn.pointer /\ db.stale = conn.stale /\ db.rows = conn.rows
      BY <3>1, <3>2, UpdatedStates
    <3> QED
      BY <3>3 DEF f
  <2> HIDE DEF db
  <2>4. /\ pc'[Refresher] = "supersede"
        /\ conn' = db /\ UNCHANGED <<disk, version, anchor, memory, cut>>
        /\ (~cut => RefreshStage' /\ PointerStage') => IInv'
    BY <1>1, <2>1, <2>3, PromoteStep
  <2>5. ASSUME ~cut
        PROVE  RefreshStage' /\ PointerStage'
    <3>1. Sees(disk.payloads \cup {version}, disk.state, disk.history)
      BY <2>2, <2>5 DEF IInv, Snapshots, RefreshStage
    <3>2. RefreshStage'
      BY <2>3, <2>4, <3>1 DEF RefreshStage, Sees, Inserted
    <3> QED
      BY <1>1, <2>2, <2>3, <2>4, <2>5, <3>2, PointerStays
  <2> QED
    BY <2>4, <2>5
<1> QED
  BY <1>2, <1>3

LEMMA SupersedeCurrentNext == ASSUME IInv, SupersedeCurrent PROVE IInv'
<1> DEFINE f == [v \in Versions |-> IF conn.state[v] = "current" THEN "superseded"
                                    ELSE conn.state[v]]
           db == [conn EXCEPT !.state = f]
<1>1. {"supersede", "current"} \subseteq PromoteStatements
  BY DEF PromoteStatements, PromoteCalls
<1>2. Statement(Refresher, "supersede", "current", db)
  BY DEF SupersedeCurrent
<1>3. pc[Refresher] = "supersede" /\ version \in Versions
  BY <1>2 DEF Statement, IInv, Numbers, PromoteCalls
<1>4. conn \in Database /\ f \in [Versions -> States]
  BY Fields DEF IInv, TypeOK, States
<1>5. /\ db \in Database /\ db.state = f
      /\ db.payloads = conn.payloads /\ db.history = conn.history
      /\ db.pointer = conn.pointer /\ db.stale = conn.stale /\ db.rows = conn.rows
  <2> HIDE DEF f
  <2> QED
    BY <1>4, UpdatedStates
<1> HIDE DEF db
<1>6. /\ pc'[Refresher] = "current"
      /\ conn' = db /\ UNCHANGED <<disk, version, anchor, memory, cut>>
      /\ (~cut => RefreshStage' /\ PointerStage') => IInv'
  BY <1>1, <1>2, <1>5, PromoteStep
<1>7. ASSUME ~cut
      PROVE  RefreshStage' /\ PointerStage'
  <2>1. Sees(disk.payloads \cup {version}, Inserted, disk.history)
    BY <1>3, <1>7 DEF IInv, Snapshots, RefreshStage
  <2>2. f = Superseding
    <3>1. \A v \in Versions : Inserted[v] = IF v = version THEN "building" ELSE disk.state[v]
      BY <1>3, Fields DEF Inserted, IInv, TypeOK
    <3> QED
      BY <2>1, <3>1 DEF Superseding, Sees
  <2>3. Superseding' = Superseding
    BY <1>6 DEF Superseding
  <2> HIDE DEF f
  <2>4. RefreshStage'
    BY <1>5, <1>6, <2>1, <2>2, <2>3 DEF RefreshStage, Sees
  <2> QED
    BY <1>1, <1>3, <1>5, <1>6, <1>7, <2>4, PointerStays
<1> QED
  BY <1>6, <1>7

LEMMA MakeCurrentNext == ASSUME IInv, MakeCurrent PROVE IInv'
<1>1. {"current", "point"} \subseteq PromoteStatements
  BY DEF PromoteStatements, PromoteCalls
<1>2. pc[Refresher] = "current" /\ version \in Versions /\ conn \in Database
  BY DEF MakeCurrent, IInv, TypeOK, Numbers, PromoteCalls
<1>3. ASSUME ~cut
      PROVE  /\ conn.state = Superseding
             /\ conn.state[version] = "building" /\ \A v \in Versions : conn.state[v] # "current"
             /\ Sees(disk.payloads \cup {version}, Superseding, disk.history)
  <2>1. Sees(disk.payloads \cup {version}, Superseding, disk.history)
    BY <1>2, <1>3 DEF IInv, Snapshots, RefreshStage
  <2> QED
    BY <1>2, <2>1 DEF Superseding, Sees
<1>4. CASE conn.state[version] = "none"
  <2>1. Statement(Refresher, "current", "point", conn)
    BY <1>4 DEF MakeCurrent
  <2>2. (~cut => RefreshStage' /\ PointerStage') => IInv'
    BY <1>1, <1>2, <2>1, PromoteStep
  <2> QED
    BY <1>3, <1>4, <2>2
<1>5. CASE conn.state[version] # "none" /\ \E v \in Versions : conn.state[v] = "current"
  <2>1. Refused(Refresher, "current")
    BY <1>5 DEF MakeCurrent
  <2> QED
    BY <1>1, <2>1, PromotionRefused
<1>6. CASE conn.state[version] # "none" /\ ~\E v \in Versions : conn.state[v] = "current"
  <2> DEFINE f == [conn.state EXCEPT ![version] = "current"]
             db == [conn EXCEPT !.state = f]
  <2>1. Statement(Refresher, "current", "point", db)
    BY <1>6 DEF MakeCurrent
  <2>2. f \in [Versions -> States]
    BY <1>2, Fields DEF States
  <2>3. /\ db \in Database /\ db.state = f
        /\ db.payloads = conn.payloads /\ db.history = conn.history
        /\ db.pointer = conn.pointer /\ db.stale = conn.stale /\ db.rows = conn.rows
    <3> HIDE DEF f
    <3> QED
      BY <1>2, <2>2, UpdatedStates
  <2> HIDE DEF db
  <2>4. /\ pc'[Refresher] = "point"
        /\ conn' = db /\ UNCHANGED <<disk, version, anchor, memory, cut>>
        /\ (~cut => RefreshStage' /\ PointerStage') => IInv'
    BY <1>1, <2>1, <2>3, PromoteStep
  <2>5. ASSUME ~cut
        PROVE  RefreshStage' /\ PointerStage'
    <3>1. f = Promoted
      BY <1>2, <1>3, <2>5 DEF Superseding, Promoted
    <3>2. Promoted' = Promoted
      BY <2>4 DEF Promoted
    <3> HIDE DEF f
    <3>3. RefreshStage'
      BY <1>3, <2>3, <2>4, <2>5, <3>1, <3>2 DEF RefreshStage, Sees
    <3> QED
      BY <1>1, <1>2, <2>3, <2>4, <2>5, <3>3, PointerStays
  <2> QED
    BY <2>4, <2>5
<1> QED
  BY <1>4, <1>5, <1>6

\* After the pointer has moved a promotion is half-way.
LEMMA PointerMoved ==
  ASSUME IInv, ~cut, pc[Refresher] \in PromoteStatements, version' = version, disk' = disk,
         pc'[Refresher] \in {"history", "commit"},
         conn'.payloads = disk.payloads \cup {version}
  PROVE  PointerStage'
<1>1. version \notin disk.payloads
  BY NewVersion DEF PromoteStatements
<1> QED
  BY <1>1 DEF PointerStage, HalfWay

LEMMA PointContextNext == ASSUME IInv, PointContext PROVE IInv'
<1> DEFINE db == [conn EXCEPT !.pointer = version, !.stale = FALSE]
<1>1. {"point", "history"} \subseteq PromoteStatements
  BY DEF PromoteStatements, PromoteCalls
<1>2. Statement(Refresher, "point", "history", db)
  BY DEF PointContext
<1>3. /\ pc[Refresher] = "point" /\ conn \in Database /\ version \in 0 .. MaxVersion
  BY <1>2 DEF Statement, IInv, TypeOK
<1>4. /\ db \in Database /\ db.pointer = version
      /\ db.payloads = conn.payloads /\ db.state = conn.state
      /\ db.history = conn.history /\ db.rows = conn.rows
  <2>1. conn \in Database /\ version \in 0 .. MaxVersion
    BY <1>3
  <2>2. db = [conn EXCEPT !.pointer = version, !.stale = FALSE]
    OBVIOUS
  <2> HIDE DEF db
  <2> QED
    BY <2>1, <2>2 DEF Database
<1> HIDE DEF db
<1>5. /\ pc'[Refresher] = "history"
      /\ conn' = db /\ UNCHANGED <<disk, version, anchor, memory, cut>>
      /\ (~cut => RefreshStage' /\ PointerStage') => IInv'
  BY <1>1, <1>2, <1>4, PromoteStep
<1>6. ASSUME ~cut
      PROVE  RefreshStage' /\ PointerStage'
  <2>1. Sees(disk.payloads \cup {version}, Promoted, disk.history)
    BY <1>3, <1>6 DEF IInv, Snapshots, RefreshStage
  <2>2. Promoted' = Promoted
    BY <1>5 DEF Promoted
  <2>3. RefreshStage'
    BY <1>4, <1>5, <2>1, <2>2 DEF RefreshStage, Sees
  <2>4. conn'.payloads = disk.payloads \cup {version}
    BY <1>4, <1>5, <2>1 DEF Sees
  <2> QED
    BY <1>1, <1>3, <1>5, <1>6, <2>3, <2>4, PointerMoved
<1> QED
  BY <1>5, <1>6

LEMMA InsertHistoryNext == ASSUME IInv, InsertHistory PROVE IInv'
<1> DEFINE db == [conn EXCEPT !.history = @ \cup Events]
<1>1. {"history", "commit"} \subseteq PromoteStatements
  BY DEF PromoteStatements, PromoteCalls
<1>2. Statement(Refresher, "history", "commit", db)
  BY DEF InsertHistory, Events
<1>3. pc[Refresher] = "history" /\ version \in Versions /\ conn \in Database
  BY <1>2 DEF Statement, IInv, TypeOK, Numbers, PromoteCalls
<1>4. /\ db \in Database /\ db.history = conn.history \cup Events
      /\ db.payloads = conn.payloads /\ db.state = conn.state
      /\ db.pointer = conn.pointer /\ db.rows = conn.rows
  <2> DEFINE S == conn.history \cup Events
  <2>1. S \in SUBSET Versions /\ db = [conn EXCEPT !.history = S]
    BY <1>3, Fields DEF Events
  <2> HIDE DEF S, db
  <2>2. conn \in Database
    BY <1>3
  <2>3. /\ db \in Database /\ db.history = S
        /\ db.payloads = conn.payloads /\ db.state = conn.state
        /\ db.pointer = conn.pointer /\ db.rows = conn.rows
    BY <2>1, <2>2 DEF Database
  <2> QED
    BY <2>3 DEF S
<1> HIDE DEF db
<1>5. /\ pc'[Refresher] = "commit"
      /\ conn' = db /\ UNCHANGED <<disk, version, anchor, memory, cut>>
      /\ (~cut => RefreshStage' /\ PointerStage') => IInv'
  BY <1>1, <1>2, <1>4, PromoteStep
<1>6. ASSUME ~cut
      PROVE  RefreshStage' /\ PointerStage'
  <2>1. Sees(disk.payloads \cup {version}, Promoted, disk.history) /\ conn.pointer = version
    BY <1>3, <1>6 DEF IInv, Snapshots, RefreshStage
  <2>2. Promoted' = Promoted /\ Events' = Events
    BY <1>5 DEF Promoted, Events
  <2>3. RefreshStage'
    BY <1>4, <1>5, <2>1, <2>2 DEF RefreshStage, Sees
  <2>4. conn'.payloads = disk.payloads \cup {version}
    BY <1>4, <1>5, <2>1 DEF Sees
  <2> QED
    BY <1>1, <1>3, <1>5, <1>6, <2>3, <2>4, PointerMoved
<1> QED
  BY <1>5, <1>6

\* The database a promotion commits is between two promotions again.
LEMMA CommitPromotionNext == ASSUME IInv, CommitPromotion PROVE IInv'
<1>1. /\ pc[Refresher] = "commit" /\ Goto(Refresher, "publish")
      /\ Commit(Refresher) /\ UNCHANGED <<localVars, faults>>
  BY DEF CommitPromotion
<1>2. /\ pc'[Refresher] = "publish" /\ \A u \in Threads \ {Refresher} : pc'[u] = pc[u]
      /\ disk' = conn
      /\ UNCHANGED <<conn, version, anchor, memory>>
      /\ cut' = (cut \/ (Refresher \notin Guarded /\ HalfWay))
      /\ Core'
  BY <1>1, CommitStep
<1>3. ASSUME ~cut'
      PROVE  Snapshots'
  <2>1. ~cut /\ Snapshots
    BY <1>2, <1>3 DEF IInv
  <2>2. /\ Sees(disk.payloads \cup {version}, Promoted, disk.history \cup Events)
        /\ conn.pointer = version
    BY <1>1, <2>1 DEF Snapshots, RefreshStage
  <2>3. /\ version \in Versions /\ Served = memory /\ version > Served
        /\ disk.state[version] = "none" /\ version \notin disk.payloads
    BY <1>1, <2>1, NewVersion DEF PromoteCalls
  <2>4. pc'[Pruner] = pc[Pruner] /\ pc[Pruner] \notin PruneCalls
    BY <1>1, <1>2, Distinct, PrunerIdle DEF Free
  <2>5. Served' = version /\ Served \in 0 .. MaxVersion /\ anchor \in 0 .. MaxVersion
    BY <1>2, <2>3 DEF Served, IInv, TypeOK
  <2>6. Between(disk)'
    <3>1. /\ disk'.payloads = disk.payloads \cup {version} /\ disk'.state = Promoted
          /\ disk'.history = disk.history \cup Events
      BY <1>2, <2>2 DEF Sees
    <3>2. Between(disk) /\ disk.payloads \subseteq Versions
      BY <2>1, Fields DEF Snapshots, IInv, TypeOK
    <3>3. ASSUME NEW v \in Versions
          PROVE  /\ disk'.state[v] # "building"
                 /\ disk'.state[v] = "current" <=> v = Served'
                 /\ v \in disk'.payloads <=> disk'.state[v] # "none"
                 /\ v > Served' => disk'.state[v] = "none"
      BY <2>3, <2>5, <3>1, <3>2 DEF Between, Promoted, Versions
    <3>4. disk'.history \subseteq disk'.payloads
      BY <3>1, <3>2 DEF Between, Events
    <3>5. ASSUME NEW u \in disk'.payloads, NEW v \in disk'.payloads \cap Eventful, u < v
          PROVE  v \in disk'.history
      <4>1. CASE v = version
        BY <3>1, <3>5, <4>1 DEF Events
      <4>2. CASE v # version
        <5>1. v \in disk.payloads /\ ~(v > Served)
          BY <3>1, <3>2, <4>2 DEF Between
        <5>2. u # version
          BY <2>3, <2>5, <3>2, <3>5, <5>1 DEF Versions
        <5> QED
          BY <3>1, <3>2, <3>5, <5>1, <5>2 DEF Between
      <4> QED
        BY <4>1, <4>2
    <3>6. ASSUME NEW v \in disk'.payloads \cap Eventful, v > anchor'
          PROVE  v \in disk'.history
      BY <1>2, <3>1, <3>2, <3>6 DEF Between, Events
    <3> QED
      BY <3>3, <3>4, <3>5, <3>6 DEF Between
  <2>7. Fits(disk)' /\ Fits(conn)'
    BY <1>2, <2>2, <2>5 DEF Fits
  <2>8. ~HalfWay'
    BY <1>2 DEF HalfWay
  <2>9. RefreshStage'
    BY <1>2 DEF RefreshStage
  <2>10. PruneStage'
    BY <2>4 DEF PruneStage, PruneCalls
  <2> QED
    BY <2>6, <2>7, <2>8, <2>9, <2>10 DEF Snapshots, QuietStage, PointerStage
<1> QED
  BY <1>2, <1>3 DEF IInv, Core

LEMMA PublishInMemoryNext == ASSUME IInv, PublishInMemory PROVE IInv'
<1>1. /\ pc[Refresher] = "publish" /\ Goto(Refresher, "idle")
      /\ memory' = version /\ entry' = version
      /\ UNCHANGED <<disk, conn, inTx, version, anchor, argument, written, returned,
                     faults, cut, lost>>
  BY DEF PublishInMemory, writerVars, histVars
<1>2. Refresher \in Threads /\ "idle" \in Calls /\ "idle" \in Free
  BY Distinct, Kinds DEF Free
<1>3. /\ pc' \in [Threads -> Calls]
      /\ pc'[Refresher] = "idle" /\ \A u \in Threads \ {Refresher} : pc'[u] = pc[u]
      /\ Locked'
  BY <1>1, <1>2, Moves DEF IInv
<1>4. TypeOK'
  BY <1>1, <1>3 DEF IInv, TypeOK, Calls
<1>5. \A w \in Writers : pc'[w] = pc[w]
  BY <1>3, Distinct
<1>6. Committed' /\ Numbers' /\ WrittenRows'
  BY <1>1, <1>3, <1>5 DEF IInv, Committed, Numbers, WrittenRows, PromoteCalls
<1>7. ASSUME ~cut
      PROVE  Snapshots'
  <2>1. Snapshots /\ pc'[Pruner] = pc[Pruner]
    BY <1>3, <1>7, Distinct DEF IInv
  <2>2. Served' = Served
    BY <1>1, <1>3 DEF Served
  <2>3. Between(disk)' /\ Fits(disk)'
    BY <1>1, <2>1, <2>2 DEF Snapshots, Between, Fits
  <2>4. RefreshStage'
    BY <1>3 DEF RefreshStage
  <2>5. PruneStage'
    <3>1. Kept' = Kept /\ Pruned' = Pruned
      BY <1>1 DEF Kept, Pruned
    <3> QED
      BY <1>1, <2>1, <3>1 DEF Snapshots, PruneStage, Sees
  <2>6. QuietStage' /\ PointerStage'
    <3>1. HalfWay' = HalfWay
      BY <1>1 DEF HalfWay
    <3> QED
      BY <1>1, <2>1, <2>2, <3>1 DEF Snapshots, QuietStage, PointerStage, Fits, Free
  <2> QED
    BY <2>3, <2>4, <2>5, <2>6 DEF Snapshots
<1> QED
  BY <1>1, <1>3, <1>4, <1>6, <1>7 DEF IInv

-----------------------------------------------------------------------------
(* Failing statements and rollback() *)

\* rollback() by a thread that holds the lock goes back to the database on disk.
LEMMA RollbackNext ==
  ASSUME IInv, NEW t \in {Refresher, Pruner, Saver}, RollBackAndRaise(t)
  PROVE  IInv'
<1>1. /\ pc[t] = "rollback" /\ pc'[t] = "idle" /\ \A u \in Threads \ {t} : pc'[u] = pc[u]
      /\ conn' = disk
      /\ UNCHANGED <<disk, version, anchor, memory>>
      /\ cut' = (cut \/ (t \notin Guarded /\ HalfWay))
      /\ Core'
  BY RollbackStep
<1>2. ASSUME ~cut'
      PROVE  Snapshots'
  <2>1. ~cut /\ Snapshots /\ (t \notin Guarded => ~HalfWay)
    BY <1>1, <1>2 DEF IInv
  <2>2. CASE t = Saver
    BY <1>1, <2>1, <2>2, Distinct, EndsBetween DEF Still
  <2>3. CASE t \in {Refresher, Pruner}
    <3>1. /\ pc'[Refresher] \in Free /\ pc'[Pruner] \in Free
          /\ pc[Refresher] \in Free \cup {"rollback"}
      BY <1>1, <2>3, Distinct, PrunerIdle, RefresherIdle DEF Free
    <3>2. Served' = Served
      <4>1. pc'[Refresher] = "publish" <=> pc[Refresher] = "publish"
        BY <1>1, <2>3, Distinct
      <4> QED
        BY <1>1, <4>1 DEF Served
    <3>3. Between(disk)' /\ Fits(disk)' /\ Fits(conn)'
      BY <1>1, <2>1, <3>2 DEF Snapshots, Between, Fits
    <3>4. RefreshStage' /\ PruneStage'
      BY <3>1 DEF RefreshStage, PruneStage, PruneCalls, Free
    <3>5. ~HalfWay'
      BY <1>1 DEF HalfWay
    <3> QED
      BY <3>3, <3>4, <3>5 DEF Snapshots, QuietStage, PointerStage
  <2> QED
    BY <2>2, <2>3
<1> QED
  BY <1>1, <1>2 DEF IInv, Core

LEMMA FailNext ==
  ASSUME IInv, NEW t \in {Refresher, Pruner, Saver}, StatementFails(t)
  PROVE  IInv'
<1>1. /\ pc[t] \notin {"idle", "rollback", "publish", "save"} /\ Goto(t, "rollback")
      /\ faults < MaxFaults /\ faults' = faults + 1
      /\ UNCHANGED <<disk, conn, inTx, version, anchor, memory, entry, argument, written,
                     returned, cut, lost>>
  BY Distinct DEF StatementFails, localVars, engineVars, writerVars, histVars, IInv, Locked, Threads
<1>2. t \in Threads /\ "rollback" \in Calls
  BY Distinct, Kinds
<1>3. t \in Holding \/ FreeLock(t)
  BY <1>1, Distinct DEF FreeLock, Holding
<1>4. /\ pc' \in [Threads -> Calls]
      /\ pc'[t] = "rollback" /\ \A u \in Threads \ {t} : pc'[u] = pc[u]
      /\ Locked'
  BY <1>1, <1>2, <1>3, Moves DEF IInv
<1>5. TypeOK'
  BY <1>1, <1>4, BoundsAssumption DEF IInv, TypeOK, Calls
<1>6. \A w \in Writers : pc'[w] = pc[w]
  BY <1>4, Distinct
<1>7. pc'[Refresher] \in PromoteCalls => pc'[Refresher] = pc[Refresher]
  BY <1>4, Distinct DEF PromoteCalls
<1>8. Committed' /\ Numbers' /\ WrittenRows'
  BY <1>1, <1>6, <1>7 DEF IInv, Committed, Numbers, WrittenRows
<1>9. ASSUME ~cut
      PROVE  Snapshots'
  <2>1. Snapshots
    BY <1>9 DEF IInv
  <2>2. CASE t = Saver
    BY <1>1, <1>4, <2>1, <2>2, Distinct, SnapshotsStay DEF Still, Alike
  <2>3. CASE t \in {Refresher, Pruner}
    <3>1. HalfWay' = HalfWay
      BY <1>1 DEF HalfWay
    <3>2. Served' = Served
      <4>1. pc'[Refresher] = "publish" <=> pc[Refresher] = "publish"
        BY <1>1, <1>4, <2>3, Distinct
      <4> QED
        BY <1>1, <4>1 DEF Served
    <3>3. Between(disk)' /\ Fits(disk)'
      BY <1>1, <2>1, <3>2 DEF Snapshots, Between, Fits
    <3>4. RefreshStage' /\ PruneStage'
      <4>1. pc'[Refresher] \in Free \cup {"rollback"} /\ pc'[Pruner] \in Free \cup {"rollback"}
        BY <1>1, <1>4, <2>3, Distinct, PrunerIdle, RefresherIdle DEF Free
      <4> QED
        BY <4>1 DEF RefreshStage, PruneStage, PruneCalls, Free
    <3>5. QuietStage'
      BY <1>4, <2>3 DEF QuietStage, Free
    <3>6. PointerStage'
      <4>1. pc[Refresher] \in {"history", "commit", "rollback"} =>
              pc'[Refresher] \in {"history", "commit", "rollback"}
        BY <1>4, <2>3, Distinct
      <4> QED
        BY <1>1, <2>1, <3>1, <3>2, <4>1 DEF Snapshots, PointerStage, Fits
    <3> QED
      BY <3>3, <3>4, <3>5, <3>6 DEF Snapshots
  <2> QED
    BY <2>2, <2>3
<1> QED
  BY <1>1, <1>4, <1>5, <1>8, <1>9 DEF IInv

-----------------------------------------------------------------------------
(* prune_history and the synchronizer's commit *)

\* A statement of a pruning.
LEMMA PruneStep ==
  ASSUME IInv, NEW call \in PruneCalls, NEW next \in PruneCalls,
         NEW db \in Database, db.rows = conn.rows, db.pointer = conn.pointer,
         db.stale = conn.stale, Statement(Pruner, call, next, db)
  PROVE  /\ pc[Pruner] = call /\ pc'[Pruner] = next
         /\ conn' = db /\ UNCHANGED <<disk, version, anchor, memory, cut>>
         /\ (~cut => PruneStage') => IInv'
<1>1. call \in Calls \ Free /\ next \in Calls \ Free /\ Pruner # Refresher
  BY Distinct DEF PruneCalls, Calls, Free
<1>2. /\ pc[Pruner] = call /\ pc'[Pruner] = next
      /\ \A u \in Threads \ {Pruner} : pc'[u] = pc[u]
      /\ conn' = db
      /\ UNCHANGED <<disk, version, anchor, memory, cut>>
      /\ Core'
  BY <1>1, StatementStep
<1>3. ASSUME ~cut, PruneStage'
      PROVE  Snapshots'
  <2>1. Snapshots /\ pc[Refresher] \in Free /\ pc'[Refresher] = pc[Refresher]
    BY <1>1, <1>2, <1>3, Distinct, RefresherIdle DEF IInv
  <2>2. Served' = Served
    BY <1>2, <2>1 DEF Served
  <2>3. Between(disk)' /\ Fits(disk)'
    BY <1>2, <2>1, <2>2 DEF Snapshots, Between, Fits
  <2>4. RefreshStage'
    BY <2>1 DEF RefreshStage, Free
  <2>5. QuietStage'
    BY <1>1, <1>2 DEF QuietStage
  <2>6. Fits(conn)'
    BY <1>2, <2>1, <2>2 DEF Snapshots, PointerStage, Fits, Free
  <2> QED
    BY <1>3, <2>3, <2>4, <2>5, <2>6 DEF Snapshots, PointerStage
<1> QED
  BY <1>2, <1>3 DEF IInv, Core

\* The anchor is a snapshot on disk.
LEMMA BeginPruneNext == ASSUME IInv, BeginPrune PROVE IInv'
<1>1. /\ \E a \in Versions : conn.state[a] # "none" /\ anchor' = a
      /\ BeginImmediate(Pruner, "delete_payloads")
      /\ UNCHANGED <<version, argument, written, returned>>
  BY DEF BeginPrune, writerVars
<1>2. /\ anchor' \in Versions /\ conn.state[anchor'] # "none"
      /\ anchor' \in 0 .. MaxVersion /\ version' \in 0 .. MaxVersion
      /\ written' \in [Writers \cup {Saver} -> 0 .. MaxWrites]
      /\ \A w \in Writers : written'[w] = written[w]
  BY <1>1 DEF IInv, TypeOK, Versions
<1>3. "delete_payloads" \in Calls \ Free /\ Pruner # Refresher
  BY Distinct DEF Calls, PruneCalls, Free
<1>4. /\ pc[Pruner] = "idle" /\ FreeLock(Pruner)
      /\ pc'[Pruner] = (IF inTx THEN "rollback" ELSE "delete_payloads")
      /\ \A u \in Threads \ {Pruner} : pc'[u] = pc[u]
      /\ UNCHANGED <<conn, disk, memory, cut>>
      /\ Core'
  BY <1>1, <1>2, <1>3, BeginStep
<1>5. ASSUME ~cut
      PROVE  Snapshots'
  <2>1. pc'[Refresher] = pc[Refresher] /\ pc[Refresher] \in Free
    BY <1>4, Distinct DEF FreeLock, Holding, Free
  <2>2. ~HalfWay /\ Snapshots
    BY <1>4, <1>5, <2>1 DEF IInv, Snapshots, QuietStage, Free
  <2>3. Served' = Served
    BY <1>1, <1>4, <2>1 DEF Served
  <2>4. disk.state[anchor'] # "none" /\ anchor' \in disk.payloads
    BY <1>2, <2>2 DEF HalfWay, Snapshots, Between
  <2>5. Between(disk)' /\ Fits(disk)'
    BY <1>4, <2>2, <2>3, <2>4 DEF Snapshots, Between, Fits
  <2>6. RefreshStage'
    BY <2>1 DEF RefreshStage, Free
  <2>7. PruneStage'
    BY <1>2, <1>4, <2>2, <2>4 DEF PruneStage, PruneCalls, Sees, HalfWay
  <2>8. QuietStage'
    BY <1>4, <2>2 DEF QuietStage, HalfWay
  <2>9. Fits(conn)'
    BY <1>4, <2>1, <2>2, <2>3 DEF Snapshots, PointerStage, Fits, Free
  <2> QED
    BY <2>5, <2>6, <2>7, <2>8, <2>9 DEF Snapshots, PointerStage
<1> QED
  BY <1>4, <1>5 DEF IInv, Core

LEMMA DeletePayloadsNext == ASSUME IInv, DeletePayloads PROVE IInv'
<1> DEFINE S == {v \in conn.payloads : v >= anchor}
           db == [conn EXCEPT !.payloads = S]
<1>1. Statement(Pruner, "delete_payloads", "delete_snapshots", db)
  BY DEF DeletePayloads
<1>2. {"delete_payloads", "delete_snapshots"} \subseteq PruneCalls
  BY DEF PruneCalls
<1>3. conn \in Database /\ S \in SUBSET Versions
  BY Fields DEF IInv, TypeOK
<1>4. /\ db \in Database /\ db.payloads = S
      /\ db.state = conn.state /\ db.history = conn.history
      /\ db.pointer = conn.pointer /\ db.stale = conn.stale /\ db.rows = conn.rows
  <2>1. db = [conn EXCEPT !.payloads = S]
    OBVIOUS
  <2> HIDE DEF S, db
  <2> QED
    BY <1>3, <2>1 DEF Database
<1> HIDE DEF db
<1>5. /\ pc[Pruner] = "delete_payloads" /\ pc'[Pruner] = "delete_snapshots"
      /\ conn' = db /\ UNCHANGED <<disk, version, anchor, memory, cut>>
      /\ (~cut => PruneStage') => IInv'
  BY <1>1, <1>2, <1>4, PruneStep
<1>6. ASSUME ~cut
      PROVE  PruneStage'
  <2>1. PruneStage /\ Kept' = Kept
    BY <1>5, <1>6 DEF IInv, Snapshots, Kept
  <2> QED
    BY <1>2, <1>4, <1>5, <2>1 DEF PruneStage, Sees, Kept
<1> QED
  BY <1>5, <1>6

LEMMA DeleteSnapshotsNext == ASSUME IInv, DeleteSnapshots PROVE IInv'
<1> DEFINE f == [v \in Versions |-> IF v < anchor THEN "none" ELSE conn.state[v]]
           db == [conn EXCEPT !.state = f]
<1>1. Statement(Pruner, "delete_snapshots", "delete_history", db)
  BY DEF DeleteSnapshots
<1>2. {"delete_snapshots", "delete_history"} \subseteq PruneCalls
  BY DEF PruneCalls
<1>3. conn \in Database /\ f \in [Versions -> States]
  BY Fields DEF IInv, TypeOK, States
<1>4. /\ db \in Database /\ db.state = f
      /\ db.payloads = conn.payloads /\ db.history = conn.history
      /\ db.pointer = conn.pointer /\ db.stale = conn.stale /\ db.rows = conn.rows
  <2> HIDE DEF f
  <2> QED
    BY <1>3, UpdatedStates
<1> HIDE DEF db
<1>5. /\ pc[Pruner] = "delete_snapshots" /\ pc'[Pruner] = "delete_history"
      /\ conn' = db /\ UNCHANGED <<disk, version, anchor, memory, cut>>
      /\ (~cut => PruneStage') => IInv'
  BY <1>1, <1>2, <1>4, PruneStep
<1>6. ASSUME ~cut
      PROVE  PruneStage'
  <2>1. PruneStage /\ Kept' = Kept /\ Pruned' = Pruned
    BY <1>5, <1>6 DEF IInv, Snapshots, Kept, Pruned
  <2> QED
    BY <1>2, <1>4, <1>5, <2>1 DEF PruneStage, Sees, Pruned
<1> QED
  BY <1>5, <1>6

LEMMA DeleteHistoryNext == ASSUME IInv, DeleteHistory PROVE IInv'
<1>0. PICK last \in {anchor - 1, anchor} :
        Statement(Pruner, "delete_history", "commit",
          [conn EXCEPT !.history = {v \in @ : v > last}])
  BY DEF DeleteHistory
<1> DEFINE S == {v \in conn.history : v > last}
           db == [conn EXCEPT !.history = S]
<1>1. Statement(Pruner, "delete_history", "commit", db)
  BY <1>0
<1>2. {"delete_history", "commit"} \subseteq PruneCalls
  BY DEF PruneCalls
<1>3. conn \in Database /\ S \in SUBSET Versions
  BY Fields DEF IInv, TypeOK
<1>4. /\ db \in Database /\ db.history = S
      /\ db.payloads = conn.payloads /\ db.state = conn.state
      /\ db.pointer = conn.pointer /\ db.stale = conn.stale /\ db.rows = conn.rows
  <2> HIDE DEF S
  <2> QED
    BY <1>3, UpdatedHistory
<1> HIDE DEF db
<1>5. /\ pc[Pruner] = "delete_history" /\ pc'[Pruner] = "commit"
      /\ conn' = db /\ UNCHANGED <<disk, version, anchor, memory, cut>>
      /\ (~cut => PruneStage') => IInv'
  BY <1>1, <1>2, <1>4, PruneStep
<1>6. ASSUME ~cut
      PROVE  PruneStage'
  <2>1. PruneStage /\ Kept' = Kept /\ Pruned' = Pruned
    BY <1>5, <1>6 DEF IInv, Snapshots, Kept, Pruned
  <2>2. Sees(Kept, Pruned, {v \in disk.history : v > last})'
    BY <1>2, <1>4, <1>5, <2>1 DEF PruneStage, Sees
  <2>3. last \in {anchor - 1, anchor}'
    BY <1>0, <1>5
  <2> QED
    BY <1>2, <1>5, <2>1, <2>2, <2>3 DEF PruneStage
<1> QED
  BY <1>5, <1>6

\* What a pruning leaves is between two promotions again.
LEMMA CommitPruneNext == ASSUME IInv, CommitPrune PROVE IInv'
<1>1. /\ pc[Pruner] = "commit" /\ Goto(Pruner, "idle")
      /\ Commit(Pruner) /\ UNCHANGED <<localVars, faults>>
  BY DEF CommitPrune
<1>2. /\ pc'[Pruner] = "idle" /\ \A u \in Threads \ {Pruner} : pc'[u] = pc[u]
      /\ disk' = conn
      /\ UNCHANGED <<conn, version, anchor, memory>>
      /\ cut' = (cut \/ (Pruner \notin Guarded /\ HalfWay))
      /\ Core'
  BY <1>1, CommitStep
<1>3. ASSUME ~cut'
      PROVE  Snapshots'
  <2>1. ~cut /\ Snapshots
    BY <1>2, <1>3 DEF IInv
  <2>2. PICK last \in {anchor - 1, anchor} :
          Sees(Kept, Pruned, {v \in disk.history : v > last})
    BY <1>1, <2>1 DEF Snapshots, PruneStage
  <2>3. pc'[Refresher] = pc[Refresher] /\ pc[Refresher] \in Free
    BY <1>1, <1>2, Distinct, RefresherIdle DEF Free
  <2>4. Served' = Served /\ anchor \in Versions /\ disk.state[anchor] # "none"
    BY <1>1, <1>2, <2>1, <2>3 DEF Served, Snapshots, PruneStage, PruneCalls
  <2>5. Served \in 0 .. MaxVersion /\ ~(anchor > Served)
    BY <2>1, <2>4 DEF Served, IInv, TypeOK, Snapshots, Between
  <2>6. Between(disk)'
    <3>1. /\ disk'.payloads = Kept /\ disk'.state = Pruned
          /\ disk'.history = {v \in disk.history : v > last}
      BY <1>2, <2>2 DEF Sees
    <3>2. Between(disk) /\ disk.payloads \subseteq Versions /\ disk.history \subseteq Versions
      BY <2>1, Fields DEF Snapshots, IInv, TypeOK
    <3>3. ASSUME NEW v \in Versions
          PROVE  /\ disk'.state[v] # "building"
                 /\ disk'.state[v] = "current" <=> v = Served'
                 /\ v \in disk'.payloads <=> disk'.state[v] # "none"
                 /\ v > Served' => disk'.state[v] = "none"
      BY <2>4, <2>5, <3>1, <3>2 DEF Between, Kept, Pruned, Versions
    <3>4. disk'.history \subseteq disk'.payloads
      BY <2>4, <3>1, <3>2 DEF Between, Kept, Versions
    <3>5. ASSUME NEW u \in disk'.payloads, NEW v \in disk'.payloads \cap Eventful, u < v
          PROVE  v \in disk'.history
      <4>1. /\ u \in disk.payloads /\ v \in disk.payloads \cap Eventful
            /\ u \in Versions /\ v \in Versions /\ u >= anchor
        BY <3>1, <3>2, <3>5 DEF Kept
      <4>2. v \in disk.history /\ v > last
        BY <2>4, <3>2, <3>5, <4>1 DEF Between, Versions
      <4> QED
        BY <3>1, <4>2
    <3>6. ASSUME NEW v \in disk'.payloads \cap Eventful, v > anchor'
          PROVE  v \in disk'.history
      <4>1. v \in disk.payloads \cap Eventful /\ v \in Versions /\ v > anchor
        BY <1>2, <3>1, <3>2, <3>6 DEF Kept
      <4>2. v \in disk.history /\ v > last
        BY <2>4, <3>2, <4>1 DEF Between, Versions
      <4> QED
        BY <3>1, <4>2
    <3> QED
      BY <3>3, <3>4, <3>5, <3>6 DEF Between
  <2>7. Fits(disk)' /\ Fits(conn)'
    BY <1>2, <2>1, <2>3, <2>4 DEF Snapshots, PointerStage, Fits, Free
  <2>8. ~HalfWay'
    BY <1>2 DEF HalfWay
  <2>9. RefreshStage' /\ PruneStage'
    BY <1>2, <2>3 DEF RefreshStage, PruneStage, PruneCalls, Free
  <2> QED
    BY <2>6, <2>7, <2>8, <2>9 DEF Snapshots, QuietStage, PointerStage
<1> QED
  BY <1>2, <1>3 DEF IInv, Core

LEMMA SaveStateNext ==
  ASSUME IInv, BeginSave \/ UpsertMark \/ CommitSave
  PROVE  IInv'
<1>1. Saver \in Threads /\ Saver # Refresher /\ Saver # Pruner /\ Saver \notin Writers
  BY Distinct, ThreadsAssumption
<1>2. CASE BeginSave
  <2>1. /\ BeginImmediate(Saver, "upsert")
        /\ written[Saver] < MaxWrites /\ written' = [written EXCEPT ![Saver] = @ + 1]
        /\ UNCHANGED <<version, anchor, argument, returned>>
    BY <1>2 DEF BeginSave, Writes
  <2>2. /\ version' \in 0 .. MaxVersion /\ anchor' \in 0 .. MaxVersion
        /\ written' \in [Writers \cup {Saver} -> 0 .. MaxWrites]
        /\ \A w \in Writers : written'[w] = written[w]
    BY <1>1, <2>1, BoundsAssumption DEF IInv, TypeOK
  <2>3. "upsert" \in Calls \ Free
    BY DEF Calls, SaveCalls, Free
  <2>4. /\ \A u \in Threads \ {Saver} : pc'[u] = pc[u]
        /\ UNCHANGED <<conn, disk, memory, cut>>
        /\ Core'
    BY <1>1, <2>1, <2>2, <2>3, BeginStep
  <2>5. ~cut => Snapshots'
    BY <1>1, <2>1, <2>4, Distinct, SnapshotsStay DEF IInv, Still, Alike
  <2> QED
    BY <2>4, <2>5 DEF IInv, Core
<1>3. CASE UpsertMark
  <2> DEFINE db == [conn EXCEPT !.mark = written[Saver]]
  <2>1. Statement(Saver, "upsert", "commit", db)
    BY <1>3 DEF UpsertMark
  <2>2. conn \in Database /\ written[Saver] \in 0 .. MaxWrites
    BY DEF IInv, TypeOK
  <2>3. db \in Database /\ db.rows = conn.rows /\ Alike(db, conn)
    BY <2>2, UpdatedMark DEF Alike
  <2> HIDE DEF db
  <2>4. {"upsert", "commit"} \subseteq Calls \ Free
    BY DEF Calls, SaveCalls, Free
  <2>5. /\ \A u \in Threads \ {Saver} : pc'[u] = pc[u]
        /\ conn' = db /\ UNCHANGED <<disk, version, anchor, memory, cut>>
        /\ Core'
    BY <1>1, <2>1, <2>3, <2>4, StatementStep
  <2>6. ~cut => Snapshots'
    <3>1. Still /\ Alike(conn', conn) /\ Alike(disk', disk)
      BY <1>1, <2>3, <2>5, Distinct DEF Still, Alike
    <3> QED
      BY <3>1, SnapshotsStay DEF IInv
  <2> QED
    BY <2>5, <2>6 DEF IInv, Core
<1>4. CASE CommitSave
  <2>1. /\ pc[Saver] = "commit" /\ Goto(Saver, "idle")
        /\ Commit(Saver) /\ UNCHANGED <<localVars, faults>>
    BY <1>4 DEF CommitSave
  <2>2. /\ \A u \in Threads \ {Saver} : pc'[u] = pc[u]
        /\ disk' = conn
        /\ UNCHANGED <<conn, version, anchor, memory>>
        /\ cut' = (cut \/ (Saver \notin Guarded /\ HalfWay))
        /\ Core'
    BY <2>1, CommitStep
  <2>3. ~cut' => Snapshots'
    BY <1>1, <2>2, Distinct, EndsBetween DEF Still
  <2> QED
    BY <2>2, <2>3 DEF IInv, Core
<1> QED
  BY <1>2, <1>3, <1>4

-----------------------------------------------------------------------------
(* Plain writes *)

\* A writer is none of the transactional threads.
LEMMA WriterStill ==
  ASSUME NEW w \in Writers, \A u \in Threads \ {w} : pc'[u] = pc[u],
         UNCHANGED <<version, anchor, memory>>
  PROVE  Still
BY Distinct DEF Still

\* A statement that writes a row, by InsertRow or save_context.
LEMMA InsertsNext ==
  ASSUME IInv, NEW w \in Writers, pc[w] \in {"idle", "save"}, FreeLock(w),
         NEW db \in Database, db.rows = conn.rows, Inserts(w, db),
         ~cut => \/ Alike(db, conn)
                 \/ /\ ~HalfWay /\ pc[Refresher] \in Free /\ pc[Pruner] \in Free
                    /\ db.payloads = conn.payloads /\ db.state = conn.state
                    /\ db.history = conn.history /\ Fits(db)
  PROVE  IInv'
<1> DEFINE S == db.rows \cup {<<w, written'[w]>>}
           new == [db EXCEPT !.rows = S]
<1>1. /\ written[w] < MaxWrites /\ written' = [written EXCEPT ![w] = @ + 1]
      /\ Goto(w, "commit")
      /\ conn' = new /\ inTx' = TRUE
      /\ UNCHANGED <<disk, version, anchor, memory, entry, argument, returned, faults,
                     cut, lost>>
  BY DEF Inserts, Writes, Execute, engineVars, histVars
<1>2. /\ written' \in [Writers \cup {Saver} -> 0 .. MaxWrites]
      /\ written'[w] \in 1 .. MaxWrites
      /\ \A u \in Writers \ {w} : written'[u] = written[u]
  BY <1>1, BoundsAssumption DEF IInv, TypeOK
<1>3. S \in SUBSET Rows
  BY <1>2, Fields DEF Rows
<1>4. new \in Database /\ new.rows = S /\ Alike(new, db)
  <2> HIDE DEF S
  <2> QED
    BY <1>3, UpdatedRows DEF Alike
<1> HIDE DEF new
<1>5. w \in Threads /\ "commit" \in Calls /\ "commit" # "save"
  BY Distinct DEF Calls, SaveCalls
<1>6. /\ pc' \in [Threads -> Calls]
      /\ pc'[w] = "commit" /\ \A u \in Threads \ {w} : pc'[u] = pc[u]
      /\ Locked'
  BY <1>1, <1>5, Moves DEF IInv
<1>7. TypeOK'
  BY <1>1, <1>2, <1>4, <1>6 DEF IInv, TypeOK, Calls
<1>8. Still
  BY <1>1, <1>6, WriterStill
<1>9. Committed' /\ Numbers'
  <2>1. \A u \in Writers \ {w} : u \in Threads /\ pc'[u] = pc[u]
    BY <1>6, Distinct
  <2> QED
    BY <1>1, <1>2, <1>8, <2>1 DEF IInv, Committed, Numbers, Still, Versions
<1>10. WrittenRows'
  <2>1. \A u \in Writers \ {w} : u \in Threads /\ pc'[u] = pc[u]
    BY <1>6, Distinct
  <2>2. conn'.rows = conn.rows \cup {<<w, written'[w]>>}
    BY <1>1, <1>4
  <2> QED
    BY <1>1, <1>2, <2>1, <2>2 DEF IInv, WrittenRows
<1>11. ASSUME ~cut
       PROVE  Snapshots'
  <2>1. CASE Alike(db, conn)
    <3>1. Alike(conn', conn) /\ Alike(disk', disk)
      BY <1>1, <1>4, <2>1 DEF Alike
    <3> QED
      BY <1>8, <1>11, <3>1, SnapshotsStay DEF IInv
  <2>2. CASE /\ ~HalfWay /\ pc[Refresher] \in Free /\ pc[Pruner] \in Free
             /\ db.payloads = conn.payloads /\ db.state = conn.state
             /\ db.history = conn.history /\ Fits(db)
    <3>1. Snapshots /\ Served' = Served
      BY <1>8, <1>11 DEF IInv, Served, Still
    <3>2. Fits(conn)' /\ Fits(disk)' /\ ~HalfWay'
      BY <1>1, <1>4, <2>2, <3>1 DEF Fits, Alike, HalfWay, Snapshots
    <3>3. Between(disk)'
      BY <1>1, <3>1 DEF Snapshots, Between
    <3>4. RefreshStage' /\ PruneStage'
      BY <1>8, <2>2 DEF RefreshStage, PruneStage, PruneCalls, Free, Still
    <3> QED
      BY <3>2, <3>3, <3>4 DEF Snapshots, QuietStage, PointerStage
  <2> QED
    BY <1>11, <2>1, <2>2
<1> QED
  BY <1>1, <1>6, <1>7, <1>9, <1>10, <1>11 DEF IInv

LEMMA InsertRowNext == ASSUME IInv, NEW w \in Writers, InsertRow(w) PROVE IInv'
<1>1. pc[w] = "idle" /\ FreeLock(w) /\ Inserts(w, conn)
  BY DEF InsertRow
<1>2. conn \in Database /\ Alike(conn, conn)
  BY DEF IInv, TypeOK, Alike
<1> QED
  BY <1>1, <1>2, InsertsNext

LEMMA CallSaveContextNext ==
  ASSUME IInv, NEW w \in LockedWriters, CallSaveContext(w)
  PROVE  IInv'
<1>1. w \in Writers
  BY WritersAssumption
<1>2. /\ Goto(w, "save") /\ argument' = [argument EXCEPT ![w] = entry]
      /\ UNCHANGED <<disk, conn, inTx, version, anchor, memory, entry, written, returned,
                     faults, cut, lost>>
  BY DEF CallSaveContext, engineVars, histVars
<1>3. w \in Threads /\ "save" \in Calls /\ "save" \in Free
  BY <1>1, Distinct, Kinds DEF Free
<1>4. /\ pc' \in [Threads -> Calls]
      /\ pc'[w] = "save" /\ \A u \in Threads \ {w} : pc'[u] = pc[u]
      /\ Locked'
  BY <1>1, <1>2, <1>3, Moves DEF IInv
<1>5. TypeOK'
  BY <1>2, <1>4 DEF IInv, TypeOK, Calls
<1>6. Still
  BY <1>1, <1>2, <1>4, WriterStill
<1>7. \A u \in Writers : pc'[u] = "commit" => pc[u] = "commit"
  BY <1>4, Distinct
<1>8. Committed' /\ Numbers' /\ WrittenRows'
  BY <1>2, <1>6, <1>7 DEF IInv, Committed, Numbers, WrittenRows, Still
<1>9. ~cut => Snapshots'
  BY <1>2, <1>6, SnapshotsStay DEF IInv, Alike
<1> QED
  BY <1>2, <1>4, <1>5, <1>8, <1>9 DEF IInv

LEMMA SaveContextNext ==
  ASSUME IInv, NEW w \in LockedWriters, SaveContext(w)
  PROVE  IInv'
<1> DEFINE db == [conn EXCEPT !.pointer = argument[w], !.stale = ~PointsTo(conn, argument[w])]
<1>1. pc[w] = "save" /\ FreeLock(w) /\ Inserts(w, db) /\ w \in Writers
  BY WritersAssumption DEF SaveContext
<1>2. conn \in Database /\ argument[w] \in 0 .. MaxVersion
  BY DEF IInv, TypeOK
<1>3. PointsTo(conn, argument[w]) \in BOOLEAN
  BY DEF PointsTo
<1>4. /\ db \in Database /\ db.pointer = argument[w] /\ db.rows = conn.rows
      /\ db.stale = ~PointsTo(conn, argument[w])
      /\ db.payloads = conn.payloads /\ db.state = conn.state /\ db.history = conn.history
  BY <1>2, <1>3 DEF Database
<1> HIDE DEF db
<1>5. ASSUME ~cut
      PROVE  /\ ~HalfWay /\ pc[Refresher] \in Free /\ pc[Pruner] \in Free /\ Fits(db)
  <2>1. ~HalfWay /\ pc[Refresher] \in Free /\ pc[Pruner] \in Free
    BY <1>1, <1>5, NotHalfWay
  <2>2. ASSUME PointsTo(conn, argument[w])
        PROVE  argument[w] = Served
    <3>1. \A v \in Versions : v = argument[w] <=> v = Served
      BY <1>5, <2>1, <2>2 DEF HalfWay, PointsTo, IInv, Snapshots, Between
    <3>2. Served \in 0 .. MaxVersion
      BY DEF Served, IInv, TypeOK
    <3> QED
      BY <1>2, <3>1, <3>2 DEF Versions
  <2> QED
    BY <1>4, <2>1, <2>2 DEF Fits
<1> QED
  BY <1>1, <1>4, <1>5, InsertsNext

\* An exception of a write leaves the transaction open.
LEMMA WriteRaisesNext == ASSUME IInv, NEW w \in Writers, WriteRaises(w) PROVE IInv'
<1>1. /\ (inTx' = TRUE) \/ (inTx' = inTx)
      /\ Goto(w, "idle") /\ faults < MaxFaults /\ faults' = faults + 1
      /\ UNCHANGED <<disk, conn, version, anchor, memory, entry, argument, written,
                     returned, cut, lost>>
  BY DEF WriteRaises, localVars, engineVars, writerVars, histVars
<1>2. w \in Threads /\ "idle" \in Calls /\ "idle" \in Free
  BY Distinct, Kinds DEF Free
<1>3. /\ pc' \in [Threads -> Calls]
      /\ pc'[w] = "idle" /\ \A u \in Threads \ {w} : pc'[u] = pc[u]
      /\ Locked'
  BY <1>1, <1>2, Moves DEF IInv
<1>4. TypeOK'
  <2>1. inTx' \in BOOLEAN
    BY <1>1 DEF IInv, TypeOK
  <2>2. faults' \in 0 .. MaxFaults
    BY <1>1, BoundsAssumption DEF IInv, TypeOK
  <2> QED
    BY <1>1, <1>3, <2>1, <2>2 DEF IInv, TypeOK, Calls
<1>5. Still
  BY <1>1, <1>3, WriterStill
<1>6. \A u \in Writers : pc'[u] = "commit" => pc[u] = "commit"
  BY <1>3, Distinct
<1>7. Committed' /\ Numbers' /\ WrittenRows'
  BY <1>1, <1>5, <1>6 DEF IInv, Committed, Numbers, WrittenRows, Still
<1>8. ~cut => Snapshots'
  BY <1>1, <1>5, SnapshotsStay DEF IInv, Alike
<1> QED
  BY <1>1, <1>3, <1>4, <1>7, <1>8 DEF IInv

LEMMA CommitRowNext == ASSUME IInv, NEW w \in Writers, CommitRow(w) PROVE IInv'
<1>1. /\ pc[w] = "commit" /\ Goto(w, "idle")
      /\ disk' = conn /\ inTx' = FALSE
      /\ cut' = (cut \/ (w \notin Guarded /\ HalfWay))
      /\ returned' = returned \cup {<<w, written[w]>>}
      /\ UNCHANGED <<conn, version, anchor, memory, entry, argument, written, faults, lost>>
  BY DEF CommitRow, Commit, EndsTransaction, engineVars
<1>2. w \in Threads /\ "idle" \in Calls /\ "idle" \in Free
  BY Distinct, Kinds DEF Free
<1>3. /\ pc' \in [Threads -> Calls]
      /\ pc'[w] = "idle" /\ \A u \in Threads \ {w} : pc'[u] = pc[u]
      /\ Locked'
  BY <1>1, <1>2, Moves DEF IInv
<1>4. <<w, written[w]>> \in Rows /\ <<w, written[w]>> \in conn.rows \cup lost
  BY <1>1 DEF IInv, Numbers, WrittenRows, Rows
<1>5. TypeOK'
  <2>1. cut' \in BOOLEAN /\ returned' \subseteq Rows
    BY <1>1, <1>4 DEF IInv, TypeOK
  <2> QED
    BY <1>1, <1>3, <2>1 DEF IInv, TypeOK, Calls
<1>6. Still
  BY <1>1, <1>3, WriterStill
<1>7. \A u \in Writers : pc'[u] = "commit" => pc[u] = "commit"
  BY <1>3, Distinct
<1>8. Committed' /\ Numbers' /\ WrittenRows'
  BY <1>1, <1>4, <1>6, <1>7 DEF IInv, Committed, Numbers, WrittenRows, Still
<1>9. ASSUME ~cut'
      PROVE  Snapshots'
  <2>1. ~cut /\ (w \notin Guarded => ~HalfWay)
    BY <1>1, <1>9
  <2>2. w \in Guarded => w \in LockedWriters /\ w \in Holding
    BY <1>1, Distinct DEF Holding
  <2>3. ~HalfWay
    BY <2>1, <2>2, NotHalfWay
  <2> QED
    BY <1>1, <1>6, <2>1, <2>3, EndsBetween
<1> QED
  BY <1>1, <1>3, <1>5, <1>8, <1>9 DEF IInv

-----------------------------------------------------------------------------
(* Restarts, and the invariant *)

\* What hydrate_runtime restores is what the last promotion left.
LEMMA LastServed ==
  ASSUME IInv, ~cut
  PROVE  LastOf(Hydratable(disk)) = Served
<1> DEFINE S == Hydratable(disk)
<1>1. Between(disk) /\ disk.payloads \subseteq Versions
  BY Fields DEF IInv, TypeOK, Snapshots
<1>2. S \subseteq Versions /\ \A v \in S : ~(v > Served)
  BY <1>1 DEF Hydratable, Between
<1>3. Served \in 0 .. MaxVersion
  BY DEF Served, IInv, TypeOK
<1>4. CASE Served = 0
  <2>1. S = {}
    BY <1>2, <1>4 DEF Versions
  <2> QED
    BY <1>4, <2>1 DEF LastOf
<1>5. CASE Served # 0
  <2>1. Served \in Versions
    BY <1>3, <1>5 DEF Versions
  <2>2. Served \in S
    BY <1>1, <2>1 DEF Hydratable, Between
  <2>3. \A u \in S : u <= Served
    BY <1>2, <1>3 DEF Versions
  <2> HIDE DEF S
  <2>4. LastOf(S) \in S /\ \A u \in S : u <= LastOf(S)
    BY <2>2, <2>3 DEF LastOf
  <2> QED
    BY <1>2, <1>3, <2>2, <2>3, <2>4 DEF Versions, S
<1> QED
  BY <1>4, <1>5

\* A set of versions has a last one.
LEMMA LastVersion ==
  ASSUME NEW S \in SUBSET Versions
  PROVE  LastOf(S) \in 0 .. MaxVersion
<1>1. CASE S = {}
  BY <1>1, BoundsAssumption DEF LastOf
<1>2. CASE S # {}
  <2> DEFINE T == {MaxVersion - v : v \in S}
             R == OpToRel(<, Nat)
  <2>0. \A v \in S : v \in 1 .. MaxVersion
    BY DEF Versions
  <2>1. T \subseteq Nat /\ T # {}
    BY <1>2, <2>0, BoundsAssumption
  <2>2. IsWellFoundedOn(R, Nat)
    BY NatLessThanWellFounded
  <2>3. \A m, n \in Nat : <<m, n>> \in R <=> m < n
    BY DEF OpToRel
  <2> HIDE DEF R, T
  <2>4. PICK n \in T : \A m \in T : ~(<<m, n>> \in R)
    BY <2>1, <2>2, WFMin
  <2>5. PICK v \in S : n = MaxVersion - v
    BY <2>4 DEF T
  <2>6. ASSUME NEW u \in S
        PROVE  u <= v
    <3>1. MaxVersion - u \in T /\ MaxVersion - u \in Nat /\ n \in Nat
      BY <2>1, <2>4 DEF T
    <3>2. ~(MaxVersion - u < n)
      BY <2>3, <2>4, <3>1
    <3> QED
      BY <2>0, <2>5, <3>2, BoundsAssumption
  <2>7. LastOf(S) \in S
    BY <1>2, <2>6 DEF LastOf
  <2> QED
    BY <2>0, <2>7, BoundsAssumption
<1> QED
  BY <1>1, <1>2

LEMMA CrashNext == ASSUME IInv, Crash PROVE IInv'
<1>1. /\ faults < MaxFaults /\ faults' = faults + 1
      /\ conn' = disk /\ inTx' = FALSE
      /\ pc' = [t \in Threads |-> "idle"]
      /\ memory' = LastOf(Hydratable(disk)) /\ entry' = disk.pointer
      /\ UNCHANGED <<disk, version, anchor, argument, written, returned, cut, lost>>
  BY DEF Crash, writerVars, histVars
<1>2. \A t \in Threads : pc'[t] = "idle"
  BY <1>1
<1>3. pc'[Refresher] = "idle" /\ pc'[Pruner] = "idle"
  BY <1>2, Distinct
<1>4. TypeOK'
  <2>1. memory' \in 0 .. MaxVersion
    <3>1. Hydratable(disk) \in SUBSET Versions
      BY DEF Hydratable
    <3> QED
      BY <1>1, <3>1, LastVersion
  <2>2. entry' \in 0 .. MaxVersion /\ faults' \in 0 .. MaxFaults
    BY <1>1, Fields, BoundsAssumption DEF IInv, TypeOK
  <2>3. pc' \in [Threads -> Calls]
    BY <1>1 DEF Calls
  <2> QED
    BY <1>1, <2>1, <2>2, <2>3 DEF IInv, TypeOK, Calls
<1>5. Locked'
  <2>1. Holding' = {}
    BY <1>2, Distinct DEF Holding
  <2> QED
    BY <1>2, <2>1 DEF Locked
<1>6. Committed' /\ Numbers' /\ WrittenRows'
  <2>1. \A w \in Writers : pc'[w] = "idle"
    BY <1>2, Distinct
  <2> QED
    BY <1>1, <1>3, <2>1 DEF IInv, Committed, Numbers, WrittenRows, PromoteCalls
<1>7. ASSUME ~cut
      PROVE  Snapshots'
  <2>1. Snapshots /\ Served' = Served
    BY <1>1, <1>3, <1>7, LastServed DEF IInv, Served
  <2>2. Between(disk)' /\ Fits(disk)' /\ Fits(conn)'
    BY <1>1, <2>1 DEF Snapshots, Between, Fits
  <2>3. ~HalfWay'
    BY <1>1 DEF HalfWay
  <2>4. RefreshStage' /\ PruneStage'
    BY <1>3 DEF RefreshStage, PruneStage, PruneCalls
  <2> QED
    BY <2>2, <2>3, <2>4 DEF Snapshots, QuietStage, PointerStage
<1> QED
  BY <1>1, <1>4, <1>5, <1>6, <1>7 DEF IInv

LEMMA InvInit == Init => IInv
<1> SUFFICES ASSUME Init PROVE IInv
  OBVIOUS
<1>1. pc = [t \in Threads |-> "idle"] /\ conn = EmptyDatabase /\ disk = EmptyDatabase
  BY DEF Init
<1>2. \A t \in Threads : pc[t] = "idle"
  BY <1>1
<1>3. EmptyDatabase \in Database
  BY BoundsAssumption DEF EmptyDatabase, Database, States
<1>4. TypeOK
  <2>1. pc \in [Threads -> Calls]
    BY <1>1 DEF Calls
  <2>2. /\ argument \in [LockedWriters -> 0 .. MaxVersion]
        /\ written \in [Writers \cup {Saver} -> 0 .. MaxWrites]
    BY BoundsAssumption DEF Init
  <2>3. /\ version \in 0 .. MaxVersion /\ anchor \in 0 .. MaxVersion
        /\ memory \in 0 .. MaxVersion /\ entry \in 0 .. MaxVersion
        /\ faults \in 0 .. MaxFaults
    BY BoundsAssumption DEF Init
  <2>4. /\ inTx \in BOOLEAN /\ cut \in BOOLEAN
        /\ returned \subseteq Rows /\ lost \subseteq Rows
    BY DEF Init
  <2> QED
    BY <1>1, <1>3, <2>1, <2>2, <2>3, <2>4 DEF TypeOK, Calls
<1>5. Locked
  <2>1. Holding = {}
    BY <1>2, Distinct DEF Holding
  <2> QED
    BY <1>2, <2>1 DEF Locked
<1>6. Committed /\ Numbers /\ WrittenRows
  <2>1. \A w \in Writers : pc[w] = "idle"
    BY <1>2, Distinct
  <2> QED
    BY <1>2, <2>1, Distinct DEF Init, Committed, Numbers, WrittenRows, PromoteCalls
<1>7. Snapshots
  <2>1. pc[Refresher] = "idle" /\ pc[Pruner] = "idle" /\ Served = 0
    BY <1>2, Distinct DEF Served, Init
  <2>2. Between(disk) /\ Fits(disk) /\ Fits(conn)
    BY <2>1, BoundsAssumption DEF Init, EmptyDatabase, Between, Fits, Versions
  <2>3. RefreshStage /\ PruneStage /\ ~HalfWay
    BY <1>1, <2>1 DEF RefreshStage, PruneStage, PruneCalls, HalfWay
  <2> QED
    BY <2>2, <2>3 DEF Snapshots, QuietStage, PointerStage
<1> QED
  BY <1>4, <1>5, <1>6, <1>7 DEF IInv

LEMMA InvNext == IInv /\ [Next]_vars => IInv'
<1> SUFFICES ASSUME IInv, [Next]_vars PROVE IInv'
  OBVIOUS
<1>1. CASE Promote
  <2>1. CASE BeginPromotion
    BY <2>1, BeginPromotionNext
  <2>2. CASE InsertPayload
    BY <2>2, InsertPayloadNext
  <2>3. CASE InsertSnapshot
    BY <2>3, InsertSnapshotNext
  <2>4. CASE SupersedeCurrent
    BY <2>4, SupersedeCurrentNext
  <2>5. CASE MakeCurrent
    BY <2>5, MakeCurrentNext
  <2>6. CASE PointContext
    BY <2>6, PointContextNext
  <2>7. CASE InsertHistory
    BY <2>7, InsertHistoryNext
  <2>8. CASE CommitPromotion
    BY <2>8, CommitPromotionNext
  <2>9. CASE PublishInMemory
    BY <2>9, PublishInMemoryNext
  <2>10. CASE RollBackAndRaise(Refresher)
    BY <2>10, RollbackNext
  <2> QED
    BY <1>1, <2>1, <2>2, <2>3, <2>4, <2>5, <2>6, <2>7, <2>8, <2>9, <2>10 DEF Promote
<1>2. CASE Prune
  <2>1. CASE BeginPrune
    BY <2>1, BeginPruneNext
  <2>2. CASE DeletePayloads
    BY <2>2, DeletePayloadsNext
  <2>3. CASE DeleteSnapshots
    BY <2>3, DeleteSnapshotsNext
  <2>4. CASE DeleteHistory
    BY <2>4, DeleteHistoryNext
  <2>5. CASE CommitPrune
    BY <2>5, CommitPruneNext
  <2>6. CASE RollBackAndRaise(Pruner)
    BY <2>6, RollbackNext
  <2> QED
    BY <1>2, <2>1, <2>2, <2>3, <2>4, <2>5, <2>6 DEF Prune
<1>3. CASE SaveState
  <2>1. CASE RollBackAndRaise(Saver)
    BY <2>1, RollbackNext
  <2> QED
    BY <1>3, <2>1, SaveStateNext DEF SaveState
<1>4. CASE \E w \in Writers : Write(w) \/ WriteRaises(w)
  <2>1. PICK w \in Writers : Write(w) \/ WriteRaises(w)
    BY <1>4
  <2>2. CASE InsertRow(w)
    BY <2>2, InsertRowNext
  <2>3. CASE w \in LockedWriters /\ CallSaveContext(w)
    BY <2>3, CallSaveContextNext
  <2>4. CASE w \in LockedWriters /\ SaveContext(w)
    BY <2>4, SaveContextNext
  <2>5. CASE CommitRow(w)
    BY <2>5, CommitRowNext
  <2>6. CASE WriteRaises(w)
    BY <2>6, WriteRaisesNext
  <2> QED
    BY <2>1, <2>2, <2>3, <2>4, <2>5, <2>6 DEF Write
<1>5. CASE \E t \in {Refresher, Saver, Pruner} : StatementFails(t)
  <2>1. PICK t \in {Refresher, Pruner, Saver} : StatementFails(t)
    BY <1>5
  <2> QED
    BY <2>1, FailNext
<1>6. CASE Crash
  BY <1>6, CrashNext
<1>7. CASE UNCHANGED vars
  <2>1. UNCHANGED <<disk, conn, inTx, pc, version, anchor, memory, entry, argument, written,
                    returned, faults, cut, lost>>
    BY <1>7 DEF vars, localVars, engineVars, writerVars, histVars
  <2>2. TypeOK' /\ Committed' /\ Numbers' /\ WrittenRows'
    BY <2>1 DEF IInv, TypeOK, Committed, Numbers, WrittenRows
  <2>3. Locked'
    <3>1. Holding' = Holding
      BY <2>1 DEF Holding
    <3> QED
      BY <2>1, <3>1 DEF IInv, Locked
  <2>4. ~cut' => Snapshots'
    BY <2>1, SnapshotsStay DEF IInv, Still, Alike
  <2> QED
    BY <2>2, <2>3, <2>4 DEF IInv
<1> QED
  BY <1>1, <1>2, <1>3, <1>4, <1>5, <1>6, <1>7 DEF Next

-----------------------------------------------------------------------------
(* The theorems *)

\* The type invariant, with every thread interleaving on the connection
\* (context_catalog.py:239-350, 422-459).
THEOREM TypeCorrect == Spec => []TypeOK
<1>1. IInv /\ [Next]_vars => IInv'
  BY InvNext
<1>2. IInv => TypeOK
  BY DEF IInv
<1> QED
  BY <1>1, <1>2, InvInit, PTL DEF Spec

\* What is on disk is between two promotions, whatever statements fail,
\* whenever the process dies and however the threads interleave, but for the
\* two steps PromotionIsAtomic names (context_catalog.py:239-350, 422-459).
THEOREM PromotionIsAtomicCorrect == Spec => []PromotionIsAtomic
<1>1. IInv /\ [Next]_vars => IInv'
  BY InvNext
<1>2. ASSUME IInv, ~cut
      PROVE  disk.stale \/ PointsTo(disk, disk.pointer)
  BY <1>2 DEF IInv, Snapshots, Between, Fits, PointsTo
<1>3. IInv => PromotionIsAtomic
  BY <1>2 DEF IInv, Snapshots, Between, PromotionIsAtomic
<1> QED
  BY <1>1, <1>3, InvInit, PTL DEF Spec

\* The version the engine serves is the one current on disk when no refresh
\* runs, with the same two exceptions (context_catalog.py:288-311, 352-363).
THEOREM ServedSnapshotIsDurableCorrect == Spec => []ServedSnapshotIsDurable
<1>1. IInv /\ [Next]_vars => IInv'
  BY InvNext
<1>2. IInv => ServedSnapshotIsDurable
  BY DEF IInv, Snapshots, Between, Fits, Served, PointsTo, ServedSnapshotIsDurable
<1> QED
  BY <1>1, <1>2, InvInit, PTL DEF Spec

\* A write that returned stays on disk unless a thread that shares no lock with
\* the writer rolled it back before its commit (context_catalog.py:223-234,
\* 348-350, audit_service.py:31-41, provider_service.py:30-40).
THEOREM ReturnedWriteIsDurableCorrect == Spec => []ReturnedWriteIsDurable
<1>1. IInv /\ [Next]_vars => IInv'
  BY InvNext
<1>2. IInv => ReturnedWriteIsDurable
  BY DEF IInv, WrittenRows, ReturnedWriteIsDurable
<1> QED
  BY <1>1, <1>2, InvInit, PTL DEF Spec
=============================================================================
