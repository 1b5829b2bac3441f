------------------------ MODULE DeepSeeSynchronizer ------------------------
(***************************************************************************)
(* DeepSeeSynchronizer (app/connectors/deepsee/synchronizer.py): one       *)
(* synchronizer keeps one context's membership equal to the service's.     *)
(* A run of bootstrap() or sync_once() is a sequence of steps, one for     *)
(* each call it makes to another party: the service (each page), the       *)
(* membership store (publication), the state repository (commit).  The     *)
(* service changes between any two of them, any of them may raise, and     *)
(* the process may be restarted before any of them.                        *)
(***************************************************************************)
EXTENDS DeepSeeSource

CONSTANTS
  Durable,    \* is there a state_repository?
  MaxFaults   \* bound on the number of failed calls and restarts

ASSUME DurableAssumption == Durable \in BOOLEAN
ASSUME MaxFaultsAssumption == MaxFaults \in Nat

VARIABLES
  store,      \* the context's current snapshot in the membership store
  storeMark,  \* its source_watermark
  saved,      \* context_sync_state and context_sync_events
  mark,       \* _committed_watermark
  seen,       \* _seen_event_ids
  pc,         \* the call the synchronizer makes next
  cursor,     \* cursor of the next page
  collected,  \* bootstrap: members and scores of the pages so far
  lastMark,   \* bootstrap: watermark of the last page
  batch,      \* sync_once: events fetched, then those applied
  faults,     \* failed calls and restarts so far
  begun,      \* auxiliary: the service's watermark at sync_once()'s first page
  torn,       \* auxiliary: the pages collected so far differ in watermark
  storeTorn,  \* auxiliary: the store's last bootstrap was published torn
  storeLost   \* auxiliary: the store was lost and no bootstrap has filled it since

syncVars == <<store, storeMark, saved, mark, seen, pc, cursor, collected, lastMark,
              batch, faults, begun, torn, storeTorn, storeLost>>
vars == <<sourceVars, syncVars>>

NoMark == -1                                \* a watermark that is None
NoMembers == [e \in EntityIds |-> Absent]

\* Calls of a bootstrap() and of a sync_once().
BootstrapCalls == {"fetch_snapshot", "publish_snapshot", "save_snapshot"}
SyncCalls == {"fetch_changes", "publish_delta", "save_delta"}

\* Scores the store may hold: AddedScore can make a 1 of a 0.
StoredMembership == [EntityIds -> Scores \cup {1, Absent}]

TypeOK ==
  /\ SourceTypeOK
  /\ store \in StoredMembership
  /\ storeMark \in Nat \cup {NoMark}
  /\ saved \in [mark : Nat \cup {NoMark}, seen : SUBSET Nat]
  /\ mark \in Nat \cup {NoMark}
  /\ seen \subseteq Nat
  /\ pc \in {"idle"} \cup BootstrapCalls \cup SyncCalls
  /\ cursor \in Nat
  /\ collected \in Membership
  /\ lastMark \in Nat
  /\ batch \subseteq Nat
  /\ faults \in 0 .. MaxFaults
  /\ begun \in Nat
  /\ torn \in BOOLEAN /\ storeTorn \in BOOLEAN /\ storeLost \in BOOLEAN

Init ==
  /\ SourceInit
  /\ store = NoMembers /\ storeMark = NoMark
  /\ saved = [mark |-> NoMark, seen |-> {}]
  /\ mark = NoMark /\ seen = {}
  /\ pc = "idle"
  /\ cursor = 0 /\ collected = NoMembers /\ lastMark = 0 /\ batch = {}
  /\ faults = 0
  /\ begun = 0 /\ torn = FALSE /\ storeTorn = FALSE /\ storeLost = FALSE

\* The locals of a call die with it.
ForgetLocals ==
  /\ cursor' = 0 /\ collected' = NoMembers /\ lastMark' = 0 /\ batch' = {}
  /\ begun' = 0 /\ torn' = FALSE
Return == pc' = "idle" /\ ForgetLocals

-----------------------------------------------------------------------------
(* bootstrap() *)

Bootstrap ==
  /\ pc = "idle"
  /\ pc' = "fetch_snapshot"
  /\ ForgetLocals
  /\ UNCHANGED <<sourceVars, store, storeMark, storeTorn, storeLost, saved, mark, seen,
                 faults>>

\* Mutant of FetchSnapshotPage: the end of the cursor chain is not noticed.
FetchSnapshotPage_EndlessCursor ==
  /\ pc = "fetch_snapshot"
  /\ collected' = [e \in EntityIds |->
                     IF e \in SnapshotPageIds(cursor) THEN members[e] ELSE collected[e]]
  /\ lastMark' = Watermark
  /\ cursor' = SnapshotNextCursor(cursor)
  /\ UNCHANGED <<sourceVars, store, storeMark, storeTorn, storeLost, saved, mark, seen,
                 pc, batch, faults, begun, torn>>

FetchSnapshotPage ==
  /\ pc = "fetch_snapshot"
  /\ collected' = [e \in EntityIds |->
                     IF e \in SnapshotPageIds(cursor) THEN members[e] ELSE collected[e]]
  /\ lastMark' = Watermark
  /\ torn' = (torn \/ (cursor # 0 /\ lastMark # Watermark))
  /\ IF SnapshotNextCursor(cursor) = NoCursor
     THEN pc' = "publish_snapshot" /\ cursor' = 0
     ELSE pc' = pc /\ cursor' = SnapshotNextCursor(cursor)
  /\ UNCHANGED <<sourceVars, store, storeMark, storeTorn, storeLost, saved, mark, seen,
                 batch, faults, begun>>

\* stage_snapshot and commit_snapshot
PublishSnapshot ==
  /\ pc = "publish_snapshot"
  /\ store' = collected /\ storeMark' = lastMark /\ storeTorn' = torn /\ storeLost' = FALSE
  /\ pc' = "save_snapshot"
  /\ UNCHANGED <<sourceVars, saved, mark, seen, cursor, collected, lastMark, batch,
                 faults, begun, torn>>

Save(newMark, newSeen) ==
  IF Durable
  THEN saved' = [mark |-> newMark, seen |-> saved.seen \cup newSeen]
  ELSE UNCHANGED saved

SaveSnapshot ==
  /\ pc = "save_snapshot"
  /\ Save(lastMark, {})
  /\ mark' = lastMark
  /\ Return
  /\ UNCHANGED <<sourceVars, store, storeMark, storeTorn, storeLost, seen, faults>>

-----------------------------------------------------------------------------
(* sync_once() *)

SyncOnce ==
  /\ pc = "idle"
  /\ mark # NoMark
  /\ pc' = "fetch_changes"
  /\ ForgetLocals
  /\ UNCHANGED <<sourceVars, store, storeMark, storeTorn, storeLost, saved, mark, seen,
                 faults>>

FetchChangesPage ==
  /\ pc = "fetch_changes"
  /\ batch' = batch \cup ChangesPage(mark, cursor)
  /\ begun' = IF cursor = 0 THEN Watermark ELSE begun
  /\ IF ChangesNextCursor(mark, cursor) = NoCursor
     THEN pc' = "publish_delta" /\ cursor' = 0
     ELSE pc' = pc /\ cursor' = ChangesNextCursor(mark, cursor)
  /\ UNCHANGED <<sourceVars, store, storeMark, storeTorn, storeLost, saved, mark, seen,
                 collected, lastMark, faults, torn>>

\* Mutants of Applicable: the boundary is not looked at; it is one too high.
Applicable_NoBoundary == {k \in batch : k \notin seen}
Applicable_LateBoundary == {k \in batch : k \notin seen /\ k > mark + 1}

\* _filter_events
Applicable == {k \in batch : k \notin seen /\ k > mark}

\* What the membership store makes of a delta: additions join, removals
\* leave, and a score is stored for a member only.
ApplyDelta(additions, removals, scores) ==
  [e \in EntityIds |->
     IF e \in removals THEN Absent
     ELSE IF additions[e] = Absent /\ store[e] = Absent THEN Absent
     ELSE IF scores[e] = Absent THEN store[e] ELSE scores[e]]

\* Mutant of DeltaScores: the score changes of members are left out.
DeltaScores_OfAdditions(additions, scoreChanges) == additions

\* score_changes={**folded.additions, **folded.score_changes}
DeltaScores(additions, scoreChanges) ==
  [e \in EntityIds |-> IF scoreChanges[e] # Absent THEN scoreChanges[e] ELSE additions[e]]

\* Mutants of DeltaMark: the watermark of the service's response; of the first
\* event instead of the last.
DeltaMark_OfResponse(applicable) == Watermark
DeltaMark_OfFirst(applicable) == CHOOSE k \in applicable : \A j \in applicable : k <= j

\* new_watermark = ordered[-1].watermark
DeltaMark(applicable) == Latest(applicable)

\* Mutant of PublishDelta: the delta is staged and never committed.
PublishDelta_OnlyStaged ==
  /\ pc = "publish_delta"
  /\ IF Applicable = {}
     THEN Return
     ELSE /\ batch' = Applicable
          /\ pc' = "save_delta" /\ begun' = 0
          /\ UNCHANGED <<cursor, collected, lastMark, torn>>
  /\ UNCHANGED <<sourceVars, store, storeMark, storeTorn, storeLost, saved, mark, seen,
                 faults>>

PublishDelta ==
  /\ pc = "publish_delta"
  /\ IF Applicable = {}
     THEN Return /\ UNCHANGED <<store, storeMark>>
     ELSE /\ LET additions == Additions(events, Applicable)
             IN  store' = ApplyDelta(additions, Removals(events, Applicable),
                            DeltaScores(additions, ScoreChanges(events, Applicable)))
          /\ storeMark' = DeltaMark(Applicable)
          /\ batch' = Applicable
          /\ pc' = "save_delta" /\ begun' = 0
          /\ UNCHANGED <<cursor, collected, lastMark, torn>>
  /\ UNCHANGED <<sourceVars, storeTorn, storeLost, saved, mark, seen, faults>>

SaveDelta ==
  /\ pc = "save_delta"
  /\ Save(DeltaMark(batch), batch)
  /\ mark' = DeltaMark(batch)
  /\ seen' = seen \cup batch
  /\ Return
  /\ UNCHANGED <<sourceVars, store, storeMark, storeTorn, storeLost, faults>>

-----------------------------------------------------------------------------
(* Failures.  A call that raises has had no effect: the client gives up or  *)
(* rejects the page, the fold meets a score change without a score, staging *)
(* or publication fails, the repository rolls back.  The exception leaves   *)
(* the synchronizer as it was.                                              *)

CallFails ==
  /\ pc # "idle"
  /\ faults < MaxFaults /\ faults' = faults + 1
  /\ Return
  /\ UNCHANGED <<sourceVars, store, storeMark, storeTorn, storeLost, saved, mark, seen>>

\* A new synchronizer loads the saved state.
Reload ==
  /\ faults < MaxFaults /\ faults' = faults + 1
  /\ mark' = saved.mark /\ seen' = saved.seen
  /\ Return
  /\ UNCHANGED <<sourceVars, saved>>

\* It is given the store of the old one.
Restart == Reload /\ UNCHANGED <<store, storeMark, storeTorn, storeLost>>

\* It is given a new store: the old one lived in the memory of a process that
\* has ended.  Nothing in the synchronizer looks whether the store is empty.
RestartWithoutStore ==
  /\ Reload
  /\ store' = NoMembers /\ storeMark' = NoMark
  /\ storeTorn' = FALSE /\ storeLost' = TRUE

-----------------------------------------------------------------------------
SyncStep ==
  \/ FetchSnapshotPage \/ PublishSnapshot \/ SaveSnapshot
  \/ SyncOnce \/ FetchChangesPage \/ PublishDelta \/ SaveDelta

Next ==
  \/ SourceNext /\ UNCHANGED syncVars
  \/ Bootstrap
  \/ SyncStep
  \/ CallFails
  \/ Restart
  \/ RestartWithoutStore

Spec == Init /\ [][Next]_vars

\* The owner of the synchronizer bootstraps it when it has no watermark and
\* then keeps calling sync_once(); every call it starts, it carries through.
Fairness == WF_vars(SyncStep) /\ WF_vars(Bootstrap /\ mark = NoMark)

FairSpec == Spec /\ Fairness

-----------------------------------------------------------------------------
(* Correctness *)

\* What the store publishes at a watermark is what a clean rebuild of the
\* service's membership at that watermark gives, whatever mix of bootstraps,
\* syncs, replays and failures led there (synchronizer.py:12-13); unless its
\* last bootstrap read id-list pages of different watermarks, which
\* _collect_id_pages does not notice (synchronizer.py:170-183).  A store that
\* was lost misses members until the next bootstrap, which sync_once() does not
\* ask for (synchronizer.py:190-193), but has no wrong one.
StoreMatchesSource ==
  storeMark # NoMark /\ ~storeTorn =>
    \A e \in EntityIds :
      store[e] = SourceAt(storeMark)[e] \/ (storeLost /\ store[e] = Absent)

\* Did e get score s at watermark n, and stay a member from there to w?
HadScore(e, s, n, w) ==
  /\ s \in {SourceAt(n)[e], AddedScore(SourceAt(n)[e])}
  /\ \A m \in n .. w : SourceAt(m)[e] # Absent

\* The same for a source that adds members again and has zero scores.  Unless
\* the store was lost no member is missing, none is wrong, and no score outlives
\* the membership it was given in: a score change that was folded before a
\* second addition of the same entity overrides the addition's score
\* (synchronizer.py:214, 302), so the store may show an older score than the
\* service has, but never one from before the entity last left.
MembersMatchSource ==
  storeMark # NoMark /\ ~storeTorn =>
    \A e \in EntityIds :
      IF store[e] = Absent
      THEN storeLost \/ SourceAt(storeMark)[e] = Absent
      ELSE \E n \in 0 .. storeMark : HadScore(e, store[e], n, storeMark)

\* The synchronizer, in memory or on disk, never counts a change as done
\* that was not published: a watermark is committed, and an event id
\* remembered, only behind the published snapshot (synchronizer.py:10, 156).
\* The store shows less only while it is the empty one that a restart has put
\* in the place of a lost one.
AckedChangesArePublished ==
  /\ saved.mark <= mark
  /\ mark <= storeMark \/ (storeLost /\ storeMark = NoMark)
  /\ seen \cup saved.seen \subseteq 1 .. mark

\* A delta covers every change between the old watermark and the new one and
\* nothing older, although its pages were read from a feed that grew, and
\* may come doubled, reversed or from the beginning; and it reaches every
\* change that was there when its first page was read, or there was none
\* (synchronizer.py:196-212, 255-292).
DeltaHasNoGap ==
  /\ pc = "save_delta" => batch = mark + 1 .. storeMark
  /\ pc = "publish_delta" => begun <= mark \/ \E k \in Applicable : begun <= k

\* No replay, restart or second bootstrap publishes an older state than the
\* one already published (synchronizer.py:242-243): the store's watermark falls
\* only when the store itself is lost.
StoreNeverGoesBack == [][storeMark' < storeMark => storeLost' /\ store' = NoMembers]_vars

\* Once the service is quiet the store catches up with it and stays so; a lost
\* one in what it has.
EventuallyCurrent ==
  <>[](\A e \in EntityIds : store[e] = members[e] \/ (storeLost /\ store[e] = Absent))

\* The literal claim of synchronizer.py:12-13: an incremental sync leaves the
\* store equal to a clean rebuild from the current source state.
SyncEqualsRebuild ==
  pc = "save_delta" /\ storeMark = Watermark => store = members

\* The synchronizer implements a replica that jumps along the history of the
\* service's membership, never backwards unless it is lost; a lost store is to
\* be filled again.
Replica == INSTANCE MembershipReplica WITH
  Values <- StoredMembership,
  Start <- InitialMembers,
  Empty <- NoMembers,
  timeline <- [i \in 1 .. Watermark + 1 |-> SourceAt(i - 1)],
  replica <- IF storeLost THEN NoMembers ELSE store,
  position <- IF storeLost THEN 0 ELSE storeMark + 1

ReplicaSpec == Replica!Spec
=============================================================================
