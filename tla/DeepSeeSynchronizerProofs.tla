--------------------- MODULE DeepSeeSynchronizerProofs ---------------------
(***************************************************************************)
(* Proofs that the synchronizer's safety properties hold for every source, *)
(* page size, feed mode and number of faults, and that it implements the   *)
(* abstract replica.                                                       *)
(***************************************************************************)
EXTENDS DeepSeeSynchronizer, DeepSeeSourceProofs, FiniteSetTheorems, SequenceTheorems

-----------------------------------------------------------------------------
(* The inductive invariant *)

\* The number of pending events the first i items of the feed stand for.
Delivered(i) == (i + Copies - 1) \div Copies

\* The positions never contradict each other: nothing is published or read
\* beyond the service's log, and each call leaves the positions that the next
\* one relies on.
PositionsOrdered ==
  /\ storeMark <= Watermark /\ mark <= Watermark
  /\ storeMark = NoMark => store = NoMembers
  /\ batch \subseteq 1 .. Watermark
  /\ begun <= Watermark
  /\ saved.seen \subseteq 1 .. saved.mark
  /\ pc \in SyncCalls => mark \in Nat
  /\ pc = "publish_snapshot" =>
       storeMark <= lastMark /\ mark <= lastMark /\ lastMark <= Watermark
  /\ pc = "save_snapshot" => storeMark = lastMark
  /\ pc = "save_delta" => mark < storeMark

\* The delta that was published, in terms of positions alone.
DeltaIsWhole == pc = "save_delta" => batch = mark + 1 .. storeMark

\* While sync_once() reads pages in feed order it has every event up to the
\* last one delivered.  While it reads them newest first it has, below every
\* event it holds, all those its cursor has passed; the feed may have grown
\* meanwhile, so events above may be missing.
FetchedSoFar ==
  pc = "fetch_changes" =>
    IF feed.out_of_order
    THEN /\ cursor > 0 => \E y \in batch : y >= storeMark /\ y >= begun
         /\ \A y \in batch, x \in 1 .. Watermark :
              /\ PendingAfter(mark) < x /\ x <= y
              /\ Watermark + 1 - Delivered(cursor) <= x
              => x \in batch
    ELSE batch = PendingAfter(mark) + 1 .. PendingAfter(mark) + Delivered(cursor)

\* All pages read: nothing after the watermark is missing below any event of
\* the batch, and the batch reaches what the store already publishes and what
\* was there when the sync's first page was read.
FetchedAll ==
  pc = "publish_delta" =>
    /\ \A y \in batch, x \in mark + 1 .. Watermark : x <= y => x \in batch
    /\ mark < storeMark \/ mark < begun => \E y \in batch : y >= storeMark /\ y >= begun

IInv ==
  /\ TypeOK
  /\ AckedChangesArePublished
  /\ DeltaIsWhole
  /\ PositionsOrdered
  /\ FetchedSoFar
  /\ FetchedAll

-----------------------------------------------------------------------------
(* The pages of the feed *)

\* The arithmetic of Delivered: every event takes Copies items.
LEMMA DeliveredFacts ==
  ASSUME SourceTypeOK
  PROVE  /\ Copies \in {1, 2}
         /\ Delivered(0) = 0
         /\ \A i \in Nat : Delivered(i) \in Nat
         /\ \A i, j \in Nat : i <= j => Delivered(i) <= Delivered(j)
         /\ \A i \in Nat : Delivered(i + 1) <= Delivered(i) + 1
         /\ \A i \in Nat \ {0} : 1 <= Delivered(i)
         /\ \A i, n \in Nat : i <= Copies * n <=> Delivered(i) <= n
         /\ \A n \in Nat : Delivered(Copies * n) = n
<1>1. CASE Copies = 1
  BY <1>1 DEF Delivered
<1>2. CASE Copies = 2
  BY <1>2 DEF Delivered
<1> QED
  BY <1>1, <1>2 DEF Copies

\* A page of items c + 1 .. c + PageSize of a feed of n events stands for
\* every event after those of the items before, and for nothing older.
LEMMA PageOfEvents ==
  ASSUME SourceTypeOK, NEW c \in Nat, NEW n \in Nat
  PROVE  /\ \A k \in Nat :
              Delivered(c) < k /\ k <= Delivered(c + PageSize) /\ k <= n =>
              \E i \in c + 1 .. c + PageSize : i <= Copies * n /\ Delivered(i) = k
         /\ \A i \in c + 1 .. c + PageSize :
              i <= Copies * n =>
              /\ Delivered(c) <= Delivered(i) /\ Delivered(i) <= Delivered(c + PageSize)
              /\ Delivered(i) \in 1 .. n
<1> USE PageSizeAssumption
<1>1. ASSUME NEW k \in Nat, Delivered(c) < k, k <= Delivered(c + PageSize), k <= n
      PROVE  \E i \in c + 1 .. c + PageSize : i <= Copies * n /\ Delivered(i) = k
  <2>1. CASE Copies = 1
    <3>1. k \in c + 1 .. c + PageSize /\ k <= Copies * n /\ Delivered(k) = k
      BY <1>1, <2>1 DEF Delivered
    <3> QED
      BY <3>1
  <2>2. CASE Copies = 2 /\ 2 * k <= c + PageSize
    <3>1. 2 * k \in c + 1 .. c + PageSize /\ 2 * k <= Copies * n /\ Delivered(2 * k) = k
      BY <1>1, <2>2 DEF Delivered
    <3> QED
      BY <3>1
  <2>3. CASE Copies = 2 /\ c + PageSize < 2 * k
    <3>1. /\ c + PageSize \in c + 1 .. c + PageSize
          /\ c + PageSize <= Copies * n
          /\ Delivered(c + PageSize) = k
      BY <1>1, <2>3 DEF Delivered
    <3> QED
      BY <3>1
  <2> QED
    BY <2>1, <2>2, <2>3 DEF Copies
<1>2. ASSUME NEW i \in c + 1 .. c + PageSize, i <= Copies * n
      PROVE  /\ Delivered(c) <= Delivered(i) /\ Delivered(i) <= Delivered(c + PageSize)
             /\ Delivered(i) \in 1 .. n
  <2>1. CASE Copies = 1
    BY <1>2, <2>1 DEF Delivered
  <2>2. CASE Copies = 2
    BY <1>2, <2>2 DEF Delivered
  <2> QED
    BY <2>1, <2>2 DEF Copies
<1> QED
  BY <1>1, <1>2

\* What a page of the feed adds to the batch, in either order.
LEMMA ChangesPageEvents ==
  ASSUME SourceTypeOK, NEW since \in 0 .. Watermark, NEW c \in Nat
  PROVE  /\ ChangesPage(since, c) \subseteq Int
         /\ \A x \in Int :
              LET k == IF feed.out_of_order THEN Watermark + 1 - x
                       ELSE x - PendingAfter(since)
                  n == Watermark - PendingAfter(since)
              IN  /\ x \in ChangesPage(since, c) =>
                       /\ Delivered(c) <= k /\ k <= Delivered(c + PageSize)
                       /\ k \in 1 .. n
                  /\ Delivered(c) < k /\ k <= Delivered(c + PageSize) /\ k <= n =>
                       x \in ChangesPage(since, c)
<1> DEFINE n == Watermark - PendingAfter(since)
<1>1. PendingAfter(since) \in 0 .. Watermark /\ Watermark \in Nat /\ n \in Nat
  BY DEF PendingAfter, Watermark, SourceTypeOK
<1>2. PendingLength(since) = Copies * n
  BY DEF PendingLength
<1>3. \A i \in Int : PendingItem(since, i) =
        IF feed.out_of_order THEN Watermark + 1 - Delivered(i)
        ELSE PendingAfter(since) + Delivered(i)
  BY DEF PendingItem, Delivered
<1>4. \A x : x \in ChangesPage(since, c) <=>
        \E i \in c + 1 .. c + PageSize : i <= Copies * n /\ x = PendingItem(since, i)
  BY <1>2 DEF ChangesPage
<1>5. \A i \in c + 1 .. c + PageSize : i \in Nat /\ Delivered(i) \in Nat
  <2>1. \A i \in c + 1 .. c + PageSize : i \in Nat
    BY PageSizeAssumption
  <2>2. \A i \in Nat : Delivered(i) \in Nat
    BY DeliveredFacts
  <2> QED
    BY <2>1, <2>2
<1>6. Delivered(c) \in Nat /\ Delivered(c + PageSize) \in Nat
  <2>1. c \in Nat /\ c + PageSize \in Nat
    BY PageSizeAssumption
  <2>2. \A i \in Nat : Delivered(i) \in Nat
    BY DeliveredFacts
  <2> QED
    BY <2>1, <2>2
<1> HIDE DEF n
<1>7. /\ \A k \in Nat :
           Delivered(c) < k /\ k <= Delivered(c + PageSize) /\ k <= n =>
           \E i \in c + 1 .. c + PageSize : i <= Copies * n /\ Delivered(i) = k
      /\ \A i \in c + 1 .. c + PageSize :
           i <= Copies * n =>
           /\ Delivered(c) <= Delivered(i) /\ Delivered(i) <= Delivered(c + PageSize)
           /\ Delivered(i) \in 1 .. n
  BY <1>1, PageOfEvents
<1>8. ASSUME NEW x \in Int
      PROVE  LET k == IF feed.out_of_order THEN Watermark + 1 - x
                      ELSE x - PendingAfter(since)
             IN  /\ x \in ChangesPage(since, c) =>
                      /\ Delivered(c) <= k /\ k <= Delivered(c + PageSize)
                      /\ k \in 1 .. n
                 /\ Delivered(c) < k /\ k <= Delivered(c + PageSize) /\ k <= n =>
                      x \in ChangesPage(since, c)
  <2> DEFINE k == IF feed.out_of_order THEN Watermark + 1 - x ELSE x - PendingAfter(since)
  <2>1. k \in Int
    BY <1>1
  <2>2. \A i \in c + 1 .. c + PageSize : x = PendingItem(since, i) <=> Delivered(i) = k
    BY <1>1, <1>3, <1>5
  <2> HIDE DEF k
  <2>3. x \in ChangesPage(since, c) <=>
          \E i \in c + 1 .. c + PageSize : i <= Copies * n /\ Delivered(i) = k
    BY <1>4, <2>2
  <2>4. /\ x \in ChangesPage(since, c) =>
             /\ Delivered(c) <= k /\ k <= Delivered(c + PageSize)
             /\ k \in 1 .. n
        /\ Delivered(c) < k /\ k <= Delivered(c + PageSize) /\ k <= n =>
             x \in ChangesPage(since, c)
    BY <1>6, <1>7, <2>1, <2>3
  <2> QED
    BY <2>4 DEF k
<1>9. ChangesPage(since, c) \subseteq Int
  BY <1>1, <1>3, <1>4, <1>5
<1> QED
  BY <1>8, <1>9 DEF n

-----------------------------------------------------------------------------
(* The invariant holds initially and is kept by each action *)

LEMMA InitInvariant == Init => IInv
<1> SUFFICES ASSUME Init PROVE IInv
  OBVIOUS
<1> USE DEF Init, SourceInit, NoMark, BootstrapCalls, SyncCalls
<1>1. SourceTypeOK
  BY InitialMembersAssumption, KnobsAssumption DEF SourceTypeOK
<1>2. NoMembers \in Membership /\ NoMembers \in StoredMembership
  BY DEF NoMembers, Membership, StoredMembership
<1>3. TypeOK
  <2>1. saved \in [mark : Nat \cup {NoMark}, seen : SUBSET Nat]
    OBVIOUS
  <2>2. pc \in {"idle"} \cup BootstrapCalls \cup SyncCalls /\ faults \in 0 .. MaxFaults
    BY MaxFaultsAssumption
  <2> QED
    BY <1>1, <1>2, <2>1, <2>2 DEF TypeOK
<1>4. Watermark = 0
  BY DEF Watermark
<1>5. AckedChangesArePublished /\ DeltaIsWhole /\ PositionsOrdered
  BY <1>4 DEF AckedChangesArePublished, DeltaIsWhole, PositionsOrdered
<1> QED
  BY <1>3, <1>5 DEF IInv, FetchedSoFar, FetchedAll

\* Steps of the service between two calls of the synchronizer.
LEMMA SourceNextInvariant ==
  ASSUME IInv, SourceNext, UNCHANGED syncVars
  PROVE  IInv'
<1> USE DEF syncVars
<1>1. SourceTypeOK /\ TypeOK
  BY DEF IInv, TypeOK
<1>2. /\ SourceTypeOK'
      /\ Watermark' = Watermark + 1
      /\ feed' = feed
  BY <1>1, SourceStep
<1>3. Watermark \in Nat
  BY <1>1 DEF SourceTypeOK, Watermark
<1>4. TypeOK'
  BY <1>1, <1>2 DEF TypeOK
<1>5. AckedChangesArePublished' /\ DeltaIsWhole'
  BY DEF IInv, AckedChangesArePublished, DeltaIsWhole
<1>6. PositionsOrdered'
  BY <1>1, <1>2, <1>3 DEF IInv, TypeOK, PositionsOrdered
<1>7. FetchedAll'
  <2>1. mark \in Int /\ batch \subseteq 1 .. Watermark
    BY <1>1 DEF IInv, TypeOK, NoMark, PositionsOrdered
  <2> QED
    BY <1>2, <1>3, <2>1 DEF IInv, FetchedAll
<1>8. FetchedSoFar'
  <2>1. /\ PendingAfter(mark)' = PendingAfter(mark)
        /\ Delivered(cursor)' = Delivered(cursor)
    BY <1>2 DEF PendingAfter, Delivered, Copies
  <2>2. Delivered(cursor) \in Nat
    BY <1>1, DeliveredFacts DEF TypeOK
  <2>3. batch \subseteq 1 .. Watermark /\ storeMark \in Int
    BY <1>1 DEF IInv, TypeOK, NoMark, PositionsOrdered
  <2>4. CASE feed.out_of_order
    BY <1>2, <1>3, <2>1, <2>2, <2>3, <2>4 DEF IInv, FetchedSoFar
  <2>5. CASE ~feed.out_of_order
    BY <1>2, <2>1, <2>5 DEF IInv, FetchedSoFar
  <2> QED
    BY <2>4, <2>5
<1> QED
  BY <1>4, <1>5, <1>6, <1>7, <1>8 DEF IInv

\* Calls that begin or end an operation without publishing anything.
LEMMA IdleStepsInvariant ==
  ASSUME IInv, Bootstrap \/ SyncOnce \/ CallFails \/ Restart \/ RestartWithoutStore
  PROVE  IInv'
<1> USE DEF ForgetLocals, Return, Reload, sourceVars, NoMark, BootstrapCalls, SyncCalls
<1>1. SourceTypeOK' /\ Watermark' = Watermark /\ feed' = feed /\ Watermark \in Nat
  BY DEF IInv, TypeOK, SourceTypeOK, Watermark, Bootstrap, SyncOnce, CallFails, Restart,
         RestartWithoutStore
<1>2. NoMembers \in Membership /\ NoMembers \in StoredMembership
  BY DEF NoMembers, Membership, StoredMembership
<1>3. /\ pc' \in {"idle", "fetch_snapshot", "fetch_changes"}
      /\ cursor' = 0 /\ batch' = {} /\ lastMark' = 0 /\ collected' = NoMembers
      /\ saved' = saved /\ torn' = FALSE
      /\ faults' \in 0 .. MaxFaults
      /\ \/ UNCHANGED <<store, storeMark, storeTorn, storeLost>>
         \/ store' = NoMembers /\ storeMark' = NoMark /\ ~storeTorn' /\ storeLost'
      /\ \/ mark' = mark /\ seen' = seen
         \/ mark' = saved.mark /\ seen' = saved.seen
      /\ pc' = "fetch_changes" => mark' # NoMark
  BY MaxFaultsAssumption
  DEF IInv, TypeOK, Bootstrap, SyncOnce, CallFails, Restart, RestartWithoutStore
<1>4. TypeOK' /\ begun' <= Watermark'
  <2>1. begun' = 0
    BY DEF Bootstrap, SyncOnce, CallFails, Restart, RestartWithoutStore
  <2>2. begun' \in Nat /\ begun' <= Watermark'
    BY <1>1, <2>1
  <2>3. mark' \in Nat \cup {NoMark} /\ seen' \subseteq Nat
    BY <1>3 DEF IInv, TypeOK
  <2>4. TypeOK
    BY DEF IInv
  <2>5. /\ store' \in StoredMembership /\ storeMark' \in Nat \cup {NoMark}
        /\ storeTorn' \in BOOLEAN /\ storeLost' \in BOOLEAN
    <3>1. CASE UNCHANGED <<store, storeMark, storeTorn, storeLost>>
      BY <2>4, <3>1 DEF TypeOK
    <3>2. CASE RestartWithoutStore
      BY <1>2, <3>2 DEF RestartWithoutStore
    <3> QED
      BY <3>1, <3>2 DEF Bootstrap, SyncOnce, CallFails, Restart
  <2> QED
    BY <1>1, <1>2, <1>3, <2>2, <2>3, <2>4, <2>5 DEF TypeOK
<1>5. AckedChangesArePublished'
  BY <1>3 DEF IInv, TypeOK, AckedChangesArePublished, PositionsOrdered
<1>6. PositionsOrdered' /\ DeltaIsWhole'
  <2>1. mark' <= Watermark'
    BY <1>1, <1>3 DEF IInv, TypeOK, PositionsOrdered, AckedChangesArePublished
  <2>2. storeMark' <= Watermark' /\ (storeMark' = NoMark => store' = NoMembers)
    BY <1>1, <1>3 DEF IInv, PositionsOrdered
  <2>3. pc' = "fetch_changes" => mark' \in Nat
    BY <1>3, <1>4 DEF TypeOK
  <2>4. saved'.seen \subseteq 1 .. saved'.mark
    BY <1>3 DEF IInv, PositionsOrdered
  <2>5. batch' \subseteq 1 .. Watermark'
    BY <1>3
  <2> QED
    BY <1>3, <1>4, <2>1, <2>2, <2>3, <2>4, <2>5 DEF PositionsOrdered, DeltaIsWhole
<1>7. FetchedAll'
  BY <1>3 DEF FetchedAll
<1>8. FetchedSoFar'
  <2>1. PendingAfter(mark)' \in Nat \/ pc' # "fetch_changes"
    BY <1>3, <1>4 DEF TypeOK, PendingAfter
  <2>2. Delivered(cursor)' = 0
    BY <1>1, <1>3 DEF Delivered, Copies
  <2> QED
    BY <1>3, <2>1, <2>2 DEF FetchedSoFar
<1> QED
  BY <1>4, <1>5, <1>6, <1>7, <1>8 DEF IInv

LEMMA FetchSnapshotPageInvariant ==
  ASSUME IInv, FetchSnapshotPage
  PROVE  IInv'
<1> USE DEF sourceVars, NoMark, BootstrapCalls, SyncCalls
<1>1. /\ SourceTypeOK /\ SourceTypeOK'
      /\ Watermark \in Nat /\ Watermark' = Watermark
  BY DEF IInv, TypeOK, SourceTypeOK, Watermark, FetchSnapshotPage
<1>2. collected' \in Membership
  BY <1>1 DEF IInv, TypeOK, FetchSnapshotPage, SourceTypeOK, Membership
<1>3. cursor' \in Nat
  BY PageSizeAssumption
  DEF IInv, TypeOK, FetchSnapshotPage, SnapshotNextCursor, NoCursor
<1>4. torn' \in BOOLEAN
  BY DEF FetchSnapshotPage, IInv, TypeOK
<1>5. /\ pc' \in {"fetch_snapshot", "publish_snapshot"}
      /\ lastMark' = Watermark
      /\ UNCHANGED <<store, storeMark, storeTorn, storeLost, saved, mark, seen, batch,
                     faults, begun>>
  BY DEF FetchSnapshotPage
<1>6. TypeOK'
  BY <1>1, <1>2, <1>3, <1>4, <1>5 DEF IInv, TypeOK
<1>7. AckedChangesArePublished' /\ DeltaIsWhole'
  BY <1>5 DEF IInv, AckedChangesArePublished, DeltaIsWhole
<1>8. PositionsOrdered'
  BY <1>1, <1>5 DEF IInv, PositionsOrdered
<1>9. FetchedSoFar' /\ FetchedAll'
  BY <1>5 DEF FetchedSoFar, FetchedAll
<1> QED
  BY <1>6, <1>7, <1>8, <1>9 DEF IInv

LEMMA PublishSnapshotInvariant ==
  ASSUME IInv, PublishSnapshot
  PROVE  IInv'
<1> USE DEF sourceVars, NoMark, BootstrapCalls, SyncCalls
<1>1. /\ SourceTypeOK' /\ Watermark' = Watermark /\ Watermark \in Nat
      /\ pc = "publish_snapshot" /\ pc' = "save_snapshot"
      /\ store' = collected /\ storeMark' = lastMark /\ storeTorn' = torn
      /\ storeLost' = FALSE /\ lastMark \in Nat
      /\ UNCHANGED <<saved, mark, seen, cursor, collected, lastMark, batch, faults, begun,
                     torn>>
  BY DEF IInv, TypeOK, SourceTypeOK, Watermark, PublishSnapshot
<1>2. store' \in StoredMembership
  BY <1>1 DEF IInv, TypeOK, Membership, StoredMembership
<1>3. TypeOK'
  BY <1>1, <1>2 DEF IInv, TypeOK
<1>4. AckedChangesArePublished' /\ DeltaIsWhole'
  BY <1>1 DEF IInv, TypeOK, AckedChangesArePublished, DeltaIsWhole, PositionsOrdered
<1>5. PositionsOrdered'
  BY <1>1 DEF IInv, PositionsOrdered
<1>6. FetchedSoFar' /\ FetchedAll'
  BY <1>1 DEF FetchedSoFar, FetchedAll
<1> QED
  BY <1>3, <1>4, <1>5, <1>6 DEF IInv

\* What a save leaves on disk, given that the store is at the new watermark.
LEMMA SaveKeepsAcked ==
  ASSUME IInv, NEW m \in Nat, NEW S \in SUBSET (1 .. m), mark <= m, Save(m, S)
  PROVE  /\ saved' \in [mark : Nat \cup {NoMark}, seen : SUBSET Nat]
         /\ saved'.mark <= m
         /\ saved'.seen \subseteq 1 .. saved'.mark
<1> USE DEF NoMark
<1>1. /\ saved \in [mark : Nat \cup {NoMark}, seen : SUBSET Nat]
      /\ saved.mark \in Int /\ mark \in Int
      /\ saved.mark <= mark /\ saved.seen \subseteq 1 .. saved.mark
  BY DEF IInv, TypeOK, AckedChangesArePublished, PositionsOrdered
<1>2. CASE Durable
  <2>1. saved' = [mark |-> m, seen |-> saved.seen \cup S]
    BY <1>2 DEF Save
  <2>2. saved.seen \cup S \subseteq 1 .. m
    <3>1. \A a \in Int : a <= m => 1 .. a \subseteq 1 .. m
      OBVIOUS
    <3>2. saved.mark <= m
      BY <1>1
    <3> QED
      BY <1>1, <3>1, <3>2
  <2>3. saved'.mark = m /\ saved'.seen = saved.seen \cup S
    BY <2>1
  <2>4. saved' \in [mark : Nat \cup {NoMark}, seen : SUBSET Nat]
    BY <2>1, <2>2
  <2> QED
    BY <2>2, <2>3, <2>4
<1>3. CASE ~Durable
  BY <1>1, <1>3 DEF Save
<1> QED
  BY <1>2, <1>3

LEMMA SaveSnapshotInvariant ==
  ASSUME IInv, SaveSnapshot
  PROVE  IInv'
<1> USE DEF sourceVars, NoMark, BootstrapCalls, SyncCalls, Return, ForgetLocals
<1>1. /\ SourceTypeOK' /\ Watermark' = Watermark /\ Watermark \in Nat
      /\ pc = "save_snapshot" /\ pc' = "idle"
      /\ mark' = lastMark /\ lastMark = storeMark /\ lastMark \in Nat
      /\ mark <= lastMark /\ lastMark <= Watermark
      /\ cursor' = 0 /\ collected' = NoMembers /\ lastMark' = 0 /\ batch' = {}
      /\ begun' = 0 /\ torn' = FALSE
      /\ UNCHANGED <<store, storeMark, storeTorn, storeLost, seen, faults>>
  BY DEF IInv, TypeOK, SourceTypeOK, Watermark, SaveSnapshot, PositionsOrdered,
         AckedChangesArePublished
<1>2. /\ saved' \in [mark : Nat \cup {NoMark}, seen : SUBSET Nat]
      /\ saved'.mark <= lastMark
      /\ saved'.seen \subseteq 1 .. saved'.mark
  <2>1. Save(lastMark, {})
    BY DEF SaveSnapshot
  <2> QED
    BY <1>1, <2>1, SaveKeepsAcked
<1>3. NoMembers \in Membership
  BY DEF NoMembers, Membership
<1>4. TypeOK'
  BY <1>1, <1>2, <1>3 DEF IInv, TypeOK
<1>5. AckedChangesArePublished' /\ DeltaIsWhole'
  <2>1. seen \subseteq 1 .. mark /\ mark \in Int /\ saved'.mark \in Int
    BY <1>2 DEF IInv, TypeOK, AckedChangesArePublished
  <2>2. seen' \subseteq 1 .. mark' /\ saved'.seen \subseteq 1 .. mark'
    BY <1>1, <1>2, <2>1
  <2>3. saved'.mark <= mark' /\ mark' <= storeMark'
    BY <1>1, <1>2
  <2> QED
    BY <1>1, <2>2, <2>3 DEF AckedChangesArePublished, DeltaIsWhole
<1>6. PositionsOrdered'
  BY <1>1, <1>2 DEF IInv, PositionsOrdered
<1>7. FetchedSoFar' /\ FetchedAll'
  BY <1>1 DEF FetchedSoFar, FetchedAll
<1> QED
  BY <1>4, <1>5, <1>6, <1>7 DEF IInv

\* One more page, read in either order, keeps the batch free of gaps.
LEMMA FetchChangesPageInvariant ==
  ASSUME IInv, FetchChangesPage
  PROVE  IInv'
<1> USE DEF sourceVars, NoMark, BootstrapCalls, SyncCalls
<1> DEFINE W == Watermark
           PA == PendingAfter(mark)
           page == ChangesPage(mark, cursor)
           more == ChangesNextCursor(mark, cursor) # NoCursor
<1>1. /\ SourceTypeOK /\ SourceTypeOK'
      /\ W \in Nat /\ W' = W
      /\ pc = "fetch_changes" /\ cursor \in Nat
      /\ batch' = batch \cup page
      /\ UNCHANGED <<events, feed, store, storeMark, storeTorn, storeLost, saved, mark,
                     seen, collected, lastMark, faults, torn>>
      /\ begun' = IF cursor = 0 THEN W ELSE begun
  BY DEF IInv, TypeOK, SourceTypeOK, Watermark, FetchChangesPage
<1>2. /\ mark \in 0 .. W /\ storeMark \in Int /\ storeMark <= W /\ batch \subseteq 1 .. W
      /\ begun \in 0 .. W /\ begun' \in 0 .. W
  BY <1>1 DEF IInv, TypeOK, AckedChangesArePublished, PositionsOrdered
<1>3. PA \in 0 .. mark
  BY <1>2 DEF PendingAfter
<1>4. /\ Delivered(cursor) \in Nat /\ Delivered(cursor + PageSize) \in Nat
      /\ cursor + PageSize \in Nat \ {0}
      /\ cursor > 0 => 1 <= Delivered(cursor)
      /\ cursor = 0 => Delivered(cursor) = 0
      /\ 1 <= Delivered(cursor + PageSize)
  <2>1. cursor \in Nat /\ cursor + PageSize \in Nat \ {0}
    BY <1>1, PageSizeAssumption
  <2>2. /\ \A i \in Nat : Delivered(i) \in Nat
        /\ \A i \in Nat \ {0} : 1 <= Delivered(i)
        /\ Delivered(0) = 0
    BY <1>1, DeliveredFacts
  <2>3. cursor > 0 => cursor \in Nat \ {0}
    BY <2>1
  <2> QED
    BY <2>1, <2>2, <2>3
<1>5. \A x \in Int :
        LET k == IF feed.out_of_order THEN W + 1 - x ELSE x - PA
            n == W - PA
        IN  /\ x \in page => /\ Delivered(cursor) <= k /\ k <= Delivered(cursor + PageSize)
                             /\ k \in 1 .. n
            /\ Delivered(cursor) < k /\ k <= Delivered(cursor + PageSize) /\ k <= n =>
                 x \in page
  BY <1>1, <1>2, ChangesPageEvents
<1>6. /\ more => pc' = "fetch_changes" /\ cursor' = cursor + PageSize
      /\ ~more => pc' = "publish_delta" /\ cursor' = 0
  BY DEF FetchChangesPage, ChangesNextCursor, NoCursor
<1>7. more <=> Delivered(cursor + PageSize) <= W - PA /\ cursor + PageSize # Copies * (W - PA)
  <2>1. more <=> cursor + PageSize < Copies * (W - PA)
    BY <1>4 DEF ChangesNextCursor, NoCursor, PendingLength
  <2>2. W - PA \in Nat /\ Copies \in {1, 2}
    BY <1>1, <1>2, <1>3 DEF Copies
  <2>3. cursor + PageSize <= Copies * (W - PA) <=> Delivered(cursor + PageSize) <= W - PA
    BY <1>1, <1>4, <2>2, DeliveredFacts
  <2>4. Copies * (W - PA) \in Int
    BY <2>2
  <2> QED
    BY <1>4, <2>1, <2>3, <2>4
<1>8. ~more => W - PA <= Delivered(cursor + PageSize)
  <2>1. W - PA \in Nat
    BY <1>1, <1>2, <1>3
  <2>2. Delivered(Copies * (W - PA)) = W - PA
    BY <1>1, <2>1, DeliveredFacts
  <2> QED
    BY <1>4, <1>7, <2>1, <2>2
\* The page holds only pending events.
<1>9. page \subseteq PA + 1 .. W
  <2>1. page \subseteq Int
    BY <1>1, <1>2, ChangesPageEvents
  <2> HIDE DEF W, PA, page
  <2> QED
    BY <1>1, <1>2, <1>3, <1>5, <2>1
<1>10. batch' \subseteq 1 .. W
  <2> HIDE DEF W, PA, page, more
  <2>1. PA + 1 .. W \subseteq 1 .. W
    BY <1>1, <1>2, <1>3
  <2> QED
    BY <1>1, <1>2, <1>9, <2>1
<1>11. TypeOK'
  <2>1. cursor' \in Nat /\ pc' \in SyncCalls
    BY <1>4, <1>6
  <2>2. batch' \subseteq Nat /\ begun' \in Nat
    BY <1>2, <1>10
  <2>3. UNCHANGED <<store, storeMark, storeTorn, storeLost, saved, mark, seen, collected,
                    lastMark, faults, torn>>
    BY <1>1
  <2> QED
    BY <1>1, <2>1, <2>2, <2>3 DEF IInv, TypeOK
<1>12. AckedChangesArePublished' /\ DeltaIsWhole' /\ PositionsOrdered'
  <2>1. pc' \in {"fetch_changes", "publish_delta"}
    BY <1>6
  <2> QED
    BY <1>1, <1>2, <1>10, <2>1
    DEF IInv, AckedChangesArePublished, DeltaIsWhole, PositionsOrdered
\* Newest first: what the cursor has passed is there, below any event held.
<1>13. ASSUME feed.out_of_order
       PROVE  /\ mark < storeMark \/ mark < begun' \/ more =>
                   \E y \in batch' : y >= storeMark /\ y >= begun'
              /\ \A y \in batch', x \in PA + 1 .. W :
                   x <= y /\ W + 1 - Delivered(cursor + PageSize) <= x => x \in batch'
  <2>1. /\ cursor > 0 => \E y \in batch : y >= storeMark /\ y >= begun
        /\ \A y \in batch, x \in 1 .. W :
             PA < x /\ x <= y /\ W + 1 - Delivered(cursor) <= x => x \in batch
    BY <1>1, <1>13 DEF IInv, FetchedSoFar
  <2> HIDE DEF W, PA, page, more
  <2>2. cursor = 0 /\ PA < W => W \in page
    BY <1>1, <1>2, <1>3, <1>4, <1>5, <1>13
  <2>3. mark < storeMark \/ mark < begun' \/ more => PA < W
    BY <1>1, <1>2, <1>3, <1>4, <1>7
  <2>4. mark < storeMark \/ mark < begun' \/ more =>
          \E y \in batch' : y >= storeMark /\ y >= begun'
    BY <1>1, <1>2, <2>1, <2>2, <2>3
  <2>5. ASSUME NEW y \in batch', NEW x \in PA + 1 .. W, x <= y,
               W + 1 - Delivered(cursor + PageSize) <= x
        PROVE  x \in batch'
    <3>1. x \in 1 .. W /\ PA < x /\ y \in Int
      BY <1>2, <1>3, <1>10
    <3>2. CASE x < W + 1 - Delivered(cursor)
      <4>1. x \in page
        BY <1>1, <1>2, <1>3, <1>4, <1>5, <1>13, <2>5, <3>1, <3>2
      <4> QED
        BY <1>1, <4>1
    <3>3. CASE W + 1 - Delivered(cursor) <= x /\ y \in batch
      BY <1>1, <2>1, <2>5, <3>1, <3>3
    <3>4. CASE W + 1 - Delivered(cursor) <= x /\ y \in page
      <4>1. Delivered(cursor) <= W + 1 - y
        BY <1>5, <1>13, <3>1, <3>4
      <4>2. x = y
        BY <1>1, <1>4, <2>5, <3>1, <3>4, <4>1
      <4> QED
        BY <4>2
    <3> QED
      BY <1>1, <1>4, <3>1, <3>2, <3>3, <3>4
  <2> QED
    BY <2>4, <2>5
\* Oldest first: everything up to the cursor.
<1>14. ASSUME ~feed.out_of_order
       PROVE  /\ more => batch' = PA + 1 .. PA + Delivered(cursor + PageSize)
              /\ ~more => batch' = PA + 1 .. W
  <2>1. batch = PA + 1 .. PA + Delivered(cursor)
    BY <1>1, <1>14 DEF IInv, FetchedSoFar
  <2> HIDE DEF W, PA, page, more
  <2>2. ASSUME NEW x \in PA + 1 .. W, x <= PA + Delivered(cursor + PageSize)
        PROVE  x \in batch'
    <3>1. CASE x <= PA + Delivered(cursor)
      BY <1>1, <1>2, <1>3, <1>4, <2>1, <3>1
    <3>2. CASE PA + Delivered(cursor) < x
      <4>1. x \in page
        BY <1>1, <1>2, <1>3, <1>4, <1>5, <1>14, <2>2, <3>2
      <4> QED
        BY <1>1, <4>1
    <3> QED
      BY <1>2, <1>3, <1>4, <3>1, <3>2
  <2>3. Delivered(cursor) <= Delivered(cursor + PageSize)
    BY <1>1, <1>4, DeliveredFacts, PageSizeAssumption
  <2>4. \A x \in batch' : x \in PA + 1 .. W /\ x <= PA + Delivered(cursor + PageSize)
    <3> SUFFICES ASSUME NEW x \in batch'
                 PROVE  x \in PA + 1 .. W /\ x <= PA + Delivered(cursor + PageSize)
      OBVIOUS
    <3>1. PA \in Int /\ W \in Int
      BY <1>1, <1>2, <1>3
    <3>2. CASE x \in batch
      BY <1>2, <1>4, <2>1, <2>3, <3>1, <3>2
    <3>3. CASE x \in page
      BY <1>4, <1>5, <1>9, <1>14, <3>1, <3>3
    <3> QED
      BY <1>1, <3>2, <3>3
  <2>5. PA \in Int /\ W \in Int
    BY <1>1, <1>2, <1>3
  <2>6. CASE more
    <3>1. \A x \in PA + 1 .. PA + Delivered(cursor + PageSize) : x \in PA + 1 .. W
      BY <1>4, <1>7, <2>5, <2>6
    <3>2. \A x \in batch' : x \in PA + 1 .. PA + Delivered(cursor + PageSize)
      BY <1>4, <2>4, <2>5
    <3>3. \A x \in PA + 1 .. PA + Delivered(cursor + PageSize) : x \in batch'
      BY <1>4, <2>2, <2>5, <3>1
    <3> QED
      BY <2>6, <3>2, <3>3
  <2>7. CASE ~more
    <3>1. \A x \in PA + 1 .. W : x <= PA + Delivered(cursor + PageSize)
      BY <1>4, <1>8, <2>5, <2>7
    <3> QED
      BY <2>2, <2>4, <2>7, <3>1
  <2> QED
    BY <2>6, <2>7
<1>15. FetchedSoFar'
  <2>1. CASE ~more
    BY <1>6, <2>1 DEF FetchedSoFar
  <2>2. CASE more
    <3>1. /\ PendingAfter(mark)' = PA /\ Delivered(cursor)' = Delivered(cursor + PageSize)
          /\ feed' = feed /\ storeMark' = storeMark
      BY <1>1, <1>6, <2>2 DEF PendingAfter, Delivered, Copies
    <3> HIDE DEF W, PA, page, more
    <3>2. CASE feed.out_of_order
      BY <1>1, <1>2, <1>3, <1>13, <2>2, <3>1, <3>2 DEF FetchedSoFar, W
    <3>3. CASE ~feed.out_of_order
      BY <1>14, <2>2, <3>1, <3>3 DEF FetchedSoFar
    <3> QED
      BY <3>2, <3>3
  <2> QED
    BY <2>1, <2>2
<1>16. FetchedAll'
  <2>1. CASE more
    BY <1>6, <2>1 DEF FetchedAll
  <2>2. CASE ~more
    <3> HIDE DEF PA, page, more
    <3>1. CASE feed.out_of_order
      <4>1. W + 1 - Delivered(cursor + PageSize) <= PA + 1
        BY <1>1, <1>2, <1>3, <1>4, <1>8, <2>2
      <4>2. \A y \in batch', x \in mark + 1 .. W : x <= y => x \in batch'
        BY <1>1, <1>2, <1>3, <1>4, <1>13, <3>1, <4>1
      <4> QED
        BY <1>1, <1>13, <3>1, <4>2 DEF FetchedAll
    <3>2. CASE ~feed.out_of_order
      <4>1. batch' = PA + 1 .. W
        BY <1>14, <2>2, <3>2
      <4> QED
        BY <1>1, <1>2, <1>3, <4>1 DEF FetchedAll
    <3> QED
      BY <3>1, <3>2
  <2> QED
    BY <2>1, <2>2
<1> QED
  BY <1>11, <1>12, <1>15, <1>16 DEF IInv

\* The applicable events are those of the batch after the watermark: every id
\* seen is at or before it, so seen_event_ids excludes nothing more.
LEMMA ApplicableEvents ==
  ASSUME IInv, pc = "publish_delta", Applicable # {}
  PROVE  /\ DeltaMark(Applicable) \in mark + 1 .. Watermark
         /\ Applicable = mark + 1 .. DeltaMark(Applicable)
         /\ storeMark <= DeltaMark(Applicable)
<1> DEFINE m == Latest(Applicable)
<1>1. mark \in Nat /\ storeMark \in Int /\ Watermark \in Nat /\ batch \subseteq 1 .. Watermark
      /\ seen \subseteq 1 .. mark
  BY DEF IInv, TypeOK, SourceTypeOK, Watermark, PositionsOrdered, SyncCalls, NoMark,
         AckedChangesArePublished
<1>2. /\ Applicable \subseteq Int
      /\ \A k \in Int : k \in Applicable <=> k \in batch /\ k > mark
  <2>1. \A k \in batch : k \in Int
    BY <1>1
  <2>2. \A k \in seen : ~(k > mark)
    BY <1>1
  <2>3. \A k : k \in Applicable <=> k \in batch /\ k \notin seen /\ k > mark
    BY DEF Applicable
  <2>4. \A k \in Int : k \in Applicable <=> k \in batch /\ k > mark
    BY <2>2, <2>3
  <2> QED
    BY <2>1, <2>3, <2>4
<1>3. /\ \A y \in batch, x \in mark + 1 .. Watermark : x <= y => x \in batch
      /\ mark < storeMark \/ mark < begun => \E y \in batch : y >= storeMark /\ y >= begun
  BY DEF IInv, FetchedAll
<1>4. m \in Applicable /\ \A j \in Applicable : j <= m
  <2>1. \A k \in Applicable : k <= Watermark
    BY <1>1, <1>2
  <2>2. Applicable \in SUBSET Int /\ Watermark \in Int
    BY <1>1, <1>2
  <2> QED
    BY <2>1, <2>2, LatestIsGreatest
<1> HIDE DEF m
<1>5. m \in batch /\ m \in mark + 1 .. Watermark
  BY <1>1, <1>2, <1>4
<1>6. Applicable = mark + 1 .. m
  <2>1. \A k \in mark + 1 .. m : k \in Applicable
    BY <1>1, <1>2, <1>3, <1>5
  <2>2. \A k \in Applicable : k \in mark + 1 .. m
    BY <1>1, <1>2, <1>4
  <2> QED
    BY <2>1, <2>2
<1>7. storeMark <= m
  <2>1. CASE mark < storeMark
    BY <1>1, <1>2, <1>3, <1>4, <1>5, <2>1
  <2>2. CASE storeMark <= mark
    BY <1>1, <1>5, <2>2
  <2> QED
    BY <1>1, <2>1, <2>2
<1> QED
  BY <1>5, <1>6, <1>7 DEF m, DeltaMark

\* What is applied reaches what was there when the first page was read.
LEMMA BatchReaches ==
  ASSUME IInv, pc = "publish_delta"
  PROVE  begun <= mark \/ \E k \in Applicable : begun <= k
<1>1. /\ mark \in Nat /\ begun \in Nat /\ batch \subseteq 1 .. Watermark
      /\ Watermark \in Nat /\ seen \subseteq 1 .. mark
  BY DEF IInv, TypeOK, SourceTypeOK, Watermark, PositionsOrdered, SyncCalls, NoMark,
         AckedChangesArePublished
<1> SUFFICES ASSUME mark < begun PROVE \E k \in Applicable : begun <= k
  BY <1>1
<1>2. PICK y \in batch : y >= begun
  BY DEF IInv, FetchedAll
<1>3. y \in Int /\ y > mark
  BY <1>1, <1>2
<1>4. y \notin seen
  BY <1>1, <1>3
<1> QED
  BY <1>2, <1>3, <1>4 DEF Applicable

\* The store is given scores of its type.
LEMMA ApplyDeltaType ==
  ASSUME TypeOK, NEW S \in SUBSET (1 .. Watermark)
  PROVE  ApplyDelta(Additions(events, S), Removals(events, S),
                    DeltaScores(Additions(events, S), ScoreChanges(events, S)))
           \in StoredMembership
<1> DEFINE additions == Additions(events, S)
           scores == DeltaScores(additions, ScoreChanges(events, S))
<1>1. /\ additions \in [EntityIds -> Scores \cup {1, Absent}]
      /\ ScoreChanges(events, S) \in [EntityIds -> Scores \cup {1, Absent}]
  BY DeltaTypes DEF TypeOK, SourceTypeOK, Watermark
<1> HIDE DEF additions
<1>2. scores \in [EntityIds -> Scores \cup {1, Absent}]
  BY <1>1 DEF DeltaScores
<1> HIDE DEF scores
<1>3. ApplyDelta(additions, Removals(events, S), scores) \in StoredMembership
  BY <1>1, <1>2 DEF TypeOK, StoredMembership, ApplyDelta
<1> QED
  BY <1>3 DEF additions, scores

LEMMA PublishDeltaInvariant ==
  ASSUME IInv, PublishDelta
  PROVE  IInv'
<1> USE DEF sourceVars, NoMark, BootstrapCalls, SyncCalls, Return, ForgetLocals
<1>1. /\ TypeOK /\ SourceTypeOK' /\ Watermark' = Watermark /\ Watermark \in Nat
      /\ pc = "publish_delta"
      /\ UNCHANGED <<storeTorn, storeLost, saved, mark, seen, faults>>
  BY DEF IInv, TypeOK, SourceTypeOK, Watermark, PublishDelta
<1>2. CASE Applicable = {}
  <2>1. /\ pc' = "idle" /\ cursor' = 0 /\ collected' = NoMembers /\ lastMark' = 0
        /\ batch' = {} /\ begun' = 0 /\ torn' = FALSE /\ store' = store /\ storeMark' = storeMark
    BY <1>2 DEF PublishDelta
  <2>2. NoMembers \in Membership
    BY DEF NoMembers, Membership
  <2>3. TypeOK'
    BY <1>1, <2>1, <2>2 DEF TypeOK
  <2>4. AckedChangesArePublished' /\ DeltaIsWhole' /\ PositionsOrdered'
    BY <1>1, <2>1 DEF IInv, AckedChangesArePublished, DeltaIsWhole, PositionsOrdered
  <2>5. FetchedSoFar' /\ FetchedAll'
    BY <2>1 DEF FetchedSoFar, FetchedAll
  <2> QED
    BY <2>3, <2>4, <2>5 DEF IInv
<1>3. CASE Applicable # {}
  <2> DEFINE m == DeltaMark(Applicable)
  <2>1. /\ m \in mark + 1 .. Watermark
        /\ Applicable = mark + 1 .. m
        /\ storeMark <= m
    BY <1>1, <1>3, ApplicableEvents
  <2>2. /\ pc' = "save_delta" /\ batch' = Applicable /\ storeMark' = m
        /\ begun' = 0 /\ UNCHANGED <<cursor, collected, lastMark, torn>>
    BY <1>3 DEF PublishDelta
  <2> HIDE DEF m
  <2>3. mark \in Nat /\ storeMark \in Int
    BY <1>1 DEF IInv, TypeOK, PositionsOrdered
  <2>4. Applicable \in SUBSET (1 .. Watermark)
    BY <1>1, <2>1, <2>3
  <2>5. store' \in StoredMembership
    BY <1>1, <1>3, <2>4, ApplyDeltaType DEF PublishDelta
  <2>6. TypeOK'
    <3>1. storeMark' \in Nat /\ batch' \subseteq Nat
      BY <1>1, <2>1, <2>2, <2>3, <2>4
    <3> QED
      BY <1>1, <2>2, <2>5, <3>1 DEF TypeOK
  <2>7. AckedChangesArePublished' /\ DeltaIsWhole'
    <3>1. mark' = mark /\ storeMark' = m /\ mark <= m
      BY <1>1, <2>1, <2>2, <2>3
    <3> QED
      BY <1>1, <2>1, <2>2, <3>1 DEF IInv, AckedChangesArePublished, DeltaIsWhole
  <2>8. PositionsOrdered'
    BY <1>1, <2>1, <2>2, <2>3, <2>4 DEF IInv, PositionsOrdered
  <2>9. FetchedSoFar' /\ FetchedAll'
    BY <2>2 DEF FetchedSoFar, FetchedAll
  <2> QED
    BY <2>6, <2>7, <2>8, <2>9 DEF IInv
<1> QED
  BY <1>2, <1>3

LEMMA SaveDeltaInvariant ==
  ASSUME IInv, SaveDelta
  PROVE  IInv'
<1> USE DEF sourceVars, NoMark, BootstrapCalls, SyncCalls, Return, ForgetLocals
<1>1. /\ TypeOK /\ SourceTypeOK' /\ Watermark' = Watermark /\ Watermark \in Nat
      /\ pc = "save_delta" /\ pc' = "idle"
      /\ cursor' = 0 /\ collected' = NoMembers /\ lastMark' = 0 /\ batch' = {}
      /\ begun' = 0 /\ torn' = FALSE
      /\ UNCHANGED <<store, storeMark, storeTorn, storeLost, faults>>
  BY DEF IInv, TypeOK, SourceTypeOK, Watermark, SaveDelta
<1>2. /\ mark \in Nat /\ storeMark \in Nat /\ mark < storeMark
      /\ batch = mark + 1 .. storeMark
      /\ seen \subseteq 1 .. mark
  BY <1>1 DEF IInv, TypeOK, PositionsOrdered, DeltaIsWhole, AckedChangesArePublished
<1>3. DeltaMark(batch) = storeMark
  <2>1. storeMark \in batch /\ \A j \in batch : j <= storeMark
    BY <1>2
  <2>2. batch \in SUBSET Int
    BY <1>2
  <2> QED
    BY <2>1, <2>2, LatestIs DEF DeltaMark
<1>4. mark' = storeMark /\ seen' = seen \cup batch /\ Save(storeMark, batch)
  BY <1>3 DEF SaveDelta
<1>5. batch \in SUBSET (1 .. storeMark)
  BY <1>2
<1>6. /\ saved' \in [mark : Nat \cup {NoMark}, seen : SUBSET Nat]
      /\ saved'.mark <= storeMark
      /\ saved'.seen \subseteq 1 .. saved'.mark
  BY <1>2, <1>4, <1>5, SaveKeepsAcked
<1>7. NoMembers \in Membership
  BY DEF NoMembers, Membership
<1>8. seen' \subseteq 1 .. storeMark
  <2>1. 1 .. mark \subseteq 1 .. storeMark
    BY <1>2
  <2> QED
    BY <1>2, <1>4, <1>5, <2>1
<1>9. TypeOK'
  <2>1. mark' \in Nat /\ seen' \subseteq Nat
    BY <1>2, <1>4, <1>8
  <2> QED
    BY <1>1, <1>6, <1>7, <2>1 DEF TypeOK
<1>10. AckedChangesArePublished' /\ DeltaIsWhole'
  <2>1. saved'.mark \in Int
    BY <1>6
  <2>2. saved'.seen \subseteq 1 .. storeMark
    BY <1>2, <1>6, <2>1
  <2>3. saved'.mark <= mark' /\ mark' <= storeMark'
    BY <1>1, <1>2, <1>4, <1>6
  <2>4. seen' \cup saved'.seen \subseteq 1 .. mark'
    <3>1. mark' = storeMark
      BY <1>4
    <3> QED
      BY <1>8, <2>2, <3>1
  <2> QED
    BY <1>1, <2>3, <2>4 DEF AckedChangesArePublished, DeltaIsWhole
<1>11. PositionsOrdered'
  <2>1. mark' <= Watermark' /\ mark' \in Nat
    BY <1>1, <1>2, <1>4 DEF IInv, PositionsOrdered
  <2> QED
    BY <1>1, <1>6, <2>1 DEF IInv, PositionsOrdered
<1>12. FetchedSoFar' /\ FetchedAll'
  BY <1>1 DEF FetchedSoFar, FetchedAll
<1> QED
  BY <1>9, <1>10, <1>11, <1>12 DEF IInv

LEMMA NextInvariant == IInv /\ [Next]_vars => IInv'
<1> SUFFICES ASSUME IInv, [Next]_vars PROVE IInv'
  OBVIOUS
<1>1. CASE SourceNext /\ UNCHANGED syncVars
  BY <1>1, SourceNextInvariant
<1>2. CASE Bootstrap \/ SyncOnce \/ CallFails \/ Restart \/ RestartWithoutStore
  BY <1>2, IdleStepsInvariant
<1>3. CASE FetchSnapshotPage
  BY <1>3, FetchSnapshotPageInvariant
<1>4. CASE PublishSnapshot
  BY <1>4, PublishSnapshotInvariant
<1>5. CASE SaveSnapshot
  BY <1>5, SaveSnapshotInvariant
<1>6. CASE FetchChangesPage
  BY <1>6, FetchChangesPageInvariant
<1>7. CASE PublishDelta
  BY <1>7, PublishDeltaInvariant
<1>8. CASE SaveDelta
  BY <1>8, SaveDeltaInvariant
<1>9. CASE UNCHANGED vars
  BY <1>9
  DEF vars, sourceVars, syncVars, IInv, TypeOK, SourceTypeOK, AckedChangesArePublished,
      DeltaIsWhole, PositionsOrdered, FetchedSoFar, FetchedAll, Watermark,
      PendingAfter, Delivered, Copies
<1> QED
  BY <1>1, <1>2, <1>3, <1>4, <1>5, <1>6, <1>7, <1>8, <1>9 DEF Next, SyncStep

LEMMA Invariance == Spec => []IInv
BY InitInvariant, NextInvariant, PTL DEF Spec

-----------------------------------------------------------------------------
(* Theorems *)

\* Every variable of the synchronizer and the service keeps its type
\* (synchronizer.py:82-253).
THEOREM TypeCorrect == Spec => []TypeOK
<1>1. IInv => TypeOK
  BY DEF IInv
<1> QED
  BY <1>1, Invariance, PTL

\* Nothing is counted as done, in memory or on disk, that the store does not
\* publish, through any failure or restart (synchronizer.py:152-159, 235-245);
\* after a restart with an empty store, from its next publication on.
THEOREM AckedIsPublished == Spec => []AckedChangesArePublished
<1>1. IInv => AckedChangesArePublished
  BY DEF IInv
<1> QED
  BY <1>1, Invariance, PTL

\* A delta is exactly the events between two watermarks, and reaches every
\* event that was there when its first page was read, for every page size and
\* every delivery mode of a feed that grows while it is read
\* (synchronizer.py:196-212, 255-292).
THEOREM NoGap == Spec => []DeltaHasNoGap
<1>1. IInv => DeltaHasNoGap
  BY BatchReaches DEF IInv, DeltaIsWhole, DeltaHasNoGap
<1> QED
  BY <1>1, Invariance, PTL

\* The store moves forward only, although a crash between publication and
\* commit, or a redelivered feed, makes the synchronizer read events again
\* (synchronizer.py:242-243, 275-292), unless the store itself is lost.
THEOREM NeverGoesBack == Spec => StoreNeverGoesBack
<1>1. ASSUME IInv, [Next]_vars
      PROVE  [storeMark' < storeMark => storeLost' /\ store' = NoMembers]_vars
  <2>1. storeMark \in Int /\ (storeMark' = storeMark => ~(storeMark' < storeMark))
    BY <1>1 DEF IInv, TypeOK, NoMark
  <2>2. CASE PublishSnapshot
    BY <1>1, <2>1, <2>2 DEF PublishSnapshot, IInv, TypeOK, PositionsOrdered
  <2>3. CASE PublishDelta
    <3>1. CASE Applicable # {}
      <4>1. storeMark <= DeltaMark(Applicable) /\ DeltaMark(Applicable) \in Int
        BY <1>1, <2>3, <3>1, ApplicableEvents
        DEF PublishDelta, IInv, TypeOK, PositionsOrdered, SyncCalls, NoMark
      <4> QED
        BY <2>1, <2>3, <3>1, <4>1 DEF PublishDelta
    <3>2. CASE Applicable = {}
      BY <2>1, <2>3, <3>2 DEF PublishDelta
    <3> QED
      BY <3>1, <3>2
  <2>4. CASE UNCHANGED vars
    BY <2>4
  <2>5. CASE RestartWithoutStore
    BY <2>5 DEF RestartWithoutStore
  <2>6. CASE ~PublishSnapshot /\ ~PublishDelta /\ ~RestartWithoutStore /\ Next
    BY <2>1, <2>6
    DEF Next, SyncStep, syncVars, Bootstrap, FetchSnapshotPage, SaveSnapshot, SyncOnce,
        FetchChangesPage, SaveDelta, CallFails, Restart
  <2> QED
    BY <1>1, <2>2, <2>3, <2>4, <2>5, <2>6
<1> QED
  BY <1>1, Invariance, PTL DEF Spec, StoreNeverGoesBack

-----------------------------------------------------------------------------
(* The net effect of all events between two watermarks *)

Between(lo, hi) == lo + 1 .. hi

\* The last event of an entity decides whether any event of it is live.
LEMMA LastEvent ==
  ASSUME SourceTypeOK, NEW e \in EntityIds, NEW hi \in 0 .. Watermark, NEW lo \in 0 .. hi,
         Touching(e, lo, hi) # {}
  PROVE  LET last == Latest(Touching(e, lo, hi))
             live == Live(events, Between(lo, hi), e)
         IN  /\ last \in Between(lo, hi) /\ events[last].entity = e
             /\ SourceAt(hi)[e] = events[last].score
             /\ events[last].change = "removed" =>
                  live = {} /\ e \in Removals(events, Between(lo, hi))
             /\ events[last].change # "removed" => last \in live /\ Latest(live) = last
<1> DEFINE last == Latest(Touching(e, lo, hi))
           live == Live(events, Between(lo, hi), e)
<1>1. /\ last \in Touching(e, lo, hi) /\ \A k \in Touching(e, lo, hi) : k <= last
      /\ Touching(e, lo, hi) \in SUBSET (lo + 1 .. hi)
  BY TouchingFacts
<1>2. SourceAt(hi)[e] = events[last].score
  BY SourceAtSince
<1>3. On(events, Between(lo, hi), e) = Touching(e, lo, hi)
  BY DEF On, Touching, Between
<1> HIDE DEF last
<1>4. last \in lo + 1 .. hi /\ events[last].entity = e
  BY <1>1 DEF Touching
<1>5. lo \in Int /\ hi \in Int
  OBVIOUS
<1>6. CASE events[last].change = "removed"
  <2>1. live = {}
    BY <1>1, <1>3, <1>5, <1>6 DEF Live
  <2>2. Adds(events, Between(lo, hi), e) = {}
    BY <2>1 DEF Adds
  <2>3. e \in Removals(events, Between(lo, hi))
    BY <1>1, <1>3, <1>6, <2>2 DEF Removals
  <2> QED
    BY <1>2, <1>4, <1>6, <2>1, <2>3 DEF last, Between
<1>7. CASE events[last].change # "removed"
  <2>1. \A r \in Touching(e, lo, hi) : events[r].change = "removed" => r < last
    <3> TAKE r \in Touching(e, lo, hi)
    <3>1. r <= last /\ r \in Int /\ last \in Int
      BY <1>1, <1>4, <1>5
    <3>2. events[r].change = "removed" => r # last
      BY <1>7
    <3> QED
      BY <3>1, <3>2
  <2>2. last \in live
    BY <1>1, <1>3, <2>1 DEF Live
  <2>3. live \subseteq Touching(e, lo, hi)
    BY <1>3 DEF Live
  <2>4. live \in SUBSET Int /\ \A k \in live : k <= last
    BY <1>1, <1>5, <2>3
  <2> HIDE DEF live
  <2>5. Latest(live) = last
    BY <2>2, <2>4, LatestIs
  <2> QED
    BY <1>2, <1>4, <1>7, <2>2, <2>5 DEF last, live, Between
<1> QED
  BY <1>6, <1>7

\* An entity whose live events only change its score was a member throughout.
LEMMA OnlyRescored ==
  ASSUME SourceTypeOK, WellFormedLog,
         NEW e \in EntityIds, NEW hi \in 0 .. Watermark, NEW lo \in 0 .. hi,
         Touching(e, lo, hi) # {},
         events[Latest(Touching(e, lo, hi))].change # "removed",
         Adds(events, Between(lo, hi), e) = {}
  PROVE  /\ e \notin Removals(events, Between(lo, hi))
         /\ Rescores(events, Between(lo, hi), e) = Touching(e, lo, hi)
         /\ \A n \in lo .. hi : SourceAt(n)[e] # Absent
<1> DEFINE T == Touching(e, lo, hi)
           last == Latest(T)
           removed == {r \in T : events[r].change = "removed"}
<1>1. /\ Watermark \in Nat /\ lo \in Nat /\ hi \in Nat
      /\ T \in SUBSET (lo + 1 .. hi) /\ last \in T /\ \A k \in T : k <= last
      /\ \A k \in T : k \in 1 .. Watermark /\ events[k].entity = e /\ events[k] \in SourceEvent
  <2>1. Watermark \in Nat /\ \A k \in 1 .. Watermark : events[k] \in SourceEvent
    BY DEF Watermark, SourceTypeOK
  <2>2. T \in SUBSET (lo + 1 .. hi) /\ last \in T /\ \A k \in T : k <= last
    <3>1. lo \in Nat /\ T # {}
      BY <2>1
    <3> QED
      BY <3>1, TouchingFacts, Zenon
  <2>3. \A k \in T : events[k].entity = e
    BY DEF Touching
  <2> HIDE DEF T, last
  <2> QED
    BY <2>1, <2>2, <2>3
<1>2. On(events, Between(lo, hi), e) = T
  BY DEF On, Touching, Between
<1>3. Live(events, Between(lo, hi), e) = {k \in T : \A r \in removed : r < k}
  BY <1>2 DEF Live
<1>4. events[last].change # "removed"
  OBVIOUS
<1> HIDE DEF T, last
<1>5. \A k \in T : k \in Nat /\ k <= hi
  BY <1>1
<1>6. ASSUME NEW k \in T, \A r \in removed : r < k
      PROVE  events[k].change = "score_changed" /\ SourceAt(k - 1)[e] # Absent
  <2>1. k \notin removed
    BY <1>5, <1>6
  <2>2. k \in Live(events, Between(lo, hi), e)
    BY <1>3, <1>6
  <2>3. events[k].change # "added"
    BY <2>2 DEF Adds
  <2>4. events[k].change = "score_changed"
    BY <1>1, <2>1, <2>3 DEF SourceEvent, Event, ChangeTypes
  <2> QED
    BY <1>1, <2>4 DEF WellFormedLog
<1>7. removed = {}
  <2> SUFFICES ASSUME removed # {} PROVE FALSE
    OBVIOUS
  <2>1. removed \in SUBSET Int /\ hi \in Int /\ \A r \in removed : r <= hi
    BY <1>5
  <2>2. PICK r \in removed : \A q \in removed : q <= r
    <3> HIDE DEF removed
    <3> QED
      BY <2>1, GreatestBelow
  <2> DEFINE after == {k \in T : r < k}
  <2>3. r \in T /\ r # last
    BY <1>4, <2>2
  <2>4. last \in after
    BY <1>1, <1>5, <2>3
  <2>5. after \in SUBSET Nat
    BY <1>5
  <2>6. PICK k \in after : \A j \in after : k <= j
    <3> HIDE DEF after
    <3> QED
      BY <2>4, <2>5, LeastNat
  <2>7. k \in T /\ r < k /\ \A q \in removed : q < k
    BY <1>5, <2>2, <2>6
  <2>8. SourceAt(k - 1)[e] # Absent
    BY <1>6, <2>7
  <2>9. k - 1 \in 0 .. Watermark /\ r \in 0 .. k - 1 /\ r \in 1 .. Watermark
    BY <1>1, <2>3, <2>7
  <2>10. Touching(e, r, k - 1) = {}
    <3> SUFFICES ASSUME NEW j \in r + 1 .. k - 1, events[j].entity = e PROVE FALSE
      BY DEF Touching
    <3>1. j \in lo + 1 .. hi
      BY <1>1, <2>3, <2>7
    <3>2. j \in T
      BY <3>1 DEF T, Touching
    <3> QED
      BY <1>5, <2>3, <2>6, <2>7, <3>2
  <2>11. SourceAt(k - 1)[e] = SourceAt(r)[e]
    BY <2>9, <2>10, SourceAtSince
  <2>12. SourceAt(r)[e] = events[r].score /\ events[r].score = Absent
    BY <1>1, <2>2, <2>3, <2>9, SourceAtEvent DEF SourceEvent, Event
  <2> QED
    BY <2>8, <2>11, <2>12
<1>8. \A k \in T : events[k].change = "score_changed" /\ SourceAt(k - 1)[e] # Absent
  BY <1>6, <1>7
<1>9. e \notin Removals(events, Between(lo, hi))
  BY <1>2, <1>7 DEF Removals
<1>10. Rescores(events, Between(lo, hi), e) = T
  BY <1>3, <1>7 DEF Rescores
<1>11. ASSUME NEW n \in lo .. hi
       PROVE  SourceAt(n)[e] # Absent
  <2>1. lo \in 0 .. n /\ n \in 0 .. Watermark
    BY <1>1
  <2>2. CASE Touching(e, lo, n) # {}
    <3> DEFINE l == Latest(Touching(e, lo, n))
    <3>1. l \in Touching(e, lo, n) /\ SourceAt(n)[e] = events[l].score
      BY <1>1, <2>1, <2>2, TouchingFacts, SourceAtSince
    <3> HIDE DEF l
    <3>2. l \in T
      BY <1>1, <3>1 DEF T, Touching
    <3> QED
      BY <1>1, <1>8, <3>1, <3>2 DEF SourceEvent, Event
  <2>3. CASE Touching(e, lo, n) = {}
    <3>1. SourceAt(n)[e] = SourceAt(lo)[e]
      BY <2>1, <2>3, SourceAtSince
    <3>2. T \in SUBSET Nat /\ T # {}
      BY <1>1
    <3>3. PICK k \in T : \A j \in T : k <= j
      BY <3>2, LeastNat
    <3>4. k \in lo + 1 .. hi /\ k - 1 \in 0 .. Watermark /\ lo \in 0 .. k - 1
      BY <1>1, <3>3
    <3>5. Touching(e, lo, k - 1) = {}
      <4> SUFFICES ASSUME NEW j \in lo + 1 .. k - 1, events[j].entity = e PROVE FALSE
        BY DEF Touching
      <4>1. j \in T
        BY <1>1, <3>4 DEF T, Touching
      <4> QED
        BY <1>5, <3>3, <4>1
    <3>6. SourceAt(k - 1)[e] = SourceAt(lo)[e]
      BY <3>4, <3>5, SourceAtSince
    <3> QED
      BY <1>8, <3>1, <3>6
  <2> QED
    BY <2>2, <2>3
<1> QED
  BY <1>9, <1>10, <1>11 DEF T

\* Without re-additions no score change precedes the addition of an entity: the
\* entity was no member.
LEMMA AddedFirst ==
  ASSUME SourceTypeOK, WellFormedLog, ~AllowReAdd,
         NEW e \in EntityIds, NEW hi \in 0 .. Watermark, NEW lo \in 0 .. hi,
         Adds(events, Between(lo, hi), e) # {}
  PROVE  Rescores(events, Between(lo, hi), e) = {}
<1> DEFINE T == Touching(e, lo, hi)
           adds == Adds(events, Between(lo, hi), e)
           removed == {r \in T : events[r].change = "removed"}
<1>1. /\ Watermark \in Nat /\ lo \in Nat /\ hi \in Nat
      /\ \A k \in T : k \in lo + 1 .. hi /\ k \in 1 .. Watermark
      /\ \A k \in T : events[k].entity = e /\ events[k] \in SourceEvent
  <2>1. Watermark \in Nat /\ \A k \in 1 .. Watermark : events[k] \in SourceEvent
    BY DEF Watermark, SourceTypeOK
  <2>2. \A k \in T : k \in lo + 1 .. hi /\ events[k].entity = e
    BY DEF Touching
  <2> HIDE DEF T
  <2> QED
    BY <2>1, <2>2
<1>2. On(events, Between(lo, hi), e) = T
  BY DEF On, Touching, Between
<1>3. Live(events, Between(lo, hi), e) = {k \in T : \A r \in removed : r < k}
  BY <1>2 DEF Live
<1>4. adds = {k \in T : events[k].change = "added" /\ \A r \in removed : r < k}
  BY <1>3 DEF Adds
<1>5. adds # {}
  OBVIOUS
<1> SUFFICES ASSUME NEW k \in Rescores(events, Between(lo, hi), e) PROVE FALSE
  OBVIOUS
<1>6. k \in T /\ (\A r \in removed : r < k) /\ \A a \in adds : k < a
  BY <1>3 DEF Rescores
<1> HIDE DEF T, adds
<1>7. adds \in SUBSET Nat
  BY <1>1, <1>4
<1>8. PICK a \in adds : \A b \in adds : a <= b
  BY <1>5, <1>7, LeastNat
<1>9. a \in T /\ events[a].change = "added" /\ k < a
  BY <1>4, <1>6, <1>8
<1>10. /\ a \in lo + 1 .. hi /\ a \in 1 .. Watermark /\ k \in lo + 1 .. hi
       /\ a - 1 \in 0 .. Watermark /\ k - 1 \in 0 .. a - 1
  BY <1>1, <1>6, <1>9
<1>11. SourceAt(a - 1)[e] = Absent
  BY <1>1, <1>9 DEF WellFormedLog
<1> DEFINE j == Latest(Touching(e, k - 1, a - 1))
<1>12. k \in Touching(e, k - 1, a - 1)
  BY <1>1, <1>6, <1>9, <1>10 DEF Touching
<1>13. /\ j \in Touching(e, k - 1, a - 1) /\ SourceAt(a - 1)[e] = events[j].score
       /\ k - 1 \in Nat
  <2>1. k - 1 \in Nat /\ a - 1 \in 0 .. Watermark
    BY <1>10
  <2>2. j \in Touching(e, k - 1, a - 1)
    BY <1>12, <2>1, TouchingFacts
  <2>3. SourceAt(a - 1)[e] = events[j].score
    BY <1>10, <1>12, SourceAtSince
  <2> QED
    BY <2>1, <2>2, <2>3
<1> HIDE DEF j
<1>14. j \in T /\ k <= j /\ j < a
  <2>1. j \in k - 1 + 1 .. a - 1 /\ events[j].entity = e
    BY <1>13 DEF Touching
  <2>2. j \in lo + 1 .. hi /\ k <= j /\ j < a
    BY <1>1, <1>10, <2>1
  <2> QED
    BY <2>1, <2>2 DEF T, Touching
<1>15. \A r \in removed : r < j
  <2> TAKE r \in removed
  <2>1. r \in Int /\ j \in Int /\ k \in Int
    BY <1>1, <1>6, <1>14
  <2> QED
    BY <1>6, <1>14, <2>1
<1>16. j \notin adds /\ j \notin removed
  <2>1. j \in Int /\ a \in Int
    BY <1>1, <1>9, <1>14
  <2>2. ~(a <= j) /\ ~(j < j)
    BY <1>14, <2>1
  <2> QED
    BY <1>8, <1>15, <2>2
<1>17. events[j].change # "added" /\ events[j].change # "removed"
  BY <1>4, <1>14, <1>15, <1>16
<1>18. events[j].score # Absent
  BY <1>1, <1>14, <1>17 DEF SourceEvent, Event
<1> QED
  BY <1>11, <1>13, <1>18

\* What a delta over all events between two watermarks does to an entity.
NewStore(lo, hi) ==
  LET additions == Additions(events, Between(lo, hi))
  IN  ApplyDelta(additions, Removals(events, Between(lo, hi)),
                 DeltaScores(additions, ScoreChanges(events, Between(lo, hi))))

\* What the delta leaves of an entity is decided by its last event; a score
\* change reaches an entity the store does not hold only behind an addition.
LEMMA NewStoreAt ==
  ASSUME SourceTypeOK, WellFormedLog,
         NEW e \in EntityIds, NEW hi \in 0 .. Watermark, NEW lo \in 0 .. hi
  PROVE  LET T == Touching(e, lo, hi)
             last == events[Latest(T)]
             added == Adds(events, Between(lo, hi), e) # {}
             new == NewStore(lo, hi)[e]
         IN  /\ T = {} => new = store[e]
             /\ T # {} /\ last.change = "removed" => new = Absent
             /\ T # {} /\ last.change # "removed" /\ added =>
                  new # Absent /\ (~AllowReAdd /\ 0 \notin Scores => new = last.score)
             /\ T # {} /\ last.change # "removed" /\ ~added /\ store[e] # Absent =>
                  new = last.score
             /\ ~added /\ store[e] = Absent => new = Absent
<1> DEFINE T == Touching(e, lo, hi)
           B == Between(lo, hi)
           last == events[Latest(T)]
           additions == Additions(events, B)
           scores == DeltaScores(additions, ScoreChanges(events, B))
           new == NewStore(lo, hi)[e]
<1>1. new = IF e \in Removals(events, B) THEN Absent
            ELSE IF additions[e] = Absent /\ store[e] = Absent THEN Absent
            ELSE IF scores[e] = Absent THEN store[e] ELSE scores[e]
  BY DEF NewStore, ApplyDelta
<1>2. scores[e] = IF ScoreChanges(events, B)[e] # Absent THEN ScoreChanges(events, B)[e]
                  ELSE additions[e]
  BY DEF DeltaScores
<1>3. ScoreChanges(events, B)[e] =
        IF Rescores(events, B, e) = {} THEN Absent
        ELSE events[Latest(Rescores(events, B, e))].score
  BY DEF ScoreChanges
<1>4. additions[e] =
        IF Adds(events, B, e) = {} THEN Absent
        ELSE LET live == events[Latest(Live(events, B, e))]
             IN  IF live.change = "added" THEN AddedScore(live.score) ELSE live.score
  BY DEF Additions
<1>5. CASE T = {}
  <2>1. On(events, B, e) = {}
    BY <1>5 DEF On, Touching, Between
  <2>2. /\ Adds(events, B, e) = {} /\ Rescores(events, B, e) = {}
        /\ e \notin Removals(events, B)
    BY <2>1 DEF Live, Adds, Rescores, Removals
  <2>3. additions[e] = Absent /\ scores[e] = Absent
    BY <1>2, <1>3, <1>4, <2>2
  <2>4. new = store[e]
    BY <1>1, <2>2, <2>3
  <2> QED
    BY <1>5, <2>4
<1>6. CASE T # {}
  <2>1. last \in SourceEvent
    <3>1. Watermark \in Nat /\ \A k \in 1 .. Watermark : events[k] \in SourceEvent
      BY DEF Watermark, SourceTypeOK
    <3>2. Latest(T) \in 1 .. Watermark
      BY <1>6, <3>1, TouchingFacts
    <3> QED
      BY <3>1, <3>2
  <2>2. /\ last.change = "removed" => e \in Removals(events, B)
        /\ last.change # "removed" => Latest(Live(events, B, e)) = Latest(T)
    BY <1>6, LastEvent
  <2> HIDE DEF T, B, last, additions, scores, new
  <2>3. CASE last.change = "removed"
    BY <1>1, <1>6, <2>2, <2>3 DEF T, B, last, new
  <2>4. CASE last.change # "removed" /\ Adds(events, B, e) # {}
    <3>1. e \notin Removals(events, B)
      BY <2>4 DEF Removals
    <3>2. additions[e] = IF last.change = "added" THEN AddedScore(last.score) ELSE last.score
      BY <1>4, <2>2, <2>4 DEF last
    <3>3. last.score \in Scores
      BY <2>1, <2>4 DEF SourceEvent, Event
    <3>4. additions[e] # Absent /\ (0 \notin Scores => additions[e] = last.score)
      BY <3>2, <3>3, ScoresAssumption DEF AddedScore, Absent
    <3>5. scores[e] # Absent
      BY <1>2, <3>4
    <3>6. new = scores[e]
      BY <1>1, <3>1, <3>4, <3>5
    <3>7. ASSUME ~AllowReAdd, 0 \notin Scores
          PROVE  new = last.score
      <4>1. Rescores(events, B, e) = {}
        BY <2>4, <3>7, AddedFirst DEF B
      <4> QED
        BY <1>2, <1>3, <3>4, <3>6, <3>7, <4>1
    <3> QED
      BY <1>6, <2>4, <3>5, <3>6, <3>7 DEF T, B, last, new
  <2>5. CASE last.change # "removed" /\ Adds(events, B, e) = {} /\ store[e] # Absent
    <3>1. e \notin Removals(events, B) /\ Rescores(events, B, e) = T
      BY <1>6, <2>5, OnlyRescored DEF T, B, last
    <3>2. ScoreChanges(events, B)[e] = last.score
      BY <1>3, <1>6, <3>1 DEF last
    <3>3. last.score # Absent
      BY <2>1, <2>5 DEF SourceEvent, Event
    <3>4. new = last.score
      BY <1>1, <1>2, <2>5, <3>1, <3>2, <3>3
    <3> QED
      BY <1>6, <2>5, <3>4 DEF T, B, last, new
  <2>6. Adds(events, B, e) = {} /\ store[e] = Absent => new = Absent
    BY <1>1, <1>4
  <2> QED
    BY <1>6, <2>3, <2>4, <2>5, <2>6 DEF T, B, last, new
<1> QED
  BY <1>5, <1>6

\* Such a delta carries the members at any watermark in between to the last,
\* and without re-additions and zero scores their scores as well.
LEMMA DeltaCarries ==
  ASSUME SourceTypeOK, WellFormedLog,
         NEW e \in EntityIds, NEW hi \in 0 .. Watermark, NEW lo \in 0 .. hi, NEW at \in lo .. hi,
         store[e] = Absent <=> SourceAt(at)[e] = Absent
  PROVE  /\ NewStore(lo, hi)[e] = Absent <=> SourceAt(hi)[e] = Absent
         /\ ~AllowReAdd /\ 0 \notin Scores /\ store[e] = SourceAt(at)[e] =>
              NewStore(lo, hi)[e] = SourceAt(hi)[e]
<1> DEFINE T == Touching(e, lo, hi)
           last == events[Latest(T)]
<1>1. at \in 0 .. hi /\ Watermark \in Nat
  BY DEF Watermark, SourceTypeOK
<1>2. CASE T = {}
  <2>1. Touching(e, at, hi) = {}
    BY <1>1, <1>2 DEF Touching
  <2>2. SourceAt(hi)[e] = SourceAt(at)[e]
    BY <1>1, <2>1, SourceAtSince
  <2>3. NewStore(lo, hi)[e] = store[e]
    BY <1>2, NewStoreAt
  <2> QED
    BY <2>2, <2>3
<1>3. CASE T # {}
  <2>1. SourceAt(hi)[e] = last.score /\ last \in SourceEvent
    <3>1. Watermark \in Nat /\ \A k \in 1 .. Watermark : events[k] \in SourceEvent
      BY DEF Watermark, SourceTypeOK
    <3>2. Latest(T) \in 1 .. Watermark
      BY <1>3, <3>1, TouchingFacts
    <3> QED
      BY <1>3, <3>1, <3>2, SourceAtSince
  <2>2. CASE last.change = "removed"
    <3>1. NewStore(lo, hi)[e] = Absent
      BY <1>3, <2>2, NewStoreAt
    <3> QED
      BY <2>1, <2>2, <3>1 DEF SourceEvent, Event
  <2>3. CASE last.change # "removed" /\ Adds(events, Between(lo, hi), e) # {}
    <3>1. /\ NewStore(lo, hi)[e] # Absent
          /\ ~AllowReAdd /\ 0 \notin Scores => NewStore(lo, hi)[e] = last.score
      BY <1>3, <2>3, NewStoreAt
    <3> QED
      BY <2>1, <2>3, <3>1 DEF SourceEvent, Event
  <2>4. CASE last.change # "removed" /\ Adds(events, Between(lo, hi), e) = {}
    <3>1. store[e] # Absent
      BY <1>3, <2>4, OnlyRescored
    <3>2. NewStore(lo, hi)[e] = last.score
      BY <1>3, <2>4, <3>1, NewStoreAt
    <3> QED
      BY <2>1, <3>2
  <2> QED
    BY <2>2, <2>3, <2>4
<1> QED
  BY <1>2, <1>3

\* A delta that meets a store that misses the entity leaves it missing or gives
\* it the score of its last event.
LEMMA DeltaFills ==
  ASSUME SourceTypeOK, WellFormedLog, ~AllowReAdd, 0 \notin Scores,
         NEW e \in EntityIds, NEW hi \in 0 .. Watermark, NEW lo \in 0 .. hi,
         store[e] = Absent
  PROVE  NewStore(lo, hi)[e] \in {Absent, SourceAt(hi)[e]}
<1> DEFINE T == Touching(e, lo, hi)
           last == events[Latest(T)]
<1>1. CASE T = {} \/ Adds(events, Between(lo, hi), e) = {}
  BY <1>1, NewStoreAt
<1>2. CASE T # {} /\ Adds(events, Between(lo, hi), e) # {}
  <2>1. SourceAt(hi)[e] = last.score
    BY <1>2, SourceAtSince
  <2>2. NewStore(lo, hi)[e] \in {Absent, last.score}
    BY <1>2, NewStoreAt
  <2> QED
    BY <2>1, <2>2
<1> QED
  BY <1>1, <1>2

\* An entity with a live event is a member from that event on, and got its
\* score with it.
LEMMA LiveIsMember ==
  ASSUME SourceTypeOK, NEW e \in EntityIds, NEW hi \in 0 .. Watermark, NEW lo \in 0 .. hi,
         NEW k \in Live(events, Between(lo, hi), e),
         events[k].change # "removed"
  PROVE  /\ k \in 0 .. hi
         /\ HadScore(e, events[k].score, k, hi) /\ HadScore(e, AddedScore(events[k].score), k, hi)
<1>1. /\ Watermark \in Nat /\ lo \in Nat /\ hi \in Nat
      /\ \A j \in 1 .. Watermark : events[j] \in SourceEvent
  BY DEF Watermark, SourceTypeOK
<1>2. /\ k \in lo + 1 .. hi /\ events[k].entity = e
      /\ \A r \in lo + 1 .. hi :
           events[r].entity = e /\ events[r].change = "removed" => r < k
  BY DEF Live, On, Between
<1>3. k \in 1 .. Watermark /\ k - 1 \in Nat
  BY <1>1, <1>2
<1>4. SourceAt(k)[e] = events[k].score
  BY <1>2, <1>3, SourceAtEvent
<1>5. ASSUME NEW m \in k .. hi PROVE SourceAt(m)[e] # Absent
  <2> DEFINE l == Latest(Touching(e, k - 1, m))
  <2>1. m \in 0 .. Watermark /\ k - 1 \in 0 .. m
    BY <1>1, <1>2, <1>3
  <2>2. k \in Touching(e, k - 1, m)
    BY <1>2, <1>3 DEF Touching
  <2>3. /\ l \in Touching(e, k - 1, m)
        /\ SourceAt(m)[e] = events[l].score
    BY <1>3, <2>1, <2>2, TouchingFacts, SourceAtSince
  <2> HIDE DEF l
  <2>4. l \in k .. m /\ events[l].entity = e
    BY <1>3, <2>3 DEF Touching
  <2>5. l \in lo + 1 .. hi /\ l \in 1 .. Watermark /\ ~(l < k)
    BY <1>1, <1>2, <2>4
  <2>6. events[l].change # "removed" /\ events[l] \in SourceEvent
    BY <1>1, <1>2, <2>4, <2>5
  <2> QED
    BY <2>3, <2>6 DEF SourceEvent, Event
<1> QED
  BY <1>1, <1>2, <1>4, <1>5 DEF HadScore

\* The score a delta leaves with a member is that of a live event, unless the
\* delta does not touch the member.
LEMMA NewScoreIsLive ==
  ASSUME SourceTypeOK, WellFormedLog,
         NEW e \in EntityIds, NEW hi \in 0 .. Watermark, NEW lo \in 0 .. hi,
         Touching(e, lo, hi) # {},
         events[Latest(Touching(e, lo, hi))].change # "removed",
         Adds(events, Between(lo, hi), e) = {} => store[e] # Absent
  PROVE  \E k \in Live(events, Between(lo, hi), e) :
           /\ events[k].change # "removed"
           /\ NewStore(lo, hi)[e] \in {events[k].score, AddedScore(events[k].score)}
<1> DEFINE B == Between(lo, hi)
           last == Latest(Touching(e, lo, hi))
           live == Live(events, B, e)
           late == Rescores(events, B, e)
           additions == Additions(events, B)
           scores == DeltaScores(additions, ScoreChanges(events, B))
<1>1. /\ last \in live /\ Latest(live) = last /\ events[last].change # "removed"
      /\ last \in B
  BY LastEvent
<1>2. live \subseteq lo + 1 .. hi /\ lo \in Int /\ hi \in Int
  BY DEF Live, On, Between
<1>3. /\ Watermark \in Nat /\ lo \in Nat
      /\ \A k \in 1 .. Watermark : events[k] \in SourceEvent
  BY DEF Watermark, SourceTypeOK
<1>4. \A k \in live : events[k] \in SourceEvent
  BY <1>2, <1>3
<1>5. \A k \in live : events[k].change # "removed"
  <2> SUFFICES ASSUME NEW k \in live, events[k].change = "removed" PROVE FALSE
    OBVIOUS
  <2>1. k \in On(events, B, e) /\ k < k
    BY DEF Live
  <2>2. k \in Int
    BY <1>2
  <2> QED
    BY <2>1, <2>2
<1>6. CASE Adds(events, B, e) # {}
  <2>1. NewStore(lo, hi)[e] # Absent
    BY <1>1, <1>6, NewStoreAt
  <2>2. NewStore(lo, hi)[e] = IF e \in Removals(events, B) THEN Absent
            ELSE IF additions[e] = Absent /\ store[e] = Absent THEN Absent
            ELSE IF scores[e] = Absent THEN store[e] ELSE scores[e]
    BY DEF NewStore, ApplyDelta
  <2>3. additions[e] = IF events[last].change = "added" THEN AddedScore(events[last].score)
                       ELSE events[last].score
    BY <1>1, <1>6 DEF Additions
  <2>4. additions[e] # Absent
    <3>1. events[last].score \in Scores
      BY <1>1, <1>4 DEF SourceEvent, Event
    <3> QED
      BY <2>3, <3>1, ScoresAssumption DEF AddedScore, Absent
  <2>5. CASE late = {}
    <3>1. scores[e] = additions[e]
      BY <2>5 DEF DeltaScores, ScoreChanges
    <3>2. NewStore(lo, hi)[e] = additions[e]
      BY <2>1, <2>2, <2>4, <3>1
    <3> QED
      BY <1>1, <2>3, <3>2
  <2>6. CASE late # {}
    <3>1. late \in SUBSET Int /\ \A k \in late : k <= hi
      BY <1>2 DEF Rescores
    <3>2. Latest(late) \in late
      BY <1>2, <2>6, <3>1, LatestIsGreatest
    <3>3. Latest(late) \in live
      BY <3>2 DEF Rescores
    <3>4. events[Latest(late)].score # Absent
      BY <1>4, <1>5, <3>3 DEF SourceEvent, Event
    <3>5. scores[e] = events[Latest(late)].score
      BY <2>6, <3>4 DEF DeltaScores, ScoreChanges
    <3>6. NewStore(lo, hi)[e] = events[Latest(late)].score
      BY <2>1, <2>2, <2>4, <3>4, <3>5
    <3> QED
      BY <1>5, <3>3, <3>6
  <2> QED
    BY <2>5, <2>6
<1>7. CASE Adds(events, B, e) = {}
  <2>1. NewStore(lo, hi)[e] = events[last].score
    BY <1>1, <1>7, NewStoreAt
  <2> QED
    BY <1>1, <2>1
<1> QED
  BY <1>6, <1>7

\* A delta that meets a store whose members have scores of their present
\* memberships leaves such a store behind.
LEMMA DeltaKeepsScores ==
  ASSUME SourceTypeOK, WellFormedLog,
         NEW e \in EntityIds, NEW hi \in 0 .. Watermark, NEW lo \in 0 .. hi, NEW at \in lo .. hi,
         store[e] # Absent => \E n \in 0 .. at : HadScore(e, store[e], n, at),
         NewStore(lo, hi)[e] # Absent
  PROVE  \E n \in 0 .. hi : HadScore(e, NewStore(lo, hi)[e], n, hi)
<1> DEFINE T == Touching(e, lo, hi)
<1>1. /\ at \in 0 .. hi /\ lo \in Nat /\ hi \in Nat /\ Watermark \in Nat
  BY DEF Watermark, SourceTypeOK
<1>2. CASE T = {}
  <2>1. NewStore(lo, hi)[e] = store[e]
    BY <1>2, NewStoreAt
  <2>2. PICK n \in 0 .. at : HadScore(e, store[e], n, at)
    BY <2>1
  <2>3. ASSUME NEW m \in n .. hi PROVE SourceAt(m)[e] # Absent
    <3>1. CASE m <= at
      BY <1>1, <2>2, <3>1 DEF HadScore
    <3>2. CASE at < m
      <4>1. m \in 0 .. Watermark /\ at \in 0 .. m /\ at \in n .. at
        BY <1>1, <2>2, <3>2
      <4>2. Touching(e, at, m) = {}
        BY <1>1, <1>2, <4>1 DEF Touching
      <4>3. SourceAt(m)[e] = SourceAt(at)[e]
        BY <4>1, <4>2, SourceAtSince
      <4> QED
        BY <2>2, <4>1, <4>3 DEF HadScore
    <3> QED
      BY <1>1, <3>1, <3>2
  <2>4. n \in 0 .. hi /\ HadScore(e, store[e], n, hi)
    BY <1>1, <2>2, <2>3 DEF HadScore
  <2> QED
    BY <2>1, <2>4
<1>3. CASE T # {}
  <2>1. events[Latest(T)].change # "removed"
    BY <1>3, NewStoreAt
  <2>2. Adds(events, Between(lo, hi), e) = {} => store[e] # Absent
    BY NewStoreAt
  <2>3. PICK k \in Live(events, Between(lo, hi), e) :
          /\ events[k].change # "removed"
          /\ NewStore(lo, hi)[e] \in {events[k].score, AddedScore(events[k].score)}
    BY <1>3, <2>1, <2>2, NewScoreIsLive
  <2>4. /\ k \in 0 .. hi
        /\ HadScore(e, events[k].score, k, hi) /\ HadScore(e, AddedScore(events[k].score), k, hi)
    BY <2>3, LiveIsMember
  <2> QED
    BY <2>3, <2>4
<1> QED
  BY <1>2, <1>3

-----------------------------------------------------------------------------
(* The pages of a bootstrap *)

\* The members a cursor has passed.
UpTo(offset) ==
  [e \in EntityIds |-> IF e \in MemberIds /\ Rank(e) <= offset THEN members[e] ELSE Absent]

\* As long as the pages are of one watermark they hold the members up to the
\* cursor, and in the end all of them.
PagesInv ==
  /\ pc = "fetch_snapshot" =>
       /\ lastMark <= Watermark
       /\ cursor = 0 => collected = NoMembers
       /\ cursor # 0 /\ ~torn /\ lastMark = Watermark => collected = UpTo(cursor)
  /\ pc = "publish_snapshot" /\ ~torn => collected = SourceAt(lastMark)

\* Ranks count from 1 to the number of members.
LEMMA Ranks ==
  /\ Cardinality(MemberIds) \in Nat
  /\ \A e \in MemberIds : Rank(e) \in 1 .. Cardinality(MemberIds)
<1>1. IsFiniteSet(MemberIds)
  BY EntityIdsAssumption, FS_Subset DEF MemberIds
<1>2. Cardinality(MemberIds) \in Nat
  BY <1>1, FS_CardinalityType
<1>3. ASSUME NEW e \in MemberIds
      PROVE  Rank(e) \in 1 .. Cardinality(MemberIds)
  <2> DEFINE upto == {x \in MemberIds : x <= e}
  <2>1. upto \subseteq MemberIds
    OBVIOUS
  <2>2. IsFiniteSet(upto) /\ Cardinality(upto) <= Cardinality(MemberIds)
    BY <1>1, <2>1, FS_Subset
  <2>3. e \in upto
    BY EntityIdsAssumption DEF MemberIds
  <2> HIDE DEF upto
  <2>4. Cardinality(upto) \in Nat /\ Cardinality(upto) # 0
    BY <2>2, <2>3, FS_CardinalityType, FS_EmptySet
  <2>5. Rank(e) = Cardinality(upto)
    BY DEF Rank, upto
  <2> QED
    BY <1>2, <2>2, <2>4, <2>5
<1> QED
  BY <1>2, <1>3

\* A page adds the members between the old cursor and the new one; the last page
\* completes them.
LEMMA FetchSnapshotPagePages ==
  ASSUME IInv, HistoryInv, PagesInv, FetchSnapshotPage
  PROVE  PagesInv'
<1> DEFINE next == SnapshotNextCursor(cursor)
           page == SnapshotPageIds(cursor)
<1>1. /\ pc = "fetch_snapshot" /\ cursor \in Nat /\ PageSize \in Nat \ {0}
      /\ members \in Membership /\ collected \in Membership
      /\ Watermark \in Nat /\ lastMark' = Watermark
      /\ UNCHANGED sourceVars
  BY PageSizeAssumption DEF FetchSnapshotPage, IInv, TypeOK, SourceTypeOK, Watermark
<1>2. /\ Watermark' = Watermark
      /\ members = SourceAt(Watermark) /\ SourceAt(Watermark)' = SourceAt(Watermark)
  BY <1>1 DEF sourceVars, Watermark, SourceAt, Touching, HistoryInv, LogExplainsMembers
<1>3. collected' = [e \in EntityIds |-> IF e \in page THEN members[e] ELSE collected[e]]
  BY DEF FetchSnapshotPage
<1>4. torn' = (torn \/ (cursor # 0 /\ lastMark # Watermark))
  BY DEF FetchSnapshotPage
<1>5. \A e \in EntityIds : e \notin MemberIds => members[e] = Absent
  BY DEF MemberIds
\* Before this page: the members up to the cursor, unless the pages are torn.
<1>6. ~torn' => \A e \in EntityIds :
                  collected[e] = IF e \in MemberIds /\ Rank(e) <= cursor
                                 THEN members[e] ELSE Absent
  <2> SUFFICES ASSUME ~torn', NEW e \in EntityIds
               PROVE  collected[e] = IF e \in MemberIds /\ Rank(e) <= cursor
                                     THEN members[e] ELSE Absent
    OBVIOUS
  <2>1. CASE cursor = 0
    <3>1. collected[e] = Absent
      BY <1>1, <2>1 DEF PagesInv, NoMembers
    <3>2. e \in MemberIds => ~(Rank(e) <= cursor)
      BY <2>1, Ranks
    <3> QED
      BY <3>1, <3>2
  <2>2. CASE cursor # 0
    BY <1>1, <1>4, <2>2 DEF PagesInv, UpTo
  <2> QED
    BY <2>1, <2>2
<1>7. CASE next # NoCursor
  <2>1. /\ ~feed.bitmap_snapshot /\ next = cursor + PageSize
        /\ pc' = "fetch_snapshot" /\ cursor' = next
    BY <1>1, <1>7 DEF FetchSnapshotPage, SnapshotNextCursor
  <2>2. ASSUME ~torn', NEW e \in EntityIds
        PROVE  collected'[e] = IF e \in MemberIds /\ Rank(e) <= cursor + PageSize
                               THEN members[e] ELSE Absent
    <3>1. e \in page <=> e \in MemberIds /\ cursor < Rank(e) /\ Rank(e) <= cursor + PageSize
      BY <2>1 DEF SnapshotPageIds
    <3>2. e \in MemberIds => Rank(e) \in Nat
      BY Ranks
    <3>3. Rank(e) <= cursor /\ e \in MemberIds => Rank(e) <= cursor + PageSize
      BY <1>1, <3>2
    <3>4. e \in MemberIds => (cursor < Rank(e) <=> ~(Rank(e) <= cursor))
      BY <1>1, <3>2
    <3> HIDE DEF page
    <3> QED
      BY <1>3, <1>6, <2>2, <3>1, <3>3, <3>4
  <2>3. UpTo(cursor)' = [e \in EntityIds |-> IF e \in MemberIds /\ Rank(e) <= cursor + PageSize
                                             THEN members[e] ELSE Absent]
    BY <1>1, <2>1 DEF UpTo, MemberIds, Rank, sourceVars
  <2>4. ~torn' => collected' = UpTo(cursor)'
    BY <1>3, <2>2, <2>3
  <2>5. cursor' # 0 /\ lastMark' <= Watermark'
    <3>1. cursor + PageSize # 0
      BY <1>1
    <3>2. lastMark' = Watermark' /\ Watermark' \in Nat
      BY <1>1, <1>2
    <3> QED
      BY <2>1, <3>1, <3>2
  <2> QED
    BY <2>1, <2>4, <2>5 DEF PagesInv
<1>8. CASE next = NoCursor
  <2>1. pc' = "publish_snapshot"
    BY <1>8 DEF FetchSnapshotPage
  <2>2. feed.bitmap_snapshot \/ Cardinality(MemberIds) <= cursor + PageSize
    <3>1. Cardinality(MemberIds) \in Nat /\ cursor + PageSize # NoCursor
      BY <1>1, Ranks DEF NoCursor
    <3> QED
      BY <1>1, <1>8, <3>1 DEF SnapshotNextCursor
  <2>3. ASSUME ~torn', NEW e \in EntityIds
        PROVE  collected'[e] = members[e]
    <3>1. e \in MemberIds => e \in page \/ Rank(e) <= cursor
      <4>1. e \in MemberIds => Rank(e) \in Nat /\ Rank(e) <= Cardinality(MemberIds)
        BY Ranks
      <4>2. Cardinality(MemberIds) \in Nat
        BY Ranks
      <4> QED
        BY <1>1, <2>2, <4>1, <4>2 DEF SnapshotPageIds
    <3> HIDE DEF page
    <3> QED
      BY <1>3, <1>5, <1>6, <2>3, <3>1
  <2>4. ~torn' => collected' = members
    BY <1>1, <1>3, <2>3 DEF Membership
  <2>5. SourceAt(lastMark)' = SourceAt(Watermark)'
    BY <1>1, <1>2 DEF SourceAt, Touching
  <2> QED
    BY <1>2, <2>1, <2>4, <2>5 DEF PagesInv
<1> QED
  BY <1>7, <1>8

\* The positions, the past and the pages together.
PastInv == IInv /\ HistoryInv /\ PagesInv

\* The combined invariant holds when service and synchronizer are constructed.
LEMMA PastInit == Init => PastInv
<1> SUFFICES ASSUME Init PROVE PastInv
  OBVIOUS
<1>1. IInv /\ HistoryInv
  BY InitInvariant, HistoryInit DEF Init
<1> QED
  BY <1>1 DEF Init, PastInv, PagesInv

\* The log, the past and the pages of a bootstrap stay in agreement.
LEMMA PastNext == ASSUME PastInv, [Next]_vars PROVE PastInv'
<1>1. IInv'
  BY NextInvariant DEF PastInv
<1>2. /\ SourceTypeOK /\ Watermark \in Nat /\ lastMark \in Nat
      /\ pc = "publish_snapshot" => lastMark <= Watermark
  BY DEF PastInv, IInv, TypeOK, SourceTypeOK, Watermark, PositionsOrdered
<1>3. CASE SourceNext /\ UNCHANGED syncVars
  <2>1. /\ HistoryInv' /\ Watermark' = Watermark + 1
        /\ \A n \in 0 .. Watermark : SourceAt(n)' = SourceAt(n)
    BY <1>2, <1>3, HistoryNext, SourceStep DEF PastInv
  <2>2. UNCHANGED <<pc, cursor, collected, lastMark, torn>>
    BY <1>3 DEF syncVars
  <2>3. pc = "publish_snapshot" => SourceAt(lastMark)' = SourceAt(lastMark)
    <3> SUFFICES ASSUME pc = "publish_snapshot"
                 PROVE  SourceAt(lastMark)' = SourceAt(lastMark)
      OBVIOUS
    <3>1. PICK n \in 0 .. Watermark : n = lastMark
      BY <1>2
    <3>2. SourceAt(lastMark)' = SourceAt(n)' /\ SourceAt(n) = SourceAt(lastMark)
      BY <2>2, <3>1 DEF SourceAt, Touching
    <3> QED
      BY <2>1, <3>2
  <2>4. pc = "fetch_snapshot" => lastMark <= Watermark' /\ lastMark # Watermark'
    BY <1>2, <2>1 DEF PastInv, PagesInv
  <2>5. PagesInv'
    BY <2>2, <2>3, <2>4 DEF PastInv, PagesInv
  <2> QED
    BY <1>1, <2>1, <2>5 DEF PastInv
<1>4. CASE FetchSnapshotPage
  <2>1. HistoryInv'
    BY <1>4, StillPast DEF FetchSnapshotPage, PastInv
  <2>2. PagesInv'
    BY <1>4, FetchSnapshotPagePages DEF PastInv
  <2> QED
    BY <1>1, <2>1, <2>2 DEF PastInv
<1>5. CASE Bootstrap
  <2>1. UNCHANGED sourceVars /\ cursor' = 0 /\ collected' = NoMembers /\ lastMark' = 0
        /\ pc' = "fetch_snapshot"
    BY <1>5 DEF Bootstrap, ForgetLocals
  <2>2. HistoryInv' /\ Watermark' \in Nat
    BY <1>2, <2>1, StillPast DEF PastInv
  <2>3. NoMembers' = NoMembers
    BY DEF NoMembers
  <2>4. PagesInv'
    BY <2>1, <2>2, <2>3 DEF PagesInv
  <2> QED
    BY <1>1, <2>2, <2>4 DEF PastInv
<1>6. CASE SyncOnce \/ PublishSnapshot \/ SaveSnapshot \/ FetchChangesPage \/ PublishDelta
           \/ SaveDelta \/ CallFails \/ Restart \/ RestartWithoutStore
  <2>1. UNCHANGED sourceVars /\ pc' # "fetch_snapshot" /\ pc' # "publish_snapshot"
    BY <1>6 DEF SyncOnce, PublishSnapshot, SaveSnapshot, FetchChangesPage, PublishDelta,
       SaveDelta, CallFails, Restart, RestartWithoutStore, Reload, Return
  <2>2. HistoryInv' /\ PagesInv'
    BY <2>1, StillPast DEF PastInv, PagesInv
  <2> QED
    BY <1>1, <2>2 DEF PastInv
<1>7. CASE UNCHANGED vars
  <2>1. UNCHANGED sourceVars /\ UNCHANGED <<pc, cursor, collected, lastMark, torn>>
    BY <1>7 DEF vars, syncVars
  <2>2. HistoryInv' /\ Watermark' = Watermark /\ \A n : SourceAt(n)' = SourceAt(n)
    BY <2>1, StillPast DEF PastInv
  <2>3. UpTo(cursor)' = UpTo(cursor) /\ SourceAt(lastMark)' = SourceAt(lastMark)
    BY <2>1, <2>2 DEF UpTo, MemberIds, Rank, sourceVars, SourceAt, Touching
  <2>4. PagesInv'
    BY <2>1, <2>2, <2>3 DEF PastInv, PagesInv, NoMembers
  <2> QED
    BY <1>1, <2>2, <2>4 DEF PastInv
<1> QED
  BY <1>3, <1>4, <1>5, <1>6, <1>7 DEF Next, SyncStep

\* It holds in every state of every behaviour.
LEMMA PastInvariance == Spec => []PastInv
BY PastInit, PastNext, PTL DEF Spec

-----------------------------------------------------------------------------
(* The store is a state of the source *)

\* The delta that is published is all there is between two watermarks, and the
\* store's own watermark lies between them, unless the store is an empty one.
LEMMA PublishedDelta ==
  ASSUME PastInv, PublishDelta, Applicable # {}
  PROVE  /\ mark \in Nat /\ storeMark' \in 0 .. Watermark
         /\ \/ storeMark \in mark .. storeMark'
            \/ storeLost /\ storeMark = NoMark /\ store = NoMembers
         /\ mark \in 0 .. storeMark'
         /\ store' = NewStore(mark, storeMark')
         /\ UNCHANGED <<sourceVars, storeTorn, storeLost>>
<1>1. /\ mark \in Nat /\ storeMark \in Int /\ Watermark \in Nat
      /\ mark <= storeMark \/ (storeLost /\ storeMark = NoMark /\ store = NoMembers)
      /\ pc = "publish_delta"
  BY DEF PublishDelta, PastInv, IInv, TypeOK, SourceTypeOK, Watermark, PositionsOrdered, SyncCalls,
     NoMark, AckedChangesArePublished
<1>2. /\ DeltaMark(Applicable) \in mark + 1 .. Watermark
      /\ Applicable = mark + 1 .. DeltaMark(Applicable)
      /\ storeMark <= DeltaMark(Applicable)
  BY <1>1, ApplicableEvents DEF PastInv
<1>3. /\ storeMark' = DeltaMark(Applicable)
      /\ UNCHANGED <<sourceVars, storeTorn, storeLost>>
      /\ store' = LET additions == Additions(events, Applicable)
                  IN  ApplyDelta(additions, Removals(events, Applicable),
                        DeltaScores(additions, ScoreChanges(events, Applicable)))
  BY DEF PublishDelta
<1>4. Applicable = Between(mark, storeMark')
  BY <1>2, <1>3 DEF Between
<1>5. store' = NewStore(mark, storeMark')
  BY <1>3, <1>4 DEF NewStore
<1> QED
  BY <1>1, <1>2, <1>3, <1>5

\* The steps that publish to the store, or lose it.
StoreSteps == PublishSnapshot \/ (PublishDelta /\ Applicable # {}) \/ RestartWithoutStore

\* The others keep the store and what it says of the source's past.
LEMMA StoreStays ==
  ASSUME PastInv, [Next]_vars, ~StoreSteps
  PROVE  /\ UNCHANGED <<store, storeMark, storeTorn, storeLost>>
         /\ storeMark # NoMark => SourceAt(storeMark)' = SourceAt(storeMark)
<1> USE DEF StoreSteps
<1>1. UNCHANGED <<store, storeMark, storeTorn, storeLost>>
  BY DEF Next, SyncStep, syncVars, Bootstrap, FetchSnapshotPage, SaveSnapshot, SyncOnce,
     FetchChangesPage, PublishDelta, SaveDelta, CallFails, Restart, vars
<1>2. CASE SourceNext
  <2>1. \A n \in 0 .. Watermark : SourceAt(n)' = SourceAt(n)
    BY <1>2, HistoryNext DEF PastInv, IInv, TypeOK
  <2>2. storeMark # NoMark => storeMark \in 0 .. Watermark
    BY DEF PastInv, IInv, TypeOK, SourceTypeOK, Watermark, PositionsOrdered
  <2> QED
    BY <1>1, <2>1, <2>2 DEF SourceAt, Touching
<1>3. CASE ~SourceNext
  <2>1. UNCHANGED sourceVars
    BY <1>3 DEF Next, SyncStep, Bootstrap, FetchSnapshotPage, SaveSnapshot, SyncOnce,
       FetchChangesPage, PublishDelta, SaveDelta, CallFails, Restart, Reload, vars
  <2> QED
    BY <1>1, <2>1, StillPast DEF SourceAt, Touching, sourceVars
<1> QED
  BY <1>1, <1>2, <1>3

\* What a bootstrap publishes is the source at the watermark of its last page,
\* unless its pages were torn.
LEMMA PublishedSnapshot ==
  ASSUME PastInv, PublishSnapshot
  PROVE  /\ storeMark' \in 0 .. Watermark /\ UNCHANGED sourceVars
         /\ ~storeTorn' => store' = SourceAt(storeMark')
         /\ ~storeLost'
<1>1. /\ storeMark' = lastMark /\ store' = collected /\ storeTorn' = torn /\ ~storeLost'
      /\ UNCHANGED sourceVars /\ pc = "publish_snapshot"
  BY DEF PublishSnapshot
<1>2. lastMark \in 0 .. Watermark
  BY <1>1 DEF PastInv, IInv, TypeOK, SourceTypeOK, Watermark, PositionsOrdered
<1>3. ~torn => collected = SourceAt(lastMark)
  BY <1>1 DEF PastInv, PagesInv
<1> QED
  BY <1>1, <1>2, <1>3

\* Applied to a store that holds the source's members, a delta leaves the
\* members of the watermark it publishes; without re-additions and zero scores
\* their scores as well.
LEMMA DeltaMatches ==
  ASSUME PastInv, PublishDelta, Applicable # {}, storeMark # NoMark, NEW e \in EntityIds,
         store[e] = Absent <=> SourceAt(storeMark)[e] = Absent
  PROVE  /\ store'[e] = Absent <=> SourceAt(storeMark')[e] = Absent
         /\ ~AllowReAdd /\ 0 \notin Scores /\ store[e] = SourceAt(storeMark)[e] =>
              store'[e] = SourceAt(storeMark')[e]
<1>1. /\ mark \in Nat /\ storeMark' \in 0 .. Watermark
      /\ storeMark \in mark .. storeMark' /\ mark \in 0 .. storeMark'
      /\ store' = NewStore(mark, storeMark')
  BY PublishedDelta
<1>2. SourceTypeOK /\ WellFormedLog
  BY DEF PastInv, IInv, TypeOK, HistoryInv
<1>3. PICK hi \in 0 .. Watermark : hi = storeMark'
  BY <1>1
<1> QED
  BY <1>1, <1>2, <1>3, DeltaCarries

\* The two halves of MembersMatchSource.
SameMembers ==
  storeMark # NoMark /\ ~storeTorn /\ ~storeLost =>
    \A e \in EntityIds : store[e] = Absent <=> SourceAt(storeMark)[e] = Absent

ScoresOfMembership ==
  storeMark # NoMark /\ ~storeTorn =>
    \A e \in EntityIds :
      store[e] # Absent => \E n \in 0 .. storeMark : HadScore(e, store[e], n, storeMark)

\* Each step keeps the store's members those of the source at its watermark.
LEMMA SameMembersNext ==
  ASSUME PastInv, SameMembers, [Next]_vars
  PROVE  SameMembers'
<1> SUFFICES ASSUME (storeMark # NoMark /\ ~storeTorn /\ ~storeLost)', NEW e \in EntityIds
             PROVE  (store[e] = Absent <=> SourceAt(storeMark)[e] = Absent)'
  BY DEF SameMembers
<1>1. CASE PublishSnapshot
  <2>1. store' = SourceAt(storeMark') /\ UNCHANGED sourceVars
    BY <1>1, PublishedSnapshot
  <2>2. SourceAt(storeMark)' = SourceAt(storeMark')
    BY <2>1 DEF sourceVars, SourceAt, Touching
  <2> QED
    BY <2>1, <2>2
<1>2. CASE PublishDelta /\ Applicable # {}
  <2>1. storeMark \in Nat /\ UNCHANGED <<sourceVars, storeTorn, storeLost>>
    <3>1. mark \in Nat /\ storeMark \in mark .. storeMark'
      BY <1>2, PublishedDelta
    <3>2. storeMark \in Nat
      BY <3>1 DEF PastInv, IInv, TypeOK, NoMark
    <3> QED
      BY <1>2, <3>2, PublishedDelta
  <2>2. store[e] = Absent <=> SourceAt(storeMark)[e] = Absent
    BY <2>1 DEF SameMembers, NoMark
  <2>3. store'[e] = Absent <=> SourceAt(storeMark')[e] = Absent
    BY <1>2, <2>1, <2>2, DeltaMatches DEF NoMark
  <2>4. SourceAt(storeMark)' = SourceAt(storeMark')
    BY <2>1 DEF sourceVars, SourceAt, Touching
  <2> QED
    BY <2>3, <2>4
<1>3. CASE ~StoreSteps
  <2>1. UNCHANGED <<store, storeMark, storeTorn, storeLost>>
    BY <1>3, StoreStays
  <2>2. SourceAt(storeMark)' = SourceAt(storeMark)
    BY <1>3, <2>1, StoreStays
  <2>3. store[e] = Absent <=> SourceAt(storeMark)[e] = Absent
    BY <2>1 DEF SameMembers
  <2> QED
    BY <2>1, <2>2, <2>3
<1>4. CASE RestartWithoutStore
  BY <1>4 DEF RestartWithoutStore
<1> QED
  BY <1>1, <1>2, <1>3, <1>4 DEF StoreSteps

\* Each step keeps the scores those of the present memberships.
LEMMA ScoresNext ==
  ASSUME PastInv, ScoresOfMembership, [Next]_vars
  PROVE  ScoresOfMembership'
<1> SUFFICES ASSUME (storeMark # NoMark /\ ~storeTorn)', NEW e \in EntityIds, store'[e] # Absent
             PROVE  (\E n \in 0 .. storeMark : HadScore(e, store[e], n, storeMark))'
  BY DEF ScoresOfMembership
<1>1. Watermark \in Nat /\ SourceTypeOK /\ WellFormedLog
  BY DEF PastInv, IInv, TypeOK, SourceTypeOK, Watermark, HistoryInv
<1>2. CASE PublishSnapshot
  <2>1. store' = SourceAt(storeMark') /\ UNCHANGED sourceVars /\ storeMark' \in 0 .. Watermark
    BY <1>2, PublishedSnapshot
  <2>2. PICK n \in 0 .. Watermark : n = storeMark'
    BY <2>1
  <2>3. n \in 0 .. n /\ n .. n = {n}
    BY <1>1
  <2>4. HadScore(e, store'[e], n, n)
    BY <2>1, <2>2, <2>3 DEF HadScore
  <2>5. HadScore(e, store[e], n, storeMark)'
    BY <2>1, <2>2, <2>4 DEF HadScore, sourceVars, SourceAt, Touching
  <2> QED
    BY <2>2, <2>3, <2>5
<1>3. CASE PublishDelta /\ Applicable # {}
  <2>1. /\ mark \in Nat /\ storeMark' \in 0 .. Watermark
        /\ \/ storeMark \in mark .. storeMark'
           \/ storeMark = NoMark /\ store = NoMembers
        /\ mark \in 0 .. storeMark'
        /\ store' = NewStore(mark, storeMark')
        /\ UNCHANGED <<sourceVars, storeTorn>>
    BY <1>3, PublishedDelta
  <2>2. PICK hi \in 0 .. Watermark : hi = storeMark'
    BY <2>1
  <2>3. \E at \in mark .. hi :
          store[e] # Absent => \E n \in 0 .. at : HadScore(e, store[e], n, at)
    <3>1. CASE storeMark = NoMark /\ store = NoMembers
      <4>1. mark \in mark .. hi /\ store[e] = Absent
        BY <2>1, <2>2, <3>1 DEF NoMembers
      <4> QED
        BY <4>1
    <3>2. CASE storeMark \in mark .. storeMark'
      <4>1. storeMark # NoMark /\ ~storeTorn
        BY <2>1, <3>2 DEF NoMark
      <4>2. store[e] # Absent => \E n \in 0 .. storeMark : HadScore(e, store[e], n, storeMark)
        BY <4>1 DEF ScoresOfMembership
      <4> QED
        BY <2>2, <3>2, <4>2
    <3> QED
      BY <2>1, <3>1, <3>2
  <2>4. PICK at \in mark .. hi :
          store[e] # Absent => \E n \in 0 .. at : HadScore(e, store[e], n, at)
    BY <2>3
  <2>5. \E n \in 0 .. hi : HadScore(e, NewStore(mark, hi)[e], n, hi)
    BY <1>1, <2>1, <2>2, <2>4, DeltaKeepsScores
  <2>6. PICK n \in 0 .. hi : HadScore(e, store'[e], n, hi)
    BY <2>1, <2>2, <2>5
  <2>7. HadScore(e, store[e], n, storeMark)'
    BY <2>1, <2>2, <2>6 DEF HadScore, sourceVars, SourceAt, Touching
  <2> QED
    BY <2>2, <2>7
<1>4. CASE ~StoreSteps
  <2>1. UNCHANGED <<store, storeMark, storeTorn>>
    BY <1>4, StoreStays
  <2>2. storeMark \in 0 .. Watermark
    BY <2>1 DEF PastInv, IInv, TypeOK, SourceTypeOK, Watermark, PositionsOrdered, NoMark
  <2>3. PICK n \in 0 .. storeMark : HadScore(e, store[e], n, storeMark)
    BY <2>1 DEF ScoresOfMembership
  <2>4. \A m \in 0 .. Watermark : SourceAt(m)' = SourceAt(m)
    <3>1. CASE SourceNext
      BY <3>1, HistoryNext DEF PastInv, IInv, TypeOK
    <3>2. CASE ~SourceNext
      <4>1. UNCHANGED sourceVars
        BY <3>2 DEF Next, SyncStep, Bootstrap, FetchSnapshotPage, SaveSnapshot, SyncOnce,
           FetchChangesPage, PublishSnapshot, PublishDelta, SaveDelta, CallFails, Restart,
           Reload, RestartWithoutStore, vars
      <4> QED
        BY <4>1, StillPast DEF SourceAt, Touching, sourceVars
    <3> QED
      BY <3>1, <3>2
  <2>5. \A m \in n .. storeMark : SourceAt(m)'[e] # Absent
    BY <1>1, <2>2, <2>3, <2>4 DEF HadScore
  <2>6. store'[e] \in {SourceAt(n)'[e], AddedScore(SourceAt(n)'[e])}
    BY <1>1, <2>1, <2>2, <2>3, <2>4 DEF HadScore
  <2>7. HadScore(e, store[e], n, storeMark)'
    BY <2>1, <2>5, <2>6 DEF HadScore
  <2> QED
    BY <2>1, <2>3, <2>7
<1>5. CASE RestartWithoutStore
  BY <1>5 DEF RestartWithoutStore
<1> QED
  BY <1>2, <1>3, <1>4, <1>5 DEF StoreSteps

\* Without re-additions and zero scores each step keeps the scores as well.
LEMMA StoreMatchesNext ==
  ASSUME ~AllowReAdd, 0 \notin Scores, PastInv, StoreMatchesSource, [Next]_vars
  PROVE  StoreMatchesSource'
<1> SUFFICES ASSUME (storeMark # NoMark /\ ~storeTorn)', NEW e \in EntityIds
             PROVE  (store[e] = SourceAt(storeMark)[e] \/ (storeLost /\ store[e] = Absent))'
  BY DEF StoreMatchesSource
<1>1. CASE PublishSnapshot
  <2>1. store' = SourceAt(storeMark') /\ UNCHANGED sourceVars
    BY <1>1, PublishedSnapshot
  <2>2. SourceAt(storeMark)' = SourceAt(storeMark')
    BY <2>1 DEF sourceVars, SourceAt, Touching
  <2> QED
    BY <2>1, <2>2
<1>2. CASE PublishDelta /\ Applicable # {}
  <2>1. /\ mark \in Nat /\ storeMark' \in 0 .. Watermark /\ mark \in 0 .. storeMark'
        /\ store' = NewStore(mark, storeMark')
        /\ storeMark \in mark .. storeMark' \/ (storeLost /\ store = NoMembers)
        /\ UNCHANGED <<sourceVars, storeTorn, storeLost>>
    BY <1>2, PublishedDelta
  <2>2. SourceAt(storeMark)' = SourceAt(storeMark')
    BY <2>1 DEF sourceVars, SourceAt, Touching
  <2>3. \/ storeMark # NoMark /\ store[e] = SourceAt(storeMark)[e]
        \/ storeLost /\ store[e] = Absent
    <3>1. CASE storeMark \in mark .. storeMark'
      <4>1. storeMark # NoMark /\ ~storeTorn
        BY <2>1, <3>1 DEF NoMark
      <4> QED
        BY <4>1 DEF StoreMatchesSource
    <3>2. CASE storeLost /\ store = NoMembers
      BY <3>2 DEF NoMembers
    <3> QED
      BY <2>1, <3>1, <3>2
  <2>4. CASE storeMark # NoMark /\ store[e] = SourceAt(storeMark)[e]
    <3>1. store'[e] = SourceAt(storeMark')[e]
      BY <1>2, <2>4, DeltaMatches
    <3> QED
      BY <2>2, <3>1
  <2>5. CASE storeLost /\ store[e] = Absent
    <3>1. PICK hi \in 0 .. Watermark : hi = storeMark'
      BY <2>1
    <3>2. SourceTypeOK /\ WellFormedLog
      BY DEF PastInv, IInv, TypeOK, HistoryInv
    <3>3. store'[e] \in {Absent, SourceAt(storeMark')[e]}
      BY <2>1, <2>5, <3>1, <3>2, DeltaFills
    <3> QED
      BY <2>1, <2>2, <2>5, <3>3
  <2> QED
    BY <2>3, <2>4, <2>5
<1>3. CASE ~StoreSteps
  <2>1. UNCHANGED <<store, storeMark, storeTorn, storeLost>>
    BY <1>3, StoreStays
  <2>2. SourceAt(storeMark)' = SourceAt(storeMark)
    BY <1>3, <2>1, StoreStays
  <2>3. store[e] = SourceAt(storeMark)[e] \/ (storeLost /\ store[e] = Absent)
    BY <2>1 DEF StoreMatchesSource
  <2> QED
    BY <2>1, <2>2, <2>3
<1>4. CASE RestartWithoutStore
  BY <1>4 DEF RestartWithoutStore
<1> QED
  BY <1>1, <1>2, <1>3, <1>4 DEF StoreSteps

\* The store always has the members that the service had at the store's
\* watermark, each with a score it was given since it last became a member, for
\* every source and any mix of bootstraps, syncs, replays, failures and
\* restarts; unless the last bootstrap was torn.  A store that was lost has no
\* other members than these (synchronizer.py:12-13, 170-183, 214, 302).
THEOREM MembersMatchCorrect == Spec => []MembersMatchSource
<1>1. Init => SameMembers /\ ScoresOfMembership
  BY DEF Init, SameMembers, ScoresOfMembership
<1>2. PastInv /\ SameMembers /\ ScoresOfMembership /\ [Next]_vars
        => SameMembers' /\ ScoresOfMembership'
  BY SameMembersNext, ScoresNext
<1>3. SameMembers /\ ScoresOfMembership => MembersMatchSource
  BY DEF SameMembers, ScoresOfMembership, MembersMatchSource
<1> QED
  BY <1>1, <1>2, <1>3, PastInvariance, PTL DEF Spec

\* It has their scores as well, as long as no score is 0 (synchronizer.py:302
\* makes it a 1) and no current member is added again (synchronizer.py:249
\* lets an earlier score change override the addition).
THEOREM StoreMatchesCorrect ==
  ASSUME ~AllowReAdd, 0 \notin Scores
  PROVE  Spec => []StoreMatchesSource
<1>1. Init => StoreMatchesSource
  BY DEF Init, StoreMatchesSource
<1>2. PastInv /\ StoreMatchesSource /\ [Next]_vars => StoreMatchesSource'
  BY StoreMatchesNext
<1> QED
  BY <1>1, <1>2, PastInvariance, PTL DEF Spec

-----------------------------------------------------------------------------
(* The synchronizer implements the replica *)

\* The service's history, as the replica sees it.
Timeline == [i \in 1 .. Watermark + 1 |-> SourceAt(i - 1)]

\* A bitmap snapshot is one page and cannot be torn.
NeverTorn ==
  /\ feed.bitmap_snapshot /\ ~torn /\ ~storeTorn
  /\ pc = "fetch_snapshot" => cursor = 0

\* A service that is given only bitmap snapshots serves the whole membership in
\* one page.
LEMMA NeverTornInit ==
  ASSUME \A k \in Knobs : k.bitmap_snapshot
  PROVE  Init => NeverTorn
BY DEF Init, SourceInit, NeverTorn

\* The cursor chain of a bitmap snapshot ends with its first page.
LEMMA NeverTornNext == ASSUME TypeOK, NeverTorn, [Next]_vars PROVE NeverTorn'
<1>1. feed' = feed
  <2>1. CASE SourceNext
    BY <2>1 DEF SourceNext, AddMember, ChangeScore, RemoveMember, RecordEvent
  <2>2. CASE ~SourceNext
    BY <2>2 DEF Next, SyncStep, Bootstrap, FetchSnapshotPage, PublishSnapshot, SaveSnapshot,
       SyncOnce, FetchChangesPage, PublishDelta, SaveDelta, CallFails, Restart, Reload,
       RestartWithoutStore, vars, sourceVars
  <2> QED
    BY <2>1, <2>2
<1>2. CASE SourceNext /\ UNCHANGED syncVars
  BY <1>1, <1>2 DEF syncVars, NeverTorn
<1>3. CASE FetchSnapshotPage
  <2>1. SnapshotNextCursor(cursor) = NoCursor
    BY DEF NeverTorn, SnapshotNextCursor
  <2> QED
    BY <1>1, <1>3, <2>1 DEF FetchSnapshotPage, NeverTorn
<1>4. CASE \/ Bootstrap \/ SaveSnapshot \/ SyncOnce \/ SaveDelta \/ CallFails
           \/ Restart \/ RestartWithoutStore
  BY <1>1, <1>4 DEF Bootstrap, SaveSnapshot, SyncOnce, SaveDelta, CallFails, Restart,
     RestartWithoutStore, Reload, Return, ForgetLocals, NeverTorn
<1>5. CASE PublishSnapshot \/ FetchChangesPage
  BY <1>1, <1>5 DEF PublishSnapshot, FetchChangesPage, NeverTorn
<1>6. CASE PublishDelta
  BY <1>1, <1>6 DEF PublishDelta, Return, ForgetLocals, NeverTorn
<1>7. CASE UNCHANGED vars
  BY <1>1, <1>7 DEF vars, syncVars, NeverTorn
<1> QED
  BY <1>2, <1>3, <1>4, <1>5, <1>6, <1>7 DEF Next, SyncStep

\* The service always had one of the memberships the store may hold.
LEMMA SourceAtType ==
  ASSUME SourceTypeOK, NEW n \in 0 .. Watermark
  PROVE  SourceAt(n) \in StoredMembership
<1> SUFFICES ASSUME NEW e \in EntityIds
             PROVE  SourceAt(n)[e] \in Scores \cup {1, Absent}
  BY DEF SourceAt, StoredMembership
<1>1. Watermark \in Nat /\ \A k \in 1 .. Watermark : events[k] \in SourceEvent
  BY DEF Watermark, SourceTypeOK
<1>2. CASE Touching(e, 0, n) = {}
  BY <1>2, InitialMembersAssumption DEF SourceAt, Membership
<1>3. CASE Touching(e, 0, n) # {}
  <2>1. Latest(Touching(e, 0, n)) \in 1 .. Watermark
    BY <1>1, <1>3, TouchingFacts
  <2> QED
    BY <1>1, <1>3, <2>1 DEF SourceAt, SourceEvent, Event
<1> QED
  BY <1>2, <1>3

\* A world mutation is a change of the replica's source.
LEMMA SourceIsChange ==
  ASSUME PastInv, SourceNext, UNCHANGED syncVars
  PROVE  Replica!Change
<1>1. /\ SourceTypeOK /\ SourceTypeOK' /\ HistoryInv
      /\ Watermark \in Nat /\ Watermark' = Watermark + 1
  <2>1. SourceTypeOK /\ HistoryInv
    BY DEF PastInv, IInv, TypeOK
  <2> QED
    BY <2>1, SourceStep DEF Watermark, SourceTypeOK
<1>2. \A n \in 0 .. Watermark : SourceAt(n)' = SourceAt(n)
  BY <1>1, HistoryNext
<1> DEFINE v == members'
<1>3. v \in StoredMembership
  BY <1>1 DEF SourceTypeOK, Membership, StoredMembership
<1>4. PICK last \in Nat : last = Watermark + 1
  BY <1>1
<1>5. SourceAt(last)' = v
  <2>1. HistoryInv' /\ last = Watermark'
    BY <1>1, <1>4, HistoryNext
  <2> QED
    BY <2>1 DEF HistoryInv, LogExplainsMembers, SourceAt, Touching
<1>6. Timeline' = Append(Timeline, v)
  <2>1. Timeline' = [i \in 1 .. last + 1 |-> SourceAt(i - 1)']
    BY <1>1, <1>4 DEF Timeline
  <2>2. Timeline \in Seq(StoredMembership) /\ Len(Timeline) = last
    <3>1. \A i \in 1 .. last : SourceAt(i - 1) \in StoredMembership
      BY <1>1, <1>4, SourceAtType
    <3>2. Timeline = [i \in 1 .. last |-> SourceAt(i - 1)]
      BY <1>4 DEF Timeline
    <3> QED
      BY <3>1, <3>2
  <2>3. ASSUME NEW i \in 1 .. last + 1
        PROVE  Timeline'[i] = Append(Timeline, v)[i]
    <3>1. CASE i = last + 1
      <4>1. i - 1 = last
        BY <3>1
      <4>2. Timeline'[i] = SourceAt(i - 1)'
        BY <2>1
      <4>3. SourceAt(i - 1)' = SourceAt(last)'
        BY <4>1 DEF SourceAt, Touching
      <4> QED
        BY <1>5, <2>2, <3>1, <4>2, <4>3
    <3>2. CASE i # last + 1
      <4>1. i \in 1 .. Watermark + 1 /\ i - 1 \in 0 .. Watermark
        BY <1>1, <1>4, <3>2
      <4>2. Timeline'[i] = SourceAt(i - 1)' /\ Timeline[i] = SourceAt(i - 1)
        BY <2>1, <4>1 DEF Timeline
      <4>3. SourceAt(i - 1)' = SourceAt(i - 1)
        BY <1>2, <4>1
      <4> QED
        BY <1>4, <2>2, <4>1, <4>2, <4>3
    <3> QED
      BY <3>1, <3>2
  <2>4. Append(Timeline, v) = [i \in 1 .. last + 1 |-> Append(Timeline, v)[i]]
    <3>1. /\ Append(Timeline, v) \in Seq(StoredMembership)
          /\ Len(Append(Timeline, v)) = last + 1
      BY <1>3, <2>2
    <3> DEFINE longer == Append(Timeline, v)
    <3> HIDE DEF longer, v
    <3>2. longer \in [1 .. last + 1 -> StoredMembership]
      BY <3>1, LenProperties DEF longer
    <3>3. longer = [i \in 1 .. last + 1 |-> longer[i]]
      BY <3>2
    <3> QED
      BY <3>3 DEF longer
  <2> HIDE DEF v
  <2> QED
    BY <2>1, <2>3, <2>4
<1>7. UNCHANGED <<store, storeMark, storeLost, NoMembers>>
  BY DEF syncVars, NoMembers
<1> QED
  BY <1>3, <1>6, <1>7 DEF Replica!Change, Timeline

\* A publication takes the replica forward along its source.
LEMMA PublicationIsCatchUp ==
  ASSUME PastInv, NEW n \in 0 .. Watermark, storeMark' = n, storeMark <= n,
         store' = SourceAt(n), ~storeLost', UNCHANGED sourceVars
  PROVE  Replica!CatchUp
<1>1. Watermark \in Nat /\ storeMark \in Int
  BY DEF PastInv, IInv, TypeOK, SourceTypeOK, Watermark, NoMark
<1>2. n + 1 \in 1 .. Watermark + 1 /\ n + 1 >= storeMark + 1 /\ (n + 1) - 1 = n
  BY <1>1
<1>3. PICK p \in 1 .. Watermark + 1 : p = n + 1
  BY <1>2
<1>4. Timeline' = Timeline
  BY DEF Timeline, sourceVars, Watermark, SourceAt, Touching
<1>5. Len(Timeline) = Watermark + 1
  BY <1>1 DEF Timeline
<1>6. Timeline[p] = SourceAt(n)
  BY <1>2, <1>3 DEF Timeline
<1>7. /\ p \in 1 .. Len(Timeline) /\ storeMark' + 1 = p
      /\ p >= IF storeLost THEN 0 ELSE storeMark + 1
  BY <1>2, <1>3, <1>5
<1> QED
  BY <1>4, <1>6, <1>7 DEF Replica!CatchUp, Timeline

\* A lost store is a lost replica.
LEMMA RestartIsLose ==
  ASSUME RestartWithoutStore
  PROVE  Replica!Lose
<1>1. storeLost' /\ UNCHANGED sourceVars
  BY DEF RestartWithoutStore, Reload
<1>2. Timeline' = Timeline
  BY <1>1 DEF Timeline, sourceVars, Watermark, SourceAt, Touching
<1>3. NoMembers' = NoMembers
  BY DEF NoMembers
<1> QED
  BY <1>1, <1>2, <1>3 DEF Replica!Lose, Timeline

\* Every step of the synchronizer is a step of the replica, or none: a lost
\* store counts as empty until a bootstrap fills it.
LEMMA ReplicaNext ==
  ASSUME ~AllowReAdd, 0 \notin Scores, PastInv, NeverTorn, StoreMatchesSource, [Next]_vars
  PROVE  [Replica!Next]_(Replica!replicaVars)
<1>1. TypeOK /\ TypeOK' /\ NeverTorn' /\ StoreMatchesSource'
  <2>1. PastInv' /\ StoreMatchesSource'
    BY PastNext, StoreMatchesNext
  <2>2. TypeOK /\ TypeOK'
    BY <2>1 DEF PastInv, IInv
  <2> QED
    BY <2>1, <2>2, NeverTornNext
<1>2. CASE SourceNext /\ UNCHANGED syncVars
  BY <1>2, SourceIsChange DEF Replica!Next
<1>3. CASE PublishSnapshot \/ (PublishDelta /\ Applicable # {} /\ ~storeLost)
  <2>1. storeMark' \in 0 .. Watermark /\ UNCHANGED sourceVars
    BY <1>3, PublishedSnapshot, PublishedDelta
  <2>2. PICK n \in 0 .. Watermark : n = storeMark'
    BY <2>1
  <2>3. storeMark <= n
    <3>1. CASE PublishSnapshot
      BY <2>2, <3>1 DEF PublishSnapshot, PastInv, IInv, PositionsOrdered
    <3>2. CASE PublishDelta /\ Applicable # {} /\ ~storeLost
      <4>1. storeMark \in mark .. storeMark'
        BY <3>2, PublishedDelta
      <4> QED
        BY <2>2, <4>1
    <3> QED
      BY <1>3, <3>1, <3>2
  <2>4. ~storeLost'
    BY <1>3, PublishedSnapshot, PublishedDelta
  <2>5. store' = SourceAt(n)
    <3>1. SourceAt(storeMark)' = SourceAt(n)
      BY <2>1, <2>2 DEF SourceAt, Touching, sourceVars
    <3>2. storeMark' # NoMark
      BY <2>2 DEF NoMark
    <3>3. \A e \in EntityIds : store'[e] = SourceAt(n)[e]
      BY <1>1, <2>4, <3>1, <3>2 DEF StoreMatchesSource, NeverTorn
    <3>4. store' = [e \in EntityIds |-> store'[e]]
      BY <1>1 DEF TypeOK, StoredMembership
    <3>5. SourceAt(n) = [e \in EntityIds |-> SourceAt(n)[e]]
      BY DEF SourceAt
    <3> QED
      BY <3>3, <3>4, <3>5
  <2>6. Replica!CatchUp
    BY <2>1, <2>2, <2>3, <2>4, <2>5, PublicationIsCatchUp
  <2> QED
    BY <2>6 DEF Replica!Next
<1>4. CASE RestartWithoutStore
  BY <1>4, RestartIsLose DEF Replica!Next
<1>5. CASE PublishDelta /\ Applicable # {} /\ storeLost
  <2>1. storeLost' /\ UNCHANGED sourceVars
    BY <1>5 DEF PublishDelta
  <2>2. Timeline' = Timeline /\ NoMembers' = NoMembers
    BY <2>1 DEF Timeline, sourceVars, Watermark, SourceAt, Touching, NoMembers
  <2> QED
    BY <1>5, <2>1, <2>2 DEF Replica!replicaVars, Timeline
<1>6. CASE ~(SourceNext /\ UNCHANGED syncVars) /\ ~StoreSteps
  <2>1. UNCHANGED <<store, storeMark, storeLost, NoMembers>>
    BY <1>6, StoreStays DEF NoMembers
  <2>2. UNCHANGED sourceVars
    BY <1>6 DEF StoreSteps, Next, SyncStep, Bootstrap, FetchSnapshotPage, SaveSnapshot, SyncOnce,
       FetchChangesPage, PublishDelta, SaveDelta, CallFails, Restart, Reload, vars
  <2>3. Timeline' = Timeline
    BY <2>2 DEF Timeline, sourceVars, Watermark, SourceAt, Touching
  <2> QED
    BY <2>1, <2>3 DEF Replica!replicaVars, Timeline
<1> QED
  BY <1>2, <1>3, <1>4, <1>5, <1>6 DEF StoreSteps

\* Read in one page, from a source that has no zero scores and adds only
\* non-members, the synchronizer implements a replica that moves along the
\* history of the service's membership and never back, unless it is lost; a lost
\* one is filled again by a bootstrap (synchronizer.py:10-13).
THEOREM ImplementsReplica ==
  ASSUME ~AllowReAdd, 0 \notin Scores, \A k \in Knobs : k.bitmap_snapshot
  PROVE  Spec => ReplicaSpec
<1>1. Init => NeverTorn /\ StoreMatchesSource
  BY NeverTornInit DEF Init, StoreMatchesSource
<1>2. Init => Replica!Init
  <2> SUFFICES ASSUME Init PROVE Replica!Init
    OBVIOUS
  <2>1. Watermark = 0 /\ store = NoMembers /\ ~storeLost /\ storeMark + 1 = 0
    BY DEF Init, SourceInit, Watermark, NoMark
  <2>2. SourceAt(0) = InitialMembers
    <3>1. \A e \in EntityIds : Touching(e, 0, 0) = {}
      BY DEF Touching
    <3> QED
      BY <3>1, InitialMembersAssumption DEF SourceAt, Membership
  <2>3. [i \in 1 .. Watermark + 1 |-> SourceAt(i - 1)] = <<InitialMembers>>
    <3>1. [i \in 1 .. Watermark + 1 |-> SourceAt(i - 1)] = [i \in 1 .. 1 |-> InitialMembers]
      BY <2>1, <2>2
    <3> QED
      BY <3>1
  <2> QED
    BY <2>1, <2>3 DEF Replica!Init
<1>3. PastInv /\ NeverTorn /\ [Next]_vars => NeverTorn'
  BY NeverTornNext DEF PastInv, IInv
<1>4. PastInv /\ StoreMatchesSource /\ [Next]_vars => StoreMatchesSource'
  BY StoreMatchesNext
<1>5. PastInv /\ NeverTorn /\ StoreMatchesSource /\ [Next]_vars
      => [Replica!Next]_(Replica!replicaVars)
  BY ReplicaNext
<1> QED
  BY <1>1, <1>2, <1>3, <1>4, <1>5, PastInvariance, PTL DEF Spec, ReplicaSpec, Replica!Spec
=============================================================================
