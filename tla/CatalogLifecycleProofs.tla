----------------------- MODULE CatalogLifecycleProofs -----------------------
(***************************************************************************)
(* Theorems about CatalogLifecycle, for any set of requests, any number of *)
(* updated fields and any bounds on versions and contexts.                 *)
(***************************************************************************)
EXTENDS CatalogLifecycle, TLAPS

\* What the table says of the contexts: each is dropped as a whole, and no row
\* has an id that was not given yet.
Ledger ==
  /\ dropped \subseteq {v \in Versions : contexts[v].id # 0}
  /\ \A i \in Ids : RowsOf(i) \subseteq dropped \/ RowsOf(i) \cap dropped = {}
  /\ \A v \in Versions : contexts[v].id <= created

\* The engine's entry is ahead of its context's rows, and none of these is
\* dropped.
Current ==
  /\ entry.id <= created
  /\ entry.id = 0 => entry = NoEntry
  /\ entry.id # 0 =>
       /\ entry.version \in Versions
       /\ RowsOf(entry.id) \cap dropped = {}
       /\ \A v \in RowsOf(entry.id) : v <= entry.version

\* What a request has in hand when its statement waits for its save.
Saving ==
  \A r \in Requests :
    /\ At(r, "save") => entry.id # 0
    /\ At(r, "mark") => entry.id = 0 /\ request[r].id \in 1 .. created

Deleted ==
  /\ deleted \subseteq 1 .. created
  /\ DeletedStaysDeleted

\* What the excuse of EntryIsLatestRow does not cover.
Saved ==
  ~unsaved =>
    \/ entry = NoEntry /\ Visible = {}
    \/ /\ entry.id # 0 /\ Visible = RowsOf(entry.id)
       /\ entry.version \in Visible /\ entry = Loaded(entry.version)

IInv == TypeOK /\ Ledger /\ Current /\ Saving /\ Deleted /\ Saved

-----------------------------------------------------------------------------
\* The greatest of a set that has one.
LEMMA GreatestIs ==
  ASSUME NEW S, S \subseteq Nat, NEW n \in S, \A u \in S : u <= n
  PROVE  Greatest(S) = n
<1>1. \A m \in S : (\A u \in S : u <= m) => m = n
  OBVIOUS
<1> QED
  BY <1>1 DEF Greatest

\* The invariant contains what the properties claim.
LEMMA IInvImplies ==
  ASSUME IInv
  PROVE  TypeOK /\ EntryIsLatestRow /\ DeletedStaysDeleted
<1>1. TypeOK /\ DeletedStaysDeleted
  BY DEF IInv, Deleted
<1>2. ASSUME ~unsaved, entry = NoEntry, Visible = {}
      PROVE  EntryIsLatestRow
  BY <1>2 DEF EntryIsLatestRow, Exists
<1>3. ASSUME ~unsaved, entry.id # 0, Visible = RowsOf(entry.id),
             entry.version \in Visible, entry = Loaded(entry.version)
      PROVE  EntryIsLatestRow
  <2>1. Visible \subseteq Nat
    BY BoundsAssumption DEF Visible, Versions
  <2>2. Latest = entry.version
    BY <1>3, <2>1, GreatestIs DEF Latest, IInv, Current
  <2> QED
    BY <1>3, <2>2 DEF EntryIsLatestRow, Exists
<1> QED
  BY <1>1, <1>2, <1>3 DEF IInv, Saved, EntryIsLatestRow

-----------------------------------------------------------------------------
\* A request that begins, passes a statement without effect, is given up or
\* returns leaves table and entry as they are, and is then at no save.
LEMMA RequestMoves ==
  ASSUME IInv,
         request' \in [Requests -> RequestRecords],
         UNCHANGED <<contexts, dropped, entry, created, deleted, unsaved>>,
         \A q \in Requests :
           At(q, "save")' \/ At(q, "mark")' => request'[q] = request[q]
  PROVE  IInv'
<1>1. TypeOK'
  BY DEF IInv, TypeOK
<1>2. Ledger' /\ Current'
  BY DEF IInv, Ledger, Current, RowsOf
<1>3. Saving'
  BY DEF IInv, Saving, At
<1>4. Deleted'
  BY DEF IInv, Deleted, DeletedStaysDeleted, RowsOf
<1>5. Saved'
  BY DEF IInv, Saved, Visible, RowsOf, Loaded
<1> QED
  BY <1>1, <1>2, <1>3, <1>4, <1>5 DEF IInv

\* The engine enters a new context, or another version or state of the one it
\* has.
LEMMA EntryMoves ==
  ASSUME IInv, NEW r \in Requests,
         NEW e \in [id : Ids \ {0}, version : Versions, state : LifecycleStates],
         Enter(e), created' \in Ids,
         \/ e.id = created + 1 /\ created' = created + 1
         \/ /\ entry.id # 0 /\ e.id = entry.id /\ e.version \in {entry.version, entry.version + 1}
            /\ created' = created,
         request' \in [Requests -> RequestRecords],
         At(r, "save")', \A q \in Requests \ {r} : request'[q] = request[q]
  PROVE  IInv'
<1>1. /\ entry' = e /\ unsaved' = TRUE /\ UNCHANGED <<contexts, dropped, deleted>>
      /\ \A q \in Requests : ~At(q, "save") /\ ~At(q, "mark")
      /\ created \in Nat /\ created' \in Nat /\ created <= created'
      /\ \A v \in Versions : contexts[v].id \in Nat /\ contexts[v].id <= created
  BY BoundsAssumption DEF Enter, Busy, IInv, TypeOK, Ledger, Ids
<1>2. TypeOK'
  BY <1>1, BoundsAssumption DEF IInv, TypeOK, Versions
<1>3. Ledger'
  BY <1>1 DEF IInv, Ledger, RowsOf
<1>4. ASSUME e.id = created + 1, created' = created + 1
      PROVE  Current' /\ Deleted'
  <2>1. RowsOf(e.id) = {}
    BY <1>1, <1>4 DEF RowsOf
  <2>2. Current'
    BY <1>1, <1>4, <2>1 DEF Current, RowsOf
  <2>3. Deleted'
    BY <1>1, <1>4 DEF IInv, Deleted, DeletedStaysDeleted, RowsOf
  <2> QED
    BY <2>2, <2>3
<1>5. ASSUME entry.id # 0, e.id = entry.id, created' = created,
             e.version \in {entry.version, entry.version + 1}
      PROVE  Current' /\ Deleted'
  <2>1. Current'
    <3>1. entry.version \in Nat /\ Versions \subseteq Nat
      BY BoundsAssumption DEF IInv, TypeOK, Versions
    <3> QED
      BY <1>1, <1>5, <3>1 DEF IInv, Current, RowsOf
  <2>2. Deleted'
    BY <1>1, <1>5 DEF IInv, Deleted, DeletedStaysDeleted, RowsOf
  <2> QED
    BY <2>1, <2>2
<1>6. Saving'
  BY <1>1 DEF Saving, At
<1>7. Saved'
  BY <1>1 DEF Saved
<1> QED
  BY <1>2, <1>3, <1>4, <1>5, <1>6, <1>7 DEF IInv

\* A request that goes on to save the entry the engine has changed.
LEMMA GoesToSave ==
  ASSUME request \in [Requests -> RequestRecords], NEW r \in Requests,
         NEW then \in StepsAfterSave, NEW left \in 0 .. MaxFields,
         NEW next, next = [request[r] EXCEPT !.at = "save", !.then = then, !.left = left],
         request' = [request EXCEPT ![r] = next]
  PROVE  /\ request' \in [Requests -> RequestRecords]
         /\ At(r, "save")' /\ \A q \in Requests \ {r} : request'[q] = request[q]
<1>1. next \in RequestRecords /\ next.at = "save"
  BY DEF RequestRecords, Steps
<1>2. request'[r] = next
  OBVIOUS
<1> QED
  BY <1>1, <1>2 DEF At

\* The statements that give the engine an entry.
LEMMA EntersEntry ==
  ASSUME IInv, NEW r \in Requests, CreateContext(r) \/ AlterField(r) \/ SetState(r)
  PROVE  IInv'
<1>1. /\ request \in [Requests -> RequestRecords] /\ created \in Ids
      /\ entry \in [id : Ids, version : 0 .. MaxVersion, state : LifecycleStates]
      /\ entry # NoEntry => entry.id # 0 /\ entry.version \in Versions
  BY DEF IInv, TypeOK, Current
<1>2. CASE CreateContext(r)
  <2>1. PICK s \in {"draft", "active"} :
          Enter([id |-> created + 1, version |-> 1, state |-> s])
    BY <1>2 DEF CreateContext
  <2>2. PICK e \in [id : Ids \ {0}, version : Versions, state : LifecycleStates] :
          e.id = created + 1 /\ Enter(e)
    <3>1. created + 1 \in Ids \ {0} /\ 1 \in Versions /\ s \in LifecycleStates
      BY <1>1, <1>2, BoundsAssumption DEF CreateContext, Ids, Versions, LifecycleStates
    <3>2. [id |-> created + 1, version |-> 1, state |-> s]
            \in [id : Ids \ {0}, version : Versions, state : LifecycleStates]
      BY <3>1
    <3> QED
      BY <2>1, <3>2
  <2>3. /\ created' = created + 1 /\ created' \in Ids
        /\ request' = [request EXCEPT ![r] =
                        [request[r] EXCEPT !.at = "save", !.then = "set_state"]]
    BY <1>1, <1>2, BoundsAssumption DEF CreateContext, Become, Ids
  <2>4. /\ request' \in [Requests -> RequestRecords]
        /\ At(r, "save")' /\ \A q \in Requests \ {r} : request'[q] = request[q]
    <3> DEFINE next == [request[r] EXCEPT !.at = "save", !.then = "set_state"]
    <3>1. "set_state" \in StepsAfterSave /\ request[r].left \in 0 .. MaxFields
      BY <1>1 DEF StepsAfterSave, RequestRecords
    <3>2. next = [request[r] EXCEPT !.at = "save", !.then = "set_state", !.left = request[r].left]
      BY <1>1 DEF RequestRecords
    <3> HIDE DEF next
    <3>3. request' = [request EXCEPT ![r] = next]
      BY <2>3 DEF next
    <3> QED
      BY <1>1, <3>1, <3>2, <3>3, GoesToSave
  <2> QED
    BY <2>2, <2>3, <2>4, EntryMoves
<1>3. CASE AlterField(r)
  <2>1. PICK s \in LifecycleStates : Alter(r, s)
    BY <1>3 DEF AlterField
  <2>2. PICK e \in [id : Ids \ {0}, version : Versions, state : LifecycleStates] :
          e.id = entry.id /\ e.version = entry.version + 1 /\ Enter(e)
    <3>1. entry.version + 1 \in Versions /\ entry.id \in Ids \ {0}
      BY <1>1, <2>1, BoundsAssumption DEF Alter, Versions
    <3>2. [entry EXCEPT !.version = @ + 1, !.state = s]
            \in [id : Ids \ {0}, version : Versions, state : LifecycleStates]
      BY <1>1, <3>1
    <3> QED
      BY <1>1, <2>1, <3>2 DEF Alter
  <2>3. /\ entry.id # 0 /\ created' = created
        /\ request' = [request EXCEPT ![r] =
                        [request[r] EXCEPT !.at = "save", !.then = "alter", !.left = @ - 1]]
    BY <1>1, <2>1 DEF Alter, Become
  <2>4. request[r].left - 1 \in 0 .. MaxFields
    BY <1>1, <1>3, BoundsAssumption DEF AlterField, RequestRecords
  <2>5. /\ request' \in [Requests -> RequestRecords]
        /\ At(r, "save")' /\ \A q \in Requests \ {r} : request'[q] = request[q]
    <3> DEFINE left == request[r].left - 1
               next == [request[r] EXCEPT !.at = "save", !.then = "alter", !.left = left]
    <3>1. "alter" \in StepsAfterSave /\ left \in 0 .. MaxFields
      BY <2>4 DEF StepsAfterSave
    <3>2. request' = [request EXCEPT ![r] = next]
      BY <2>3
    <3>3. next = [request[r] EXCEPT !.at = "save", !.then = "alter", !.left = left]
      OBVIOUS
    <3> HIDE DEF left, next
    <3> QED
      BY <1>1, <3>1, <3>2, <3>3, GoesToSave
  <2> QED
    BY <1>1, <2>2, <2>3, <2>5, EntryMoves
<1>4. CASE SetState(r)
  <2>1. PICK e \in [id : Ids \ {0}, version : Versions, state : LifecycleStates] :
          e.id = entry.id /\ e.version = entry.version /\ Enter(e)
    <3>1. [entry EXCEPT !.state = request[r].target]
            \in [id : Ids \ {0}, version : Versions, state : LifecycleStates]
      BY <1>1, <1>4 DEF SetState, RequestRecords
    <3> QED
      BY <1>1, <1>4, <3>1 DEF SetState
  <2>2. /\ entry.id # 0 /\ created' = created
        /\ request' = [request EXCEPT ![r] =
                        [request[r] EXCEPT !.at = "save", !.then = "audit"]]
    BY <1>1, <1>4 DEF SetState, Become
  <2>3. /\ request' \in [Requests -> RequestRecords]
        /\ At(r, "save")' /\ \A q \in Requests \ {r} : request'[q] = request[q]
    <3> DEFINE next == [request[r] EXCEPT !.at = "save", !.then = "audit"]
    <3>1. "audit" \in StepsAfterSave /\ request[r].left \in 0 .. MaxFields
      BY <1>1 DEF StepsAfterSave, RequestRecords
    <3>2. next = [request[r] EXCEPT !.at = "save", !.then = "audit", !.left = request[r].left]
      BY <1>1 DEF RequestRecords
    <3> HIDE DEF next
    <3>3. request' = [request EXCEPT ![r] = next]
      BY <2>2 DEF next
    <3> QED
      BY <1>1, <3>1, <3>2, <3>3, GoesToSave
  <2> QED
    BY <1>1, <2>1, <2>2, <2>3, EntryMoves
<1> QED
  BY <1>2, <1>3, <1>4

\* The engine gives its entry up.
LEMMA DropStep ==
  ASSUME IInv, NEW r \in Requests, Drop(r)
  PROVE  IInv'
<1>1. /\ entry' = NoEntry /\ unsaved' = TRUE
      /\ UNCHANGED <<contexts, dropped, deleted, created>>
      /\ \A q \in Requests : ~At(q, "save") /\ ~At(q, "mark")
      /\ request' = [request EXCEPT ![r] =
                      [request[r] EXCEPT !.at = "mark", !.then = "audit", !.id = entry.id]]
  BY DEF Drop, Enter, Busy, Become
<1>2. entry.id \in Ids /\ entry.id \in 1 .. created
  BY BoundsAssumption DEF Drop, IInv, TypeOK, Current, Ids
<1>3. TypeOK'
  <2>1. NoEntry \in [id : Ids, version : 0 .. MaxVersion, state : LifecycleStates]
    BY BoundsAssumption DEF NoEntry, Ids, LifecycleStates
  <2>2. request \in [Requests -> RequestRecords]
    BY DEF IInv, TypeOK
  <2>3. request' \in [Requests -> RequestRecords]
    BY <1>1, <1>2, <2>2 DEF RequestRecords, Steps, StepsAfterSave
  <2> QED
    BY <1>1, <2>1, <2>3 DEF IInv, TypeOK
<1>4. Ledger' /\ Current'
  BY <1>1, BoundsAssumption DEF IInv, TypeOK, Ledger, Current, RowsOf, NoEntry, Ids
<1>5. Saving'
  <2>1. \A q \in Requests \ {r} : request'[q] = request[q]
    BY <1>1 DEF IInv, TypeOK
  <2>2. request'[r].at = "mark" /\ request'[r].id = entry.id
    BY <1>1 DEF IInv, TypeOK, RequestRecords
  <2> QED
    BY <1>1, <1>2, <2>1, <2>2 DEF Saving, At, NoEntry
<1>6. Deleted' /\ Saved'
  BY <1>1, BoundsAssumption DEF IInv, Deleted, DeletedStaysDeleted, RowsOf, NoEntry, Saved
<1> QED
  BY <1>3, <1>4, <1>5, <1>6 DEF IInv

-----------------------------------------------------------------------------
\* The entry's row is written.
LEMMA SaveStep ==
  ASSUME IInv, NEW r \in Requests, Save(r)
  PROVE  IInv'
<1> DEFINE i == entry.id
           n == entry.version
<1>1. /\ i \in Ids /\ i # 0 /\ n \in Versions
      /\ contexts \in [Versions -> [id : Ids, state : LifecycleStates]]
      /\ contexts[n].id \in {0, i}
      /\ contexts' = [contexts EXCEPT ![n] = [id |-> i, state |-> entry.state]]
      /\ UNCHANGED <<dropped, entry, created, deleted>> /\ unsaved' = ~OneContext'
  BY DEF Save, SaveContext, InsertIsRefused, IInv, TypeOK, Saving, Current
<1>2. /\ contexts'[n] = [id |-> i, state |-> entry.state]
      /\ \A v \in Versions \ {n} : contexts'[v] = contexts[v]
  BY <1>1
<1>3. \A j \in Ids \ {0} : RowsOf(j)' = IF j = i THEN RowsOf(i) \cup {n} ELSE RowsOf(j)
  BY <1>1, <1>2 DEF RowsOf
<1>4. n \notin dropped
  BY <1>1 DEF IInv, Ledger, Current, RowsOf
<1>5. TypeOK'
  <2>1. 0 \in Ids /\ request \in [Requests -> RequestRecords]
    BY BoundsAssumption DEF IInv, TypeOK, Ids
  <2>4. request' = [request EXCEPT ![r] =
                      [request[r] EXCEPT !.at = request[r].then, !.then = "idle", !.id = 0]]
    BY DEF Save, Resume, Become
  <2>2. request' \in [Requests -> RequestRecords]
    BY <2>1, <2>4 DEF RequestRecords, Steps, StepsAfterSave
  <2>3. contexts' \in [Versions -> [id : Ids, state : LifecycleStates]]
    BY <1>1 DEF IInv, TypeOK
  <2> QED
    BY <1>1, <2>2, <2>3 DEF IInv, TypeOK, OneContext
<1>6. Ledger'
  <2>1. dropped \subseteq {v \in Versions : contexts'[v].id # 0}
    BY <1>1, <1>2 DEF IInv, Ledger
  <2>2. ASSUME NEW j \in Ids \ {0}
        PROVE  RowsOf(j)' \subseteq dropped \/ RowsOf(j)' \cap dropped = {}
    BY <1>1, <1>3, <1>4 DEF IInv, Ledger, Current
  <2>3. RowsOf(0)' \cap dropped = {}
    BY <2>1, <1>1 DEF RowsOf
  <2>4. \A v \in Versions : contexts'[v].id <= created
    BY <1>1, <1>2 DEF IInv, Ledger, Current
  <2> QED
    BY <1>1, <2>1, <2>2, <2>3, <2>4 DEF Ledger
<1>7. Current'
  <2>1. RowsOf(i)' = RowsOf(i) \cup {n}
    BY <1>1, <1>3
  <2>2. n <= n
    BY <1>1, BoundsAssumption DEF Versions
  <2>3. \A v \in RowsOf(i)' : v <= n
    BY <1>1, <2>1, <2>2 DEF IInv, Current
  <2>4. RowsOf(i)' \cap dropped = {}
    BY <1>1, <1>4, <2>1 DEF IInv, Current
  <2> QED
    BY <1>1, <2>3, <2>4 DEF IInv, Current, RowsOf
<1>8. Saving'
  <2>1. /\ \A q \in Requests \ {r} : request'[q] = request[q]
        /\ request'[r].at = request[r].then /\ request[r].then \in StepsAfterSave
    BY DEF Save, Resume, Become, IInv, TypeOK, RequestRecords
  <2> QED
    BY <1>1, <2>1 DEF IInv, Saving, At, StepsAfterSave
<1>9. Deleted'
  <2>1. ASSUME NEW j \in deleted PROVE RowsOf(j)' \subseteq dropped /\ j # i
    <3>1. j \in Ids \ {0} /\ j # i
      BY <1>1, BoundsAssumption DEF IInv, TypeOK, Deleted, DeletedStaysDeleted, Ids
    <3> QED
      BY <1>3, <3>1 DEF IInv, Deleted, DeletedStaysDeleted
  <2> QED
    BY <1>1, <2>1 DEF IInv, Deleted, DeletedStaysDeleted, RowsOf
<1>10. Saved'
  <2> SUFFICES ASSUME OneContext'
               PROVE  /\ Visible' = RowsOf(i)' /\ n \in Visible'
                      /\ entry = Loaded(n)'
    BY <1>1 DEF Saved, RowsOf, Loaded
  <2>1. n \in Visible'
    BY <1>1, <1>2, <1>4 DEF Visible
  <2>2. \A v \in Visible' : contexts'[v].id = i
    BY <1>2, <2>1 DEF OneContext, Visible
  <2>3. RowsOf(i)' \cap dropped' = {}
    BY <1>1, <1>7 DEF Current, RowsOf
  <2>4. Visible' = RowsOf(i)'
    BY <1>1, <2>2, <2>3 DEF Visible, RowsOf
  <2>5. entry = [id |-> i, version |-> n, state |-> entry.state]
    BY DEF IInv, TypeOK
  <2> QED
    BY <1>1, <1>2, <2>1, <2>4, <2>5 DEF Loaded
<1> QED
  BY <1>5, <1>6, <1>7, <1>8, <1>9, <1>10 DEF IInv

\* A context's rows are marked as dropped.
LEMMA MarkStep ==
  ASSUME IInv, NEW r \in Requests, Mark(r)
  PROVE  IInv'
<1> DEFINE i == request[r].id
<1>1. /\ entry.id = 0 /\ entry = NoEntry /\ i \in 1 .. created /\ i \in Ids
      /\ dropped' = dropped \cup RowsOf(i) /\ deleted' = deleted \cup {i}
      /\ UNCHANGED <<contexts, entry, created>> /\ unsaved' = Exists'
  BY DEF Mark, DropContext, IInv, TypeOK, Current, Saving, RequestRecords
<1>2. \A j \in Ids : RowsOf(j)' = RowsOf(j) /\ (j # i => RowsOf(j) \cap RowsOf(i) = {})
  BY <1>1 DEF RowsOf
<1>3. TypeOK'
  <2>1. 0 \in Ids /\ request \in [Requests -> RequestRecords]
    BY BoundsAssumption DEF IInv, TypeOK, Ids
  <2>4. request' = [request EXCEPT ![r] =
                      [request[r] EXCEPT !.at = request[r].then, !.then = "idle", !.id = 0]]
    BY DEF Mark, Resume, Become
  <2>2. request' \in [Requests -> RequestRecords]
    BY <2>1, <2>4 DEF RequestRecords, Steps, StepsAfterSave
  <2> QED
    BY <1>1, <2>2 DEF IInv, TypeOK, RowsOf, Exists
<1>4. Ledger'
  <2>1. dropped' \subseteq {v \in Versions : contexts[v].id # 0}
    BY <1>1 DEF IInv, Ledger, RowsOf
  <2>2. \A j \in Ids : RowsOf(j)' \subseteq dropped' \/ RowsOf(j)' \cap dropped' = {}
    BY <1>1, <1>2 DEF IInv, Ledger
  <2> QED
    BY <1>1, <2>1, <2>2 DEF IInv, Ledger
<1>5. Current'
  BY <1>1 DEF IInv, Current
<1>6. Saving'
  <2>1. /\ \A q \in Requests \ {r} : request'[q] = request[q]
        /\ request'[r].at = request[r].then /\ request[r].then \in StepsAfterSave
    BY DEF Mark, Resume, Become, IInv, TypeOK, RequestRecords
  <2> QED
    BY <1>1, <2>1 DEF IInv, Saving, At, StepsAfterSave
<1>7. Deleted'
  <2>1. RowsOf(i) \subseteq dropped'
    BY <1>1
  <2>2. \A j \in deleted : j \in Ids /\ RowsOf(j) \subseteq dropped' /\ j # 0
    BY <1>1, BoundsAssumption DEF IInv, TypeOK, Deleted, DeletedStaysDeleted, Ids
  <2>3. i # 0
    BY <1>1, BoundsAssumption DEF IInv, TypeOK, Ids
  <2>4. \A j \in deleted' : RowsOf(j)' \subseteq dropped' /\ entry'.id # j
    BY <1>1, <1>2, <2>1, <2>2, <2>3
  <2> QED
    BY <1>1, <2>4 DEF IInv, Deleted, DeletedStaysDeleted
<1>8. Saved'
  BY <1>1 DEF Saved, Exists
<1> QED
  BY <1>3, <1>4, <1>5, <1>6, <1>7, <1>8 DEF IInv

\* A restart finds an entry for one of the contexts that have visible rows.
LEMMA RestartStep ==
  ASSUME IInv, Restart
  PROVE  IInv'
<1>1. /\ UNCHANGED <<contexts, dropped, created, deleted>> /\ unsaved' = ~OneContext
      /\ \A q \in Requests : request'[q] = Idle
      /\ request' \in [Requests -> RequestRecords] /\ Versions \subseteq Nat
  BY BoundsAssumption
  DEF Restart, RequestRecords, Idle, Steps, StepsAfterSave, Ids, LifecycleStates, Versions
<1>2. Ledger' /\ Saving'
  BY <1>1 DEF IInv, Ledger, RowsOf, Saving, At, Idle
<1>3. CASE ~Exists
  <2>1. entry' = NoEntry /\ Visible = {} /\ Visible' = {}
    BY <1>1, <1>3 DEF Restart, LoadContexts, Exists, Visible
  <2>2. TypeOK'
    BY <1>1, <2>1, BoundsAssumption
    DEF IInv, TypeOK, NoEntry, Ids, LifecycleStates, OneContext
  <2>3. Current' /\ Deleted' /\ Saved'
    BY <1>1, <2>1, BoundsAssumption
    DEF IInv, TypeOK, Current, Deleted, DeletedStaysDeleted, RowsOf, Saved, NoEntry, Ids
  <2> QED
    BY <1>2, <2>2, <2>3 DEF IInv
<1>4. CASE Exists
  <2>1. PICK v \in Visible : /\ entry' = Loaded(v)
                             /\ \A u \in Visible \cap RowsOf(contexts[v].id) : u <= v
    BY <1>4 DEF Restart, LoadContexts
  <2> DEFINE i == contexts[v].id
  <2>2. /\ v \in Versions /\ v \notin dropped /\ i \in Ids /\ i # 0
        /\ entry'.id = i /\ entry'.version = v
    BY <2>1 DEF Visible, IInv, TypeOK, Loaded
  <2>3. RowsOf(i) \cap dropped = {} /\ RowsOf(i) \subseteq Visible /\ v \in RowsOf(i)
    BY <2>2 DEF IInv, Ledger, RowsOf, Visible
  <2>4. TypeOK'
    <3>1. entry' \in [id : Ids, version : 0 .. MaxVersion, state : LifecycleStates]
      BY <2>1, <2>2, BoundsAssumption DEF Loaded, IInv, TypeOK, Versions
    <3> QED
      BY <1>1, <3>1 DEF IInv, TypeOK, OneContext
  <2>5. Current'
    BY <1>1, <2>1, <2>2, <2>3 DEF IInv, Ledger, Current, RowsOf
  <2>6. Deleted'
    BY <1>1, <2>2, <2>3 DEF IInv, Deleted, DeletedStaysDeleted, RowsOf
  <2>7. Saved'
    <3> SUFFICES ASSUME OneContext
                 PROVE  Visible = RowsOf(i)
      BY <1>1, <2>1, <2>2, <2>3 DEF Saved, Visible, RowsOf, Loaded
    <3> QED
      BY <2>1, <2>3 DEF OneContext, Visible, RowsOf
  <2> QED
    BY <1>2, <2>4, <2>5, <2>6, <2>7 DEF IInv
<1> QED
  BY <1>3, <1>4

-----------------------------------------------------------------------------
\* A step of a request keeps the invariant.
LEMMA RequestStep ==
  ASSUME IInv, NEW r \in Requests,
         \/ Create(r) \/ Update(r) \/ Validate(r) \/ Activate(r) \/ Retire(r) \/ Delete(r)
         \/ CreateContext(r) \/ AlterField(r) \/ NoFieldLeft(r) \/ ValidateContext(r)
         \/ SetState(r) \/ Drop(r) \/ Save(r) \/ Mark(r) \/ Audit(r) \/ Raise(r)
  PROVE  IInv'
<1>1. CASE Create(r) \/ Update(r) \/ Validate(r) \/ Activate(r) \/ Retire(r) \/ Delete(r)
  <2> DEFINE Firsts == {first \in RequestRecords :
                          first.at \in {"create", "alter", "validate", "set_state", "drop"}}
  <2>1. \E first \in Firsts : Begin(r, first)
    <3>1. 0 \in 0 .. MaxFields /\ 0 \in Ids
      BY BoundsAssumption DEF Ids
    <3>2. \A n \in 0 .. MaxFields : [Idle EXCEPT !.at = "alter", !.left = n] \in Firsts
      BY <3>1 DEF Idle, LifecycleStates, RequestRecords, Steps, StepsAfterSave
    <3>3. /\ [Idle EXCEPT !.at = "create"] \in Firsts
          /\ [Idle EXCEPT !.at = "validate", !.target = "validated"] \in Firsts
          /\ [Idle EXCEPT !.at = "set_state", !.target = "active"] \in Firsts
          /\ [Idle EXCEPT !.at = "set_state", !.target = "retired"] \in Firsts
          /\ [Idle EXCEPT !.at = "drop"] \in Firsts
      BY <3>1 DEF Idle, LifecycleStates, RequestRecords, Steps, StepsAfterSave
    <3> QED
      BY <1>1, <3>2, <3>3 DEF Create, Update, Validate, Activate, Retire, Delete
  <2>2. PICK first \in Firsts : Begin(r, first)
    BY <2>1
  <2> QED
    BY <2>2, RequestMoves DEF Begin, Become, IInv, TypeOK, At
<1>2. CASE NoFieldLeft(r) \/ ValidateContext(r)
  BY <1>2, RequestMoves
  DEF NoFieldLeft, ValidateContext, Goto, IInv, TypeOK, RequestRecords, Steps, At
<1>3. CASE Audit(r) \/ Raise(r)
  <2>1. Idle \in RequestRecords
    BY BoundsAssumption DEF Idle, RequestRecords, Steps, StepsAfterSave, Ids, LifecycleStates
  <2> QED
    BY <1>3, <2>1, RequestMoves DEF Audit, Raise, Become, IInv, TypeOK, At, Idle
<1> QED
  BY <1>1, <1>2, <1>3, EntersEntry, DropStep, SaveStep, MarkStep

LEMMA InductiveInvariant == Spec => []IInv
<1>1. Init => IInv
  <2> SUFFICES ASSUME Init PROVE IInv
    OBVIOUS
  <2>1. 0 \in Ids /\ 0 \in 0 .. MaxVersion /\ 0 \in 0 .. MaxFields /\ 0 <= 0
        /\ "draft" \in LifecycleStates /\ "idle" \in Steps \cap StepsAfterSave
    BY BoundsAssumption DEF Ids, LifecycleStates, Steps, StepsAfterSave
  <2>2. TypeOK
    BY <2>1 DEF Init, TypeOK, NoRow, NoEntry, Idle, RequestRecords
  <2>3. Visible = {} /\ \A v \in Versions : contexts[v].id = 0
    BY DEF Init, Visible, NoRow
  <2>4. Ledger
    BY <2>1, <2>3 DEF Init, Ledger
  <2>5. Current /\ Saving /\ Saved
    BY <2>1, <2>3 DEF Init, Current, NoEntry, Saving, At, Idle, Saved
  <2>6. Deleted
    BY DEF Init, Deleted, DeletedStaysDeleted
  <2> QED
    BY <2>2, <2>4, <2>5, <2>6 DEF IInv
<1>2. IInv /\ [Next]_vars => IInv'
  <2> SUFFICES ASSUME IInv, [Next]_vars PROVE IInv'
    OBVIOUS
  <2>1. CASE Next
    BY <2>1, RequestStep, RestartStep DEF Next
  <2>2. CASE UNCHANGED vars
    BY <2>2, RequestMoves DEF vars, IInv, TypeOK, At
  <2> QED
    BY <2>1, <2>2
<1> QED
  BY <1>1, <1>2, PTL DEF Spec

-----------------------------------------------------------------------------
\* Table, engine and requests always have their declared values: no request
\* loses count of the fields it has left to alter (catalog_service.py:157-184).
THEOREM TypeCorrect == Spec => []TypeOK
BY InductiveInvariant, IInvImplies, PTL

\* Engine and table agree on the latest version, whatever requests interleave,
\* fail or are cut off by a restart, but for a failed save that neither the
\* next one nor a restart has made good (catalog_service.py:92-104,
\* context_catalog.py:79-96).
THEOREM EngineAgrees == Spec => []EntryIsLatestRow
BY InductiveInvariant, IInvImplies, PTL

\* A drop is final (catalog_service.py:198-215, context_catalog.py:200-210).
THEOREM DeletionIsFinal == Spec => []DeletedStaysDeleted
BY InductiveInvariant, IInvImplies, PTL

\* Only the newest row of a context is ever written: SaveContext is called with
\* the entry, which is never behind them (context_catalog.py:184-197).
LEMMA OnlyNewestWritten ==
  ASSUME IInv, Next, NEW v \in Versions, NEW w \in Versions, v < w,
         contexts[v].id # 0, contexts[w].id = contexts[v].id
  PROVE  contexts'[v] = contexts[v]
<1>1. ASSUME NEW r \in Requests, Save(r) PROVE contexts'[v] = contexts[v]
  <2>1. contexts' = [contexts EXCEPT ![entry.version] =
                       [id |-> entry.id, state |-> entry.state]]
    BY <1>1 DEF Save, SaveContext
  <2>2. v # entry.version
    <3> SUFFICES ASSUME v = entry.version PROVE FALSE
      OBVIOUS
    <3>1. w \in RowsOf(entry.id) /\ entry.id # 0
      BY <1>1 DEF Save, InsertIsRefused, IInv, Saving, RowsOf
    <3>2. w <= v
      BY <3>1 DEF IInv, Current
    <3> QED
      BY <3>2, BoundsAssumption DEF Versions
  <2> QED
    BY <2>1, <2>2 DEF IInv, TypeOK
<1>2. ASSUME NEW r \in Requests, AlterField(r) PROVE contexts'[v] = contexts[v]
  BY <1>2 DEF AlterField, Alter, Enter
<1> QED
  BY <1>1, <1>2
  DEF Next, Create, Update, Validate, Activate, Retire, Delete, Begin, NoFieldLeft,
      ValidateContext, CreateContext, SetState, Enter, Drop, Mark, Audit, Raise, Restart

\* The row of a replaced version never changes again, for any number of
\* interleaved requests (context_catalog.py:184-197).
THEOREM HistoryIsFrozen == Spec => OldVersionsFrozen
<1>1. IInv /\ [Next]_vars =>
        [\A v, w \in Versions :
           v < w /\ contexts[v].id # 0 /\ contexts[w].id = contexts[v].id =>
             contexts'[v] = contexts[v]]_vars
  BY OnlyNewestWritten DEF vars
<1> QED
  BY <1>1, InductiveInvariant, PTL DEF Spec, OldVersionsFrozen
=============================================================================
