------------------------- MODULE ControlPlaneProofs -------------------------
(***************************************************************************)
(* Theorems about the start of the server on a file that any crashes have  *)
(* left behind, the identity maps it loads, the changes and audit rows its *)
(* answers stand for and the listings its clients page through, for any    *)
(* contexts of an older server, any registries, any number of requests at  *)
(* the same time and any rollbacks on the connection they share.           *)
(***************************************************************************)
EXTENDS ControlPlane, FiniteSetTheorems, WellFoundedInduction, TLAPS

-----------------------------------------------------------------------------
(* The scripts *)

\* The lengths of the scripts.
LEMMA ScriptLengths ==
  /\ Len(Scripts) = 3 /\ DOMAIN Scripts = 1 .. 3
  /\ Scripts[1] = Initial /\ Scripts[2] = Snapshots /\ Scripts[3] = RuntimeState
  /\ Len(Initial) = 6 /\ DOMAIN Initial = 1 .. 6
  /\ Len(Snapshots) = 6 /\ DOMAIN Snapshots = 1 .. 6
  /\ Len(RuntimeState) = 14 /\ DOMAIN RuntimeState = 1 .. 14
<1>1. Len(Initial) = 6 /\ DOMAIN Initial = 1 .. 6
  BY DEF Initial
<1>2. Len(Snapshots) = 6 /\ DOMAIN Snapshots = 1 .. 6
  BY DEF Snapshots
<1>3. Len(RuntimeState) = 14 /\ DOMAIN RuntimeState = 1 .. 14
  BY DEF RuntimeState
<1>4. Len(Scripts) = 3 /\ DOMAIN Scripts = 1 .. 3
  BY DEF Scripts
<1>5. Scripts[1] = Initial /\ Scripts[2] = Snapshots /\ Scripts[3] = RuntimeState
  BY DEF Scripts
<1> QED
  BY <1>1, <1>2, <1>3, <1>4, <1>5

\* Statement by statement: what the scripts add, need, and when they fail.
LEMMA InitialAdds ==
  /\ Initial[1].adds = "schema_version"
  /\ Initial[2].adds = "contexts"
  /\ Initial[3].adds = "providers"
  /\ Initial[4].adds = "identity_maps"
  /\ Initial[5].adds = "audit_log"
  /\ Initial[6].adds = "version 1"
BY DEF Initial, Create, Index, AddColumn, Record, Statement

LEMMA InitialNeeds ==
  /\ Initial[1].needs = {}
  /\ Initial[2].needs = {}
  /\ Initial[3].needs = {}
  /\ Initial[4].needs = {}
  /\ Initial[5].needs = {}
  /\ Initial[6].needs = {"schema_version"}
BY DEF Initial, Create, Index, AddColumn, Record, Statement

LEMMA InitialAgain ==
  /\ Initial[1].again = TRUE
  /\ Initial[2].again = TRUE
  /\ Initial[3].again = TRUE
  /\ Initial[4].again = TRUE
  /\ Initial[5].again = TRUE
  /\ Initial[6].again = TRUE
BY DEF Initial, Create, Index, AddColumn, Record, Statement

LEMMA SnapshotsAdds ==
  /\ Snapshots[1].adds = "context_snapshots"
  /\ Snapshots[2].adds = "idx_context_snapshots_current"
  /\ Snapshots[3].adds = "context_membership_history"
  /\ Snapshots[4].adds = "idx_membership_history_context"
  /\ Snapshots[5].adds = "idx_membership_history_effective"
  /\ Snapshots[6].adds = "version 2"
BY DEF Snapshots, Create, Index, AddColumn, Record, Statement

LEMMA SnapshotsNeeds ==
  /\ Snapshots[1].needs = {}
  /\ Snapshots[2].needs = {"context_snapshots"}
  /\ Snapshots[3].needs = {}
  /\ Snapshots[4].needs = {"context_membership_history"}
  /\ Snapshots[5].needs = {"context_membership_history"}
  /\ Snapshots[6].needs = {"schema_version"}
BY DEF Snapshots, Create, Index, AddColumn, Record, Statement

LEMMA SnapshotsAgain ==
  /\ Snapshots[1].again = TRUE
  /\ Snapshots[2].again = TRUE
  /\ Snapshots[3].again = TRUE
  /\ Snapshots[4].again = TRUE
  /\ Snapshots[5].again = TRUE
  /\ Snapshots[6].again = TRUE
BY DEF Snapshots, Create, Index, AddColumn, Record, Statement

LEMMA RuntimeStateAdds ==
  /\ RuntimeState[1].adds = "context_id"
  /\ RuntimeState[2].adds = "source_kind"
  /\ RuntimeState[3].adds = "idx_contexts_runtime_version"
  /\ RuntimeState[4].adds = "idx_contexts_runtime_name"
  /\ RuntimeState[5].adds = "definition_version"
  /\ RuntimeState[6].adds = "score_sha256"
  /\ RuntimeState[7].adds = "idx_context_snapshots_one_current"
  /\ RuntimeState[8].adds = "context_snapshot_payloads"
  /\ RuntimeState[9].adds = "definition_hash"
  /\ RuntimeState[10].adds = "event_id"
  /\ RuntimeState[11].adds = "idx_membership_history_event"
  /\ RuntimeState[12].adds = "context_sync_state"
  /\ RuntimeState[13].adds = "context_sync_events"
  /\ RuntimeState[14].adds = "version 3"
BY DEF RuntimeState, Create, Index, AddColumn, Record, Statement

LEMMA RuntimeStateNeeds ==
  /\ RuntimeState[1].needs = {"contexts"}
  /\ RuntimeState[2].needs = {"contexts"}
  /\ RuntimeState[3].needs = {"context_id"}
  /\ RuntimeState[4].needs = {"contexts"}
  /\ RuntimeState[5].needs = {"context_snapshots"}
  /\ RuntimeState[6].needs = {"context_snapshots"}
  /\ RuntimeState[7].needs = {"context_snapshots"}
  /\ RuntimeState[8].needs = {}
  /\ RuntimeState[9].needs = {"context_membership_history"}
  /\ RuntimeState[10].needs = {"context_membership_history"}
  /\ RuntimeState[11].needs = {"event_id"}
  /\ RuntimeState[12].needs = {}
  /\ RuntimeState[13].needs = {}
  /\ RuntimeState[14].needs = {"schema_version"}
BY DEF RuntimeState, Create, Index, AddColumn, Record, Statement

LEMMA RuntimeStateAgain ==
  /\ RuntimeState[1].again = FALSE
  /\ RuntimeState[2].again = FALSE
  /\ RuntimeState[3].again = TRUE
  /\ RuntimeState[4].again = TRUE
  /\ RuntimeState[5].again = FALSE
  /\ RuntimeState[6].again = FALSE
  /\ RuntimeState[7].again = TRUE
  /\ RuntimeState[8].again = TRUE
  /\ RuntimeState[9].again = FALSE
  /\ RuntimeState[10].again = FALSE
  /\ RuntimeState[11].again = TRUE
  /\ RuntimeState[12].again = TRUE
  /\ RuntimeState[13].again = TRUE
  /\ RuntimeState[14].again = TRUE
BY DEF RuntimeState, Create, Index, AddColumn, Record, Statement

\* An index of a script is one of a few numbers.
LEMMA Indices ==
  /\ \A i \in 1 .. 6 :
        i = 1 \/ i = 2 \/ i = 3 \/ i = 4 \/ i = 5 \/ i = 6
  /\ \A i \in 1 .. 14 :
        \/ i = 1 \/ i = 2 \/ i = 3 \/ i = 4 \/ i = 5 \/ i = 6 \/ i = 7
        \/ i = 8 \/ i = 9 \/ i = 10 \/ i = 11 \/ i = 12 \/ i = 13 \/ i = 14
OBVIOUS

\* The last statement of a script, and no other of any script, records it.
LEMMA LastRecords ==
  ASSUME NEW v \in 1 .. 3, NEW w \in 1 .. 3, NEW i \in 1 .. Len(Scripts[w])
  PROVE  Scripts[w][i].adds = VersionRow[v] <=> w = v /\ i = Len(Scripts[w])
<1>1. VersionRow[1] = "version 1" /\ VersionRow[2] = "version 2" /\ VersionRow[3] = "version 3"
  BY DEF VersionRow
<1>2. v = 1 \/ v = 2 \/ v = 3
  OBVIOUS
<1>3. CASE w = 1
  <2>1. Scripts[w] = Initial /\ Len(Scripts[w]) = 6 /\ i \in 1 .. 6
    BY <1>3, ScriptLengths
  <2>2. i = 1 \/ i = 2 \/ i = 3 \/ i = 4 \/ i = 5 \/ i = 6
    BY <2>1, Indices
  <2>3. Initial[i].adds # "version 2" /\ Initial[i].adds # "version 3"
    BY <2>2, InitialAdds
  <2>4. Initial[i].adds = "version 1" <=> i = 6
    BY <2>2, InitialAdds
  <2>5. Initial[i].adds = VersionRow[v] <=> v = 1 /\ i = 6
    BY <1>1, <1>2, <2>3, <2>4
  <2> QED
    BY <1>3, <2>1, <2>5
<1>4. CASE w = 2
  <2>1. Scripts[w] = Snapshots /\ Len(Scripts[w]) = 6 /\ i \in 1 .. 6
    BY <1>4, ScriptLengths
  <2>2. i = 1 \/ i = 2 \/ i = 3 \/ i = 4 \/ i = 5 \/ i = 6
    BY <2>1, Indices
  <2>3. Snapshots[i].adds # "version 1" /\ Snapshots[i].adds # "version 3"
    BY <2>2, SnapshotsAdds
  <2>4. Snapshots[i].adds = "version 2" <=> i = 6
    BY <2>2, SnapshotsAdds
  <2>5. Snapshots[i].adds = VersionRow[v] <=> v = 2 /\ i = 6
    BY <1>1, <1>2, <2>3, <2>4
  <2> QED
    BY <1>4, <2>1, <2>5
<1>5. CASE w = 3
  <2>1. Scripts[w] = RuntimeState /\ Len(Scripts[w]) = 14 /\ i \in 1 .. 14
    BY <1>5, ScriptLengths
  <2>2. \/ i = 1 \/ i = 2 \/ i = 3 \/ i = 4 \/ i = 5 \/ i = 6 \/ i = 7
        \/ i = 8 \/ i = 9 \/ i = 10 \/ i = 11 \/ i = 12 \/ i = 13 \/ i = 14
    BY <2>1, Indices
  <2>3. RuntimeState[i].adds # "version 1" /\ RuntimeState[i].adds # "version 2"
    BY <2>2, RuntimeStateAdds
  <2>4. RuntimeState[i].adds = "version 3" <=> i = 14
    BY <2>2, RuntimeStateAdds
  <2>5. RuntimeState[i].adds = VersionRow[v] <=> v = 3 /\ i = 14
    BY <1>1, <1>2, <2>3, <2>4
  <2> QED
    BY <1>5, <2>1, <2>5
<1> QED
  BY <1>3, <1>4, <1>5

\* The third script's columns: the statements that fail on a second run.
Columns == {1, 2, 5, 6, 9, 10}

LEMMA OnlyColumnsFailAgain ==
  ASSUME NEW v \in 1 .. 3, NEW i \in 1 .. Len(Scripts[v]), ~Scripts[v][i].again
  PROVE  v = 3 /\ i \in Columns
<1>1. CASE v = 1
  <2>1. Scripts[v] = Initial /\ i \in 1 .. 6
    BY <1>1, ScriptLengths
  <2> QED
    BY <2>1, Indices, InitialAgain
<1>2. CASE v = 2
  <2>1. Scripts[v] = Snapshots /\ i \in 1 .. 6
    BY <1>2, ScriptLengths
  <2> QED
    BY <2>1, Indices, SnapshotsAgain
<1>3. CASE v = 3
  <2>1. Scripts[v] = RuntimeState /\ i \in 1 .. 14
    BY <1>3, ScriptLengths
  <2> QED
    BY <1>3, <2>1, Indices, RuntimeStateAgain DEF Columns
<1> QED
  BY <1>1, <1>2, <1>3

\* No other statement adds a column of the third script.
LEMMA ColumnsAreAddedOnce ==
  ASSUME NEW i \in Columns, NEW v \in 1 .. 3, NEW j \in 1 .. Len(Scripts[v]),
         Scripts[v][j].adds = RuntimeState[i].adds
  PROVE  v = 3 /\ j = i
<1>1. i = 1 \/ i = 2 \/ i = 5 \/ i = 6 \/ i = 9 \/ i = 10
  BY DEF Columns
<1> DEFINE columns ==
      {"context_id", "source_kind", "definition_version", "score_sha256", "definition_hash",
       "event_id"}
<1>5. RuntimeState[i].adds \in columns
  BY <1>1, RuntimeStateAdds
<1>2. CASE v = 1
  <2>1. Scripts[v] = Initial /\ j \in 1 .. 6 /\ Initial[j].adds = RuntimeState[i].adds
    BY <1>2, ScriptLengths
  <2>2. Initial[j].adds \notin columns
    BY <2>1, Indices, InitialAdds
  <2> QED
    BY <1>5, <2>1, <2>2
<1>3. CASE v = 2
  <2>1. Scripts[v] = Snapshots /\ j \in 1 .. 6 /\ Snapshots[j].adds = RuntimeState[i].adds
    BY <1>3, ScriptLengths
  <2>2. Snapshots[j].adds \notin columns
    BY <2>1, Indices, SnapshotsAdds
  <2> QED
    BY <1>5, <2>1, <2>2
<1>4. CASE v = 3
  <2>1. Scripts[v] = RuntimeState /\ j \in 1 .. 14 /\ RuntimeState[j].adds = RuntimeState[i].adds
    BY <1>4, ScriptLengths
  <2>2. \/ j = 1 \/ j = 2 \/ j = 3 \/ j = 4 \/ j = 5 \/ j = 6 \/ j = 7
        \/ j = 8 \/ j = 9 \/ j = 10 \/ j = 11 \/ j = 12 \/ j = 13 \/ j = 14
    BY <2>1, Indices
  <2>3. RuntimeState[j].adds = RuntimeState[i].adds => j = i
    <3>1. CASE i = 1
      <4>1. RuntimeState[i].adds = "context_id"
        BY <3>1, RuntimeStateAdds
      <4>2. RuntimeState[j].adds = "context_id" => j = 1
        BY <2>2, RuntimeStateAdds
      <4> QED
        BY <3>1, <4>1, <4>2
    <3>2. CASE i = 2
      <4>1. RuntimeState[i].adds = "source_kind"
        BY <3>2, RuntimeStateAdds
      <4>2. RuntimeState[j].adds = "source_kind" => j = 2
        BY <2>2, RuntimeStateAdds
      <4> QED
        BY <3>2, <4>1, <4>2
    <3>3. CASE i = 5
      <4>1. RuntimeState[i].adds = "definition_version"
        BY <3>3, RuntimeStateAdds
      <4>2. RuntimeState[j].adds = "definition_version" => j = 5
        BY <2>2, RuntimeStateAdds
      <4> QED
        BY <3>3, <4>1, <4>2
    <3>4. CASE i = 6
      <4>1. RuntimeState[i].adds = "score_sha256"
        BY <3>4, RuntimeStateAdds
      <4>2. RuntimeState[j].adds = "score_sha256" => j = 6
        BY <2>2, RuntimeStateAdds
      <4> QED
        BY <3>4, <4>1, <4>2
    <3>5. CASE i = 9
      <4>1. RuntimeState[i].adds = "definition_hash"
        BY <3>5, RuntimeStateAdds
      <4>2. RuntimeState[j].adds = "definition_hash" => j = 9
        BY <2>2, RuntimeStateAdds
      <4> QED
        BY <3>5, <4>1, <4>2
    <3>6. CASE i = 10
      <4>1. RuntimeState[i].adds = "event_id"
        BY <3>6, RuntimeStateAdds
      <4>2. RuntimeState[j].adds = "event_id" => j = 10
        BY <2>2, RuntimeStateAdds
      <4> QED
        BY <3>6, <4>1, <4>2
    <3> QED
      BY <1>1, <3>1, <3>2, <3>3, <3>4, <3>5, <3>6
  <2> QED
    BY <1>4, <2>1, <2>3
<1> QED
  BY <1>2, <1>3, <1>4

\* All statements of a script have been run, or those before the i-th.
RunUpTo(v, i) == \A j \in 1 .. i - 1 : Scripts[v][j].adds \in schema
Applied(v) == \A j \in 1 .. Len(Scripts[v]) : Scripts[v][j].adds \in schema

\* A statement needs only what an earlier one has added.
LEMMA NeedsAreMet ==
  ASSUME NEW v \in 1 .. 3, NEW i \in 1 .. Len(Scripts[v]),
         "schema_version" \in schema, \A w \in 1 .. v - 1 : Applied(w), RunUpTo(v, i)
  PROVE  Scripts[v][i].needs \subseteq schema
<1>1. CASE v = 1
  <2>1. Scripts[v] = Initial /\ i \in 1 .. 6
    BY <1>1, ScriptLengths
  <2>2. Initial[i].needs \subseteq {"schema_version"}
    BY <2>1, Indices, InitialNeeds
  <2> QED
    BY <2>1, <2>2
<1>2. CASE v = 2
  <2>1. Scripts[v] = Snapshots /\ i \in 1 .. 6
    BY <1>2, ScriptLengths
  <2>2. i > 1 => Snapshots[1].adds \in schema
    BY <2>1 DEF RunUpTo
  <2>3. i > 3 => Snapshots[3].adds \in schema
    BY <2>1 DEF RunUpTo
  <2>4. i = 1 \/ i = 2 \/ i = 3 \/ i = 4 \/ i = 5 \/ i = 6
    BY <2>1, Indices
  <2>5. Snapshots[i].needs \subseteq schema
    <3>1. CASE i = 1 \/ i = 3 \/ i = 6
      BY <3>1, SnapshotsNeeds
    <3>2. CASE i = 2
      <4>1. "context_snapshots" \in schema
        <5>1. Snapshots[1].adds \in schema
          BY <2>2, <3>2
        <5> QED
          BY <5>1, SnapshotsAdds
      <4>2. Snapshots[i].needs = {"context_snapshots"}
        BY <3>2, SnapshotsNeeds
      <4> QED
        BY <4>1, <4>2
    <3>3. CASE i = 4 \/ i = 5
      <4>1. "context_membership_history" \in schema
        <5>1. Snapshots[3].adds \in schema
          BY <2>3, <3>3
        <5> QED
          BY <5>1, SnapshotsAdds
      <4>2. Snapshots[i].needs = {"context_membership_history"}
        BY <3>3, SnapshotsNeeds
      <4> QED
        BY <4>1, <4>2
    <3> QED
      BY <2>4, <3>1, <3>2, <3>3
  <2> QED
    BY <2>1, <2>5
<1>3. CASE v = 3
  <2>1. Scripts[v] = RuntimeState /\ i \in 1 .. 14
    BY <1>3, ScriptLengths
  <2>2. Initial[2].adds \in schema
    BY <1>3, ScriptLengths DEF Applied
  <2>3. Snapshots[1].adds \in schema /\ Snapshots[3].adds \in schema
    <3>1. \A j \in 1 .. Len(Scripts[2]) : Scripts[2][j].adds \in schema
      BY <1>3 DEF Applied
    <3>2. Scripts[2] = Snapshots /\ 1 \in 1 .. Len(Scripts[2]) /\ 3 \in 1 .. Len(Scripts[2])
      BY ScriptLengths
    <3> QED
      BY <3>1, <3>2
  <2>4. i > 1 => RuntimeState[1].adds \in schema
    BY <2>1 DEF RunUpTo
  <2>5. i > 10 => RuntimeState[10].adds \in schema
    BY <2>1 DEF RunUpTo
  <2>6. \/ i = 1 \/ i = 2 \/ i = 3 \/ i = 4 \/ i = 5 \/ i = 6 \/ i = 7
        \/ i = 8 \/ i = 9 \/ i = 10 \/ i = 11 \/ i = 12 \/ i = 13 \/ i = 14
    BY <2>1, Indices
  <2>7. RuntimeState[i].needs \subseteq schema
    <3>1. CASE i = 8 \/ i = 12 \/ i = 13 \/ i = 14
      BY <3>1, RuntimeStateNeeds
    <3>2. CASE i = 1 \/ i = 2 \/ i = 4
      <4>1. RuntimeState[i].needs = {"contexts"}
        BY <3>2, RuntimeStateNeeds
      <4>2. "contexts" \in schema
        BY <2>2, InitialAdds
      <4> QED
        BY <4>1, <4>2
    <3>3. CASE i = 3
      <4>1. RuntimeState[i].needs = {"context_id"}
        BY <3>3, RuntimeStateNeeds
      <4>2. RuntimeState[1].adds \in schema
        BY <2>4, <3>3
      <4>3. "context_id" \in schema
        BY <4>2, RuntimeStateAdds
      <4> QED
        BY <4>1, <4>3
    <3>4. CASE i = 5 \/ i = 6 \/ i = 7
      <4>1. RuntimeState[i].needs = {"context_snapshots"}
        BY <3>4, RuntimeStateNeeds
      <4>2. "context_snapshots" \in schema
        BY <2>3, SnapshotsAdds
      <4> QED
        BY <4>1, <4>2
    <3>5. CASE i = 9 \/ i = 10
      <4>1. RuntimeState[i].needs = {"context_membership_history"}
        BY <3>5, RuntimeStateNeeds
      <4>2. "context_membership_history" \in schema
        BY <2>3, SnapshotsAdds
      <4> QED
        BY <4>1, <4>2
    <3>6. CASE i = 11
      <4>1. RuntimeState[i].needs = {"event_id"}
        BY <3>6, RuntimeStateNeeds
      <4>2. RuntimeState[10].adds \in schema
        BY <2>5, <3>6
      <4>3. "event_id" \in schema
        BY <4>2, RuntimeStateAdds
      <4> QED
        BY <4>1, <4>3
    <3> QED
      BY <2>6, <3>1, <3>2, <3>3, <3>4, <3>5, <3>6
  <2> QED
    BY <2>1, <2>7
<1> QED
  BY <1>1, <1>2, <1>3

-----------------------------------------------------------------------------
(* The schema *)

\* Version rows are set in order, each after all of its script.
InOrder ==
  \A v \in 1 .. 3 : VersionRow[v] \in schema => \A w \in 1 .. v : Applied(w)

\* Where a running process is in the scripts.
Migrating ==
  phase = "migrating" =>
    /\ script \in 1 .. 4
    /\ \A w \in 1 .. script - 1 : Applied(w)
    /\ \A w \in 1 .. 3 : w >= script => VersionRow[w] \notin schema
    /\ script <= 3 => statement \in 1 .. Len(Scripts[script]) /\ RunUpTo(script, statement)

SchemaInv ==
  /\ schema \subseteq Schema
  /\ phase \in Phases
  /\ phase # "down" => "schema_version" \in schema
  /\ InOrder
  /\ Migrating
  /\ phase \in {"backfilling", "loading", "serving"} => \A v \in 1 .. 3 : Applied(v)

\* What a script adds, by the numbers of its statements.
LEMMA AddsByNumber ==
  ASSUME NEW v \in 1 .. 3
  PROVE  /\ Len(Scripts[v]) \in Nat \ {0} /\ DOMAIN Scripts[v] = 1 .. Len(Scripts[v])
         /\ Adds(v) = {Scripts[v][i].adds : i \in 1 .. Len(Scripts[v])}
<1>1. Len(Scripts[v]) \in Nat \ {0} /\ DOMAIN Scripts[v] = 1 .. Len(Scripts[v])
  <2>1. CASE v = 1
    BY <2>1, ScriptLengths
  <2>2. CASE v = 2
    BY <2>2, ScriptLengths
  <2>3. CASE v = 3
    BY <2>3, ScriptLengths
  <2> QED
    BY <2>1, <2>2, <2>3
<1> QED
  BY <1>1 DEF Adds

\* Applied, said of the set of what a script adds.
LEMMA AppliedAdds ==
  /\ \A v \in 1 .. 3 : Applied(v) <=> Adds(v) \subseteq schema
  /\ (\A v \in 1 .. 3 : Applied(v)) <=> Schema \subseteq schema
<1>1. \A v \in 1 .. 3 : Adds(v) = {Scripts[v][i].adds : i \in 1 .. Len(Scripts[v])}
  BY AddsByNumber
<1>2. Schema = UNION {Adds(v) : v \in 1 .. 3}
  BY ScriptLengths DEF Schema
<1>3. \A v \in 1 .. 3 : Applied(v) <=> Adds(v) \subseteq schema
  BY <1>1 DEF Applied
<1> QED
  BY <1>2, <1>3

\* What a statement adds belongs to the schema.
LEMMA AddsInSchema ==
  /\ "schema_version" \in Schema
  /\ \A v \in 1 .. 3 : \A i \in 1 .. Len(Scripts[v]) : Scripts[v][i].adds \in Schema
<1>1. \A v \in 1 .. 3 : \A i \in 1 .. Len(Scripts[v]) : Scripts[v][i].adds \in Schema
  BY ScriptLengths DEF Schema, Adds
<1>2. Scripts[1][1].adds = "schema_version" /\ 1 \in 1 .. Len(Scripts[1])
  <2>1. Scripts[1] = Initial /\ 1 \in 1 .. Len(Scripts[1])
    BY ScriptLengths
  <2>2. Initial[1].adds = "schema_version"
    BY InitialAdds
  <2> QED
    BY <2>1, <2>2
<1> QED
  BY <1>1, <1>2

\* SELECT MAX(version): all scripts up to it are recorded or skipped over, none
\* beyond it is recorded.
LEMMA RecordedIsMax ==
  /\ Recorded \in 0 .. 3
  /\ Recorded # 0 => VersionRow[Recorded] \in schema
  /\ \A v \in 1 .. 3 : v > Recorded => VersionRow[v] \notin schema
<1> DEFINE S == {v \in 1 .. 3 : \E w \in 1 .. 3 : v <= w /\ VersionRow[w] \in schema}
<1>1. Recorded = Cardinality(S)
  BY ScriptLengths DEF Recorded
<1>2. ASSUME NEW n \in 0 .. 3 PROVE Cardinality(1 .. n) = n
  <2>1. Cardinality(1 .. n) = IF 1 > n THEN 0 ELSE n - 1 + 1
    BY FS_Interval
  <2> QED
    BY <2>1
<1>3. CASE VersionRow[3] \in schema
  <2>1. S = 1 .. 3
    BY <1>3
  <2> QED
    BY <1>1, <1>2, <1>3, <2>1
<1>4. CASE VersionRow[3] \notin schema /\ VersionRow[2] \in schema
  <2>1. S = 1 .. 2
    BY <1>4
  <2> QED
    BY <1>1, <1>2, <1>4, <2>1
<1>5. CASE VersionRow[3] \notin schema /\ VersionRow[2] \notin schema /\ VersionRow[1] \in schema
  <2>1. S = 1 .. 1
    BY <1>5
  <2> QED
    BY <1>1, <1>2, <1>5, <2>1
<1>6. CASE \A v \in 1 .. 3 : VersionRow[v] \notin schema
  <2>1. S = 1 .. 0
    BY <1>6
  <2> QED
    BY <1>1, <1>2, <1>6, <2>1
<1> QED
  BY <1>3, <1>4, <1>5, <1>6

\* A file of a released server is in order.
LEMMA SchemaInit == StartInit => SchemaInv
<1> SUFFICES ASSUME StartInit PROVE SchemaInv
  OBVIOUS
<1>1. PICK k \in 0 .. 3 : schema = UNION {Adds(s) : s \in 1 .. k}
  BY ScriptLengths DEF StartInit
<1>2. schema \subseteq Schema
  BY <1>1, ScriptLengths DEF Schema
<1>3. \A w \in 1 .. k : Applied(w)
  BY <1>1, ScriptLengths DEF Adds, Applied
<1>4. \A v \in 1 .. 3 : VersionRow[v] \in schema => v <= k
  <2> SUFFICES ASSUME NEW v \in 1 .. 3, VersionRow[v] \in schema PROVE v <= k
    OBVIOUS
  <2>1. PICK w \in 1 .. k : VersionRow[v] \in Adds(w)
    BY <1>1
  <2>2. w \in 1 .. 3
    OBVIOUS
  <2>3. PICK i \in 1 .. Len(Scripts[w]) : VersionRow[v] = Scripts[w][i].adds
    BY <2>1, <2>2, AddsByNumber
  <2>4. w = v
    BY <2>2, <2>3, LastRecords
  <2> QED
    BY <2>4
<1>5. phase = "down"
  BY DEF StartInit
<1> QED
  BY <1>2, <1>3, <1>4, <1>5 DEF SchemaInv, InOrder, Migrating, Phases

\* Adding what does not record a version keeps the order.
LEMMA GrowKeeps ==
  ASSUME InOrder, NEW o, schema' = schema \cup {o}, \A v \in 1 .. 3 : VersionRow[v] # o
  PROVE  InOrder'
BY DEF InOrder, Applied

\* A statement is run: what it needs is there, and the last one finds the whole
\* script applied.
LEMMA StatementKeepsSchema ==
  ASSUME SchemaInv, RunStatement
  PROVE  SchemaInv'
<1>1. /\ phase = "migrating" /\ phase' = phase /\ script \in 1 .. 3
      /\ statement \in 1 .. Len(Scripts[script])
      /\ schema' = schema \cup {Scripts[script][statement].adds}
  BY ScriptLengths DEF RunStatement, SchemaInv, Migrating, Pending
<1>7. statement \in Int /\ script \in Int /\ Len(Scripts[script]) \in Nat
  BY <1>1, AddsByNumber
<1>2. \A w \in 1 .. 3 : Applied(w) => Applied(w)'
  BY <1>1 DEF Applied
<1>3. schema' \subseteq Schema
  BY <1>1, AddsInSchema DEF SchemaInv
<1>6. \A j \in 1 .. statement : Scripts[script][j].adds \in schema'
  <2> SUFFICES ASSUME NEW j \in 1 .. statement PROVE Scripts[script][j].adds \in schema'
    OBVIOUS
  <2>1. j = statement \/ j \in 1 .. statement - 1
    BY <1>7
  <2>2. j \in 1 .. statement - 1 => Scripts[script][j].adds \in schema
    BY <1>1 DEF SchemaInv, Migrating, RunUpTo
  <2> QED
    BY <1>1, <2>1, <2>2
<1>4. CASE statement < Len(Scripts[script])
  <2>1. script' = script /\ statement' = statement + 1
    BY <1>4 DEF RunStatement
  <2>2. \A v \in 1 .. 3 : VersionRow[v] # Scripts[script][statement].adds
    BY <1>1, <1>4, LastRecords
  <2>3. InOrder'
    BY <1>1, <2>2, GrowKeeps DEF SchemaInv
  <2>4. \A w \in 1 .. 3 : w >= script => VersionRow[w] \notin schema'
    BY <1>1, <2>2 DEF SchemaInv, Migrating
  <2>5. \A j \in 1 .. statement : Scripts[script][j].adds \in schema'
    BY <1>1, <1>6
  <2>6. statement' \in 1 .. Len(Scripts[script'])
    BY <1>1, <1>4, <2>1, ScriptLengths
  <2>7. Migrating'
    BY <1>1, <1>2, <1>7, <2>1, <2>4, <2>5, <2>6 DEF SchemaInv, Migrating, RunUpTo
  <2> QED
    BY <1>1, <1>3, <2>3, <2>7 DEF SchemaInv, Phases
<1>5. CASE ~(statement < Len(Scripts[script]))
  <2>1. script' = script + 1 /\ statement' = 1 /\ statement = Len(Scripts[script])
    BY <1>1, <1>5, ScriptLengths DEF RunStatement
  <2>2. \A w \in 1 .. 3 : w = script => Applied(w)'
    BY <1>1, <1>6, <2>1 DEF Applied
  <2>3. \A w \in 1 .. script : Applied(w)'
    <3> SUFFICES ASSUME NEW w \in 1 .. script PROVE Applied(w)'
      OBVIOUS
    <3>1. w \in 1 .. 3 /\ (w = script \/ w \in 1 .. script - 1)
      BY <1>1
    <3>2. w \in 1 .. script - 1 => Applied(w)
      BY <1>1 DEF SchemaInv, Migrating
    <3> QED
      BY <1>2, <2>2, <3>1, <3>2
  <2>4. \A w \in 1 .. 3 : VersionRow[w] = Scripts[script][statement].adds => w = script
    BY <1>1, LastRecords
  <2>5. InOrder'
    BY <1>1, <1>2, <2>3, <2>4 DEF SchemaInv, InOrder
  <2>6. \A w \in 1 .. 3 : w >= script + 1 => VersionRow[w] \notin schema'
    BY <1>1, <2>4 DEF SchemaInv, Migrating
  <2>7. \A w \in 1 .. 3 : 1 \in 1 .. Len(Scripts[w])
    BY AddsByNumber
  <2>8. Migrating'
    BY <1>1, <2>1, <2>3, <2>6, <2>7 DEF Migrating, RunUpTo
  <2> QED
    BY <1>1, <1>3, <2>5, <2>8 DEF SchemaInv, Phases
<1> QED
  BY <1>4, <1>5

\* The other steps of a start: the versions tell where to begin, and the scripts
\* are all applied when they are through.
LEMMA StartKeepsSchema ==
  ASSUME SchemaInv,
         \/ OpenDatabase \/ StatementFails \/ Migrated \/ Backfill
         \/ HydrationFails \/ EnvironmentFails
  PROVE  SchemaInv'
<1>1. CASE OpenDatabase
  <2>1. /\ schema' = schema \cup {"schema_version"} /\ phase' = "migrating"
        /\ script' = Recorded + 1 /\ statement' = 1
    BY <1>1 DEF OpenDatabase
  <2>2. \A v \in 1 .. 3 : VersionRow[v] # "schema_version"
    <3> SUFFICES ASSUME NEW v \in 1 .. 3 PROVE VersionRow[v] # "schema_version"
      OBVIOUS
    <3>1. v = 1 \/ v = 2 \/ v = 3
      OBVIOUS
    <3>2. /\ VersionRow[1] = "version 1" /\ VersionRow[2] = "version 2"
          /\ VersionRow[3] = "version 3"
      BY DEF VersionRow
    <3> QED
      BY <3>1, <3>2
  <2>3. InOrder'
    BY <2>1, <2>2, GrowKeeps DEF SchemaInv
  <2>4. Recorded \in 0 .. 3
    BY RecordedIsMax
  <2>5. \A w \in 1 .. Recorded : Applied(w)'
    <3>1. \A w \in 1 .. Recorded : Applied(w)
      BY <2>4, RecordedIsMax DEF SchemaInv, InOrder
    <3> QED
      BY <2>1, <3>1 DEF Applied
  <2>6. \A w \in 1 .. 3 : w >= Recorded + 1 => VersionRow[w] \notin schema'
    BY <2>1, <2>2, <2>4, RecordedIsMax
  <2>7. \A w \in 1 .. 3 : 1 \in 1 .. Len(Scripts[w])
    BY AddsByNumber
  <2>8. Migrating'
    BY <2>1, <2>4, <2>5, <2>6, <2>7 DEF Migrating, RunUpTo
  <2> QED
    BY <2>1, <2>3, <2>8, AddsInSchema DEF SchemaInv, Phases
<1>2. CASE StatementFails
  BY <1>2 DEF StatementFails, SchemaInv, InOrder, Applied, Migrating, Phases
<1>3. CASE Migrated
  <2>1. phase = "migrating" /\ script > 3 /\ phase' = "backfilling" /\ schema' = schema
    BY <1>3, ScriptLengths DEF Migrated
  <2>2. \A w \in 1 .. 3 : Applied(w)
    BY <2>1 DEF SchemaInv, Migrating
  <2> QED
    BY <2>1, <2>2 DEF SchemaInv, InOrder, Applied, Migrating, Phases
<1>4. CASE Backfill
  BY <1>4 DEF Backfill, SchemaInv, InOrder, Applied, Migrating, Phases
<1>5. CASE HydrationFails \/ EnvironmentFails
  BY <1>5 DEF HydrationFails, EnvironmentFails, SchemaInv, InOrder, Applied, Migrating, Phases
<1> QED
  BY <1>1, <1>2, <1>3, <1>4, <1>5

\* What a step of a serving process leaves alone.
LEMMA ServingKeepsStart ==
  ASSUME [Next]_vars
  PROVE  \/ StartStep \/ EnvironmentFails \/ LoadEngine \/ Stop \/ Crash
         \/ UNCHANGED startVars
<1>1. CASE \E t \in Threads : Request(t)
  BY <1>1 DEF Request, Begin, Register, Find, RegisterMap, Update, CommitChange, Log,
     CommitLog, Raise
<1>2. CASE \/ CommitElsewhere \/ RollBackElsewhere
           \/ \E table \in {"providers", "log"} : StartListing(table)
           \/ CountRows \/ SelectRows \/ UNCHANGED vars
  BY <1>2 DEF CommitElsewhere, RollBackElsewhere, StartListing, CountRows, SelectRows, Read, vars
<1> QED
  BY <1>1, <1>2 DEF Next, ServerStart, StartInterrupted, Start

\* Every step: requests, stops and crashes leave the schema alone.
LEMMA SchemaNext == SchemaInv /\ [Next]_vars => SchemaInv'
<1> SUFFICES ASSUME SchemaInv, [Next]_vars PROVE SchemaInv'
  OBVIOUS
<1>1. CASE StartStep \/ EnvironmentFails
  BY <1>1, StartKeepsSchema, StatementKeepsSchema DEF StartStep
<1>2. CASE UNCHANGED startVars
  BY <1>2 DEF startVars, SchemaInv, InOrder, Applied, Migrating, RunUpTo
<1>3. CASE LoadEngine
  BY <1>3 DEF LoadEngine, SchemaInv, InOrder, Applied, Migrating, Phases
<1>4. CASE Crash \/ Stop
  BY <1>4 DEF Crash, Stop, SchemaInv, InOrder, Applied, Migrating, Phases
<1> QED
  BY <1>1, <1>2, <1>3, <1>4, ServingKeepsStart

\* A recorded version has its whole script, whatever has interrupted a start,
\* and no process gets past init_db without the whole schema
\* (connection.py:46-70).
THEOREM SchemaIsCompleteCorrect == Spec => []SchemaIsComplete
<1>1. Init => SchemaInv
  BY SchemaInit DEF Init
<1>2. SchemaInv /\ [Next]_vars => SchemaInv'
  BY SchemaNext
<1>3. SchemaInv => SchemaIsComplete
  <2> SUFFICES ASSUME SchemaInv PROVE SchemaIsComplete
    OBVIOUS
  <2>1. ASSUME NEW v \in 1 .. 3, VersionRow[v] \in schema PROVE Adds(v) \subseteq schema
    BY <2>1, AppliedAdds DEF SchemaInv, InOrder
  <2>2. phase \in {"backfilling", "loading", "serving"} => schema = Schema
    BY AppliedAdds DEF SchemaInv
  <2> QED
    BY <2>1, <2>2, ScriptLengths DEF SchemaIsComplete
<1> QED
  BY <1>1, <1>2, <1>3, PTL DEF Spec

-----------------------------------------------------------------------------
(* Failing starts *)

\* Without an interruption the third script has never stopped half-way: its
\* columns are there only from the statement that adds them on.
Intact ==
  /\ phase = "migrating" =>
       \A i \in Columns :
         script < 3 \/ (script = 3 /\ i >= statement) => RuntimeState[i].adds \notin schema
  /\ phase = "down" =>
       VersionRow[3] \in schema \/ \A i \in Columns : RuntimeState[i].adds \notin schema

FailInv ==
  /\ crashes \in Nat
  /\ refused => phase = "down" /\ Torn /\ crashes > 0
  /\ crashes = 0 => Intact

LEMMA ColumnNumbers == Columns \subseteq 1 .. 14
BY DEF Columns

\* The only statement that can fail adds a column that is there.
LEMMA FailingStatement ==
  ASSUME SchemaInv, phase = "migrating", script <= 3, ~Executable
  PROVE  /\ script = 3 /\ statement \in Columns
         /\ RuntimeState[statement].adds \in schema
         /\ VersionRow[3] \notin schema
<1>1. /\ script \in 1 .. 3 /\ statement \in 1 .. Len(Scripts[script])
      /\ "schema_version" \in schema /\ \A w \in 1 .. script - 1 : Applied(w)
      /\ RunUpTo(script, statement) /\ VersionRow[3] \notin schema
  BY DEF SchemaInv, Migrating
<1>2. Pending.needs \subseteq schema
  BY <1>1, NeedsAreMet DEF Pending
<1>3. ~Pending.again /\ Pending.adds \in schema
  BY <1>2 DEF Executable
<1>4. script = 3 /\ statement \in Columns
  BY <1>1, <1>3, OnlyColumnsFailAgain DEF Pending
<1>5. Pending.adds = RuntimeState[statement].adds
  BY <1>4, ScriptLengths DEF Pending
<1> QED
  BY <1>1, <1>3, <1>4, <1>5

\* A file of a released server is whole.
LEMMA FailInit == StartInit => FailInv
<1> SUFFICES ASSUME StartInit PROVE FailInv
  OBVIOUS
<1>1. PICK k \in 0 .. 3 : schema = UNION {Adds(s) : s \in 1 .. k}
  BY ScriptLengths DEF StartInit
<1>2. CASE k = 3
  <2>1. VersionRow[3] \in Adds(3)
    <3>1. 14 \in 1 .. Len(Scripts[3]) /\ Scripts[3] = RuntimeState
      BY ScriptLengths
    <3>2. RuntimeState[14].adds \in Adds(3)
      BY <3>1, AddsByNumber
    <3>3. 3 \in 1 .. 3 /\ Len(Scripts[3]) = 14
      BY ScriptLengths
    <3>4. Scripts[3][14].adds = VersionRow[3]
      BY <3>1, <3>3, LastRecords
    <3> QED
      BY <3>1, <3>2, <3>4
  <2>2. VersionRow[3] \in schema
    BY <1>1, <1>2, <2>1
  <2> QED
    BY <2>2 DEF StartInit, FailInv, Intact
<1>3. CASE k < 3
  <2>1. ASSUME NEW i \in Columns, RuntimeState[i].adds \in schema PROVE FALSE
    <3>1. PICK w \in 1 .. k : RuntimeState[i].adds \in Adds(w)
      BY <1>1, <2>1
    <3>2. w \in 1 .. 3 /\ w # 3
      BY <1>3
    <3>3. PICK j \in 1 .. Len(Scripts[w]) : RuntimeState[i].adds = Scripts[w][j].adds
      BY <3>1, <3>2, AddsByNumber
    <3> QED
      BY <3>2, <3>3, ColumnsAreAddedOnce
  <2> QED
    BY <2>1 DEF StartInit, FailInv, Intact
<1> QED
  BY <1>2, <1>3

\* Behind the scripts the third version is recorded.
LEMMA ServingIsRecorded ==
  ASSUME SchemaInv, phase \in {"backfilling", "loading", "serving"}
  PROVE  VersionRow[3] \in schema
<1>1. Applied(3)
  BY DEF SchemaInv
<1>2. Len(Scripts[3]) \in 1 .. Len(Scripts[3])
  BY AddsByNumber
<1> QED
  BY <1>1, <1>2, LastRecords DEF Applied

\* A start that fails meets a torn file; one that has never crashed meets none.
LEMMA StartKeepsFail ==
  ASSUME SchemaInv, FailInv, StartStep
  PROVE  FailInv'
<1>1. CASE OpenDatabase
  <2>1. /\ phase = "down" /\ phase' = "migrating" /\ schema' = schema \cup {"schema_version"}
        /\ script' = Recorded + 1 /\ statement' = 1 /\ refused' = FALSE /\ crashes' = crashes
    BY <1>1 DEF OpenDatabase
  <2>2. ASSUME NEW i \in Columns, RuntimeState[i].adds = "schema_version" PROVE FALSE
    <3>1. Scripts[1] = Initial /\ 1 \in 1 .. Len(Scripts[1])
      BY ScriptLengths
    <3>2. Initial[1].adds = "schema_version"
      BY InitialAdds
    <3> QED
      BY <2>2, <3>1, <3>2, ColumnsAreAddedOnce
  <2>3. VersionRow[3] \in schema => Recorded = 3
    BY RecordedIsMax
  <2> QED
    BY <2>1, <2>2, <2>3 DEF FailInv, Intact
<1>2. CASE RunStatement
  <2>1. /\ phase = "migrating" /\ phase' = phase /\ script \in 1 .. 3
        /\ statement \in 1 .. Len(Scripts[script])
        /\ schema' = schema \cup {Scripts[script][statement].adds}
        /\ refused' = refused /\ crashes' = crashes
    BY <1>2, ScriptLengths DEF RunStatement, SchemaInv, Migrating, Pending
  <2>2. \/ script' = script /\ statement' = statement + 1
        \/ script' = script + 1 /\ statement' = 1
    BY <1>2 DEF RunStatement
  <2>3. ASSUME crashes = 0, NEW i \in Columns,
               script' < 3 \/ (script' = 3 /\ i >= statement')
        PROVE  RuntimeState[i].adds \notin schema'
    <3>1. i \in Int /\ i \in 1 .. 14 /\ statement \in Int
      BY <2>1, ColumnNumbers, AddsByNumber
    <3>2. script < 3 \/ (script = 3 /\ i >= statement /\ i # statement)
      BY <2>1, <2>2, <2>3, <3>1
    <3>3. RuntimeState[i].adds \notin schema
      BY <2>1, <2>3, <3>2 DEF FailInv, Intact
    <3>4. Scripts[script][statement].adds # RuntimeState[i].adds
      BY <2>1, <3>2, ColumnsAreAddedOnce
    <3> QED
      BY <2>1, <3>3, <3>4
  <2> QED
    BY <2>1, <2>3 DEF FailInv, Intact
<1>3. CASE StatementFails
  <2>1. /\ phase = "migrating" /\ script <= 3 /\ ~Executable
        /\ phase' = "down" /\ UNCHANGED <<schema, crashes>>
    BY <1>3, ScriptLengths DEF StatementFails
  <2>2. /\ script = 3 /\ statement \in Columns
        /\ RuntimeState[statement].adds \in schema /\ VersionRow[3] \notin schema
    BY <2>1, FailingStatement
  <2>3. statement \in 1 .. 14
    BY <2>2, ColumnNumbers
  <2>4. crashes # 0
    BY <2>1, <2>2, <2>3 DEF FailInv, Intact
  <2>5. ~RuntimeState[statement].again
    BY <2>2, RuntimeStateAgain DEF Columns
  <2>6. Torn'
    BY <2>1, <2>2, <2>3, <2>5, ScriptLengths DEF Torn
  <2> QED
    BY <2>1, <2>4, <2>6 DEF FailInv
<1>4. CASE Migrated \/ Backfill
  BY <1>4 DEF Migrated, Backfill, FailInv, Intact
<1>5. CASE HydrationFails
  BY <1>5, ServingIsRecorded DEF HydrationFails, FailInv, Intact, Torn
<1> QED
  BY <1>1, <1>2, <1>3, <1>4, <1>5 DEF StartStep

\* Every step.
LEMMA FailNext == SchemaInv /\ FailInv /\ [Next]_vars => FailInv'
<1> SUFFICES ASSUME SchemaInv, FailInv, [Next]_vars PROVE FailInv'
  OBVIOUS
<1>1. CASE StartStep
  BY <1>1, StartKeepsFail
<1>2. CASE Stop
  BY <1>2, ServingIsRecorded DEF Stop, FailInv, Intact, Torn
<1>3. CASE LoadEngine
  BY <1>3 DEF LoadEngine, FailInv, Intact, Torn
<1>4. CASE Crash \/ EnvironmentFails
  BY <1>4 DEF Crash, EnvironmentFails, FailInv, Intact, Torn
<1>5. CASE UNCHANGED startVars
  BY <1>5 DEF startVars, FailInv, Intact, Torn
<1> QED
  BY <1>1, <1>2, <1>3, <1>4, <1>5, ServingKeepsStart

\* A statement of a start cannot be executed only on a file whose third
\* migration a crash or the environment has interrupted after it had added a
\* column (003_context_runtime_state.sql:3).
THEOREM FailsOnlyWhenTornCorrect == Spec => []FailsOnlyWhenTorn
<1>1. Init => SchemaInv /\ FailInv
  BY SchemaInit, FailInit DEF Init
<1>2. SchemaInv /\ FailInv /\ [Next]_vars => SchemaInv' /\ FailInv'
  BY SchemaNext, FailNext
<1>3. FailInv => FailsOnlyWhenTorn
  BY DEF FailInv, FailsOnlyWhenTorn
<1> QED
  BY <1>1, <1>2, <1>3, PTL DEF Spec

-----------------------------------------------------------------------------
(* Identifiers of contexts *)

\* Identifiers come from those generated; the versions of a context agree as
\* far as they have one, and behind the backfill all have; no two contexts do.
IdInv ==
  /\ uuids \in Nat
  /\ DOMAIN contextId \subseteq OldRows
  /\ \A r \in DOMAIN contextId : contextId[r] \in 0 .. uuids
  /\ \A r, q \in DOMAIN contextId :
       r.name = q.name /\ contextId[r] # NoId /\ contextId[q] # NoId => contextId[r] = contextId[q]
  /\ \A r, q \in DOMAIN contextId :
       contextId[r] # NoId /\ contextId[r] = contextId[q] => r.name = q.name
  /\ phase \in {"loading", "serving"} => \A r \in DOMAIN contextId : contextId[r] # NoId

\* GROUP BY name numbers the names from 1 on, each differently.
LEMMA PlaceNumbers ==
  ASSUME NEW names \in SUBSET Nat, IsFiniteSet(names), NEW n \in names
  PROVE  /\ Cardinality(names) \in Nat
         /\ Place(n, names) \in 1 .. Cardinality(names)
         /\ \A m \in names : Place(m, names) = Place(n, names) => m = n
<1> DEFINE UpTo(k) == {i \in names : i <= k}
<1>1. \A k \in names : IsFiniteSet(UpTo(k)) /\ Cardinality(UpTo(k)) \in Nat
                       /\ Cardinality(UpTo(k)) <= Cardinality(names)
  BY FS_Subset, FS_CardinalityType
<1>2. ASSUME NEW k \in names PROVE Cardinality(UpTo(k)) # 0
  <2>1. k \in UpTo(k)
    OBVIOUS
  <2> QED
    BY <1>1, <2>1, FS_EmptySet
<1>3. ASSUME NEW k \in names, NEW m \in names, k < m
      PROVE  Cardinality(UpTo(k)) # Cardinality(UpTo(m))
  <2>1. UpTo(k) \subseteq UpTo(m)
    <3>1. ASSUME NEW i \in names, i <= k PROVE i <= m
      <4>1. i \in Nat /\ k \in Nat /\ m \in Nat
        OBVIOUS
      <4> QED
        BY <3>1, <4>1, <1>3
    <3> QED
      BY <3>1
  <2>2. m \in UpTo(m) /\ m \notin UpTo(k)
    BY <1>3
  <2> HIDE DEF UpTo
  <2>3. UpTo(k) # UpTo(m)
    BY <2>2
  <2> QED
    BY <1>1, <2>1, <2>3, FS_Subset
<1>4. Cardinality(names) \in Nat
  BY FS_CardinalityType
<1>5. \A k \in names : Place(k, names) = Cardinality(UpTo(k))
  BY DEF Place
<1> HIDE DEF UpTo
<1>6. ASSUME NEW m \in names, Place(m, names) = Place(n, names) PROVE m = n
  <2>1. m < n \/ n < m \/ m = n
    OBVIOUS
  <2> QED
    BY <1>3, <1>5, <1>6, <2>1
<1> QED
  BY <1>1, <1>2, <1>4, <1>5, <1>6

\* The names of finitely many rows are finitely many.
LEMMA NamesAreFinite ==
  ASSUME NEW rows \in SUBSET OldRows
  PROVE  {r.name : r \in rows} \in SUBSET Nat /\ IsFiniteSet({r.name : r \in rows})
<1> DEFINE nameOf == [r \in rows |-> r.name]
<1>1. IsFiniteSet(rows)
  BY OldRowsAssumption, FS_Subset
<1>2. nameOf \in Surjection(rows, {r.name : r \in rows})
  BY DEF Surjection
<1>3. IsFiniteSet({r.name : r \in rows})
  BY <1>1, <1>2, FS_Surjection
<1> QED
  BY <1>3, OldRowsAssumption

\* In a file of released servers a row has no identifier, or that of its name.
LEMMA IdInit == StartInit => IdInv
<1> SUFFICES ASSUME StartInit PROVE IdInv
  OBVIOUS
<1>0. phase = "down"
  BY DEF StartInit
<1> DEFINE Ids(rows) == [r \in OldRows |-> IF r \in rows THEN Place(r.name, OldNames) ELSE NoId]
<1>1. PICK v \in 0 .. 3, identified \in SUBSET OldRows :
        /\ identified = {} \/ v = 3
        /\ contextId = IF v = 0 THEN << >> ELSE Ids(identified)
        /\ uuids = IF v = 3 THEN Cardinality(OldNames) ELSE 0
  BY ScriptLengths DEF StartInit
<1>2. \/ contextId = << >> /\ uuids = 0
      \/ contextId = [r \in OldRows |-> NoId] /\ uuids = 0
      \/ contextId = Ids(identified) /\ uuids = Cardinality(OldNames)
  BY <1>1
<1>3. CASE contextId = << >> /\ uuids = 0
  BY <1>0, <1>3 DEF IdInv
<1>4. CASE contextId = [r \in OldRows |-> NoId] /\ uuids = 0
  BY <1>0, <1>4 DEF IdInv, NoId
<1>5. CASE contextId = Ids(identified) /\ uuids = Cardinality(OldNames)
  <2>1. OldNames \in SUBSET Nat /\ IsFiniteSet(OldNames)
    BY NamesAreFinite DEF OldNames
  <2>2. \A r \in OldRows : r.name \in OldNames
    BY DEF OldNames
  <2>3. uuids \in Nat
    BY <1>5, <2>1, FS_CardinalityType
  <2>4. \A r \in OldRows : Place(r.name, OldNames) \in 1 .. Cardinality(OldNames)
    BY <2>1, <2>2, PlaceNumbers
  <2>5. \A r, q \in OldRows : Place(r.name, OldNames) = Place(q.name, OldNames) => r.name = q.name
    BY <2>1, <2>2, PlaceNumbers
  <2> QED
    BY <1>0, <1>5, <2>3, <2>4, <2>5 DEF IdInv, NoId
<1> QED
  BY <1>2, <1>3, <1>4, <1>5

\* The backfill gives a new identifier to every row of a context of which a row
\* has none, and leaves the other contexts alone.
LEMMA BackfillKeepsIds ==
  ASSUME IdInv, Backfill
  PROVE  /\ IdInv'
         /\ \A r \in DOMAIN contextId :
              (\A q \in DOMAIN contextId : q.name = r.name => contextId[q] # NoId) =>
                contextId'[r] = contextId[r]
<1> DEFINE rows == DOMAIN contextId
           New(r) == r.name \in Unidentified
<1>1. /\ contextId' = [r \in rows |-> BackfilledId(r)]
      /\ uuids' = uuids + Cardinality(Unidentified)
  BY DEF Backfill
<1>2. Unidentified \in SUBSET Nat /\ IsFiniteSet(Unidentified)
  BY NamesAreFinite DEF IdInv, Unidentified
<1>3. Cardinality(Unidentified) \in Nat /\ uuids \in Nat
  BY <1>2, FS_CardinalityType DEF IdInv
<1>4. \A r \in rows : New(r) <=> \E q \in rows : q.name = r.name /\ contextId[q] = NoId
  BY DEF Unidentified
<1>5. \A r \in rows : contextId'[r] = IF New(r) THEN uuids + Place(r.name, Unidentified)
                                      ELSE contextId[r]
  BY <1>1 DEF BackfilledId
<1>6. \A n \in Unidentified : Place(n, Unidentified) \in 1 .. Cardinality(Unidentified)
  BY <1>2, PlaceNumbers
<1>7. \A n, m \in Unidentified : Place(n, Unidentified) = Place(m, Unidentified) => n = m
  BY <1>2, PlaceNumbers
<1>8. DOMAIN contextId' = rows
  BY <1>1
<1>9. \A r \in rows : contextId[r] \in 0 .. uuids /\ (~New(r) => contextId[r] # NoId)
  BY <1>4 DEF IdInv
<1> HIDE DEF New
<1>10. \A r \in rows : /\ contextId'[r] \in 1 .. uuids'
                       /\ New(r) <=> contextId'[r] > uuids
  <2> SUFFICES ASSUME NEW r \in rows
               PROVE  contextId'[r] \in 1 .. uuids' /\ (New(r) <=> contextId'[r] > uuids)
    OBVIOUS
  <2>1. CASE New(r)
    <3>1. Place(r.name, Unidentified) \in 1 .. Cardinality(Unidentified)
      BY <1>6, <2>1 DEF New
    <3> QED
      BY <1>1, <1>3, <1>5, <2>1, <3>1
  <2>2. CASE ~New(r)
    BY <1>1, <1>3, <1>5, <1>9, <2>2 DEF NoId
  <2> QED
    BY <2>1, <2>2
<1>11. ASSUME NEW r \in rows, NEW q \in rows, r.name = q.name
       PROVE  contextId'[r] = contextId'[q]
  <2>1. New(r) <=> New(q)
    BY <1>11 DEF New
  <2> QED
    BY <1>5, <1>9, <1>11, <2>1 DEF IdInv
<1>12. ASSUME NEW r \in rows, NEW q \in rows, contextId'[r] = contextId'[q]
       PROVE  r.name = q.name
  <2>1. New(r) <=> New(q)
    BY <1>10, <1>12
  <2>2. CASE New(r)
    <3>1. r.name \in Unidentified /\ q.name \in Unidentified
      BY <2>1, <2>2 DEF New
    <3>2. uuids + Place(r.name, Unidentified) = uuids + Place(q.name, Unidentified)
      BY <1>5, <1>12, <2>1, <2>2
    <3>3. Place(r.name, Unidentified) = Place(q.name, Unidentified)
      BY <1>3, <1>6, <3>1, <3>2
    <3> QED
      BY <1>7, <3>1, <3>3
  <2>3. CASE ~New(r)
    BY <1>5, <1>9, <1>12, <2>1, <2>3 DEF IdInv
  <2> QED
    BY <2>2, <2>3
<1>13. IdInv'
  BY <1>1, <1>3, <1>8, <1>10, <1>11, <1>12 DEF IdInv, NoId
<1> QED
  BY <1>4, <1>5, <1>13 DEF New

\* Nothing else touches an identifier, and a process gets past the backfill only
\* through it.
LEMMA OnlyBackfillIdentifies ==
  ASSUME [Next]_vars
  PROVE  \/ Backfill
         \/ /\ UNCHANGED <<contextId, uuids>>
            /\ phase' \in {"loading", "serving"} => phase \in {"loading", "serving"}
<1>1. CASE StartStep \/ EnvironmentFails
  BY <1>1 DEF StartStep, OpenDatabase, RunStatement, StatementFails, Migrated, HydrationFails,
     EnvironmentFails
<1>2. CASE LoadEngine \/ Stop \/ Crash \/ UNCHANGED startVars
  BY <1>2 DEF LoadEngine, Stop, Crash, startVars
<1> QED
  BY <1>1, <1>2, ServingKeepsStart

LEMMA IdNext == IdInv /\ [Next]_vars => IdInv'
<1> SUFFICES ASSUME IdInv, [Next]_vars PROVE IdInv'
  OBVIOUS
<1>1. CASE Backfill
  BY <1>1, BackfillKeepsIds
<1>2. CASE /\ UNCHANGED <<contextId, uuids>>
           /\ phase' \in {"loading", "serving"} => phase \in {"loading", "serving"}
  BY <1>2 DEF IdInv
<1> QED
  BY <1>1, <1>2, OnlyBackfillIdentifies

\* No two contexts share an identifier, and the engine finds all versions of a
\* context under one, however often the backfill runs and whichever rows had one
\* (context_catalog.py:46-77).
THEOREM OneIdPerContextCorrect == Spec => []OneIdPerContext
<1>1. Init => IdInv
  BY IdInit DEF Init
<1>2. IdInv /\ [Next]_vars => IdInv'
  BY IdNext
<1>3. IdInv => OneIdPerContext
  BY DEF IdInv, OneIdPerContext
<1> QED
  BY <1>1, <1>2, <1>3, PTL DEF Spec

\* The identifier of a context of which every version has one is kept, whatever
\* crashes and restarts follow (context_catalog.py:51).
THEOREM IdsAreStableCorrect == Spec => IdsAreStable
<1> DEFINE Kept ==
      \A r \in DOMAIN contextId :
        (\A q \in DOMAIN contextId : q.name = r.name => contextId[q] # NoId) =>
          contextId'[r] = contextId[r]
<1>1. Init => IdInv
  BY IdInit DEF Init
<1>2. IdInv /\ [Next]_vars => IdInv'
  BY IdNext
<1>3. IdInv /\ [Next]_vars => [Kept]_contextId
  BY OnlyBackfillIdentifies, BackfillKeepsIds
<1>4. [][Kept]_contextId => IdsAreStable
  BY DEF IdsAreStable
<1> HIDE DEF Kept
<1> QED
  BY <1>1, <1>2, <1>3, <1>4, PTL DEF Spec

-----------------------------------------------------------------------------
(* Types, and the tables of the connection and of the last commit *)

\* A released server's file and the start of a new one.
LEMMA StartTypeInit == StartInit => StartTypeOK
<1> SUFFICES ASSUME StartInit PROVE StartTypeOK
  OBVIOUS
<1>1. schema \subseteq Schema /\ phase \in Phases
  BY SchemaInit DEF SchemaInv
<1>2. OldNames \in SUBSET Nat /\ IsFiniteSet(OldNames)
  BY NamesAreFinite DEF OldNames
<1>3. \A r \in OldRows : Place(r.name, OldNames) \in Nat
  BY <1>2, PlaceNumbers DEF OldNames
<1>4. contextId \in [OldRows -> Nat] \/ contextId = << >>
  BY <1>3 DEF StartInit, NoId
<1>5. uuids \in Nat
  BY IdInit DEF IdInv
<1>6. script = 1 /\ statement = 1 /\ crashes = 0 /\ refused = FALSE /\ corrupt \in BOOLEAN
  BY DEF StartInit
<1>7. script \in 1 .. Len(Scripts) + 1 /\ crashes \in 0 .. MaxCrashes
  BY <1>6, ScriptLengths, MaxCrashesAssumption
<1>8. statement \in Nat \ {0}
  BY <1>6
<1>9. refused \in BOOLEAN
  BY <1>6, Zenon
<1> QED
  BY <1>1, <1>4, <1>5, <1>6, <1>7, <1>8, <1>9, Zenon DEF StartTypeOK

\* A step of a start.
LEMMA StartKeepsTypes ==
  ASSUME StartTypeOK, SchemaInv, SchemaInv', IdInv, IdInv', StartStep \/ EnvironmentFails
  PROVE  StartTypeOK'
<1>1. schema' \subseteq Schema /\ phase' \in Phases /\ uuids' \in Nat
  BY DEF SchemaInv, IdInv
<1>2. refused' \in BOOLEAN /\ corrupt' \in BOOLEAN /\ crashes' \in 0 .. MaxCrashes
  <2>1. CASE OpenDatabase \/ StatementFails
    BY <2>1 DEF OpenDatabase, StatementFails, StartTypeOK
  <2>2. CASE RunStatement \/ Migrated \/ Backfill \/ HydrationFails
    BY <2>2 DEF RunStatement, Migrated, Backfill, HydrationFails, StartTypeOK
  <2>3. CASE EnvironmentFails
    BY <2>3, MaxCrashesAssumption DEF EnvironmentFails, StartTypeOK
  <2> QED
    BY <2>1, <2>2, <2>3 DEF StartStep
<1>3. script' \in 1 .. Len(Scripts) + 1 /\ statement' \in Nat \ {0}
  <2>1. CASE OpenDatabase
    BY <2>1, RecordedIsMax, ScriptLengths DEF OpenDatabase
  <2>2. CASE RunStatement
    BY <2>2, ScriptLengths DEF RunStatement, StartTypeOK
  <2>3. CASE StatementFails \/ Migrated \/ Backfill \/ HydrationFails \/ EnvironmentFails
    BY <2>3 DEF StatementFails, Migrated, Backfill, HydrationFails, EnvironmentFails, StartTypeOK
  <2> QED
    BY <2>1, <2>2, <2>3 DEF StartStep
<1>4. contextId' \in [OldRows -> Nat] \/ contextId' = << >>
  <2>1. CASE Backfill
    <3>1. contextId' = [r \in DOMAIN contextId |-> BackfilledId(r)]
      BY <2>1 DEF Backfill
    <3>2. \A r \in DOMAIN contextId : contextId'[r] \in Nat
      BY <3>1 DEF IdInv
    <3> QED
      BY <3>1, <3>2 DEF StartTypeOK
  <2>2. CASE ~Backfill
    BY <2>2 DEF StartStep, OpenDatabase, RunStatement, StatementFails, Migrated,
       HydrationFails, EnvironmentFails, StartTypeOK
  <2> QED
    BY <2>1, <2>2
<1> QED
  BY <1>1, <1>2, <1>3, <1>4 DEF StartTypeOK

\* What a row that is added at the end of a table leaves alone.
LEMMA Appended ==
  ASSUME NEW S, NEW rows \in Seq(S), NEW m \in S, NEW longer, longer = Append(rows, m)
  PROVE  /\ longer \in Seq(S) /\ Len(rows) \in Nat /\ DOMAIN rows = 1 .. Len(rows)
         /\ Len(longer) = Len(rows) + 1 /\ DOMAIN longer = 1 .. Len(rows) + 1
         /\ \A i \in 1 .. Len(rows) : longer[i] = rows[i]
         /\ longer[Len(rows) + 1] = m
OBVIOUS

LEMMA AppendedSet ==
  ASSUME NEW S, NEW rows \in Seq(S), NEW m \in S
  PROVE  ToSet(Append(rows, m)) = ToSet(rows) \cup {m} /\ Len(Append(rows, m)) = Len(rows) + 1
<1> DEFINE longer == Append(rows, m)
<1>1. /\ longer \in Seq(S) /\ Len(rows) \in Nat /\ DOMAIN rows = 1 .. Len(rows)
      /\ Len(longer) = Len(rows) + 1 /\ DOMAIN longer = 1 .. Len(rows) + 1
      /\ \A i \in 1 .. Len(rows) : longer[i] = rows[i]
      /\ longer[Len(rows) + 1] = m
  OBVIOUS
<1>2. 1 .. Len(rows) + 1 = 1 .. Len(rows) \cup {Len(rows) + 1}
  BY <1>1
<1> QED
  BY <1>1, <1>2 DEF ToSet

\* What a step may do with the tables: nothing, a commit, a rollback, or one
\* statement of a request.
Same == db' = db /\ saved' = saved
Committed == db' = db /\ saved' = db
Rewound == db' = saved /\ saved' = saved

Inserted(p, n) ==
  p \in Providers /\ db' = [db EXCEPT !.providers = @ \cup {p}, !.changed = @ \cup {n}]
Mapped(m, n) ==
  /\ m \in MapRows /\ Fresh(m)
  /\ db' = [db EXCEPT !.maps = Append(@, m), !.changed = @ \cup {n}]
Updated(n) == db' = [db EXCEPT !.changed = @ \cup {n}]
Logged(n) == db' = [db EXCEPT !.log = Append(@, n)]

Written(n) ==
  /\ saved' = saved /\ phase = "serving" /\ phase' = "serving"
  /\ (\E p : Inserted(p, n)) \/ (\E m : Mapped(m, n)) \/ Updated(n) \/ Logged(n)

RequestTypes == [Threads -> [step : Steps, change : Nat, provider : Providers \cup {Nobody}]]

LEMMA TableSteps ==
  ASSUME pending \in RequestTypes, changes \in Nat, [Next]_vars
  PROVE  \/ Same /\ (phase' # "serving" => phase # "serving")
         \/ Committed
         \/ Rewound
         \/ \E n \in Nat : Written(n)
<1>1. ASSUME NEW t \in Threads, Request(t)
      PROVE  (Same /\ phase' = phase) \/ Committed \/ \E n \in Nat : Written(n)
  <2>1. pending[t].change \in Nat /\ changes + 1 \in Nat
    BY DEF RequestTypes
  <2>2. ASSUME NEW p \in Providers, Register(t, p) PROVE Written(changes + 1)
    BY <2>2 DEF Register, Begin, Written, Inserted, startVars
  <2>3. ASSUME NEW p \in Providers, Find(t, p) PROVE Same /\ phase' = phase
    BY <2>3 DEF Find, Begin, Same, startVars
  <2>4. ASSUME NEW m \in MapRows, RegisterMap(t, m) PROVE Written(changes + 1)
    BY <2>4 DEF RegisterMap, Begin, Written, Mapped, startVars
  <2>5. CASE Update(t)
    <3>1. (Same /\ phase' = phase) \/ Written(pending[t].change)
      BY <2>5 DEF Update, Same, Written, Updated, startVars
    <3> QED
      BY <2>1, <3>1
  <2>6. CASE Log(t)
    <3>1. Written(pending[t].change)
      BY <2>6 DEF Log, Written, Logged, startVars
    <3> QED
      BY <2>1, <3>1
  <2>7. CASE CommitChange(t) \/ CommitLog(t) \/ Raise(t)
    BY <2>7 DEF CommitChange, CommitLog, Raise, Committed, Same, startVars
  <2> QED
    BY <1>1, <2>1, <2>2, <2>3, <2>4, <2>5, <2>6, <2>7 DEF Request
<1>2. CASE \E table \in {"providers", "log"} : StartListing(table)
  BY <1>2 DEF StartListing, Read, Same, startVars
<1>3. CASE CountRows \/ SelectRows \/ UNCHANGED vars
  BY <1>3 DEF CountRows, SelectRows, Read, vars, Same, startVars
<1>4. CASE ServerStart \/ StartInterrupted
  BY <1>4 DEF ServerStart, StartInterrupted, Start, StartStep, OpenDatabase, RunStatement,
     StatementFails, Migrated, Backfill, HydrationFails, EnvironmentFails, Same
<1>5. CASE LoadEngine
  BY <1>5 DEF LoadEngine, Same
<1>6. CASE CommitElsewhere \/ Stop
  BY <1>6 DEF CommitElsewhere, Stop, Committed
<1>7. CASE RollBackElsewhere \/ Crash
  BY <1>7 DEF RollBackElsewhere, Crash, Rewind, Rewound
<1> QED
  BY <1>1, <1>2, <1>3, <1>4, <1>5, <1>6, <1>7 DEF Next

Unique(rows) ==
  \A i, j \in DOMAIN rows :
    rows[i].name = rows[j].name /\ rows[i].namespace = rows[j].namespace => i = j

\* The connection sees what the last commit left and more; a process that does
\* not serve has no transaction open.
TablesInv ==
  /\ db \in Tables /\ saved \in Tables
  /\ Unique(db.maps) /\ Unique(saved.maps)
  /\ saved.changed \subseteq db.changed
  /\ ToSet(saved.log) \subseteq ToSet(db.log)
  /\ saved.providers \subseteq db.providers
  /\ Len(saved.log) <= Len(db.log)
  /\ Len(saved.maps) <= Len(db.maps)
  /\ \A i \in 1 .. Len(saved.maps) : db.maps[i] = saved.maps[i]
  /\ phase # "serving" => db = saved

\* One statement: what it makes of each table.
LEMMA WrittenTables ==
  ASSUME db \in Tables, Unique(db.maps), NEW n \in Nat, Written(n)
  PROVE  /\ db' \in Tables /\ Unique(db'.maps) /\ saved' = saved
         /\ db.providers \subseteq db'.providers
         /\ db'.changed \subseteq db.changed \cup {n} /\ db.changed \subseteq db'.changed
         /\ ToSet(db'.log) \subseteq ToSet(db.log) \cup {n} /\ ToSet(db.log) \subseteq ToSet(db'.log)
         /\ Len(db.log) <= Len(db'.log) /\ Len(db.maps) <= Len(db'.maps)
         /\ \A i \in 1 .. Len(db.maps) : db'.maps[i] = db.maps[i]
<1>1. /\ db.providers \in SUBSET Providers /\ db.maps \in Seq(MapRows)
      /\ db.changed \in SUBSET Nat /\ db.log \in Seq(Nat)
      /\ Len(db.log) \in Nat /\ Len(db.maps) \in Nat /\ saved' = saved
  BY DEF Tables, Written
<1>2. ASSUME NEW p, Inserted(p, n)
      PROVE  /\ db' \in Tables
             /\ db'.providers = db.providers \cup {p} /\ db'.changed = db.changed \cup {n}
             /\ db'.maps = db.maps /\ db'.log = db.log
  BY <1>1, <1>2 DEF Inserted, Tables
<1>3. ASSUME NEW m, Mapped(m, n)
      PROVE  /\ db' \in Tables /\ m \in MapRows /\ Fresh(m)
             /\ db'.providers = db.providers /\ db'.changed = db.changed \cup {n}
             /\ db'.maps = Append(db.maps, m) /\ db'.log = db.log
  <2>1. m \in MapRows /\ Fresh(m)
    BY <1>3 DEF Mapped
  <2>2. Append(db.maps, m) \in Seq(MapRows)
    BY <1>1, <2>1
  <2>3. db' = [db EXCEPT !.maps = Append(db.maps, m), !.changed = db.changed \cup {n}]
    BY <1>3 DEF Mapped
  <2> QED
    BY <1>1, <2>1, <2>2, <2>3 DEF Tables
<1>4. ASSUME Updated(n)
      PROVE  /\ db' \in Tables
             /\ db'.providers = db.providers /\ db'.changed = db.changed \cup {n}
             /\ db'.maps = db.maps /\ db'.log = db.log
  BY <1>1, <1>4 DEF Updated, Tables
<1>5. ASSUME Logged(n)
      PROVE  /\ db' \in Tables
             /\ db'.providers = db.providers /\ db'.changed = db.changed
             /\ db'.maps = db.maps /\ db'.log = Append(db.log, n)
  <2>1. Append(db.log, n) \in Seq(Nat)
    BY <1>1
  <2>2. db' = [db EXCEPT !.log = Append(db.log, n)]
    BY <1>5 DEF Logged
  <2> QED
    BY <1>1, <2>1, <2>2 DEF Tables
<1>6. ASSUME NEW m, Mapped(m, n)
      PROVE  /\ Unique(db'.maps) /\ Len(db.maps) <= Len(db'.maps)
             /\ \A i \in 1 .. Len(db.maps) : db'.maps[i] = db.maps[i]
  <2>1. /\ DOMAIN db.maps = 1 .. Len(db.maps) /\ Len(db'.maps) = Len(db.maps) + 1
        /\ DOMAIN db'.maps = 1 .. Len(db.maps) + 1
        /\ \A i \in 1 .. Len(db.maps) : db'.maps[i] = db.maps[i]
        /\ db'.maps[Len(db.maps) + 1] = m
    <3>1. db'.maps = Append(db.maps, m) /\ db.maps \in Seq(MapRows) /\ m \in MapRows
      BY <1>1, <1>3, <1>6
    <3> QED
      BY <3>1, Appended
  <2>2. \A i \in DOMAIN db.maps : db.maps[i].name = m.name => db.maps[i].namespace # m.namespace
    BY <1>3, <1>6 DEF Fresh
  <2>3. \A i \in DOMAIN db'.maps : i \in DOMAIN db.maps \/ i = Len(db.maps) + 1
    BY <1>1, <2>1
  <2> DEFINE longer == db'.maps
             rows == db.maps
  <2>4. \A i, j \in DOMAIN rows :
          rows[i].name = rows[j].name /\ rows[i].namespace = rows[j].namespace => i = j
    BY DEF Unique
  <2>5. \A i \in DOMAIN longer : i \in DOMAIN rows \/ i = Len(rows) + 1
    BY <2>3
  <2>6. /\ \A i \in DOMAIN rows : longer[i] = rows[i]
        /\ longer[Len(rows) + 1] = m
        /\ \A i \in DOMAIN rows : rows[i].name = m.name => rows[i].namespace # m.namespace
    BY <2>1, <2>2
  <2>7. Len(rows) \in Nat /\ Len(longer) = Len(rows) + 1
        /\ \A i \in 1 .. Len(rows) : longer[i] = rows[i]
    BY <1>1, <2>1
  <2> HIDE DEF longer, rows
  <2>8. Unique(longer)
    BY <2>4, <2>5, <2>6 DEF Unique
  <2> QED
    BY <2>7, <2>8 DEF longer, rows
<1>7. ASSUME Logged(n)
      PROVE  ToSet(db'.log) = ToSet(db.log) \cup {n} /\ Len(db'.log) = Len(db.log) + 1
  <2>1. db'.log = Append(db.log, n) /\ db.log \in Seq(Nat)
    BY <1>1, <1>5, <1>7
  <2> QED
    BY <2>1, AppendedSet
<1>8. CASE \E p : Inserted(p, n)
  BY <1>1, <1>2, <1>8
<1>9. CASE \E m : Mapped(m, n)
  BY <1>1, <1>3, <1>6, <1>9
<1>10. CASE Updated(n)
  BY <1>1, <1>4, <1>10
<1>11. CASE Logged(n)
  BY <1>1, <1>5, <1>7, <1>11
<1> QED
  BY <1>8, <1>9, <1>10, <1>11 DEF Written

LEMMA TablesNext ==
  ASSUME pending \in RequestTypes, changes \in Nat, TablesInv, [Next]_vars
  PROVE  TablesInv'
<1>1. /\ db.log \in Seq(Nat) /\ saved.log \in Seq(Nat)
      /\ db.maps \in Seq(MapRows) /\ saved.maps \in Seq(MapRows)
  BY DEF TablesInv, Tables
<1>2. /\ Len(db.log) \in Nat /\ Len(saved.log) \in Nat
      /\ Len(db.maps) \in Nat /\ Len(saved.maps) \in Nat
  BY <1>1
<1>3. CASE Same /\ (phase' # "serving" => phase # "serving")
  BY <1>3 DEF Same, TablesInv
<1>4. CASE Committed
  BY <1>2, <1>4 DEF Committed, TablesInv
<1>5. CASE Rewound
  BY <1>2, <1>5 DEF Rewound, TablesInv
<1>6. ASSUME NEW n \in Nat, Written(n) PROVE TablesInv'
  <2>1. phase' = "serving"
    BY <1>6 DEF Written
  <2>2. db'.log \in Seq(Nat) /\ db'.maps \in Seq(MapRows)
    BY <1>6, WrittenTables DEF TablesInv, Tables
  <2>3. Len(db'.log) \in Nat /\ Len(db'.maps) \in Nat
    BY <2>2
  <2>4. \A i \in 1 .. Len(saved.maps) : i \in 1 .. Len(db.maps)
    BY <1>2 DEF TablesInv
  <2> QED
    BY <1>2, <1>6, <2>1, <2>3, <2>4, WrittenTables DEF TablesInv
<1> QED
  BY <1>3, <1>4, <1>5, <1>6, TableSteps

\* Every step.
LEMMA TypeNext ==
  ASSUME TypeOK, TablesInv', SchemaInv, SchemaInv', IdInv, IdInv', [Next]_vars
  PROVE  TypeOK'
<1>1. StartTypeOK'
  <2>1. CASE StartStep \/ EnvironmentFails
    BY <2>1, StartKeepsTypes DEF TypeOK
  <2>2. CASE LoadEngine \/ Stop
    BY <2>2 DEF LoadEngine, Stop, TypeOK, StartTypeOK, Phases
  <2>3. CASE Crash
    BY <2>3, MaxCrashesAssumption DEF Crash, TypeOK, StartTypeOK, Phases
  <2>4. CASE UNCHANGED startVars
    BY <2>4 DEF startVars, TypeOK, StartTypeOK
  <2> QED
    BY <2>1, <2>2, <2>3, <2>4, ServingKeepsStart
<1>2. db' \in Tables /\ saved' \in Tables /\ Unique(db'.maps)
  BY DEF TablesInv
<1>3. /\ db \in Tables /\ saved \in Tables /\ pending \in RequestTypes /\ changes \in Nat
      /\ answered \subseteq Nat /\ undone \subseteq Nat /\ unlogged \subseteq Nat /\ loaded \in Nat
  BY DEF TypeOK, RequestTypes
<1>4. /\ pending' \in RequestTypes /\ changes' \in Nat /\ answered' \subseteq Nat
      /\ undone' \subseteq Nat /\ unlogged' \subseteq Nat /\ loaded' \in Nat
  <2>1. NoRequest \in [step : Steps, change : Nat, provider : Providers \cup {Nobody}]
    BY DEF NoRequest, Steps
  <2>2. ASSUME NEW t \in Threads, NEW step \in Steps, NEW p \in Providers \cup {Nobody},
               Begin(t, step, p)
        PROVE  /\ pending' \in RequestTypes /\ changes' \in Nat
               /\ UNCHANGED <<answered, unlogged, loaded>>
    <3>1. [step |-> step, change |-> changes + 1, provider |-> p] \in
            [step : Steps, change : Nat, provider : Providers \cup {Nobody}]
      BY <1>3
    <3> QED
      BY <1>3, <2>2, <3>1 DEF Begin, RequestTypes, engineVars
  <2>3. ASSUME NEW t \in Threads,
               \/ \E p \in Providers : Register(t, p) \/ Find(t, p)
               \/ \E m \in MapRows : RegisterMap(t, m)
        PROVE  /\ pending' \in RequestTypes /\ changes' \in Nat
               /\ UNCHANGED <<answered, undone, unlogged, loaded>>
    <3>1. "commit" \in Steps /\ "update" \in Steps /\ Nobody \in Providers \cup {Nobody}
      BY DEF Steps
    <3> QED
      BY <2>2, <2>3, <3>1 DEF Register, Find, RegisterMap
  <2>4. ASSUME NEW t \in Threads, Update(t) \/ CommitChange(t) \/ Log(t)
        PROVE  /\ pending' \in RequestTypes /\ undone' \subseteq Nat
               /\ UNCHANGED <<changes, answered, unlogged, loaded>>
    <3>1. pending[t].change \in Nat
      BY <1>3 DEF RequestTypes
    <3>2. \E step \in Steps : pending' = [pending EXCEPT ![t].step = step]
      BY <2>4 DEF Update, CommitChange, Log, Steps
    <3>3. PICK step \in Steps : pending' = [pending EXCEPT ![t].step = step]
      BY <3>2
    <3>4. pending' \in RequestTypes
      BY <1>3, <3>3 DEF RequestTypes
    <3>5. undone' \subseteq Nat
      BY <1>3, <2>4, <3>1 DEF Update, CommitChange, Log
    <3>6. UNCHANGED <<changes, answered, unlogged, loaded>>
      BY <2>4 DEF Update, CommitChange, Log, engineVars
    <3> QED
      BY <3>4, <3>5, <3>6
  <2>5. ASSUME NEW t \in Threads, CommitLog(t) \/ Raise(t)
        PROVE  /\ pending' \in RequestTypes /\ answered' \subseteq Nat
               /\ UNCHANGED <<changes, undone, unlogged, loaded>>
    <3>1. pending[t].change \in Nat
      BY <1>3 DEF RequestTypes
    <3>2. pending' = [pending EXCEPT ![t] = NoRequest]
      BY <2>5 DEF CommitLog, Raise
    <3>3. pending' \in RequestTypes
      BY <1>3, <2>1, <3>2 DEF RequestTypes
    <3> QED
      BY <1>3, <2>5, <3>1, <3>3 DEF CommitLog, Raise, engineVars
  <2>6. CASE RollBackElsewhere
    <3>1. db.changed \subseteq Nat /\ ToSet(db.log) \subseteq Nat
      BY <1>3 DEF Tables, ToSet
    <3> QED
      BY <1>3, <2>6, <3>1 DEF RollBackElsewhere, Rewind, requestVars, engineVars
  <2>7. CASE Crash
    BY <1>3, <2>1, <2>7 DEF Crash, RequestTypes
  <2>8. CASE LoadEngine
    <3>1. Len(db.maps) \in Nat
      BY <1>3 DEF Tables
    <3> QED
      BY <1>3, <2>8, <3>1 DEF LoadEngine, requestVars
  <2>9. CASE ServerStart \/ StartInterrupted \/ CommitElsewhere \/ Stop
    BY <1>3, <2>9 DEF ServerStart, StartInterrupted, Start, CommitElsewhere, Stop, requestVars,
       engineVars
  <2>10. CASE \/ \E table \in {"providers", "log"} : StartListing(table)
              \/ CountRows \/ SelectRows \/ UNCHANGED vars
    BY <1>3, <2>10 DEF StartListing, CountRows, SelectRows, Read, vars, requestVars, engineVars
  <2> QED
    BY <1>3, <2>3, <2>4, <2>5, <2>6, <2>7, <2>8, <2>9, <2>10 DEF Next, Request
<1> QED
  BY <1>1, <1>2, <1>4 DEF TypeOK, RequestTypes, Unique

\* The invariant that the theorems below share.
BaseInv == TypeOK /\ TablesInv /\ SchemaInv /\ IdInv

LEMMA BaseCorrect == Spec => []BaseInv
<1>1. Init => BaseInv
  <2> SUFFICES ASSUME Init PROVE BaseInv
    OBVIOUS
  <2>1. db = NoTables /\ saved = NoTables /\ NoTables \in Tables
    BY DEF Init, NoTables, Tables
  <2>2. NoTables.maps = << >> /\ NoTables.log = << >>
    BY DEF NoTables
  <2>3. TablesInv
    BY <2>1, <2>2 DEF TablesInv, Unique
  <2>4. TypeOK
    BY <2>1, <2>2, StartTypeInit DEF Init, TypeOK, NoRequest, Steps
  <2> QED
    BY <2>3, <2>4, SchemaInit, IdInit DEF Init, BaseInv
<1>2. BaseInv /\ [Next]_vars => BaseInv'
  <2> SUFFICES ASSUME BaseInv, [Next]_vars PROVE BaseInv'
    OBVIOUS
  <2>1. SchemaInv' /\ IdInv'
    BY SchemaNext, IdNext DEF BaseInv
  <2>2. TablesInv'
    BY TablesNext DEF BaseInv, TypeOK, RequestTypes
  <2> QED
    BY <2>1, <2>2, TypeNext DEF BaseInv
<1> QED
  BY <1>1, <1>2, PTL DEF Spec

\* Tables, requests under way and what the start has reached keep their types,
\* and no two identity maps have one name and namespace
\* (identity_service.py:37-47).
THEOREM TypeCorrect == Spec => []TypeOK
<1>1. BaseInv => TypeOK
  BY DEF BaseInv
<1> QED
  BY <1>1, BaseCorrect, PTL

-----------------------------------------------------------------------------
(* The engine's identity maps *)

\* Of the rows of one name there is a last one.
LEMMA LastOfName ==
  ASSUME NEW n \in Nat, NEW I \in SUBSET (1 .. n), I # {}
  PROVE  Max(I) \in I /\ \A j \in I : Max(I) >= j
<1> DEFINE U == {n - i : i \in I}
<1>1. U \subseteq Nat /\ U # {}
  <2>1. \A i \in I : i \in 1 .. n /\ n - i \in Nat
    OBVIOUS
  <2> QED
    BY <2>1
<1>2. PICK u \in U : \A y \in U : ~(<<y, u>> \in OpToRel(<, Nat))
  <2> HIDE DEF U
  <2> QED
    BY <1>1, NatLessThanWellFounded, WFMin
<1>3. \A y \in U : ~(y < u)
  <2> HIDE DEF U
  <2> QED
    BY <1>1, <1>2 DEF OpToRel
<1>4. PICK i \in I : u = n - i
  BY <1>2
<1>5. \A j \in I : ~(n - j < n - i)
  BY <1>3, <1>4
<1>6. \A j \in I : i >= j
  BY <1>5
<1> QED
  BY <1>6 DEF Max

\* What sync_to_engine() loads: under each name the path of its last row.
LEMMA LoadedMaps ==
  ASSUME db.maps \in Seq(MapRows), NEW i \in DOMAIN db.maps,
         \A j \in i + 1 .. Len(db.maps) : db.maps[j].name # db.maps[i].name
  PROVE  MapsByName[db.maps[i].name] = db.maps[i].path
<1> DEFINE name == db.maps[i].name
           I == {j \in 1 .. Len(db.maps) : db.maps[j].name = name}
<1>1. Len(db.maps) \in Nat /\ DOMAIN db.maps = 1 .. Len(db.maps)
  OBVIOUS
<1>2. i \in I /\ \A j \in I : ~(j > i)
  BY <1>1
<1>3. SelectLastInSeq(db.maps, LAMBDA m : m.name = name) = Max(I)
  BY <1>2 DEF SelectLastInSeq
<1>4. Max(I) \in I /\ \A j \in I : Max(I) >= j
  <2>1. I \in SUBSET (1 .. Len(db.maps)) /\ I # {}
    BY <1>2
  <2> HIDE DEF I
  <2> QED
    BY <1>1, <2>1, LastOfName
<1>5. Max(I) = i
  <2>1. I \subseteq Int
    BY <1>1
  <2> HIDE DEF I
  <2> QED
    BY <1>2, <1>4, <2>1
<1>6. MapsByName[name] = db.maps[SelectLastInSeq(db.maps, LAMBDA m : m.name = name)].path
  BY DEF MapsByName
<1> QED
  BY <1>3, <1>5, <1>6

\* The engine keeps what it has loaded as long as the committed rows do.
LEMMA EngineKeeps ==
  ASSUME TablesInv, TablesInv', loaded \in Nat, EngineServesRegisteredMaps,
         UNCHANGED <<engineMaps, loaded>>, phase' = "serving" => phase = "serving",
         saved' = saved \/ saved' = db
  PROVE  EngineServesRegisteredMaps'
<1> SUFFICES ASSUME phase' = "serving" PROVE EngineServesRegisteredMaps'
  BY DEF EngineServesRegisteredMaps
<1> DEFINE rows == saved.maps
           later == saved'.maps
<1>1. rows \in Seq(MapRows) /\ later \in Seq(MapRows) /\ Len(rows) \in Nat /\ Len(later) \in Nat
  BY DEF TablesInv, Tables
<1>2. Len(rows) <= Len(later) /\ \A i \in 1 .. Len(rows) : later[i] = rows[i]
  <2>1. CASE saved' = saved
    BY <1>1, <2>1
  <2>2. CASE saved' = db
    BY <2>2 DEF TablesInv
  <2> QED
    BY <2>1, <2>2
<1>3. /\ loaded <= Len(rows)
      /\ DOMAIN engineMaps = {rows[i].name : i \in 1 .. loaded}
      /\ \A i \in 1 .. loaded :
           (\A j \in i + 1 .. loaded : rows[j].name # rows[i].name) =>
             engineMaps[rows[i].name] = rows[i].path
  BY DEF EngineServesRegisteredMaps
<1>4. EngineServesRegisteredMaps' =
        (phase' = "serving" =>
           /\ loaded <= Len(later)
           /\ DOMAIN engineMaps = {later[i].name : i \in 1 .. loaded}
           /\ \A i \in 1 .. loaded :
                (\A j \in i + 1 .. loaded : later[j].name # later[i].name) =>
                  engineMaps[later[i].name] = later[i].path)
  BY DEF EngineServesRegisteredMaps
<1> HIDE DEF rows, later
<1>5. \A i \in 1 .. loaded : later[i] = rows[i]
  BY <1>1, <1>2, <1>3
<1>6. \A i \in 1 .. loaded : \A j \in i + 1 .. loaded : j \in 1 .. loaded
  OBVIOUS
<1>7. loaded <= Len(later)
  BY <1>1, <1>2, <1>3
<1>8. {later[i].name : i \in 1 .. loaded} = {rows[i].name : i \in 1 .. loaded}
  BY <1>5
<1>9. \A i \in 1 .. loaded :
        (\A j \in i + 1 .. loaded : later[j].name # later[i].name) =>
          engineMaps[later[i].name] = later[i].path
  BY <1>3, <1>5, <1>6
<1> QED
  BY <1>3, <1>4, <1>7, <1>8, <1>9

\* A process serves only after it has loaded the engine, which then is not told
\* of anything.
LEMMA OnlyLoadingTells ==
  ASSUME [Next]_vars
  PROVE  LoadEngine \/ phase' # "serving" \/ (phase = "serving" /\ UNCHANGED <<engineMaps, loaded>>)
<1>1. CASE \E t \in Threads : Request(t)
  BY <1>1 DEF Request, Begin, Register, Find, RegisterMap, Update, CommitChange, Log,
     CommitLog, Raise, startVars, engineVars
<1>2. CASE \/ CommitElsewhere \/ RollBackElsewhere
           \/ \E table \in {"providers", "log"} : StartListing(table)
           \/ CountRows \/ SelectRows \/ UNCHANGED vars
  BY <1>2 DEF CommitElsewhere, RollBackElsewhere, StartListing, CountRows, SelectRows, Read,
     vars, startVars, engineVars
<1>3. CASE ServerStart \/ StartInterrupted
  BY <1>3 DEF ServerStart, StartInterrupted, Start, StartStep, OpenDatabase, RunStatement,
     StatementFails, Migrated, Backfill, HydrationFails, EnvironmentFails
<1>4. CASE Stop \/ Crash
  BY <1>4 DEF Stop, Crash
<1> QED
  BY <1>1, <1>2, <1>3, <1>4 DEF Next

\* Loading gives the engine the committed maps, and nothing takes them away.
LEMMA EngineNext ==
  ASSUME BaseInv, BaseInv', EngineServesRegisteredMaps, [Next]_vars
  PROVE  EngineServesRegisteredMaps'
<1>1. CASE LoadEngine
  <2>1. /\ db = saved /\ saved' = saved
        /\ engineMaps' = MapsByName /\ loaded' = Len(saved.maps)
    BY <1>1 DEF LoadEngine, BaseInv, TablesInv
  <2>2. db.maps \in Seq(MapRows) /\ DOMAIN db.maps = 1 .. Len(db.maps)
    BY DEF BaseInv, TablesInv, Tables
  <2>3. DOMAIN MapsByName = {db.maps[i].name : i \in 1 .. Len(db.maps)}
    BY <2>2 DEF MapsByName
  <2>4. \A i \in 1 .. Len(db.maps) :
          (\A j \in i + 1 .. Len(db.maps) : db.maps[j].name # db.maps[i].name) =>
            MapsByName[db.maps[i].name] = db.maps[i].path
    BY <2>2, LoadedMaps
  <2>5. EngineServesRegisteredMaps' =
          (phase' = "serving" =>
             /\ loaded' <= Len(saved'.maps)
             /\ DOMAIN engineMaps' = {saved'.maps[i].name : i \in 1 .. loaded'}
             /\ \A i \in 1 .. loaded' :
                  (\A j \in i + 1 .. loaded' : saved'.maps[j].name # saved'.maps[i].name) =>
                    engineMaps'[saved'.maps[i].name] = saved'.maps[i].path)
    BY DEF EngineServesRegisteredMaps
  <2> DEFINE rows == saved.maps
             byName == MapsByName
  <2>6. saved'.maps = rows /\ engineMaps' = byName /\ loaded' = Len(rows) /\ Len(rows) \in Nat
    BY <2>1, <2>2
  <2>7. /\ DOMAIN byName = {rows[i].name : i \in 1 .. Len(rows)}
        /\ \A i \in 1 .. Len(rows) :
             (\A j \in i + 1 .. Len(rows) : rows[j].name # rows[i].name) =>
               byName[rows[i].name] = rows[i].path
    BY <2>1, <2>3, <2>4
  <2> HIDE DEF rows, byName
  <2>8. Len(rows) <= Len(rows)
    BY <2>6
  <2> QED
    BY <2>5, <2>6, <2>7, <2>8
<1>2. CASE phase = "serving" /\ phase' = "serving" /\ UNCHANGED <<engineMaps, loaded>>
  <2>1. saved' = saved \/ saved' = db
    BY TableSteps DEF BaseInv, TypeOK, RequestTypes, Same, Committed, Rewound, Written
  <2> QED
    BY <1>2, <2>1, EngineKeeps DEF BaseInv, TypeOK
<1>3. CASE phase' # "serving"
  BY <1>3 DEF EngineServesRegisteredMaps
<1> QED
  BY <1>1, <1>2, <1>3, OnlyLoadingTells

\* The engine has the maps that were registered before the server started and
\* none of those that came since, of a name the later one, and no rollback takes
\* one from under it (identity_service.py:97-110, main.py:62).
THEOREM EngineServesRegisteredMapsCorrect == Spec => []EngineServesRegisteredMaps
<1>1. Init => EngineServesRegisteredMaps
  BY DEF Init, StartInit, EngineServesRegisteredMaps
<1>2. BaseInv /\ BaseInv' /\ EngineServesRegisteredMaps /\ [Next]_vars => EngineServesRegisteredMaps'
  BY EngineNext
<1> QED
  BY <1>1, <1>2, BaseCorrect, PTL DEF Spec

-----------------------------------------------------------------------------
(* Answers and the audit log *)

\* What a request has executed or committed is there, unless a rollback took it.
Reached(t) ==
  /\ pending[t].step = "commit" => pending[t].change \in db.changed \cup undone
  /\ pending[t].step \in {"log", "commit log"} => pending[t].change \in saved.changed \cup undone
  /\ pending[t].step = "commit log" => pending[t].change \in ToSet(db.log) \cup unlogged

AuditInv ==
  /\ \A t \in Threads : Reached(t)
  /\ ToSet(db.log) \subseteq saved.changed \cup undone
  /\ answered \subseteq saved.changed \cup undone
  /\ answered \subseteq ToSet(saved.log) \cup unlogged

\* What a step that accounts for what it discards leaves of that.
Accounted ==
  /\ saved.changed \subseteq saved'.changed /\ ToSet(saved.log) \subseteq ToSet(saved'.log)
  /\ undone \subseteq undone' /\ unlogged \subseteq unlogged'
  /\ db.changed \subseteq db'.changed \cup undone'
  /\ ToSet(db.log) \subseteq ToSet(db'.log) \cup unlogged'

LEMMA AuditKeeps ==
  ASSUME AuditInv, Accounted
  PROVE  /\ \A t \in Threads : pending'[t] = pending[t] => Reached(t)'
         /\ answered \subseteq saved'.changed \cup undone'
         /\ answered \subseteq ToSet(saved'.log) \cup unlogged'
<1>1. ASSUME NEW t \in Threads, pending'[t] = pending[t] PROVE Reached(t)'
  <2>1. Reached(t)
    BY DEF AuditInv
  <2> QED
    BY <1>1, <2>1 DEF Reached, Accounted
<1> QED
  BY <1>1 DEF AuditInv, Accounted

\* The step of one request.
LEMMA RequestAudits ==
  ASSUME BaseInv, AuditInv, NEW t \in Threads, Request(t)
  PROVE  AuditInv'
<1>1. /\ saved.changed \subseteq db.changed /\ ToSet(saved.log) \subseteq ToSet(db.log)
      /\ db \in Tables /\ db.log \in Seq(Nat) /\ changes \in Nat
      /\ pending \in RequestTypes /\ pending[t].change \in Nat
  BY DEF BaseInv, TablesInv, TypeOK, RequestTypes, Tables
<1>2. Reached(t) /\ ToSet(db.log) \subseteq saved.changed \cup undone
  BY DEF AuditInv
<1>3. \A u \in Threads \ {t} : pending'[u] = pending[u]
  BY <1>1 DEF Request, Begin, Register, Find, RegisterMap, Update, CommitChange, Log,
     CommitLog, Raise, RequestTypes
<1>4. ASSUME Accounted, Reached(t)', ToSet(db'.log) \subseteq saved'.changed \cup undone',
             answered' = answered
      PROVE  AuditInv'
  BY <1>3, <1>4, AuditKeeps DEF AuditInv
<1>5. ASSUME NEW p \in Providers, Register(t, p)
      PROVE  AuditInv'
  <2>1. /\ db' = [db EXCEPT !.providers = @ \cup {p}, !.changed = @ \cup {changes + 1}]
        /\ pending'[t] = [step |-> "commit", change |-> changes + 1, provider |-> Nobody]
        /\ UNCHANGED <<saved, answered, undone, unlogged>>
    BY <1>1, <1>5 DEF Register, Begin, RequestTypes
  <2>2. db'.changed = db.changed \cup {changes + 1} /\ db'.log = db.log
    BY <1>1, <2>1 DEF Tables
  <2>3. pending'[t].step = "commit" /\ pending'[t].change = changes + 1
    BY <2>1
  <2>4. Reached(t)'
    BY <2>2, <2>3 DEF Reached
  <2>5. Accounted
    BY <2>1, <2>2 DEF Accounted
  <2> QED
    BY <1>2, <1>4, <2>1, <2>2, <2>4, <2>5
<1>6. ASSUME NEW m \in MapRows, RegisterMap(t, m)
      PROVE  AuditInv'
  <2>1. /\ db' = [db EXCEPT !.maps = Append(@, m), !.changed = @ \cup {changes + 1}]
        /\ pending'[t] = [step |-> "commit", change |-> changes + 1, provider |-> Nobody]
        /\ UNCHANGED <<saved, answered, undone, unlogged>>
    BY <1>1, <1>6 DEF RegisterMap, Begin, RequestTypes
  <2>2. db'.changed = db.changed \cup {changes + 1} /\ db'.log = db.log
    BY <1>1, <2>1 DEF Tables
  <2>3. pending'[t].step = "commit" /\ pending'[t].change = changes + 1
    BY <2>1
  <2>4. Reached(t)'
    BY <2>2, <2>3 DEF Reached
  <2>5. Accounted
    BY <2>1, <2>2 DEF Accounted
  <2> QED
    BY <1>2, <1>4, <2>1, <2>2, <2>4, <2>5
<1>7. ASSUME NEW p \in Providers, Find(t, p)
      PROVE  AuditInv'
  <2>1. pending'[t].step = "update" /\ UNCHANGED <<db, saved, answered, undone, unlogged>>
    BY <1>1, <1>7 DEF Find, Begin, RequestTypes
  <2> QED
    BY <1>2, <1>4, <2>1 DEF Accounted, Reached
<1>8. CASE Update(t)
  <2>1. /\ pending'[t].step = "commit" /\ pending'[t].change = pending[t].change
        /\ UNCHANGED <<saved, answered, unlogged>>
    BY <1>1, <1>8 DEF Update, RequestTypes
  <2>2. \/ db' = [db EXCEPT !.changed = @ \cup {pending[t].change}] /\ undone' = undone
        \/ undone' = undone \cup {pending[t].change} /\ db' = db
    BY <1>8 DEF Update
  <2>3. db'.log = db.log /\ db.changed \subseteq db'.changed /\ undone \subseteq undone'
        /\ pending[t].change \in db'.changed \cup undone'
    BY <1>1, <2>2 DEF Tables
  <2> QED
    BY <1>2, <1>4, <2>1, <2>3 DEF Accounted, Reached
<1>9. CASE CommitChange(t)
  <2>1. /\ pending[t].step = "commit" /\ pending'[t].step = "log"
        /\ pending'[t].change = pending[t].change
        /\ saved' = db /\ UNCHANGED <<db, answered, undone, unlogged>>
    BY <1>1, <1>9 DEF CommitChange, RequestTypes
  <2> QED
    BY <1>1, <1>2, <1>4, <2>1 DEF Accounted, Reached
<1>10. CASE Log(t)
  <2>1. /\ pending[t].step = "log" /\ pending'[t].step = "commit log"
        /\ pending'[t].change = pending[t].change
        /\ db' = [db EXCEPT !.log = Append(@, pending[t].change)]
        /\ UNCHANGED <<saved, answered, undone, unlogged>>
    BY <1>1, <1>10 DEF Log, RequestTypes
  <2>2. db'.changed = db.changed /\ db'.log = Append(db.log, pending[t].change)
    BY <1>1, <2>1 DEF Tables
  <2>3. ToSet(db'.log) = ToSet(db.log) \cup {pending[t].change}
    BY <1>1, <2>2, AppendedSet
  <2> QED
    BY <1>2, <1>4, <2>1, <2>2, <2>3 DEF Accounted, Reached
<1>11. CASE CommitLog(t)
  <2>1. /\ pending[t].step = "commit log" /\ pending'[t].step = "idle"
        /\ answered' = answered \cup {pending[t].change}
        /\ saved' = db /\ UNCHANGED <<db, undone, unlogged>>
    BY <1>1, <1>11 DEF CommitLog, NoRequest, RequestTypes
  <2>2. Accounted /\ Reached(t)'
    BY <1>1, <2>1 DEF Accounted, Reached
  <2>3. /\ pending[t].change \in db.changed \cup undone
        /\ pending[t].change \in ToSet(db.log) \cup unlogged
    BY <1>1, <1>2, <2>1 DEF Reached
  <2> QED
    BY <1>1, <1>2, <1>3, <2>1, <2>2, <2>3, AuditKeeps DEF AuditInv
<1>12. CASE Raise(t)
  <2>1. pending'[t].step = "idle" /\ UNCHANGED <<db, saved, answered, undone, unlogged>>
    BY <1>1, <1>12 DEF Raise, NoRequest, RequestTypes
  <2> QED
    BY <1>2, <1>4, <2>1 DEF Accounted, Reached
<1> QED
  BY <1>5, <1>6, <1>7, <1>8, <1>9, <1>10, <1>11, <1>12 DEF Request

LEMMA AuditNext == BaseInv /\ AuditInv /\ [Next]_vars => AuditInv'
<1> SUFFICES ASSUME BaseInv, AuditInv, [Next]_vars PROVE AuditInv'
  OBVIOUS
<1>1. saved.changed \subseteq db.changed /\ ToSet(saved.log) \subseteq ToSet(db.log)
  BY DEF BaseInv, TablesInv
<1>2. ToSet(db.log) \subseteq saved.changed \cup undone
  BY DEF AuditInv
<1>3. ASSUME Accounted, UNCHANGED <<pending, answered>>,
             ToSet(db'.log) \subseteq saved'.changed \cup undone'
      PROVE  AuditInv'
  BY <1>3, AuditKeeps DEF AuditInv
<1>4. CASE \E t \in Threads : Request(t)
  BY <1>4, RequestAudits
<1>5. CASE UNCHANGED <<db, saved, pending, answered, undone, unlogged>>
  BY <1>2, <1>3, <1>5 DEF Accounted
<1>6. CASE CommitElsewhere \/ Stop
  <2>1. saved' = db /\ UNCHANGED <<db, pending, answered, undone, unlogged>>
    BY <1>6 DEF CommitElsewhere, Stop, requestVars
  <2> QED
    BY <1>1, <1>2, <1>3, <2>1 DEF Accounted
<1>7. CASE RollBackElsewhere
  <2>1. /\ db' = saved /\ saved' = saved /\ UNCHANGED <<pending, answered>>
        /\ undone' = undone \cup (db.changed \ saved.changed)
        /\ unlogged' = unlogged \cup (ToSet(db.log) \ ToSet(saved.log))
    BY <1>7 DEF RollBackElsewhere, Rewind, requestVars
  <2> QED
    BY <1>1, <1>2, <1>3, <2>1 DEF Accounted
<1>8. CASE Crash
  <2>1. /\ db' = saved /\ saved' = saved /\ UNCHANGED <<answered, undone, unlogged>>
        /\ \A t \in Threads : pending'[t].step = "idle"
    BY <1>8 DEF Crash, Rewind, NoRequest
  <2>2. \A t \in Threads : Reached(t)'
    BY <2>1 DEF Reached
  <2> QED
    BY <1>1, <1>2, <2>1, <2>2 DEF AuditInv
<1>9. CASE ServerStart \/ StartInterrupted \/ LoadEngine
  BY <1>5, <1>9 DEF ServerStart, StartInterrupted, Start, LoadEngine, requestVars
<1>10. CASE \/ \E table \in {"providers", "log"} : StartListing(table)
            \/ CountRows \/ SelectRows \/ UNCHANGED vars
  BY <1>5, <1>10 DEF StartListing, CountRows, SelectRows, Read, vars, requestVars
<1> QED
  BY <1>4, <1>6, <1>7, <1>8, <1>9, <1>10 DEF Next

\* A change that was answered is durable and has a durable audit row, and a
\* durable audit row has its change, at whatever statement of whichever thread
\* requests failed or the process died, except for what another component's
\* rollback discarded between a statement and its commit
\* (provider_service.py:30-42, 114-120, audit_service.py:31-40,
\* context_catalog.py:349).
THEOREM AnswersAreAuditedCorrect == Spec => []AnswersAreAudited
<1>1. Init => AuditInv
  <2> SUFFICES ASSUME Init PROVE AuditInv
    OBVIOUS
  <2>1. /\ db.log = << >> /\ answered = {}
        /\ \A t \in Threads : pending[t].step = "idle"
    BY DEF Init, NoTables, NoRequest
  <2>2. ToSet(db.log) = {}
    BY <2>1 DEF ToSet
  <2> QED
    BY <2>1, <2>2 DEF AuditInv, Reached
<1>2. BaseInv /\ AuditInv => AnswersAreAudited
  <2> SUFFICES ASSUME BaseInv, AuditInv PROVE AnswersAreAudited
    OBVIOUS
  <2>1. ToSet(saved.log) \subseteq ToSet(db.log)
    BY DEF BaseInv, TablesInv
  <2> QED
    BY <2>1 DEF AuditInv, AnswersAreAudited
<1>3. BaseInv /\ AuditInv /\ [Next]_vars => AuditInv'
  BY AuditNext
<1> QED
  BY <1>1, <1>2, <1>3, BaseCorrect, PTL DEF Spec

-----------------------------------------------------------------------------
(* Listings *)

\* A row's place only moves back when rows are added.
LEMMA PlaceGrows ==
  ASSUME NEW S \in SUBSET Nat, NEW T \in SUBSET Nat, IsFiniteSet(T), S \subseteq T, NEW n \in S
  PROVE  Place(n, S) \in Nat /\ Place(n, T) \in Nat /\ Place(n, S) <= Place(n, T)
<1> DEFINE A == {i \in S : i <= n}
           B == {i \in T : i <= n}
<1>1. A \subseteq B /\ B \subseteq T
  OBVIOUS
<1>2. IsFiniteSet(B) /\ IsFiniteSet(A) /\ Cardinality(A) <= Cardinality(B)
  <2> HIDE DEF A, B
  <2> QED
    BY <1>1, FS_Subset
<1>3. Cardinality(A) \in Nat /\ Cardinality(B) \in Nat
  BY <1>2, FS_CardinalityType
<1> QED
  BY <1>2, <1>3 DEF Place

\* The registered providers are finitely many numbers; the log's ids are
\* numbered from 1.
LEMMA ListingTypes ==
  ASSUME db \in Tables
  PROVE  /\ db.providers \in SUBSET Nat /\ IsFiniteSet(db.providers)
         /\ Cardinality(db.providers) \in Nat
         /\ Len(db.log) \in Nat /\ DOMAIN db.log = 1 .. Len(db.log)
         /\ Listing(db, "providers") = db.providers /\ Listing(db, "log") = 1 .. Len(db.log)
<1>1. db.providers \in SUBSET Providers /\ db.log \in Seq(Nat)
  BY DEF Tables
<1>2. IsFiniteSet(db.providers) /\ db.providers \in SUBSET Nat
  BY <1>1, ProvidersAssumption, FS_Subset
<1>3. Cardinality(db.providers) \in Nat
  BY <1>2, FS_CardinalityType
<1>4. Len(db.log) \in Nat /\ DOMAIN db.log = 1 .. Len(db.log)
  BY <1>1
<1> QED
  BY <1>2, <1>3, <1>4 DEF Listing

\* The rows of the table a client reads are numbered.
LEMMA PositionNumbers ==
  ASSUME db \in Tables, NEW table \in {"providers", "log"}, NEW key \in Listing(db, table)
  PROVE  /\ Listing(db, table) \subseteq Nat /\ Cardinality(Listing(db, table)) \in Nat
         /\ Position(table, key) \in 1 .. Cardinality(Listing(db, table))
<1>1. CASE table = "providers"
  <2>1. Position(table, key) = Place(key, db.providers)
    BY <1>1 DEF Position
  <2> QED
    BY <1>1, <2>1, ListingTypes, PlaceNumbers
<1>2. CASE table = "log"
  <2>1. Listing(db, table) = 1 .. Len(db.log) /\ Len(db.log) \in Nat
    BY <1>2, ListingTypes
  <2>2. Cardinality(1 .. Len(db.log)) = Len(db.log)
    <3>1. PICK n \in Nat : n = Len(db.log)
      BY <2>1
    <3>2. Cardinality(1 .. n) = n
      BY FS_Interval
    <3> QED
      BY <3>1, <3>2
  <2>3. Position(table, key) = Len(db.log) + 1 - key
    BY <1>2 DEF Position
  <2> QED
    BY <2>1, <2>2, <2>3
<1> QED
  BY <1>1, <1>2

ReaderState ==
  [table : {"none", "providers", "log"}, step : {"idle", "count", "counted", "missed"},
   offset : Nat, total : Nat, unread : SUBSET Nat, raced : BOOLEAN, shrunk : BOOLEAN]

\* What a client has not read yet stands beyond its offset, and the total it
\* has counted is still right unless a row came since; until a rollback takes
\* rows of its table.
ReaderInv ==
  /\ reader \in ReaderState
  /\ reader.step \in {"count", "counted"} => reader.table # "none"
  /\ reader.step \in {"count", "counted"} /\ ~reader.shrunk =>
       /\ reader.unread \subseteq Listing(db, reader.table)
       /\ \A key \in reader.unread : reader.offset < Position(reader.table, key)
  /\ reader.step = "counted" /\ reader.table = "providers" /\ ~reader.raced /\ ~reader.shrunk =>
       reader.total = Cardinality(db.providers)
  /\ ListingMissesNothing

\* A client that begins has everything to read.
LEMMA StartListingReads ==
  ASSUME db \in Tables, NEW table \in {"providers", "log"}, StartListing(table)
  PROVE  ReaderInv'
<1> DEFINE step == IF table = "providers" THEN "count" ELSE "counted"
<1>1. reader' = [table |-> table, step |-> step, offset |-> 0, total |-> 0,
                 unread |-> Listing(db, table), raced |-> FALSE, shrunk |-> FALSE]
  BY DEF StartListing, Read, NoReader
<1>2. db' = db
  BY DEF StartListing, Read
<1>3. \A t : Listing(db', t) = Listing(db, t) /\ \A key : Position(t, key)' = Position(t, key)
  BY <1>2 DEF Listing, Position
<1>4. Listing(db, table) \subseteq Nat /\ \A key \in Listing(db, table) : 0 < Position(table, key)
  BY PositionNumbers
<1>5. reader' \in ReaderState
  BY <1>1, <1>4 DEF ReaderState
<1>6. /\ reader'.table = table /\ reader'.unread = Listing(db, table) /\ reader'.offset = 0
      /\ reader'.step \in {"count", "counted"}
      /\ reader'.step = "counted" => table # "providers"
  BY <1>1
<1> HIDE DEF step
<1>7. \A t : t = table => /\ reader'.unread \subseteq Listing(db', t)
                          /\ \A key \in reader'.unread : reader'.offset < Position(t, key)'
  BY <1>3, <1>4, <1>6
<1> QED
  BY <1>5, <1>6, <1>7 DEF ReaderInv, ListingMissesNothing

\* Where rows are only added, what is unread stays beyond the offset, and a
\* total can only be wrong after a registration.
LEMMA ReaderStays ==
  ASSUME db \in Tables, db' \in Tables, ReaderInv,
         db.providers \subseteq db'.providers, Len(db.log) <= Len(db'.log),
         \/ reader' = reader /\ (db'.providers = db.providers \/ reader.step # "counted"
                                   \/ reader.table # "providers")
         \/ reader.step = "counted" /\ reader' = [reader EXCEPT !.raced = TRUE]
  PROVE  ReaderInv'
<1>1. reader' \in ReaderState
  BY DEF ReaderInv, ReaderState
<1>2. /\ reader'.table = reader.table /\ reader'.step = reader.step
      /\ reader'.offset = reader.offset /\ reader'.total = reader.total
      /\ reader'.unread = reader.unread /\ reader'.shrunk = reader.shrunk
      /\ reader'.raced = reader.raced \/ reader'.raced = TRUE
  BY DEF ReaderInv, ReaderState
<1>3. ListingMissesNothing'
  BY <1>2 DEF ReaderInv, ListingMissesNothing
<1>4. reader'.step = "counted" /\ reader'.table = "providers" /\ ~reader'.raced /\ ~reader'.shrunk =>
        reader'.total = Cardinality(db'.providers)
  BY DEF ReaderInv, ReaderState
<1>5. /\ db.providers \in SUBSET Nat /\ db'.providers \in SUBSET Nat /\ IsFiniteSet(db'.providers)
      /\ Len(db.log) \in Nat /\ Len(db'.log) \in Nat
      /\ Listing(db, "providers") = db.providers /\ Listing(db, "log") = 1 .. Len(db.log)
      /\ Listing(db', "providers") = db'.providers /\ Listing(db', "log") = 1 .. Len(db'.log)
  <2>1. /\ db'.providers \in SUBSET Providers /\ db'.log \in Seq(Nat)
    BY DEF Tables
  <2>2. DOMAIN db'.log = 1 .. Len(db'.log) /\ Len(db'.log) \in Nat
    BY <2>1
  <2>3. Listing(db', "providers") = db'.providers /\ Listing(db', "log") = 1 .. Len(db'.log)
    BY <2>2 DEF Listing
  <2> QED
    BY <2>1, <2>2, <2>3, ListingTypes, ProvidersAssumption, FS_Subset
<1>6. ASSUME reader.step \in {"count", "counted"}, ~reader.shrunk, NEW table, table = reader.table
      PROVE  /\ reader.unread \subseteq Listing(db', table)
             /\ \A key \in reader.unread : reader.offset < Position(table, key)'
  <2>1. /\ reader.table \in {"providers", "log"} /\ reader.offset \in Nat
        /\ reader.unread \subseteq Listing(db, reader.table)
        /\ \A key \in reader.unread : reader.offset < Position(reader.table, key)
    BY <1>6 DEF ReaderInv, ReaderState
  <2>2. CASE reader.table = "providers"
    <3>1. \A key \in reader.unread : key \in db.providers /\ reader.offset < Place(key, db.providers)
      BY <1>5, <2>1, <2>2 DEF Position
    <3>2. \A key \in reader.unread :
            /\ Place(key, db.providers) \in Nat /\ Place(key, db'.providers) \in Nat
            /\ Place(key, db.providers) <= Place(key, db'.providers)
      BY <1>5, <3>1, PlaceGrows
    <3>3. \A key \in reader.unread : reader.offset < Place(key, db'.providers)
      BY <2>1, <3>1, <3>2
    <3>4. \A key : Position("providers", key)' = Place(key, db'.providers)
      BY DEF Position, Place
    <3> QED
      BY <1>5, <1>6, <2>2, <3>1, <3>3, <3>4
  <2>3. CASE reader.table = "log"
    <3>1. \A key \in reader.unread :
            key \in 1 .. Len(db.log) /\ reader.offset < Len(db.log) + 1 - key
      BY <1>5, <2>1, <2>3 DEF Position
    <3>2. \A key \in reader.unread :
            key \in 1 .. Len(db'.log) /\ reader.offset < Len(db'.log) + 1 - key
      BY <1>5, <2>1, <3>1
    <3>3. \A key : Position("log", key)' = Len(db'.log) + 1 - key
      BY DEF Position
    <3> QED
      BY <1>5, <1>6, <2>3, <3>2, <3>3
  <2> QED
    BY <2>1, <2>2, <2>3
<1> QED
  BY <1>1, <1>2, <1>3, <1>4, <1>6 DEF ReaderInv

\* A rollback that takes nothing of the table changes nothing for its reader.
LEMMA RewindReads ==
  ASSUME db \in Tables, saved \in Tables, ReaderInv, Rewind
  PROVE  ReaderInv'
<1>1. /\ db' = saved /\ reader \in ReaderState
      /\ reader' = [reader EXCEPT !.shrunk =
                      @ \/ /\ reader.step \in {"count", "counted"}
                           /\ Listing(db, reader.table) # Listing(saved, reader.table)]
  BY DEF Rewind, ReaderInv
<1>2. /\ reader' \in ReaderState
      /\ reader'.table = reader.table /\ reader'.step = reader.step
      /\ reader'.offset = reader.offset /\ reader'.total = reader.total
      /\ reader'.unread = reader.unread /\ reader'.raced = reader.raced
      /\ reader.shrunk => reader'.shrunk
      /\ reader.step \in {"count", "counted"} /\ ~reader'.shrunk =>
           Listing(db, reader.table) = Listing(saved, reader.table)
  BY <1>1 DEF ReaderState
<1>3. /\ db.log \in Seq(Nat) /\ saved.log \in Seq(Nat)
  BY DEF Tables
<1>4. ASSUME reader.step \in {"count", "counted"}, ~reader'.shrunk, NEW table, table = reader.table
      PROVE  /\ Listing(db', table) = Listing(db, table)
             /\ \A key : Position(table, key)' = Position(table, key)
             /\ table = "providers" => db'.providers = db.providers
  <2>1. Listing(saved, table) = Listing(db, table) /\ table \in {"providers", "log"}
    BY <1>2, <1>4 DEF ReaderInv, ReaderState
  <2>2. CASE table = "providers"
    <3>1. saved.providers = db.providers
      BY <2>1, <2>2 DEF Listing
    <3>2. \A key : Position("providers", key)' = Place(key, db'.providers)
      BY DEF Position, Place
    <3>3. \A key : Position("providers", key) = Place(key, db.providers)
      BY DEF Position
    <3> QED
      BY <1>1, <2>1, <2>2, <3>1, <3>2, <3>3
  <2>3. CASE table = "log"
    <3>1. DOMAIN saved.log = DOMAIN db.log
      BY <2>1, <2>3 DEF Listing
    <3>2. Len(saved.log) = Len(db.log)
      BY <1>3, <3>1
    <3>3. \A key : Position("log", key)' = Len(db'.log) + 1 - key
      BY DEF Position
    <3>4. \A key : Position("log", key) = Len(db.log) + 1 - key
      BY DEF Position
    <3> QED
      BY <1>1, <2>1, <2>3, <3>2, <3>3, <3>4
  <2> QED
    BY <2>1, <2>2, <2>3
<1>5. ListingMissesNothing'
  BY <1>2 DEF ReaderInv, ListingMissesNothing
<1> QED
  BY <1>2, <1>4, <1>5 DEF ReaderInv

\* A page reads the rows up to the next offset; the client stops only when its
\* total, or a page that is not full, tells it that there are no more.
LEMMA SelectRowsReads ==
  ASSUME db \in Tables, ReaderInv, SelectRows
  PROVE  ReaderInv'
<1> DEFINE unread == reader.unread \ PageRows
           next == reader.offset + PageLimit
           size == Cardinality(Listing(db, reader.table))
<1>1. db' = db /\ reader.step = "counted"
  BY DEF SelectRows, Read
<1>2. /\ reader.table \in {"providers", "log"} /\ reader.offset \in Nat /\ reader.total \in Nat
      /\ reader.unread \subseteq Nat
      /\ reader.raced \in BOOLEAN /\ reader.shrunk \in BOOLEAN
      /\ ~reader.shrunk =>
           /\ reader.unread \subseteq Listing(db, reader.table)
           /\ \A key \in reader.unread : reader.offset < Position(reader.table, key)
  BY <1>1 DEF ReaderInv, ReaderState
<1>3. next \in Nat /\ NextOffset = next
  BY <1>2, PageLimitAssumption DEF NextOffset
<1>4. \A key \in Listing(db, reader.table) :
        size \in Nat /\ Position(reader.table, key) \in 1 .. size
  BY <1>2, PositionNumbers
<1> HIDE DEF size
<1>5. ~reader.shrunk =>
        \A key \in unread : key \in Listing(db, reader.table) /\ next < Position(reader.table, key)
  <2> SUFFICES ASSUME ~reader.shrunk, NEW key \in unread PROVE next < Position(reader.table, key)
    BY <1>2
  <2>1. Position(reader.table, key) \in Nat /\ reader.offset < Position(reader.table, key)
    BY <1>2, <1>4
  <2>2. Position(reader.table, key) \notin reader.offset + 1 .. next
    BY <1>2, <1>3 DEF PageRows
  <2> QED
    BY <1>2, <1>3, <2>1, <2>2
<1> HIDE DEF next, unread
<1>6. ~reader.shrunk /\ unread # {} => next < size /\ size \in Nat
  <2> SUFFICES ASSUME ~reader.shrunk, NEW key \in unread PROVE next < size /\ size \in Nat
    OBVIOUS
  <2>1. next < Position(reader.table, key) /\ Position(reader.table, key) \in 1 .. size /\ size \in Nat
    BY <1>4, <1>5
  <2> QED
    BY <1>3, <2>1
<1> DEFINE more == [reader EXCEPT !.unread = unread, !.offset = next]
           full == reader.table = "log" /\ Cardinality(PageRows) = PageLimit
           rest == reader.table = "providers" /\ next < reader.total
           gone == [NoReader EXCEPT !.step = "missed", !.raced = reader.raced,
                                    !.shrunk = reader.shrunk]
<1>7. reader' = IF full THEN more
                ELSE IF rest THEN [more EXCEPT !.step = "count", !.total = 0, !.raced = FALSE]
                ELSE IF unread = {} THEN NoReader
                ELSE gone
  BY <1>3 DEF SelectRows, Read, unread
<1>8. ASSUME unread # {}, ~full, ~rest, ~reader.shrunk PROVE reader.raced
  <2>1. CASE reader.table = "log"
    <3>1. PICK L \in Nat : L = Len(db.log) /\ DOMAIN db.log = 1 .. L
      BY ListingTypes
    <3>2. size = L
      <4>1. Cardinality(1 .. L) = L
        BY FS_Interval
      <4> QED
        BY <2>1, <3>1, <4>1 DEF size, Listing
    <3>3. PageRows = {key \in 1 .. L : L + 1 - key \in reader.offset + 1 .. next}
      BY <1>3, <2>1, <3>1 DEF PageRows, Listing, Position, next
    <3>4. next < L /\ next = reader.offset + PageLimit
      BY <1>6, <1>8, <3>2 DEF next
    <3>5. PageRows = L + 1 - next .. L - reader.offset
      BY <1>2, <1>3, <3>3, <3>4
    <3>6. Cardinality(PageRows) = PageLimit
      <4>1. PICK lo \in Int, hi \in Int : lo = L + 1 - next /\ hi = L - reader.offset
        BY <1>2, <1>3
      <4>2. Cardinality(lo .. hi) = IF lo > hi THEN 0 ELSE hi - lo + 1
        BY FS_Interval
      <4>3. ~(lo > hi) /\ hi - lo + 1 = PageLimit
        BY <1>2, <3>4, <4>1, PageLimitAssumption
      <4> QED
        BY <3>5, <4>1, <4>2, <4>3
    <3> QED
      BY <1>8, <2>1, <3>6
  <2>2. CASE reader.table = "providers"
    <3>1. size = Cardinality(db.providers)
      BY <2>2, ListingTypes DEF size
    <3>2. ~(next < reader.total) /\ next < size
      BY <1>6, <1>8, <2>2
    <3> QED
      BY <1>1, <1>2, <1>3, <1>8, <2>2, <3>1, <3>2 DEF ReaderInv
  <2> QED
    BY <1>2, <2>1, <2>2
<1>9. \A t : Listing(db', t) = Listing(db, t) /\ \A key : Position(t, key)' = Position(t, key)
  BY <1>1 DEF Listing, Position
<1> HIDE DEF full, rest
<1>10. CASE reader' = more \/ reader' = [more EXCEPT !.step = "count", !.total = 0, !.raced = FALSE]
  <2>1. /\ reader' \in ReaderState /\ reader'.table = reader.table
        /\ reader'.unread = unread /\ reader'.offset = next
        /\ reader'.step = "counted" => reader'.raced = reader.raced /\ reader'.total = reader.total
        /\ reader'.step \in {"count", "counted"} /\ reader'.shrunk = reader.shrunk
    <3>1. unread \in SUBSET Nat /\ reader \in ReaderState
      BY <1>2 DEF ReaderInv, unread
    <3>2. /\ more \in ReaderState /\ more.table = reader.table /\ more.step = "counted"
          /\ more.unread = unread /\ more.offset = next
          /\ more.raced = reader.raced /\ more.total = reader.total
          /\ more.shrunk = reader.shrunk
      BY <1>1, <1>3, <3>1 DEF ReaderState
    <3> HIDE DEF more
    <3>3. CASE reader' = more
      BY <3>2, <3>3
    <3>4. CASE reader' = [more EXCEPT !.step = "count", !.total = 0, !.raced = FALSE]
      BY <3>2, <3>4 DEF ReaderState
    <3> QED
      BY <1>10, <3>3, <3>4
  <2>2. \A t : t = reader.table =>
          /\ t # "none"
          /\ ~reader.shrunk => /\ unread \subseteq Listing(db', t)
                               /\ \A key \in unread : next < Position(t, key)'
    BY <1>2, <1>5, <1>9
  <2> QED
    BY <1>1, <2>1, <2>2 DEF ReaderInv, ListingMissesNothing
<1>11. CASE reader' = NoReader
  BY <1>11 DEF NoReader, ReaderInv, ReaderState, ListingMissesNothing
<1>12. CASE reader' = gone /\ (reader.raced \/ reader.shrunk)
  BY <1>2, <1>12 DEF NoReader, ReaderInv, ReaderState, ListingMissesNothing
<1> HIDE DEF more, gone
<1> QED
  BY <1>7, <1>8, <1>10, <1>11, <1>12

\* Every step.
LEMMA ReaderNext == BaseInv /\ BaseInv' /\ ReaderInv /\ [Next]_vars => ReaderInv'
<1> SUFFICES ASSUME BaseInv, BaseInv', ReaderInv, [Next]_vars PROVE ReaderInv'
  OBVIOUS
<1>1. /\ db \in Tables /\ db' \in Tables /\ saved \in Tables /\ pending \in RequestTypes
      /\ db.log \in Seq(Nat) /\ Len(db.log) \in Nat
  BY DEF BaseInv, TypeOK, RequestTypes, Tables
<1>2. ASSUME db'.providers = db.providers, db'.log = db.log, reader' = reader PROVE ReaderInv'
  BY <1>1, <1>2, ReaderStays
<1>3. ASSUME NEW t \in Threads, NEW p \in Providers, Register(t, p)
      PROVE  ReaderInv'
  <2>1. db.providers \subseteq db'.providers /\ db'.log = db.log
    BY <1>1, <1>3 DEF Register, Tables
  <2>2. \/ /\ reader.step = "counted" /\ reader.table = "providers"
           /\ reader' = [reader EXCEPT !.raced = TRUE]
        \/ /\ reader.step # "counted" \/ reader.table # "providers"
           /\ reader' = reader
    <3>1. reader \in ReaderState
      BY DEF ReaderInv
    <3> QED
      BY <1>3, <3>1 DEF Register, ReaderState
  <2> QED
    BY <1>1, <2>1, <2>2, ReaderStays
<1>4. ASSUME NEW t \in Threads, NEW m \in MapRows, RegisterMap(t, m)
      PROVE  ReaderInv'
  BY <1>1, <1>2, <1>4 DEF RegisterMap, Tables
<1>5. ASSUME NEW t \in Threads, Log(t)
      PROVE  ReaderInv'
  <2>1. pending[t].change \in Nat
    BY <1>1 DEF RequestTypes
  <2>2. db'.log = Append(db.log, pending[t].change) /\ db'.providers = db.providers /\ reader' = reader
    BY <1>1, <1>5 DEF Log, Tables
  <2>3. Len(db'.log) = Len(db.log) + 1
    BY <1>1, <2>1, <2>2, AppendedSet
  <2> QED
    BY <1>1, <2>2, <2>3, ReaderStays
<1>6. ASSUME NEW t \in Threads,
             \/ \E p \in Providers : Find(t, p)
             \/ Update(t) \/ CommitChange(t) \/ CommitLog(t) \/ Raise(t)
      PROVE  ReaderInv'
  BY <1>1, <1>2, <1>6 DEF Find, Update, CommitChange, CommitLog, Raise, Tables
<1>7. CASE RollBackElsewhere \/ Crash
  BY <1>1, <1>7, RewindReads DEF RollBackElsewhere, Crash
<1>8. ASSUME NEW table \in {"providers", "log"}, StartListing(table)
      PROVE  ReaderInv'
  BY <1>1, <1>8, StartListingReads
<1>9. CASE CountRows
  <2>1. /\ db' = db /\ reader.step = "count" /\ reader \in ReaderState
        /\ reader' = [reader EXCEPT !.total = Cardinality(db.providers), !.step = "counted"]
    BY <1>9 DEF CountRows, Read, ReaderInv
  <2>2. \A t : Listing(db', t) = Listing(db, t) /\ \A key : Position(t, key)' = Position(t, key)
    BY <2>1 DEF Listing, Position
  <2>3. Cardinality(db.providers) \in Nat
    BY <1>1, ListingTypes
  <2>4. /\ reader' \in ReaderState /\ reader'.step = "counted"
        /\ reader'.total = Cardinality(db.providers)
        /\ reader'.table = reader.table /\ reader'.offset = reader.offset
        /\ reader'.unread = reader.unread /\ reader'.shrunk = reader.shrunk
    BY <2>1, <2>3 DEF ReaderState
  <2>5. \A t : t = reader.table =>
          /\ t # "none"
          /\ ~reader.shrunk => /\ reader.unread \subseteq Listing(db', t)
                               /\ \A key \in reader.unread : reader.offset < Position(t, key)'
    BY <2>1, <2>2 DEF ReaderInv
  <2> QED
    BY <2>1, <2>4, <2>5 DEF ReaderInv, ListingMissesNothing
<1>10. CASE SelectRows
  BY <1>1, <1>10, SelectRowsReads
<1>11. CASE \/ ServerStart \/ StartInterrupted \/ LoadEngine \/ CommitElsewhere \/ Stop
            \/ UNCHANGED vars
  BY <1>2, <1>11 DEF ServerStart, StartInterrupted, Start, LoadEngine, CommitElsewhere, Stop, vars
<1> QED
  BY <1>3, <1>4, <1>5, <1>6, <1>7, <1>8, <1>9, <1>10, <1>11 DEF Next, Request

\* A client that pages through a listing while rows are added misses none that
\* was there when it began, unless a provider came between the last page's
\* count and its rows, or a rollback took rows of the table away
\* (provider_service.py:73-83, audit_service.py:73-78).
THEOREM ListingMissesNothingCorrect == Spec => []ListingMissesNothing
<1>1. Init => ReaderInv
  BY DEF Init, NoReader, ReaderInv, ReaderState, ListingMissesNothing
<1>2. BaseInv /\ BaseInv' /\ ReaderInv /\ [Next]_vars => ReaderInv'
  BY ReaderNext
<1>3. ReaderInv => ListingMissesNothing
  BY DEF ReaderInv
<1> QED
  BY <1>1, <1>2, <1>3, BaseCorrect, PTL DEF Spec
=============================================================================
