--------------------------- MODULE DeepSeeSource ---------------------------
(***************************************************************************)
(* The DeepSee service (app/connectors/deepsee/mock_service.py): a         *)
(* membership map that changes under the reader's hands, the change feed   *)
(* those changes produce, and the pages in which both are served.          *)
(*                                                                         *)
(* An event is identified by its position in `events`: the code derives    *)
(* both the event id ("evt-%08d") and the watermark ("%012d") from the     *)
(* same counter _seq, so _seq is Len(events) and watermark order is        *)
(* position order.                                                         *)
(***************************************************************************)
EXTENDS DeepSeeEvents

CONSTANTS
  InitialMembers,  \* membership when the service is constructed
  PageSize,        \* page_size
  Knobs,           \* the constructor's delivery knobs to consider
  AllowReAdd,      \* may add_member be called for a current member?
  MaxEvents        \* bound on the number of change events

ASSUME PageSizeAssumption == PageSize \in Nat \ {0}
ASSUME AllowReAddAssumption == AllowReAdd \in BOOLEAN
ASSUME MaxEventsAssumption == MaxEvents \in Nat

\* bitmap_snapshot: the whole snapshot is one bitmap page.
FeedKnobs == [duplicate_delivery : BOOLEAN, out_of_order : BOOLEAN,
              redeliver_from_start : BOOLEAN, bitmap_snapshot : BOOLEAN]

ASSUME KnobsAssumption == Knobs \subseteq FeedKnobs

Membership == [EntityIds -> Scores \cup {Absent}]

ASSUME InitialMembersAssumption == InitialMembers \in Membership

\* The service's own changes carry a score unless they are removals.
SourceEvent == {v \in Event : v.change = "removed" <=> v.score = Absent}

VARIABLES
  members,   \* _members: [id |-> score, or Absent]
  events,    \* _events: every change so far, oldest first
  feed       \* the delivery knobs given to the constructor

sourceVars == <<members, events, feed>>

SourceTypeOK ==
  /\ members \in Membership
  /\ events \in Seq(SourceEvent)
  /\ feed \in FeedKnobs

SourceInit ==
  /\ members = InitialMembers
  /\ events = << >>
  /\ feed \in Knobs

-----------------------------------------------------------------------------
(* World mutations; each emits one event with the next watermark. *)

Watermark == Len(events)

RecordEvent(e, change, score) ==
  /\ Watermark < MaxEvents
  /\ events' = Append(events, [entity |-> e, change |-> change, score |-> score])
  /\ UNCHANGED feed

AddMember(e, score) ==
  /\ AllowReAdd \/ members[e] = Absent
  /\ members' = [members EXCEPT ![e] = score]
  /\ RecordEvent(e, "added", score)

RemoveMember(e) ==
  /\ members' = [members EXCEPT ![e] = Absent]
  /\ RecordEvent(e, "removed", Absent)

ChangeScore(e, score) ==
  /\ members[e] # Absent
  /\ members' = [members EXCEPT ![e] = score]
  /\ RecordEvent(e, "score_changed", score)

SourceNext ==
  \E e \in EntityIds :
    \/ \E s \in Scores : AddMember(e, s) \/ ChangeScore(e, s)
    \/ RemoveMember(e)

-----------------------------------------------------------------------------
(* Wire reads.  A cursor is the offset of the next item; NoCursor ends the *)
(* chain.                                                                  *)

NoCursor == -1

MemberIds == {e \in EntityIds : members[e] # Absent}

\* The position of member e in sorted(_members), counting from 1.
Rank(e) == Cardinality({x \in MemberIds : x <= e})

SnapshotPageIds(cursor) ==
  IF feed.bitmap_snapshot
  THEN MemberIds
  ELSE {e \in MemberIds : cursor < Rank(e) /\ Rank(e) <= cursor + PageSize}

SnapshotNextCursor(cursor) ==
  IF ~feed.bitmap_snapshot /\ cursor + PageSize < Cardinality(MemberIds)
  THEN cursor + PageSize
  ELSE NoCursor

\* What changes() puts in `pending`: the events after `since` (or all of
\* them), possibly newest first, possibly each one twice.
Copies == IF feed.duplicate_delivery THEN 2 ELSE 1
PendingAfter(since) == IF feed.redeliver_from_start THEN 0 ELSE since
PendingLength(since) == Copies * (Watermark - PendingAfter(since))
PendingItem(since, i) ==
  LET k == (i + Copies - 1) \div Copies
  IN  IF feed.out_of_order THEN Watermark + 1 - k ELSE PendingAfter(since) + k

ChangesPage(since, cursor) ==
  {PendingItem(since, i) :
     i \in {j \in cursor + 1 .. cursor + PageSize : j <= PendingLength(since)}}

ChangesNextCursor(since, cursor) ==
  IF cursor + PageSize < PendingLength(since)
  THEN cursor + PageSize
  ELSE NoCursor

-----------------------------------------------------------------------------
(* The membership the service had after its first n events: what a clean  *)
(* rebuild at watermark n returns.                                        *)

Touching(e, lo, hi) == {k \in lo + 1 .. hi : events[k].entity = e}

SourceAt(n) ==
  [e \in EntityIds |->
     IF Touching(e, 0, n) = {}
     THEN InitialMembers[e]
     ELSE events[Latest(Touching(e, 0, n))].score]

\* The event log and the membership never disagree (mock_service.py:139-159
\* update both in each operation).
LogExplainsMembers == members = SourceAt(Watermark)
=============================================================================
