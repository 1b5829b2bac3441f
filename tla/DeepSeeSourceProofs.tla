------------------------ MODULE DeepSeeSourceProofs ------------------------
(***************************************************************************)
(* Facts about positions of the service's log, the net effect of a batch   *)
(* of events, and the service's past, for the proofs about the fold, the   *)
(* synchronizer and the query path.                                        *)
(***************************************************************************)
EXTENDS DeepSeeSource, WellFoundedInduction, TLAPS

-----------------------------------------------------------------------------
(* Least and greatest positions *)

\* Every non-empty set of naturals has a least element.
LEMMA LeastNat ==
  ASSUME NEW T \in SUBSET Nat, T # {}
  PROVE  \E x \in T : \A y \in T : x <= y
<1>1. PICK x \in T : \A y \in T : ~(<<y, x>> \in OpToRel(<, Nat))
  BY NatLessThanWellFounded, WFMin
<1>2. \A y \in T : ~(y < x)
  BY <1>1 DEF OpToRel
<1> QED
  BY <1>2, x \in Nat, \A y \in T : y \in Nat

\* Every non-empty set of positions that has an upper bound has a greatest
\* element.
LEMMA GreatestBelow ==
  ASSUME NEW T \in SUBSET Int, T # {}, NEW hi \in Int, \A x \in T : x <= hi
  PROVE  \E x \in T : \A y \in T : y <= x
<1> DEFINE U == {hi - x : x \in T}
<1>1. \A x \in T : x \in Int /\ hi - x \in Nat
  OBVIOUS
<1>2. U \subseteq Nat
  BY <1>1
<1>3. U # {}
  OBVIOUS
<1>4. PICK u \in U : \A y \in U : u <= y
  <2> HIDE DEF U
  <2> QED
    BY <1>2, <1>3, LeastNat
<1>5. PICK x \in T : u = hi - x
  BY <1>4
<1>6. \A y \in T : hi - x <= hi - y
  BY <1>4, <1>5
<1> QED
  BY <1>1, <1>6

\* Latest(S), the position of the last of a batch of events (ordered[-1] at
\* synchronizer.py:207), is in S and is its greatest element.
LEMMA LatestIsGreatest ==
  ASSUME NEW S \in SUBSET Int, S # {}, NEW hi \in Int, \A x \in S : x <= hi
  PROVE  Latest(S) \in S /\ \A j \in S : j <= Latest(S)
<1>1. \E k \in S : \A j \in S : j <= k
  BY GreatestBelow
<1> QED
  BY <1>1 DEF Latest

\* Latest(S) is the only greatest element of S.
LEMMA LatestIs ==
  ASSUME NEW S \in SUBSET Int, NEW m \in S, \A j \in S : j <= m
  PROVE  Latest(S) = m
<1>1. Latest(S) \in S /\ \A j \in S : j <= Latest(S)
  BY LatestIsGreatest
<1>2. Latest(S) \in Int /\ m \in Int
  BY <1>1
<1> QED
  BY <1>1, <1>2

-----------------------------------------------------------------------------
(* Types *)

\* A delta scores entities with scores of the log, or with the 1.0 that
\* replaces a zero (synchronizer.py:303).
LEMMA DeltaTypes ==
  ASSUME NEW log \in Seq(SourceEvent), NEW batch \in SUBSET (1 .. Len(log))
  PROVE  /\ Additions(log, batch) \in [EntityIds -> Scores \cup {1, Absent}]
         /\ Removals(log, batch) \subseteq EntityIds
         /\ ScoreChanges(log, batch) \in [EntityIds -> Scores \cup {1, Absent}]
<1>1. \A k \in 1 .. Len(log) : log[k].score \in Scores \cup {Absent}
  BY DEF SourceEvent, Event
<1>2. ASSUME NEW S \in SUBSET batch, S # {}
      PROVE  Latest(S) \in 1 .. Len(log)
  <2>1. S \in SUBSET Int /\ Len(log) \in Int /\ \A x \in S : x <= Len(log)
    OBVIOUS
  <2>2. Latest(S) \in S
    BY <1>2, <2>1, LatestIsGreatest
  <2> QED
    BY <2>2
<1>3. \A e \in EntityIds : Adds(log, batch, e) # {} =>
        log[Latest(Live(log, batch, e))].score \in Scores \cup {Absent}
  <2> TAKE e \in EntityIds
  <2>1. Live(log, batch, e) \in SUBSET batch
    BY DEF Live, On
  <2>2. Adds(log, batch, e) # {} => Live(log, batch, e) # {}
    BY DEF Adds
  <2> QED
    BY <1>1, <1>2, <2>1, <2>2
<1>4. \A e \in EntityIds : Rescores(log, batch, e) # {} =>
        log[Latest(Rescores(log, batch, e))].score \in Scores \cup {Absent}
  <2> TAKE e \in EntityIds
  <2>1. Rescores(log, batch, e) \in SUBSET batch
    BY DEF Rescores, Live, On
  <2> QED
    BY <1>1, <1>2, <2>1
<1>5. \A s \in Scores \cup {Absent} : AddedScore(s) \in Scores \cup {1, Absent}
  BY DEF AddedScore
<1> QED
  BY <1>3, <1>4, <1>5 DEF Additions, Removals, ScoreChanges

-----------------------------------------------------------------------------
(* The source *)

\* A world mutation appends one event and leaves the delivery knobs alone.
LEMMA SourceStep ==
  ASSUME SourceTypeOK, SourceNext
  PROVE  /\ SourceTypeOK'
         /\ \E v \in SourceEvent : events' = Append(events, v)
         /\ Watermark' = Watermark + 1
         /\ feed' = feed
<1> USE EntityIdsAssumption, ScoresAssumption
<1>1. PICK e \in EntityIds :
        \/ \E s \in Scores : AddMember(e, s) \/ ChangeScore(e, s)
        \/ RemoveMember(e)
  BY DEF SourceNext
<1>2. CASE \E s \in Scores : AddMember(e, s) \/ ChangeScore(e, s)
  <2>1. PICK s \in Scores : AddMember(e, s) \/ ChangeScore(e, s)
    BY <1>2
  <2>2. PICK c \in {"added", "score_changed"} : RecordEvent(e, c, s)
    BY <2>1 DEF AddMember, ChangeScore
  <2>3. [entity |-> e, change |-> c, score |-> s] \in SourceEvent
    BY DEF SourceEvent, Event, ChangeTypes, Absent
  <2>4. members' = [members EXCEPT ![e] = s]
    BY <2>1 DEF AddMember, ChangeScore
  <2>5. members' \in Membership
    BY <2>4 DEF SourceTypeOK, Membership
  <2> QED
    BY <2>2, <2>3, <2>5 DEF RecordEvent, SourceTypeOK, Watermark
<1>3. CASE RemoveMember(e)
  <2>1. [entity |-> e, change |-> "removed", score |-> Absent] \in SourceEvent
    BY DEF SourceEvent, Event, ChangeTypes
  <2>2. members' \in Membership
    BY <1>3 DEF RemoveMember, SourceTypeOK, Membership
  <2> QED
    BY <1>3, <2>1, <2>2 DEF RemoveMember, RecordEvent, SourceTypeOK, Watermark
<1> QED
  BY <1>1, <1>2, <1>3

-----------------------------------------------------------------------------
(* The source and its past *)

\* The positions of an entity's events, and the last of them.
LEMMA TouchingFacts ==
  ASSUME SourceTypeOK, NEW e \in EntityIds, NEW lo \in Nat, NEW hi \in 0 .. Watermark
  PROVE  /\ Touching(e, lo, hi) \in SUBSET (lo + 1 .. hi)
         /\ Touching(e, lo, hi) # {} =>
              /\ Latest(Touching(e, lo, hi)) \in Touching(e, lo, hi)
              /\ \A k \in Touching(e, lo, hi) : k <= Latest(Touching(e, lo, hi))
<1>1. Touching(e, lo, hi) \in SUBSET (lo + 1 .. hi)
  BY DEF Touching
<1>2. Touching(e, lo, hi) \in SUBSET Int /\ hi \in Int /\ \A k \in Touching(e, lo, hi) : k <= hi
  BY <1>1 DEF Watermark, SourceTypeOK
<1> QED
  BY <1>1, <1>2, LatestIsGreatest

\* An entity has the score of its last event, or the one it had before.
LEMMA SourceAtSince ==
  ASSUME SourceTypeOK, NEW e \in EntityIds, NEW hi \in 0 .. Watermark, NEW lo \in 0 .. hi
  PROVE  SourceAt(hi)[e] = IF Touching(e, lo, hi) = {} THEN SourceAt(lo)[e]
                           ELSE events[Latest(Touching(e, lo, hi))].score
<1>1. Watermark \in Nat /\ lo \in 0 .. Watermark
  BY DEF Watermark, SourceTypeOK
<1>2. CASE Touching(e, lo, hi) = {}
  <2>1. Touching(e, 0, hi) = Touching(e, 0, lo)
    BY <1>1, <1>2 DEF Touching
  <2> QED
    BY <1>2, <2>1 DEF SourceAt
<1>3. CASE Touching(e, lo, hi) # {}
  <2> DEFINE last == Latest(Touching(e, lo, hi))
  <2>1. last \in Touching(e, lo, hi) /\ \A k \in Touching(e, lo, hi) : k <= last
    BY <1>1, <1>3, TouchingFacts
  <2> HIDE DEF last
  <2>2. last \in lo + 1 .. hi /\ last \in Touching(e, 0, hi)
    BY <1>1, <2>1 DEF Touching
  <2>3. \A k \in Touching(e, 0, hi) : k <= last
    BY <1>1, <2>1, <2>2 DEF Touching
  <2>4. Touching(e, 0, hi) \in SUBSET Int
    BY <1>1 DEF Touching
  <2>5. Latest(Touching(e, 0, hi)) = last
    BY <2>2, <2>3, <2>4, LatestIs
  <2>6. Touching(e, 0, hi) # {}
    BY <2>2
  <2>7. SourceAt(hi)[e] = events[last].score
    BY <2>5, <2>6 DEF SourceAt
  <2> QED
    BY <1>3, <2>7 DEF last
<1> QED
  BY <1>2, <1>3

\* The score an event leaves behind.
LEMMA SourceAtEvent ==
  ASSUME SourceTypeOK, NEW k \in 1 .. Watermark
  PROVE  SourceAt(k)[events[k].entity] = events[k].score
<1> DEFINE e == events[k].entity
<1>1. Watermark \in Nat /\ e \in EntityIds /\ k \in 0 .. Watermark /\ k - 1 \in 0 .. k
  BY DEF Watermark, SourceTypeOK, SourceEvent, Event
<1>2. Touching(e, k - 1, k) = {k}
  BY <1>1 DEF Touching
<1>3. Latest({k}) = k
  BY <1>1, LatestIs
<1> HIDE DEF e
<1>4. SourceAt(k)[e] = events[k].score
  <2>1. SourceAt(k)[e] = IF Touching(e, k - 1, k) = {} THEN SourceAt(k - 1)[e]
                         ELSE events[Latest(Touching(e, k - 1, k))].score
    BY <1>1, SourceAtSince
  <2> QED
    BY <1>2, <1>3, <2>1
<1> QED
  BY <1>4 DEF e

\* The past does not change.
LEMMA PastIsStable ==
  ASSUME SourceTypeOK, NEW v, Watermark' = Watermark + 1,
         \A k \in 1 .. Watermark : events'[k] = events[k], events'[Watermark + 1] = v
  PROVE  /\ \A n \in 0 .. Watermark : SourceAt(n)' = SourceAt(n)
         /\ \A e \in EntityIds :
              SourceAt(Watermark)'[e] = IF e = v.entity THEN v.score ELSE SourceAt(Watermark)[e]
<1>1. Watermark \in Nat
  BY DEF Watermark, SourceTypeOK
<1>2. ASSUME NEW e \in EntityIds, NEW n \in 0 .. Watermark
      PROVE  Touching(e, 0, n)' = Touching(e, 0, n)
  <2>1. \A k \in 0 + 1 .. n : k \in 1 .. Watermark
    BY <1>1
  <2> QED
    BY <2>1 DEF Touching
<1>3. ASSUME NEW e \in EntityIds, NEW n \in 0 .. Watermark, Touching(e, 0, n) # {}
      PROVE  events'[Latest(Touching(e, 0, n))] = events[Latest(Touching(e, 0, n))]
  <2>1. Latest(Touching(e, 0, n)) \in 1 .. Watermark
    BY <1>1, <1>3, TouchingFacts
  <2> QED
    BY <1>1, <2>1
<1>4. \A n \in 0 .. Watermark : SourceAt(n)' = SourceAt(n)
  BY <1>2, <1>3 DEF SourceAt
<1>5. ASSUME NEW e \in EntityIds
      PROVE  SourceAt(Watermark)'[e] =
               IF e = v.entity THEN v.score ELSE SourceAt(Watermark)[e]
  <2>1. PICK last \in Nat : last = Watermark + 1
    BY <1>1
  <2>2. /\ SourceAt(Watermark)' = SourceAt(last)'
        /\ events'[last] = v
    BY <1>1, <2>1
  <2>3. Touching(e, 0, last)' = Touching(e, 0, Watermark) \cup (IF e = v.entity THEN {last} ELSE {})
    <3>1. \A k : k \in 0 + 1 .. last <=> k \in 1 .. Watermark \/ k = last
      BY <1>1, <2>1
    <3>2. \A k : k \in 0 + 1 .. Watermark <=> k \in 1 .. Watermark
      BY <1>1
    <3> QED
      BY <2>2, <3>1, <3>2 DEF Touching
  <2>4. CASE e = v.entity
    <3>1. last \in Touching(e, 0, last)'
      BY <2>3, <2>4
    <3>2. Touching(e, 0, last)' \in SUBSET Int /\ \A k \in Touching(e, 0, last)' : k <= last
      BY <2>1 DEF Touching
    <3>3. Latest(Touching(e, 0, last)') = last
      BY <3>1, <3>2, LatestIs
    <3>4. SourceAt(last)'[e] = events'[Latest(Touching(e, 0, last)')].score
      BY <3>1 DEF SourceAt
    <3> QED
      BY <2>2, <2>4, <3>3, <3>4
  <2>5. CASE e # v.entity
    <3>1. Touching(e, 0, last)' = Touching(e, 0, Watermark)
      BY <2>3, <2>5
    <3>2. SourceAt(last)'[e] = IF Touching(e, 0, Watermark) = {} THEN InitialMembers[e]
                               ELSE events'[Latest(Touching(e, 0, Watermark))].score
      BY <3>1 DEF SourceAt
    <3>3. Watermark \in 0 .. Watermark
      BY <1>1
    <3> QED
      BY <1>3, <2>2, <2>5, <3>2, <3>3 DEF SourceAt
  <2> QED
    BY <2>4, <2>5
<1> QED
  BY <1>4, <1>5

\* A score changes of members only; without re-additions only non-members join.
WellFormedLog ==
  \A k \in 1 .. Watermark :
    /\ events[k].change = "score_changed" => SourceAt(k - 1)[events[k].entity] # Absent
    /\ ~AllowReAdd /\ events[k].change = "added" =>
         SourceAt(k - 1)[events[k].entity] = Absent

HistoryInv == LogExplainsMembers /\ WellFormedLog

\* A new service has an empty log and its initial members.
LEMMA HistoryInit == SourceInit => HistoryInv
<1> SUFFICES ASSUME SourceInit PROVE HistoryInv
  OBVIOUS
<1>1. Watermark = 0 /\ members = InitialMembers
  BY DEF SourceInit, Watermark
<1>2. \A e \in EntityIds : Touching(e, 0, Watermark) = {}
  BY <1>1 DEF Touching
<1>3. SourceAt(Watermark) = members
  BY <1>1, <1>2, InitialMembersAssumption DEF SourceAt, Membership
<1> QED
  BY <1>1, <1>3 DEF HistoryInv, LogExplainsMembers, WellFormedLog

\* The event and the membership after a world mutation.
LEMMA SourceChanges ==
  ASSUME SourceTypeOK, SourceNext
  PROVE  \E v \in SourceEvent :
           /\ events' = Append(events, v)
           /\ members' = [members EXCEPT ![v.entity] = v.score]
           /\ v.change = "score_changed" => members[v.entity] # Absent
           /\ ~AllowReAdd /\ v.change = "added" => members[v.entity] = Absent
<1> USE EntityIdsAssumption, ScoresAssumption
<1>1. PICK e \in EntityIds :
        \/ \E s \in Scores : AddMember(e, s) \/ ChangeScore(e, s)
        \/ RemoveMember(e)
  BY DEF SourceNext
<1>2. ASSUME NEW s \in Scores, AddMember(e, s)
      PROVE  \E v \in SourceEvent :
               /\ v = [entity |-> e, change |-> "added", score |-> s]
               /\ events' = Append(events, v)
  BY <1>2 DEF AddMember, RecordEvent, SourceEvent, Event, ChangeTypes, Absent
<1>3. ASSUME NEW s \in Scores, ChangeScore(e, s)
      PROVE  \E v \in SourceEvent :
               /\ v = [entity |-> e, change |-> "score_changed", score |-> s]
               /\ events' = Append(events, v)
  BY <1>3 DEF ChangeScore, RecordEvent, SourceEvent, Event, ChangeTypes, Absent
<1>4. ASSUME RemoveMember(e)
      PROVE  \E v \in SourceEvent :
               /\ v = [entity |-> e, change |-> "removed", score |-> Absent]
               /\ events' = Append(events, v)
  BY <1>4 DEF RemoveMember, RecordEvent, SourceEvent, Event, ChangeTypes
<1> QED
  BY <1>1, <1>2, <1>3, <1>4 DEF AddMember, ChangeScore, RemoveMember

\* The log explains the membership after each mutation.
LEMMA HistoryNext ==
  ASSUME SourceTypeOK, HistoryInv, SourceNext
  PROVE  HistoryInv' /\ \A n \in 0 .. Watermark : SourceAt(n)' = SourceAt(n)
<1>1. PICK v \in SourceEvent :
        /\ events' = Append(events, v)
        /\ members' = [members EXCEPT ![v.entity] = v.score]
        /\ v.change = "score_changed" => members[v.entity] # Absent
        /\ ~AllowReAdd /\ v.change = "added" => members[v.entity] = Absent
  BY SourceChanges
<1>2. /\ Watermark \in Nat /\ Watermark' = Watermark + 1
      /\ \A k \in 1 .. Watermark : events'[k] = events[k]
      /\ events'[Watermark + 1] = v
  BY <1>1 DEF Watermark, SourceTypeOK
<1>3. /\ \A n \in 0 .. Watermark : SourceAt(n)' = SourceAt(n)
      /\ \A e \in EntityIds :
           SourceAt(Watermark)'[e] = IF e = v.entity THEN v.score ELSE SourceAt(Watermark)[e]
  BY <1>2, PastIsStable
<1>4. LogExplainsMembers'
  <2>1. members = SourceAt(Watermark) /\ members \in Membership /\ v.entity \in EntityIds
    BY DEF HistoryInv, LogExplainsMembers, SourceTypeOK, SourceEvent, Event
  <2>2. \A e \in EntityIds : members'[e] = SourceAt(Watermark)'[e]
    BY <1>1, <1>3, <2>1 DEF Membership
  <2>3. DOMAIN members' = EntityIds /\ members' = [e \in EntityIds |-> members'[e]]
    BY <1>1, <2>1 DEF Membership
  <2>4. SourceAt(Watermark)' = [e \in EntityIds |-> SourceAt(Watermark)'[e]]
    BY DEF SourceAt
  <2> QED
    BY <2>2, <2>3, <2>4 DEF LogExplainsMembers
<1>5. WellFormedLog'
  <2> SUFFICES ASSUME NEW k \in 1 .. Watermark + 1
               PROVE  /\ events'[k].change = "score_changed" =>
                           SourceAt(k - 1)'[events'[k].entity] # Absent
                      /\ ~AllowReAdd /\ events'[k].change = "added" =>
                           SourceAt(k - 1)'[events'[k].entity] = Absent
    BY <1>2 DEF WellFormedLog
  <2>1. k - 1 \in 0 .. Watermark /\ SourceAt(k - 1)' = SourceAt(k - 1)
    BY <1>2, <1>3
  <2>2. CASE k \in 1 .. Watermark
    BY <1>2, <2>1, <2>2 DEF HistoryInv, WellFormedLog
  <2>3. CASE k = Watermark + 1
    <3>1. events'[k] = v /\ SourceAt(k - 1) = members
      BY <1>2, <2>3 DEF HistoryInv, LogExplainsMembers
    <3> QED
      BY <1>1, <2>1, <3>1
  <2> QED
    BY <1>2, <2>2, <2>3
<1> QED
  BY <1>3, <1>4, <1>5 DEF HistoryInv

\* The past is the same while the source stands still.
LEMMA StillPast ==
  ASSUME UNCHANGED sourceVars
  PROVE  /\ HistoryInv => HistoryInv'
         /\ \A n : SourceAt(n)' = SourceAt(n)
         /\ Watermark' = Watermark
<1>1. members' = members /\ events' = events /\ feed' = feed
  BY DEF sourceVars
<1>2. Watermark' = Watermark
  BY <1>1 DEF Watermark
<1>3. \A n : SourceAt(n)' = SourceAt(n)
  BY <1>1 DEF SourceAt, Touching
<1>4. ASSUME NEW n PROVE SourceAt(n)' = SourceAt(n)
  BY <1>3
<1>5. SourceAt(Watermark)' = SourceAt(Watermark)
  BY <1>1 DEF SourceAt, Touching, Watermark
<1>6. LogExplainsMembers' <=> LogExplainsMembers
  BY <1>1, <1>5 DEF LogExplainsMembers
<1>7. WellFormedLog' <=> WellFormedLog
  BY <1>1 DEF WellFormedLog, SourceAt, Touching, Watermark
<1> QED
  BY <1>2, <1>3, <1>6, <1>7 DEF HistoryInv
=============================================================================
