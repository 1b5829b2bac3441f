-------------------------- MODULE DeepSeeFoldProofs --------------------------
(***************************************************************************)
(* The loop of _fold_events computes the net effect of every batch that    *)
(* holds no score change without a score, and raises on the others: the    *)
(* synchronizer's model may use the operators of DeepSeeEvents in its      *)
(* place.                                                                  *)
(***************************************************************************)
EXTENDS DeepSeeFold, DeepSeeSourceProofs

-----------------------------------------------------------------------------
(* One more event *)

Whole(log) == 1 .. Len(log)

\* The events of a sequence are found in its extension.
LEMMA Extended ==
  ASSUME NEW log \in Seq(Event), NEW event \in Event
  PROVE  /\ Append(log, event) \in Seq(Event)
         /\ Len(log) \in Nat /\ Len(Append(log, event)) = Len(log) + 1
         /\ Whole(Append(log, event)) = Whole(log) \cup {Len(log) + 1}
         /\ \A k \in Whole(log) : k \in Nat /\ k < Len(log) + 1 /\ Append(log, event)[k] = log[k]
         /\ Append(log, event)[Len(log) + 1] = event
BY DEF Whole

\* An event changes nothing for the other entities.
LEMMA OthersUntouched ==
  ASSUME NEW log \in Seq(Event), NEW event \in Event,
         NEW e \in EntityIds, event.entity # e
  PROVE  LET longer == Append(log, event) IN
         /\ On(longer, Whole(longer), e) = On(log, Whole(log), e)
         /\ Live(longer, Whole(longer), e) = Live(log, Whole(log), e)
         /\ Adds(longer, Whole(longer), e) = Adds(log, Whole(log), e)
         /\ Rescores(longer, Whole(longer), e) = Rescores(log, Whole(log), e)
<1> DEFINE longer == Append(log, event)
<1>1. On(longer, Whole(longer), e) = On(log, Whole(log), e)
  <2>1. /\ Whole(longer) = Whole(log) \cup {Len(log) + 1}
        /\ \A k \in Whole(log) : longer[k] = log[k]
        /\ longer[Len(log) + 1] = event
    BY Extended
  <2> HIDE DEF longer
  <2> QED
    BY <2>1 DEF On
<1>2. \A k \in On(log, Whole(log), e) : longer[k] = log[k]
  BY Extended DEF On
<1>3. Live(longer, Whole(longer), e) = Live(log, Whole(log), e)
  BY <1>1, <1>2 DEF Live
<1>4. \A k \in Live(log, Whole(log), e) : longer[k] = log[k]
  BY <1>2 DEF Live
<1>5. Adds(longer, Whole(longer), e) = Adds(log, Whole(log), e)
  BY <1>3, <1>4 DEF Adds
<1>6. Rescores(longer, Whole(longer), e) = Rescores(log, Whole(log), e)
  BY <1>3, <1>5 DEF Rescores
<1> QED
  BY <1>1, <1>3, <1>5, <1>6

\* A removal is the end of everything before it.
LEMMA AfterRemoval ==
  ASSUME NEW log \in Seq(Event), NEW event \in Event, event.change = "removed"
  PROVE  LET longer == Append(log, event) IN
         /\ \E k \in On(longer, Whole(longer), event.entity) : longer[k].change = "removed"
         /\ Live(longer, Whole(longer), event.entity) = {}
         /\ Adds(longer, Whole(longer), event.entity) = {}
         /\ Rescores(longer, Whole(longer), event.entity) = {}
<1> DEFINE longer == Append(log, event)
           e == event.entity
           last == Len(log) + 1
<1>1. last \in On(longer, Whole(longer), e) /\ longer[last].change = "removed"
  BY Extended DEF On
<1>2. \A k \in On(longer, Whole(longer), e) : ~(last < k)
  BY Extended DEF On
<1>3. Live(longer, Whole(longer), e) = {}
  BY <1>1, <1>2 DEF Live
<1> QED
  BY <1>1, <1>3 DEF Adds, Rescores

\* Any other event joins those that no removal follows.
LEMMA AfterOther ==
  ASSUME NEW log \in Seq(Event), NEW event \in Event, event.change # "removed"
  PROVE  LET longer == Append(log, event)
             e == event.entity
             last == Len(log) + 1 IN
         /\ On(longer, Whole(longer), e) = On(log, Whole(log), e) \cup {last}
         /\ Live(longer, Whole(longer), e) = Live(log, Whole(log), e) \cup {last}
         /\ Adds(longer, Whole(longer), e) =
              Adds(log, Whole(log), e) \cup (IF event.change = "added" THEN {last} ELSE {})
         /\ (\E k \in On(longer, Whole(longer), e) : longer[k].change = "removed")
              <=> (\E k \in On(log, Whole(log), e) : log[k].change = "removed")
         /\ Latest(Live(longer, Whole(longer), e)) = last
<1> DEFINE longer == Append(log, event)
           e == event.entity
           last == Len(log) + 1
<1>1. On(longer, Whole(longer), e) = On(log, Whole(log), e) \cup {last}
  <2>1. /\ Whole(longer) = Whole(log) \cup {last}
        /\ \A k \in Whole(log) : longer[k] = log[k]
        /\ longer[last] = event
    BY Extended
  <2> HIDE DEF longer, last
  <2> QED
    BY <2>1 DEF On
<1>2. \A k \in On(log, Whole(log), e) : longer[k] = log[k] /\ k \in Nat /\ k < last
  BY Extended DEF On
<1>3. longer[last] = event /\ last \in Nat /\ ~(last < last)
  BY Extended
<1>4. Live(longer, Whole(longer), e) = Live(log, Whole(log), e) \cup {last}
  <2> DEFINE removed == {r \in On(log, Whole(log), e) : log[r].change = "removed"}
  <2>1. {r \in On(longer, Whole(longer), e) : longer[r].change = "removed"} = removed
    BY <1>1, <1>2, <1>3
  <2>2. Live(longer, Whole(longer), e) = {k \in On(longer, Whole(longer), e) : \A r \in removed : r < k}
    BY <2>1 DEF Live
  <2>3. Live(log, Whole(log), e) = {k \in On(log, Whole(log), e) : \A r \in removed : r < k}
    BY DEF Live
  <2>4. \A r \in removed : r < last
    BY <1>2
  <2> HIDE DEF removed
  <2> QED
    BY <1>1, <2>2, <2>3, <2>4
<1>5. Adds(longer, Whole(longer), e) =
        Adds(log, Whole(log), e) \cup (IF event.change = "added" THEN {last} ELSE {})
  <2>1. \A k \in Live(log, Whole(log), e) : longer[k] = log[k]
    BY <1>2 DEF Live
  <2> QED
    BY <1>3, <1>4, <2>1 DEF Adds
<1>6. (\E k \in On(longer, Whole(longer), e) : longer[k].change = "removed")
        <=> (\E k \in On(log, Whole(log), e) : log[k].change = "removed")
  BY <1>1, <1>2, <1>3
<1>7. Latest(Live(longer, Whole(longer), e)) = last
  <2>1. \A k \in Live(log, Whole(log), e) : k \in Nat /\ k <= last
    BY <1>2, <1>3 DEF Live
  <2>2. Live(longer, Whole(longer), e) \in SUBSET Int
        /\ last \in Live(longer, Whole(longer), e)
        /\ \A k \in Live(longer, Whole(longer), e) : k <= last
    BY <1>3, <1>4, <2>1
  <2> QED
    BY <2>2, LatestIs
<1> QED
  BY <1>1, <1>4, <1>5, <1>6, <1>7

\* An addition leaves the score changes before it where they are; a score change
\* joins them only if no addition has come.
LEMMA RescoresAfterOther ==
  ASSUME NEW log \in Seq(Event), NEW event \in Event, event.change # "removed"
  PROVE  LET longer == Append(log, event)
             e == event.entity
             last == Len(log) + 1 IN
         /\ event.change = "added" \/ Adds(log, Whole(log), e) # {} =>
              Rescores(longer, Whole(longer), e) = Rescores(log, Whole(log), e)
         /\ event.change # "added" /\ Adds(log, Whole(log), e) = {} =>
              /\ Rescores(longer, Whole(longer), e) # {}
              /\ Latest(Rescores(longer, Whole(longer), e)) = last
<1> DEFINE longer == Append(log, event)
           e == event.entity
           last == Len(log) + 1
<1>1. /\ Live(longer, Whole(longer), e) = Live(log, Whole(log), e) \cup {last}
      /\ Adds(longer, Whole(longer), e) =
           Adds(log, Whole(log), e) \cup (IF event.change = "added" THEN {last} ELSE {})
      /\ Latest(Live(longer, Whole(longer), e)) = last
  BY AfterOther
<1>2. \A k \in Live(log, Whole(log), e) : k \in Nat /\ k < last /\ ~(last < k)
  BY Extended DEF Live, On
<1>3. Adds(log, Whole(log), e) \subseteq Live(log, Whole(log), e) /\ ~(last < last)
  BY Extended DEF Adds
<1>4. ASSUME event.change = "added"
      PROVE  Rescores(longer, Whole(longer), e) = Rescores(log, Whole(log), e)
  BY <1>1, <1>2, <1>3, <1>4 DEF Rescores
<1>5. ASSUME event.change # "added", Adds(log, Whole(log), e) # {}
      PROVE  Rescores(longer, Whole(longer), e) = Rescores(log, Whole(log), e)
  BY <1>1, <1>2, <1>3, <1>5 DEF Rescores
<1>6. ASSUME event.change # "added", Adds(log, Whole(log), e) = {}
      PROVE  Rescores(longer, Whole(longer), e) = Live(longer, Whole(longer), e)
  BY <1>1, <1>6 DEF Rescores
<1> QED
  BY <1>1, <1>4, <1>5, <1>6

-----------------------------------------------------------------------------
(* The loop *)

Scored(log) == \A k \in Whole(log) : ~Scoreless(log[k])

\* The last of the live events is one of them, and no removal.
LEMMA LiveScores ==
  ASSUME NEW log \in Seq(Event), NEW e \in EntityIds, Adds(log, Whole(log), e) # {}, Scored(log)
  PROVE  Additions(log, Whole(log))[e] # Absent
<1> DEFINE live == Live(log, Whole(log), e)
<1>1. live # {} /\ live \in SUBSET Int /\ Len(log) \in Int /\ \A k \in live : k <= Len(log)
  BY DEF Adds, Live, On, Whole
<1>2. Latest(live) \in live
  BY <1>1, LatestIsGreatest
<1>3. \A k \in live : log[k] \in Event /\ log[k].change # "removed" /\ ~Scoreless(log[k])
  <2>1. \A k \in live : k \in Whole(log) /\ k \in Int /\ k \in On(log, Whole(log), e)
    BY DEF Live, On, Whole
  <2>2. \A k \in Whole(log) : log[k] \in Event /\ ~Scoreless(log[k])
    BY DEF Whole, Scored
  <2> QED
    BY <2>1, <2>2 DEF Live
<1>4. log[Latest(live)].change # "added" => log[Latest(live)].score # Absent
  BY <1>2, <1>3 DEF Event, ChangeTypes, Scoreless
<1>5. AddedScore(log[Latest(live)].score) # Absent
  BY DEF AddedScore, Absent
<1> QED
  BY <1>4, <1>5 DEF Additions

FoldInv == ordered \in Seq(Event) /\ raised \in BOOLEAN /\ FoldIsNetEffect

LEMMA FoldInit == Init => FoldInv
<1> SUFFICES ASSUME Init PROVE FoldInv
  OBVIOUS
<1>1. ordered = << >> /\ ordered \in Seq(Event) /\ 1 .. Len(ordered) = {}
  BY DEF Init
<1>2. \A e \in EntityIds : On(ordered, {}, e) = {}
  BY DEF On
<1> QED
  BY <1>1, <1>2 DEF Init, FoldInv, FoldIsNetEffect, NoEntries, Additions, Removals,
     ScoreChanges, Live, Adds, Rescores

\* The event changes nothing in the dictionaries for the other entities.
LEMMA OthersKeep ==
  ASSUME NEW log \in Seq(Event), NEW event \in Event, NEW e \in EntityIds, event.entity # e
  PROVE  LET longer == Append(log, event) IN
         /\ Additions(longer, Whole(longer))[e] = Additions(log, Whole(log))[e]
         /\ e \in Removals(longer, Whole(longer)) <=> e \in Removals(log, Whole(log))
         /\ ScoreChanges(longer, Whole(longer))[e] = ScoreChanges(log, Whole(log))[e]
<1> DEFINE longer == Append(log, event)
<1>1. /\ On(longer, Whole(longer), e) = On(log, Whole(log), e)
      /\ Live(longer, Whole(longer), e) = Live(log, Whole(log), e)
      /\ Adds(longer, Whole(longer), e) = Adds(log, Whole(log), e)
      /\ Rescores(longer, Whole(longer), e) = Rescores(log, Whole(log), e)
  BY OthersUntouched
<1>2. \A k \in On(log, Whole(log), e) : longer[k] = log[k]
  BY Extended DEF On
<1>3. Adds(log, Whole(log), e) # {} =>
        longer[Latest(Live(log, Whole(log), e))] = log[Latest(Live(log, Whole(log), e))]
  <2>1. Live(log, Whole(log), e) \in SUBSET Int /\ Len(log) \in Int
        /\ \A k \in Live(log, Whole(log), e) : k <= Len(log)
    BY DEF Live, On, Whole
  <2>2. Adds(log, Whole(log), e) # {} => Live(log, Whole(log), e) # {}
    BY DEF Adds
  <2>3. Live(log, Whole(log), e) \subseteq On(log, Whole(log), e)
    BY DEF Live
  <2> QED
    BY <1>2, <2>1, <2>2, <2>3, LatestIsGreatest
<1>4. Rescores(log, Whole(log), e) # {} =>
        longer[Latest(Rescores(log, Whole(log), e))]
          = log[Latest(Rescores(log, Whole(log), e))]
  <2>1. Rescores(log, Whole(log), e) \in SUBSET Int /\ Len(log) \in Int
        /\ \A k \in Rescores(log, Whole(log), e) : k <= Len(log)
    BY DEF Rescores, Live, On, Whole
  <2>2. Rescores(log, Whole(log), e) \subseteq On(log, Whole(log), e)
    BY DEF Rescores, Live
  <2> QED
    BY <1>2, <2>1, <2>2, LatestIsGreatest
<1>5. e \in EntityIds
  OBVIOUS
<1>6. Additions(longer, Whole(longer))[e] = Additions(log, Whole(log))[e]
  BY <1>1, <1>3, <1>5 DEF Additions
<1>7. e \in Removals(longer, Whole(longer)) <=> e \in Removals(log, Whole(log))
  BY <1>1, <1>2, <1>5 DEF Removals
<1>8. ScoreChanges(longer, Whole(longer))[e] = ScoreChanges(log, Whole(log))[e]
  BY <1>1, <1>4, <1>5 DEF ScoreChanges
<1> QED
  BY <1>6, <1>7, <1>8

\* What the event does to the entry of its own entity.
LEMMA OwnEntry ==
  ASSUME NEW log \in Seq(Event), NEW event \in Event
  PROVE  LET longer == Append(log, event)
             e == event.entity IN
         /\ event.change = "added" =>
              /\ Additions(longer, Whole(longer))[e] = AddedScore(event.score)
              /\ e \notin Removals(longer, Whole(longer))
              /\ ScoreChanges(longer, Whole(longer))[e] = ScoreChanges(log, Whole(log))[e]
         /\ event.change = "removed" =>
              /\ Additions(longer, Whole(longer))[e] = Absent
              /\ e \in Removals(longer, Whole(longer))
              /\ ScoreChanges(longer, Whole(longer))[e] = Absent
         /\ event.change = "score_changed" /\ Scored(log) =>
              /\ IF Additions(log, Whole(log))[e] # Absent
                 THEN /\ Additions(longer, Whole(longer))[e] = event.score
                      /\ ScoreChanges(longer, Whole(longer))[e] = ScoreChanges(log, Whole(log))[e]
                 ELSE /\ Additions(longer, Whole(longer))[e] = Additions(log, Whole(log))[e]
                      /\ ScoreChanges(longer, Whole(longer))[e] = event.score
              /\ e \in Removals(longer, Whole(longer)) <=> e \in Removals(log, Whole(log))
<1> DEFINE longer == Append(log, event)
           e == event.entity
           last == Len(log) + 1
<1>1. e \in EntityIds /\ longer[last] = event
  BY Extended DEF Event
<1>2. ASSUME event.change = "removed"
      PROVE  /\ Additions(longer, Whole(longer))[e] = Absent
             /\ e \in Removals(longer, Whole(longer))
             /\ ScoreChanges(longer, Whole(longer))[e] = Absent
  BY <1>1, <1>2, AfterRemoval DEF Additions, Removals, ScoreChanges
<1>3. ASSUME event.change # "removed"
      PROVE  /\ Adds(longer, Whole(longer), e) =
                  Adds(log, Whole(log), e) \cup (IF event.change = "added" THEN {last} ELSE {})
             /\ (\E k \in On(longer, Whole(longer), e) : longer[k].change = "removed")
                  <=> (\E k \in On(log, Whole(log), e) : log[k].change = "removed")
             /\ Latest(Live(longer, Whole(longer), e)) = last
  BY <1>3, AfterOther
<1>4. ASSUME event.change # "removed",
             Rescores(longer, Whole(longer), e) = Rescores(log, Whole(log), e)
      PROVE  ScoreChanges(longer, Whole(longer))[e] = ScoreChanges(log, Whole(log))[e]
  <2> DEFINE rescores == Rescores(log, Whole(log), e)
  <2>1. rescores \in SUBSET Int /\ Len(log) \in Int /\ \A k \in rescores : k <= Len(log)
    BY DEF Rescores, Live, On, Whole
  <2>2. rescores # {} => Latest(rescores) \in rescores
    BY <2>1, LatestIsGreatest
  <2>3. \A k \in rescores : longer[k] = log[k]
    <3>1. \A k \in Whole(log) : longer[k] = log[k]
      BY Extended DEF Whole
    <3>2. rescores \subseteq Whole(log)
      BY DEF Rescores, Live, On, Whole
    <3> QED
      BY <3>1, <3>2
  <2> QED
    BY <1>1, <1>4, <2>2, <2>3 DEF ScoreChanges
<1>5. ASSUME event.change = "added"
      PROVE  /\ Additions(longer, Whole(longer))[e] = AddedScore(event.score)
             /\ e \notin Removals(longer, Whole(longer))
             /\ ScoreChanges(longer, Whole(longer))[e] = ScoreChanges(log, Whole(log))[e]
  <2>1. Adds(longer, Whole(longer), e) # {} /\ Latest(Live(longer, Whole(longer), e)) = last
    BY <1>3, <1>5
  <2>2. Rescores(longer, Whole(longer), e) = Rescores(log, Whole(log), e)
    BY <1>5, RescoresAfterOther
  <2> QED
    BY <1>1, <1>4, <1>5, <2>1, <2>2 DEF Additions, Removals
<1>6. ASSUME event.change = "score_changed", Scored(log), Adds(log, Whole(log), e) # {}
      PROVE  /\ Additions(log, Whole(log))[e] # Absent
             /\ Additions(longer, Whole(longer))[e] = event.score
             /\ ScoreChanges(longer, Whole(longer))[e] = ScoreChanges(log, Whole(log))[e]
             /\ e \in Removals(longer, Whole(longer)) <=> e \in Removals(log, Whole(log))
  <2>1. Adds(longer, Whole(longer), e) # {} /\ Latest(Live(longer, Whole(longer), e)) = last
    BY <1>3, <1>6
  <2>2. Rescores(longer, Whole(longer), e) = Rescores(log, Whole(log), e)
    BY <1>6, RescoresAfterOther
  <2>3. Additions(log, Whole(log))[e] # Absent
    BY <1>1, <1>6, LiveScores
  <2>4. Additions(longer, Whole(longer))[e] = event.score
    BY <1>1, <1>6, <2>1 DEF Additions
  <2>5. e \in Removals(longer, Whole(longer)) <=> e \in Removals(log, Whole(log))
    BY <1>1, <1>6, <2>1 DEF Removals
  <2> QED
    BY <1>4, <1>6, <2>2, <2>3, <2>4, <2>5
<1>7. ASSUME event.change = "score_changed", Adds(log, Whole(log), e) = {}
      PROVE  /\ Additions(log, Whole(log))[e] = Absent
             /\ Additions(longer, Whole(longer))[e] = Absent
             /\ ScoreChanges(longer, Whole(longer))[e] = event.score
             /\ e \in Removals(longer, Whole(longer)) <=> e \in Removals(log, Whole(log))
  <2>1. Adds(longer, Whole(longer), e) = {}
    BY <1>3, <1>7
  <2>2. Rescores(longer, Whole(longer), e) # {} /\ Latest(Rescores(longer, Whole(longer), e)) = last
    BY <1>7, RescoresAfterOther
  <2>3. Additions(log, Whole(log))[e] = Absent /\ Additions(longer, Whole(longer))[e] = Absent
    BY <1>1, <1>7, <2>1 DEF Additions
  <2>4. ScoreChanges(longer, Whole(longer))[e] = event.score
    BY <1>1, <2>2 DEF ScoreChanges
  <2>5. e \in Removals(longer, Whole(longer)) <=> e \in Removals(log, Whole(log))
    BY <1>1, <1>3, <1>7, <2>1 DEF Removals
  <2> QED
    BY <2>3, <2>4, <2>5
<1> QED
  BY <1>2, <1>5, <1>6, <1>7

\* The events of the longer batch, with and without a score.
LEMMA ScoredExtended ==
  ASSUME NEW log \in Seq(Event), NEW event \in Event
  PROVE  Scored(Append(log, event)) <=> Scored(log) /\ ~Scoreless(event)
<1> DEFINE longer == Append(log, event)
<1>1. /\ Whole(longer) = Whole(log) \cup {Len(log) + 1}
      /\ \A k \in Whole(log) : longer[k] = log[k]
      /\ longer[Len(log) + 1] = event
  BY Extended
<1> HIDE DEF longer
<1>2. Scored(longer) <=> Scored(log) /\ ~Scoreless(event)
  BY <1>1 DEF Scored
<1> QED
  BY <1>2 DEF longer

LEMMA FoldNext == FoldInv /\ [Next]_vars => FoldInv'
<1> SUFFICES ASSUME FoldInv, [Next]_vars PROVE FoldInv'
  OBVIOUS
<1>1. CASE UNCHANGED vars
  BY <1>1 DEF vars, FoldInv, FoldIsNetEffect
<1>2. ASSUME NEW event \in Event, FoldRaises(event)
      PROVE  FoldInv'
  <2>1. /\ ordered' = Append(ordered, event) /\ ordered \in Seq(Event)
        /\ ordered' \in Seq(Event) /\ raised' = TRUE /\ Scoreless(event)
    BY <1>2, Extended DEF FoldRaises, Consume, FoldInv
  <2>2. ~Scored(ordered')
    BY <2>1, ScoredExtended
  <2> QED
    BY <2>1, <2>2 DEF FoldInv, FoldIsNetEffect, Scored, Whole
<1>3. ASSUME NEW event \in Event,
             FoldAdded(event) \/ FoldRemoved(event) \/ FoldScoreChanged(event)
      PROVE  FoldInv'
  <2> DEFINE longer == Append(ordered, event)
             e == event.entity
  <2>1. /\ ordered' = longer /\ ordered \in Seq(Event) /\ longer \in Seq(Event)
        /\ e \in EntityIds
    BY <1>3, Extended DEF FoldAdded, FoldRemoved, FoldScoreChanged, Consume, FoldInv, Event
  <2>2. ~raised /\ raised' = raised /\ ~Scoreless(event)
    BY <1>3 DEF FoldAdded, FoldRemoved, FoldScoreChanged, Consume, Scoreless
  <2>3. Scored(ordered) /\ Scored(longer)
    <3>1. Scored(ordered)
      BY <2>2 DEF FoldInv, FoldIsNetEffect, Scored, Whole
    <3> QED
      BY <2>2, <2>1, <3>1, ScoredExtended
  <2>4. /\ additions = Additions(ordered, Whole(ordered))
        /\ removals = Removals(ordered, Whole(ordered))
        /\ scoreChanges = ScoreChanges(ordered, Whole(ordered))
    BY <2>2 DEF FoldInv, FoldIsNetEffect, Whole
  <2>5. /\ \A x \in EntityIds \ {e} : additions'[x] = additions[x]
        /\ \A x \in EntityIds \ {e} : x \in removals' <=> x \in removals
        /\ \A x \in EntityIds \ {e} : scoreChanges'[x] = scoreChanges[x]
        /\ additions' = [x \in EntityIds |-> additions'[x]]
        /\ scoreChanges' = [x \in EntityIds |-> scoreChanges'[x]]
        /\ removals' \subseteq EntityIds
    <3>1. /\ additions = [x \in EntityIds |-> additions[x]]
          /\ scoreChanges = [x \in EntityIds |-> scoreChanges[x]]
          /\ removals \subseteq EntityIds
      BY <2>4 DEF Additions, Removals, ScoreChanges
    <3> QED
      BY <1>3, <2>1, <3>1 DEF FoldAdded, FoldRemoved, FoldScoreChanged
  <2>6. /\ additions'[e] = Additions(longer, Whole(longer))[e]
        /\ e \in removals' <=> e \in Removals(longer, Whole(longer))
        /\ scoreChanges'[e] = ScoreChanges(longer, Whole(longer))[e]
    <3>1. additions = [x \in EntityIds |-> additions[x]]
          /\ scoreChanges = [x \in EntityIds |-> scoreChanges[x]]
      BY <2>4 DEF Additions, ScoreChanges
    <3>2. CASE FoldAdded(event)
      BY <2>1, <2>4, <3>1, <3>2, OwnEntry DEF FoldAdded
    <3>3. CASE FoldRemoved(event)
      BY <2>1, <2>4, <3>1, <3>3, OwnEntry DEF FoldRemoved
    <3>4. CASE FoldScoreChanged(event)
      BY <2>1, <2>4, <2>3, <3>1, <3>4, OwnEntry DEF FoldScoreChanged
    <3> QED
      BY <1>3, <3>2, <3>3, <3>4
  <2>7. \A x \in EntityIds \ {e} :
          /\ additions'[x] = Additions(longer, Whole(longer))[x]
          /\ x \in removals' <=> x \in Removals(longer, Whole(longer))
          /\ scoreChanges'[x] = ScoreChanges(longer, Whole(longer))[x]
    BY <2>1, <2>4, <2>5, OthersKeep
  <2> HIDE DEF longer, e
  <2>8. additions' = Additions(longer, Whole(longer))
    BY <2>1, <2>5, <2>6, <2>7 DEF Additions
  <2>9. removals' = Removals(longer, Whole(longer))
    <3>1. Removals(longer, Whole(longer)) \subseteq EntityIds
      BY DEF Removals
    <3>2. ASSUME NEW x \in EntityIds
          PROVE  x \in removals' <=> x \in Removals(longer, Whole(longer))
      <4>1. CASE x = e
        BY <2>6, <4>1
      <4>2. CASE x # e
        BY <2>7, <4>2
      <4> QED
        BY <4>1, <4>2
    <3>3. removals' \subseteq EntityIds
      BY <2>5
    <3> QED
      BY <3>1, <3>2, <3>3
  <2>10. scoreChanges' = ScoreChanges(longer, Whole(longer))
    BY <2>1, <2>5, <2>6, <2>7 DEF ScoreChanges
  <2> QED
    BY <2>2, <2>1, <2>8, <2>9, <2>10, <2>3 DEF FoldInv, FoldIsNetEffect, Whole, Scored
<1> QED
  BY <1>1, <1>3, <1>2 DEF Next

\* For every batch, be it doubled, out of order or of events on one entity, the
\* loop raises if a score change has no score, and otherwise its three
\* dictionaries hold the net effect that DeepSeeEvents defines
\* (synchronizer.py:295-320).
THEOREM FoldIsNetEffectCorrect == Spec => []FoldIsNetEffect
<1>1. FoldInv => FoldIsNetEffect
  BY DEF FoldInv
<1> QED
  BY <1>1, FoldInit, FoldNext, PTL DEF Spec
=============================================================================
