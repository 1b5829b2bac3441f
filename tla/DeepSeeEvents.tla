--------------------------- MODULE DeepSeeEvents ---------------------------
(***************************************************************************)
(* Change events of the DeepSee wire contract                              *)
(* (app/connectors/deepsee/models.py) and the net effect of a batch of     *)
(* them, as _fold_events (synchronizer.py:295) leaves it in its three      *)
(* dictionaries.  `log` is the source's event sequence; a batch is a set   *)
(* of positions in it, applied in watermark order, which is position       *)
(* order.  Module DeepSeeFold runs the loop itself and shows that it       *)
(* computes these operators.                                               *)
(***************************************************************************)
EXTENDS Integers, Sequences, FiniteSets

CONSTANTS
  EntityIds,   \* the INT64 keys an entity may have
  Scores       \* the scores a member may have: 0 is 0.0, 1 is 1.0, the
               \* others are floats the code does not tell apart

ASSUME EntityIdsAssumption == EntityIds \subseteq Nat /\ IsFiniteSet(EntityIds)
ASSUME ScoresAssumption == Scores \subseteq Nat

Absent == -1   \* the key is missing: no member, no entry, no score

ChangeTypes == {"added", "removed", "score_changed"}

\* The score is optional, whatever the change (score: float | None).
Event == [entity : EntityIds, change : ChangeTypes, score : Scores \cup {Absent}]

\* A score change that says no score, on which _fold_events raises.
Scoreless(event) == event.change = "score_changed" /\ event.score = Absent

Latest(S) == CHOOSE k \in S : \A j \in S : j <= k

\* The batch's events on entity e, and those no removal of e follows.
On(log, batch, e) == {k \in batch : log[k].entity = e}
Live(log, batch, e) ==
  {k \in On(log, batch, e) :
     \A r \in On(log, batch, e) : log[r].change = "removed" => r < k}

Adds(log, batch, e) == {k \in Live(log, batch, e) : log[k].change = "added"}

\* Mutant of Rescores: a removal does not discard the score change before it.
Rescores_Undiscarded(log, batch, e) ==
  {k \in On(log, batch, e) :
     log[k].change = "score_changed" /\ \A a \in Adds(log, batch, e) : k < a}

\* Score changes that no addition preceded: they stay in score_changes even
\* when an addition follows.
Rescores(log, batch, e) ==
  {k \in Live(log, batch, e) : \A a \in Adds(log, batch, e) : k < a}

\* float(event.score or 1.0): None and 0.0 are both false.
AddedScore(score) == IF score \in {0, Absent} THEN 1 ELSE score

Additions(log, batch) ==
  [e \in EntityIds |->
     IF Adds(log, batch, e) = {}
     THEN Absent
     ELSE LET last == log[Latest(Live(log, batch, e))]
          IN  IF last.change = "added" THEN AddedScore(last.score) ELSE last.score]

Removals(log, batch) ==
  {e \in EntityIds :
     /\ \E k \in On(log, batch, e) : log[k].change = "removed"
     /\ Adds(log, batch, e) = {}}

ScoreChanges(log, batch) ==
  [e \in EntityIds |->
     IF Rescores(log, batch, e) = {}
     THEN Absent
     ELSE log[Latest(Rescores(log, batch, e))].score]
=============================================================================
