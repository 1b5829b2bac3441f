---------------------------- MODULE DeepSeeFold ----------------------------
(***************************************************************************)
(* The loop of _fold_events (app/connectors/deepsee/synchronizer.py:295),  *)
(* one iteration per step, over any sequence of wire events.  It leaves    *)
(* in its three dictionaries what module DeepSeeEvents says in one         *)
(* definition each, which is what DeepSeeSynchronizer publishes, unless it *)
(* meets a score change without a score and raises.                        *)
(***************************************************************************)
EXTENDS DeepSeeEvents

CONSTANT MaxBatch   \* bound on the number of events folded

ASSUME MaxBatchAssumption == MaxBatch \in Nat

VARIABLES
  ordered,       \* the events folded so far
  additions,     \* dict: [id |-> score, or Absent]
  removals,      \* set of ids
  scoreChanges,  \* dict: [id |-> score, or Absent]
  raised         \* has contract_error ended the loop?

vars == <<ordered, additions, removals, scoreChanges, raised>>

NoEntries == [e \in EntityIds |-> Absent]

Init ==
  /\ ordered = << >>
  /\ additions = NoEntries /\ removals = {} /\ scoreChanges = NoEntries
  /\ raised = FALSE

Consume(event) ==
  /\ ~raised /\ Len(ordered) < MaxBatch
  /\ ordered' = Append(ordered, event)

FoldAdded(event) ==
  /\ event.change = "added"
  /\ additions' = [additions EXCEPT ![event.entity] = AddedScore(event.score)]
  /\ removals' = removals \ {event.entity}
  /\ UNCHANGED <<scoreChanges, raised>>
  /\ Consume(event)

\* Mutant of FoldRemoved: the earlier score change is not popped.
FoldRemoved_KeepsScore(event) ==
  /\ event.change = "removed"
  /\ removals' = removals \cup {event.entity}
  /\ additions' = [additions EXCEPT ![event.entity] = Absent]
  /\ UNCHANGED <<scoreChanges, raised>>
  /\ Consume(event)

FoldRemoved(event) ==
  /\ event.change = "removed"
  /\ removals' = removals \cup {event.entity}
  /\ additions' = [additions EXCEPT ![event.entity] = Absent]
  /\ scoreChanges' = [scoreChanges EXCEPT ![event.entity] = Absent]
  /\ UNCHANGED raised
  /\ Consume(event)

FoldScoreChanged(event) ==
  /\ event.change = "score_changed" /\ event.score # Absent
  /\ IF additions[event.entity] # Absent
     THEN /\ additions' = [additions EXCEPT ![event.entity] = event.score]
          /\ UNCHANGED scoreChanges
     ELSE /\ scoreChanges' = [scoreChanges EXCEPT ![event.entity] = event.score]
          /\ UNCHANGED additions
  /\ UNCHANGED <<removals, raised>>
  /\ Consume(event)

\* contract_error: no dictionary is returned.
FoldRaises(event) ==
  /\ Scoreless(event)
  /\ raised' = TRUE
  /\ UNCHANGED <<additions, removals, scoreChanges>>
  /\ Consume(event)

Next ==
  \E event \in Event :
    FoldAdded(event) \/ FoldRemoved(event) \/ FoldScoreChanged(event) \/ FoldRaises(event)

Spec == Init /\ [][Next]_vars

-----------------------------------------------------------------------------
\* The loop raises exactly on the batches that hold a score change without a
\* score, and computes the net effect of all others (synchronizer.py:295-320).
FoldIsNetEffect ==
  /\ raised <=> \E k \in 1 .. Len(ordered) : Scoreless(ordered[k])
  /\ ~raised => /\ additions = Additions(ordered, 1 .. Len(ordered))
                /\ removals = Removals(ordered, 1 .. Len(ordered))
                /\ scoreChanges = ScoreChanges(ordered, 1 .. Len(ordered))
=============================================================================
