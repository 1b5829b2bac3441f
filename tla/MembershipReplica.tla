-------------------------- MODULE MembershipReplica --------------------------
(***************************************************************************)
(* What a synchronizer promises, without events, pages or watermarks: a    *)
(* source goes through a sequence of values, and a replica holds one of    *)
(* them, moving along that sequence and never back, unless it is lost.     *)
(* Positions count from 1; position 0 is a replica that has to be filled.  *)
(***************************************************************************)
EXTENDS Naturals, Sequences

CONSTANTS Values, Start, Empty

VARIABLES timeline, replica, position

replicaVars == <<timeline, replica, position>>

Init ==
  /\ timeline = <<Start>>
  /\ replica = Empty
  /\ position = 0

\* The source changes, perhaps to the value it already had.
Change ==
  /\ \E v \in Values : timeline' = Append(timeline, v)
  /\ UNCHANGED <<replica, position>>

\* The replica takes the source's value of some point it has not passed.
CatchUp ==
  /\ \E p \in 1 .. Len(timeline) :
       p >= position /\ position' = p /\ replica' = timeline[p]
  /\ UNCHANGED timeline

\* The replica is gone and has to be filled anew.
Lose ==
  /\ replica' = Empty /\ position' = 0
  /\ UNCHANGED timeline

Next == Change \/ CatchUp \/ Lose

Spec == Init /\ [][Next]_replicaVars
=============================================================================
