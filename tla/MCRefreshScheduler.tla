------------------------- MODULE MCRefreshScheduler -------------------------
(* Small instances of RefreshScheduler for TLC. *)
EXTENDS RefreshScheduler

CONSTANTS c1, c2, loop, caller

\* c1 is due again after two ticks of the clock, every other context after
\* three.
MCInterval == [c \in Contexts |-> IF c = c1 THEN 2 ELSE 3]

\* The loop alone with two contexts; a second caller of tick(); the latter with
\* failures whose recording raises.
MCDeployments ==
  {[contexts |-> {c1, c2}, callers |-> {}, escapes |-> FALSE],
   [contexts |-> {c1}, callers |-> {caller}, escapes |-> FALSE],
   [contexts |-> {c1}, callers |-> {caller}, escapes |-> TRUE]}
=============================================================================
