--------------------------- MODULE MCQueryService ---------------------------
(* Small instances of QueryService for TLC.                                *)
EXTENDS QueryService

MCInitialMembers == [e \in EntityIds |-> IF e \in {2, 3} THEN 1 ELSE Absent]
MCRowBytes == [e \in EntityIds |-> e + 2]

\* Queries do not read the change feed: its delivery modes do not matter.
MCKnobs ==
  {k \in FeedKnobs : ~k.duplicate_delivery /\ ~k.out_of_order /\ ~k.redeliver_from_start}

MCCaseFilters == {EntityIds, {2}}
MCLimits == {NoLimit, 1, 2, 3}

\* With a reference the service's requirement is always met.
MCAccesses ==
  {[reference |-> TRUE, require_auth |-> TRUE], [reference |-> FALSE, require_auth |-> TRUE]}
=============================================================================
