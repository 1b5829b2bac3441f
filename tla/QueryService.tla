---------------------------- MODULE QueryService ----------------------------
(***************************************************************************)
(* QueryService.execute (app/services/query_service.py): one query at a    *)
(* time is followed from the check of its LIMIT through the operations the *)
(* engine runs on the two DeepSee providers to the check of the encoded    *)
(* size of its rows.  The source changes, other callers run and the        *)
(* service fails at any point.                                             *)
(*                                                                         *)
(* What the engine does between the calls is external: it resolves the     *)
(* members first, may fetch evidence for them, may push the LIMIT and the  *)
(* members down, and returns one row for each member it has resolved and,  *)
(* when it fetched evidence, has evidence of, at most LIMIT of them.  A     *)
(* membership bitmap that does not decode ends the query.                  *)
(***************************************************************************)
EXTENDS DeepSeeProviders

CONSTANTS
  MaxResultRows,     \* max_result_rows
  MaxResponseBytes,  \* max_response_bytes
  RowBytes,          \* [entity |-> the length of its row's JSON text]
  Limits             \* the LIMITs queries have

ASSUME ResultLimitsAssumption == MaxResultRows \in Nat \ {0} /\ MaxResponseBytes \in Nat \ {0}
ASSUME RowBytesAssumption == RowBytes \in [EntityIds -> Nat]
ASSUME LimitsAssumption == Limits \subseteq Nat \cup {NoLimit}

VARIABLES
  wanted,    \* the query's LIMIT
  outcome,   \* how the query ended
  rows       \* the rows it returned, or was refused for

queryVars == <<wanted, outcome, rows>>
vars == <<sourceVars, clientVars, providerVars, queryVars>>

TypeOK ==
  /\ SourceTypeOK /\ ClientTypeOK /\ ProvidersTypeOK
  /\ wanted \in Limits
  /\ outcome \in {"none", "answered", "E305", "E306"}
  /\ rows \subseteq EntityIds

Init ==
  /\ SourceInit /\ ClientInit
  /\ op = "resolve"
  /\ cursor = 0 /\ ids = << >> /\ scores = [e \in EntityIds |-> Absent]
  /\ since = 0 /\ mark = 0 /\ form = "none" /\ cut = NoLimit
  /\ evidence = NoEvidence
  /\ wanted \in Limits /\ outcome = "none" /\ rows = {}

-----------------------------------------------------------------------------
(* _validate_select_limit() *)

Admissible(limit) == limit # NoLimit /\ limit <= MaxResultRows

StartQuery(limit) ==
  /\ at = "idle"
  /\ wanted' = limit /\ rows' = {}
  /\ FreshResolve /\ ForgetCall
  /\ evidence' = NoEvidence
  /\ error' = "none"
  /\ IF Admissible(limit)
     THEN outcome' = "none" /\ at' = "token"
     ELSE outcome' = "E305" /\ at' = "idle"
  /\ UNCHANGED <<sourceVars, access>>

-----------------------------------------------------------------------------
(* The engine's calls *)

\* The LIMIT may be pushed down or not.
Pushed == {NoLimit, wanted}

FetchEvidence ==
  /\ at = "resolved" /\ form # "malformed"
  /\ op' = "query" /\ at' = "token"
  /\ UNCHANGED <<sourceVars, access, callVars, error,
                 resolveVars, evidence, queryVars>>

\* The provider has passed on a bitmap that is none.
EngineCannotDecode ==
  /\ at = "resolved" /\ form = "malformed"
  /\ Raise("decode")
  /\ UNCHANGED <<sourceVars, access, callVars, providerVars>>

ProviderStep ==
  \/ CallStep /\ UNCHANGED <<sourceVars, providerVars>>
  \/ \E limit \in Pushed : ReadPage(limit) \/ PassOnMalformed(limit)
  \/ EngineCannotDecode
  \/ \E defect \in Defects :
       \/ PageRejected(defect)
       \/ \E filter \in CaseFilters, limit \in Pushed :
            \/ \E pushed \in BOOLEAN : FetchCases(pushed, filter, limit, defect)
            \/ CasesRejected(filter, limit, defect)
  \/ UnknownResource

-----------------------------------------------------------------------------
(* The size of the rows *)

Total(S) == MapThenSumSet(LAMBDA e : RowBytes[e], S)

\* encoded_size counts the rows and separators, and nothing of `meta`.
EncodedSize(S) == 2 + Total(S) + Cardinality(S)

\* The comparison is inside the loop over the rows: an answer without rows is
\* never refused.  Rows only add: some prefix exceeds the limit if and only if
\* the whole list does.
TooLarge(S) == S # {} /\ EncodedSize(S) > MaxResponseBytes

\* The members the engine has rows of.
Found == IF op = "query" THEN ToSet(ids) \cap evidence.rows ELSE ToSet(ids)

Return(S) ==
  /\ at = IF op = "query" THEN "evidenced" ELSE "resolved"
  /\ form # "malformed"
  /\ S \subseteq Found
  /\ Cardinality(S) = Lesser(Cardinality(Found), wanted)
  /\ rows' = S
  /\ outcome' = IF TooLarge(S) THEN "E306" ELSE "answered"
  /\ at' = "idle"
  /\ UNCHANGED <<sourceVars, access, callVars, error,
                 providerVars, wanted>>

QueryStep ==
  \/ ProviderStep /\ UNCHANGED queryVars
  \/ FetchEvidence
  \/ \E S \in SUBSET EntityIds : Return(S)

Next ==
  \/ \E limit \in Limits : StartQuery(limit)
  \/ QueryStep
  \/ SourceNext /\ UNCHANGED <<clientVars, providerVars, queryVars>>

Spec == Init /\ [][Next]_vars

\* Calls return or raise and sleeps end; nobody has to ask, and the world owes
\* nothing.
FairSpec == Spec /\ WF_vars(QueryStep)

-----------------------------------------------------------------------------
(* Correctness *)

Resolved == ToSet(ids)
MembersAt(n) == {e \in EntityIds : SourceAt(n)[e] # Absent}

\* If nothing changed between its first and its last page, resolve() returns
\* the members and their scores, each member once, and under a limit those of
\* the highest scores (mcp_provider.py:70-121).  Of a bitmap from the wire it
\* does not know whether it decodes: one that does holds all members, and the
\* scores beside it are theirs whether it does or not (mcp_provider.py:55-68).
UntornResolveIsExact ==
  form # "none" /\ since = mark =>
    /\ form \in {"wire", "malformed"} => scores = SourceAt(mark)
    /\ form # "malformed" =>
         /\ Cardinality(Resolved) = Len(ids)
         /\ \A e \in Resolved : scores[e] = SourceAt(mark)[e]
         /\ Resolved \subseteq MembersAt(mark)
         /\ IF form = "wire" \/ Within(Cardinality(MembersAt(mark)), cut)
            THEN Resolved = MembersAt(mark)
            ELSE /\ Cardinality(Resolved) = cut
                 /\ \A kept \in Resolved, lost \in MembersAt(mark) \ Resolved :
                      RanksBefore(SourceAt(mark), kept, lost)

\* Whatever changes while resolve() reads, it invents nothing: each id was a
\* member with the score it is given at some moment between the first page
\* and the last (mcp_provider.py:70-90); so was each that a bitmap from the wire
\* decodes to.
NothingInvented ==
  form # "none" =>
    \A e \in Resolved :
      scores[e] # Absent /\ \E n \in since .. mark : SourceAt(n)[e] = scores[e]

\* A change that took effect between the first page and the last.
Took(change, k) ==
  /\ k \in since + 1 .. mark
  /\ events[k].change = change
  /\ (SourceAt(k - 1)[events[k].entity] = Absent) <=> change = "added"

\* Offsets shift under the reader, and in no other way: a member of the whole
\* time is missed only if a member below it was removed, and an id comes twice
\* only if one below it was added or it left and came back
\* (mcp_provider.py:70-90, mock_service.py:170-183).  A limit that has let more
\* than one copy of an id in may have cut off a member, though the bitmap then
\* holds fewer than the limit (mcp_provider.py:98-101, 134).  Nothing is said of
\* a bitmap from the wire that does not decode.
OnlyShiftsTearPages ==
  form \notin {"none", "malformed"} /\ (cut = NoLimit \/ Len(ids) < cut) =>
    \A e \in EntityIds :
      /\ e \notin Resolved =>
           \/ \E n \in since .. mark : e \notin MembersAt(n)
           \/ \E k \in since + 1 .. mark : Took("removed", k) /\ events[k].entity < e
           \/ /\ form = "encoded" /\ cut # NoLimit
              /\ \E k \in since + 1 .. mark : Took("added", k)
      /\ Cardinality({i \in DOMAIN ids : ids[i] = e}) > 1 =>
           \E k \in since + 1 .. mark : Took("added", k) /\ events[k].entity <= e

\* Evidence stays inside the request, also when the service ignores the
\* filter; and a resolved member that satisfies the filters is without
\* evidence only if it has left since the resolve, or the limit cut it off
\* (remote_provider.py:47-61, mock_service.py:241-261).
EvidenceForResolved ==
  evidence # NoEvidence =>
    /\ evidence.rows \subseteq evidence.requested \cap evidence.filter
    /\ \A e \in (Resolved \cap evidence.filter) \ evidence.rows :
         \/ \E n \in since .. evidence.mark : e \notin MembersAt(n)
         \/ Cardinality(evidence.rows) = evidence.limit

\* Every query ends, even if the service never stops failing: retries, pages
\* and fetches are bounded (client.py:155-165, mcp_provider.py:77-81).
QueriesEnd == at # "idle" ~> at = "idle"
=============================================================================
