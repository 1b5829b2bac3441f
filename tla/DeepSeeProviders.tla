-------------------------- MODULE DeepSeeProviders --------------------------
(***************************************************************************)
(* The two providers a query of the engine reaches DeepSee through:        *)
(* resolve() of DeepSeeMCPProvider (mcp_provider.py) pages through the     *)
(* membership while it changes; query() of DeepSeeRemoteProvider           *)
(* (remote_provider.py) fetches evidence rows for some of the members.     *)
(* Each page and each fetch is an operation of DeepSeeClient.              *)
(***************************************************************************)
EXTENDS DeepSeeSource, DeepSeeClient, SequencesExt

CONSTANTS
  BitmapThreshold,  \* bitmap_threshold
  MaxPages,         \* MAX_PAGES
  CaseFilters       \* the sets of entities whose rows may satisfy a filter

ASSUME PagesAssumption == BitmapThreshold \in Nat /\ MaxPages \in Nat \ {0}
ASSUME CaseFiltersAssumption == CaseFilters \subseteq SUBSET EntityIds

VARIABLES
  op,        \* the operation in hand: "resolve" or "query"
  cursor,    \* cursor of the next snapshot page
  ids,       \* entity_ids: of the pages so far, then of the result
  scores,    \* scores, likewise
  since,     \* auxiliary: the watermark of the first page
  mark,      \* watermark of the last page
  form,      \* how the result carries the ids; "none" while there is none
  cut,       \* the limit resolve() was given
  evidence   \* the last RemoteResult, with what was asked of it

resolveVars == <<cursor, ids, scores, since, mark, form, cut>>
providerVars == <<op, resolveVars, evidence>>

NoLimit == -1
Within(n, limit) == limit = NoLimit \/ n <= limit

NoEvidence ==
  [rows |-> {}, requested |-> {}, filter |-> {}, limit |-> NoLimit, mark |-> -1]

ProvidersTypeOK ==
  /\ op \in {"resolve", "query"}
  /\ cursor \in Nat
  /\ ids \in Seq(EntityIds)
  /\ scores \in Membership
  /\ since \in Nat /\ mark \in Nat
  /\ form \in {"none", "ids", "encoded", "wire", "malformed"}
  /\ cut \in Nat \cup {NoLimit}
  /\ evidence \in [rows : SUBSET EntityIds, requested : SUBSET EntityIds,
                   filter : SUBSET EntityIds, limit : Nat \cup {NoLimit},
                   mark : Nat \cup {-1}]

\* Mutant of FreshResolve: the list of ids outlives the call.
FreshResolve_SharedList ==
  /\ op' = "resolve"
  /\ cursor' = 0 /\ ids' = ids /\ scores' = scores
  /\ since' = 0 /\ mark' = 0 /\ form' = "none" /\ cut' = NoLimit

\* A new call of resolve(): its locals start empty.
FreshResolve ==
  /\ op' = "resolve"
  /\ cursor' = 0 /\ ids' = << >> /\ scores' = [e \in EntityIds |-> Absent]
  /\ since' = 0 /\ mark' = 0 /\ form' = "none" /\ cut' = NoLimit

-----------------------------------------------------------------------------
(* resolve() *)

\* The elements of S in a total order, given as its pairs.
Arranged(S, order) ==
  [n \in 1 .. Cardinality(S) |->
     CHOOSE e \in S : Cardinality({x \in S : <<x, e>> \in order}) = n]

\* The members highest score first, then lowest id.
RanksBefore(score, a, b) == score[a] > score[b] \/ (score[a] = score[b] /\ a < b)

\* Mutant of Kept: the first ids of the pages are kept.
Kept_FirstPages(list, score, limit) ==
  IF Within(Len(list), limit) THEN list ELSE SubSeq(list, 1, limit)

\* The limit counts the list's items, of which some may be the same member.
Kept(list, score, limit) ==
  IF Within(Len(list), limit)
  THEN list
  ELSE LET order == {p \in (DOMAIN list) \X (DOMAIN list) :
                       \/ RanksBefore(score, list[p[1]], list[p[2]])
                       \/ list[p[1]] = list[p[2]] /\ p[1] <= p[2]}
           sorted == Arranged(DOMAIN list, order)
       IN  [n \in 1 .. limit |-> list[sorted[n]]]

Ascending(S) == Arranged(S, {p \in S \X S : p[1] <= p[2]})

\* The result of the last page; a bitmap holds each id once, in order.
ReturnIds(list, score, limit) ==
  LET kept == Kept(list, score, limit)
      encoded == Len(kept) >= BitmapThreshold
  IN  /\ ids' = IF encoded THEN Ascending(ToSet(kept)) ELSE kept
      /\ scores' = [e \in EntityIds |-> IF e \in ToSet(kept) THEN score[e] ELSE Absent]
      /\ form' = IF encoded THEN "encoded" ELSE "ids"
      /\ cut' = limit
      /\ cursor' = 0 /\ at' = "resolved"

\* A bitmap from the wire is passed on as it is: nothing applies the limit.
ReturnWireBitmap(limit) ==
  /\ ids' = Ascending(MemberIds) /\ scores' = members
  /\ form' = "wire" /\ cut' = limit
  /\ cursor' = 0 /\ at' = "resolved"

\* A page arrives and passes the client's validation.
PageAnswers(defect) ==
  op = "resolve" /\ Answers /\ ~Stale(defect) /\ ~BreaksContract(defect)

\* The cursor chain is longer than MAX_PAGES.
Unbounded(next) == next >= MaxPages * PageSize

PageIds == Ascending(SnapshotPageIds(cursor))
PageScores ==
  [e \in EntityIds |-> IF e \in SnapshotPageIds(cursor) THEN members[e] ELSE scores[e]]

\* Mutant of ReadPage: an empty page ends the chain, and so does a short one.
ReadPage_OnePage(limit) ==
  /\ PageAnswers("none")
  /\ since' = Watermark /\ mark' = Watermark
  /\ IF feed.bitmap_snapshot
     THEN ReturnWireBitmap(limit)
     ELSE ReturnIds(ids \o PageIds, PageScores, limit)
  /\ UNCHANGED <<sourceVars, error, op, evidence>>

ReadPage(limit) ==
  /\ PageAnswers("none")
  /\ since' = IF cursor = 0 THEN Watermark ELSE since
  /\ mark' = Watermark
  /\ IF feed.bitmap_snapshot
     THEN ReturnWireBitmap(limit)
     ELSE IF SnapshotNextCursor(cursor) = NoCursor
     THEN ReturnIds(ids \o PageIds, PageScores, limit)
     ELSE /\ ~Unbounded(SnapshotNextCursor(cursor))
          /\ ids' = ids \o PageIds /\ scores' = PageScores
          /\ cursor' = SnapshotNextCursor(cursor)
          /\ at' = "token"
          /\ UNCHANGED <<form, cut>>
  /\ UNCHANGED <<sourceVars, error, op, evidence>>

\* A bitmap that is none is passed on as well, undecoded, with the scores that
\* came beside it.
PassOnMalformed(limit) ==
  /\ PageAnswers("malformed") /\ feed.bitmap_snapshot
  /\ since' = Watermark /\ mark' = Watermark
  /\ ids' = << >> /\ scores' = members /\ form' = "malformed" /\ cut' = limit
  /\ cursor' = 0 /\ at' = "resolved"
  /\ UNCHANGED <<sourceVars, error, op, evidence>>

PageRejected(defect) ==
  /\ op = "resolve" /\ Answers
  /\ \/ Stale(defect) /\ Raise("stale")
     \/ BreaksContract(defect) /\ Raise("contract")
     \/ defect = "none" /\ Unbounded(SnapshotNextCursor(cursor)) /\ Raise("contract")
  /\ UNCHANGED <<sourceVars, providerVars>>

-----------------------------------------------------------------------------
(* query() *)

\* cases(): rows of the members asked for, filtered, lowest ids first.
Matching(requested, filter, defect) ==
  {e \in MemberIds \cap filter : defect = "unfiltered" \/ e \in requested}
FirstRows(S, limit) ==
  {e \in S : Within(Cardinality({x \in S : x <= e}), limit)}

\* The entity_filter, if the engine pushes one down, names the resolved ids.
Requested(pushed) == IF pushed THEN ToSet(ids) ELSE EntityIds

\* Mutant of Outside: nobody compares the rows with the request.
Outside_Unchecked(found, requested) == {}

\* Rows of entities outside the entity_filter.
Outside(found, requested) == found \ requested

FetchCases(pushed, filter, limit, defect) ==
  LET requested == Requested(pushed)
      found == FirstRows(Matching(requested, filter, defect), limit)
  IN  /\ op = "query" /\ Answers /\ ~Stale(defect)
      /\ Outside(found, requested) = {}
      /\ evidence' = [rows |-> found, requested |-> requested, filter |-> filter,
                      limit |-> limit, mark |-> Watermark]
      /\ at' = "evidenced"
      /\ UNCHANGED <<sourceVars, error, op, resolveVars>>

\* The response is stale; or some row leaves the request; or the rows asked
\* for lack the column that would tell.
CasesRejected(filter, limit, defect) ==
  LET found == FirstRows(Matching(Requested(TRUE), filter, defect), limit)
  IN  /\ op = "query" /\ Answers
      /\ \/ Stale(defect) /\ Raise("stale")
         \/ ~Stale(defect) /\ Outside(found, Requested(TRUE)) # {} /\ Raise("contract")
         \/ ~Stale(defect) /\ found # {} /\ Raise("key_error")
      /\ UNCHANGED <<sourceVars, providerVars>>

\* A resource the provider does not serve: no call is made.
UnknownResource ==
  /\ op = "query" /\ at = "token"
  /\ Raise("contract")
  /\ UNCHANGED <<sourceVars, access, callVars, providerVars>>
=============================================================================
