------------------------- MODULE QueryServiceProofs -------------------------
(***************************************************************************)
(* A query through the two DeepSee providers, for any source, any          *)
(* configuration of retries, delays, pages and limits, and any query: the  *)
(* retry budget of every operation, what resolve() returns while the       *)
(* membership changes under its pages, and the evidence query() fetches.   *)
(***************************************************************************)
EXTENDS QueryService, DeepSeeSourceProofs, FiniteSetTheorems

\* Calls made and delays slept, by the number of the attempt.
Spent ==
  /\ at = "call" => tries = attempt /\ slept <= attempt * BackoffCap
  /\ at = "sleep" =>
       attempt < MaxRetries /\ tries = attempt + 1 /\ slept <= (attempt + 1) * BackoffCap

ClientInv ==
  /\ at \in Steps /\ attempt \in 0 .. MaxRetries
  /\ slept \in Nat /\ tries \in Nat
  /\ tries <= MaxRetries + 1
  /\ slept <= MaxRetries * BackoffCap
  /\ error \in Transient => at = "idle" /\ tries = MaxRetries + 1
  /\ Spent

\* Every delay is capped.
LEMMA DelayIsCapped ==
  ASSUME NEW kind, NEW n \in 0 .. MaxRetries
  PROVE  RetryDelay(kind, n) \in 0 .. BackoffCap
<1>1. BackoffBase * 2 ^ n \in Nat
  BY BackoffAssumption
<1> DEFINE wished == IF kind = "rate_limit" THEN RetryAfter ELSE BackoffBase * 2 ^ n
<1>2. wished \in Nat
  BY <1>1, DelayAssumption
<1> HIDE DEF wished
<1>3. Lesser(wished, BackoffCap) \in 0 .. BackoffCap
  BY <1>2, DelayAssumption DEF Lesser
<1> QED
  BY <1>3 DEF RetryDelay, wished

\* Products of attempts and the cap.
LEMMA Products ==
  ASSUME NEW n \in Nat, NEW m \in Nat, n <= m
  PROVE  /\ n * BackoffCap \in Nat
         /\ (n + 1) * BackoffCap = n * BackoffCap + BackoffCap
         /\ n * BackoffCap <= m * BackoffCap
<1> USE DelayAssumption
<1>1. n * BackoffCap \in Nat /\ (m - n) * BackoffCap \in Nat
  OBVIOUS
<1>2. m * BackoffCap = n * BackoffCap + (m - n) * BackoffCap
  OBVIOUS
<1>3. (n + 1) * BackoffCap = n * BackoffCap + BackoffCap
  OBVIOUS
<1> QED
  BY <1>1, <1>2, <1>3

\* A step that ends or begins an operation: what the operation spent is kept
\* or forgotten as a whole.
LEMMA BetweenCalls ==
  ASSUME ClientInv, at' \in Steps \ {"call", "sleep"},
         error' \notin Transient,
         \/ UNCHANGED callVars
         \/ ForgetCall
  PROVE  ClientInv'
<1>1. 0 <= MaxRetries * BackoffCap
  BY DelayAssumption
<1> QED
  BY <1>1, DelayAssumption
  DEF ClientInv, Spent, callVars, ForgetCall, Transient

\* Each step of an operation stays within the budget.
LEMMA CallKeepsBudget == ClientInv /\ CallStep => ClientInv'
<1> SUFFICES ASSUME ClientInv, CallStep PROVE ClientInv'
  OBVIOUS
<1> USE DelayAssumption
<1>1. 0 <= MaxRetries * BackoffCap /\ MaxRetries * BackoffCap \in Nat
  OBVIOUS
<1>2. ASSUME NEW kind \in FailureKinds, BackOff(kind) PROVE ClientInv'
  <2>1. attempt < MaxRetries /\ at = "call" /\ at' = "sleep" /\ error' = error
    BY <1>2 DEF BackOff, CallService, Retries
  <2>2. attempt' = attempt /\ tries' = tries + 1 /\ slept' = slept + RetryDelay(kind, attempt)
    BY <1>2 DEF BackOff, CallService
  <2>3. attempt \in Nat /\ attempt \in 0 .. MaxRetries
    BY DEF ClientInv
  <2>4. RetryDelay(kind, attempt) \in 0 .. BackoffCap
    BY <2>3, DelayIsCapped
  <2>5. slept <= attempt * BackoffCap /\ tries = attempt /\ slept \in Nat
    BY <2>1 DEF ClientInv, Spent
  <2>6. /\ attempt * BackoffCap \in Nat
        /\ (attempt + 1) * BackoffCap = attempt * BackoffCap + BackoffCap
    BY <2>3, Products
  <2>7. (attempt + 1) * BackoffCap <= MaxRetries * BackoffCap
    BY <2>1, <2>3, Products
  <2>8. slept' \in Nat /\ slept' <= (attempt + 1) * BackoffCap
    BY <2>2, <2>4, <2>5, <2>6
  <2>9. slept' <= MaxRetries * BackoffCap
    BY <2>6, <2>7, <2>8
  <2>10. error' \notin Transient
    BY <2>1 DEF ClientInv
  <2> QED
    BY <2>1, <2>2, <2>3, <2>5, <2>8, <2>9, <2>10 DEF ClientInv, Spent, Steps
<1>3. ASSUME NEW kind \in FailureKinds, GiveUp(kind) PROVE ClientInv'
  <2>1. /\ at = "call" /\ at' = "idle" /\ error' = kind
        /\ tries' = tries + 1 /\ attempt' = attempt /\ slept' = slept
    BY <1>3 DEF GiveUp, CallService, Raise
  <2>2. tries = attempt /\ attempt \in 0 .. MaxRetries
    BY <2>1 DEF ClientInv, Spent
  <2>3. kind \in Transient => attempt = MaxRetries
    BY <1>3, <2>2 DEF GiveUp, Retries
  <2> QED
    BY <2>1, <2>2, <2>3 DEF ClientInv, Spent, Steps
<1>4. CASE Refused
  <2>1. /\ at = "call" /\ at' = "idle" /\ error' = "auth"
        /\ tries' = tries + 1 /\ attempt' = attempt /\ slept' = slept
    BY <1>4 DEF Refused, CallService, Raise
  <2>2. tries = attempt /\ attempt \in 0 .. MaxRetries
    BY <2>1 DEF ClientInv, Spent
  <2> QED
    BY <2>1, <2>2 DEF ClientInv, Spent, Steps, Transient
<1>5. CASE WakeUp
  <2>1. /\ at = "sleep" /\ at' = "call" /\ attempt' = attempt + 1
        /\ UNCHANGED <<slept, tries, error>>
    BY <1>5 DEF WakeUp
  <2> QED
    BY <2>1 DEF ClientInv, Spent, Steps
<1>6. CASE ResolveToken
  <2>1. 0 * BackoffCap = 0
    OBVIOUS
  <2> QED
    BY <1>1, <1>6, <2>1 DEF ResolveToken, ClientInv, Spent, Steps
<1>7. CASE CredentialMissing
  BY <1>7 DEF CredentialMissing, Raise, callVars, ClientInv, Spent, Steps, Transient
<1> QED
  BY <1>2, <1>3, <1>4, <1>5, <1>6, <1>7 DEF CallStep

\* So does every other step of a query: outside of a call there is nothing to
\* spend, and an answer or an error of the provider ends the operation.
LEMMA QueryKeepsBudget == ClientInv /\ QueryStep => ClientInv'
<1> SUFFICES ASSUME ClientInv, QueryStep PROVE ClientInv'
  OBVIOUS
<1>1. at # "idle" => error \notin Transient
  BY DEF ClientInv
<1>2. CASE CallStep
  BY <1>2, CallKeepsBudget
<1>3. CASE \E limit \in Pushed : ReadPage(limit)
  <2>1. at = "call" /\ ForgetCall /\ error' = error
    BY <1>3 DEF ReadPage, PageAnswers, Answers
  <2>2. at' \in {"token", "resolved"}
    BY <1>3 DEF ReadPage, ReturnIds, ReturnWireBitmap
  <2> QED
    BY <1>1, <2>1, <2>2, BetweenCalls DEF Steps
<1>4. CASE \E defect \in Defects : PageRejected(defect)
  <2>1. ForgetCall /\ at' = "idle" /\ error' \in {"stale", "contract"}
    BY <1>4 DEF PageRejected, Answers, Raise
  <2> QED
    BY <2>1, BetweenCalls DEF Steps, Transient
<1>5. CASE \E defect \in Defects, filter \in CaseFilters, limit \in Pushed, pushed \in BOOLEAN :
             FetchCases(pushed, filter, limit, defect)
  <2>1. at = "call" /\ ForgetCall /\ error' = error /\ at' = "evidenced"
    BY <1>5 DEF FetchCases, Answers
  <2> QED
    BY <1>1, <2>1, BetweenCalls DEF Steps
<1>6. CASE \E defect \in Defects, filter \in CaseFilters, limit \in Pushed :
             CasesRejected(filter, limit, defect)
  <2>1. ForgetCall /\ at' = "idle" /\ error' \in {"stale", "contract", "key_error"}
    BY <1>6 DEF CasesRejected, Answers, Raise
  <2> QED
    BY <2>1, BetweenCalls DEF Steps, Transient
<1>7. CASE UnknownResource
  <2>1. UNCHANGED callVars /\ at' = "idle" /\ error' = "contract"
    BY <1>7 DEF UnknownResource, Raise
  <2> QED
    BY <2>1, BetweenCalls DEF Steps, Transient
<1>8. CASE FetchEvidence
  <2>1. UNCHANGED callVars /\ at = "resolved" /\ at' = "token" /\ error' = error
    BY <1>8 DEF FetchEvidence
  <2> QED
    BY <1>1, <2>1, BetweenCalls DEF Steps
<1>9. CASE \E S \in SUBSET EntityIds : Return(S)
  <2>1. UNCHANGED callVars /\ at # "idle" /\ at' = "idle" /\ error' = error
    BY <1>9 DEF Return
  <2> QED
    BY <1>1, <2>1, BetweenCalls DEF Steps
<1>10. CASE \E limit \in Pushed : PassOnMalformed(limit)
  <2>1. at = "call" /\ ForgetCall /\ error' = error /\ at' = "resolved"
    BY <1>10 DEF PassOnMalformed, PageAnswers, Answers
  <2> QED
    BY <1>1, <2>1, BetweenCalls DEF Steps
<1>11. CASE EngineCannotDecode
  <2>1. UNCHANGED callVars /\ at' = "idle" /\ error' = "decode"
    BY <1>11 DEF EngineCannotDecode, Raise
  <2> QED
    BY <2>1, BetweenCalls DEF Steps, Transient
<1> QED
  BY <1>2, <1>3, <1>4, <1>5, <1>6, <1>7, <1>8, <1>9, <1>10, <1>11 DEF QueryStep, ProviderStep

\* Every step stays within the budget.
LEMMA BudgetNext == ClientInv /\ [Next]_vars => ClientInv'
<1> SUFFICES ASSUME ClientInv, [Next]_vars PROVE ClientInv'
  OBVIOUS
<1>1. CASE \E limit \in Limits : StartQuery(limit)
  <2>1. ForgetCall /\ at' \in {"token", "idle"} /\ error' = "none"
    BY <1>1 DEF StartQuery
  <2> QED
    BY <2>1, BetweenCalls DEF Steps, Transient
<1>2. CASE QueryStep
  BY <1>2, QueryKeepsBudget
<1>3. CASE UNCHANGED clientVars
  BY <1>3 DEF clientVars, callVars, ClientInv, Spent
<1> QED
  BY <1>1, <1>2, <1>3 DEF Next, vars

\* When the server starts nothing has been spent.
LEMMA BudgetInit == Init => ClientInv
<1>1. 0 <= MaxRetries * BackoffCap
  BY DelayAssumption
<1> QED
  BY <1>1, DelayAssumption DEF Init, ClientInit, ClientInv, Spent, Steps, Transient

\* No operation of the client calls more than max_retries + 1 times or sleeps
\* longer than max_retries capped delays, and a transient failure is raised
\* only when the budget is used up (client.py:155-176).
THEOREM RetryBudgetCorrect == Spec => []RetryBudget
<1>1. Init => ClientInv
  BY BudgetInit
<1>2. ClientInv /\ [Next]_vars => ClientInv'
  BY BudgetNext
<1>3. ClientInv => RetryBudget
  BY DEF ClientInv, RetryBudget
<1> QED
  BY <1>1, <1>2, <1>3, PTL DEF Spec

-----------------------------------------------------------------------------
(* The evidence of a query *)

\* Each element of a finite set of numbers has a rank of its own, and every
\* rank up to the size of the set is taken.
RankIn(S, e) == Cardinality({x \in S : x <= e})

\* A greater element has a greater rank.
LEMMA RanksGrow ==
  ASSUME NEW S \in SUBSET Nat, IsFiniteSet(S), NEW a \in S, NEW b \in S, a < b
  PROVE  RankIn(S, a) < RankIn(S, b)
<1> DEFINE A == {x \in S : x <= a}
           B == {x \in S : x <= b}
<1>1. A \in SUBSET B /\ B \in SUBSET S /\ b \in B /\ b \notin A
  <2>1. a \in Nat /\ b \in Nat /\ ~(b <= a) /\ b <= b
    OBVIOUS
  <2>2. \A x \in S : x <= a => x <= b
    <3>1. \A x \in S : x \in Nat
      OBVIOUS
    <3> QED
      BY <2>1, <3>1
  <2> QED
    BY <2>1, <2>2, Zenon
<1> HIDE DEF A, B
<1>2. IsFiniteSet(B)
  BY <1>1, FS_Subset
<1>3. IsFiniteSet(A) /\ Cardinality(A) <= Cardinality(B) /\ Cardinality(B) # Cardinality(A)
  BY <1>1, <1>2, FS_Subset
<1>4. Cardinality(A) \in Nat /\ Cardinality(B) \in Nat
  BY <1>2, <1>3, FS_CardinalityType
<1> QED
  BY <1>3, <1>4 DEF RankIn, A, B

\* Ranks count from 1 to the size of the set.
LEMMA RankTypes ==
  ASSUME NEW S \in SUBSET Nat, IsFiniteSet(S), NEW a \in S
  PROVE  RankIn(S, a) \in 1 .. Cardinality(S)
<1> DEFINE A == {x \in S : x <= a}
<1>1. A \in SUBSET S /\ a \in A
  OBVIOUS
<1> HIDE DEF A
<1>2. IsFiniteSet(A) /\ Cardinality(A) <= Cardinality(S)
  BY <1>1, FS_Subset
<1>3. Cardinality(A) \in Nat /\ Cardinality(S) \in Nat /\ Cardinality(A) # 0
  BY <1>1, <1>2, FS_CardinalityType, FS_EmptySet
<1> QED
  BY <1>2, <1>3 DEF RankIn, A

\* A limit that cuts rows off leaves exactly as many as it says.
LEMMA FirstRowsFill ==
  ASSUME NEW S \in SUBSET Nat, IsFiniteSet(S), NEW limit \in Nat,
         NEW e \in S, e \notin FirstRows(S, limit)
  PROVE  Cardinality(FirstRows(S, limit)) = limit
<1> DEFINE n == Cardinality(S)
           rank == [x \in S |-> RankIn(S, x)]
           F == FirstRows(S, limit)
           low == [x \in F |-> RankIn(S, x)]
<1>1. n \in Nat /\ IsFiniteSet(1 .. n) /\ Cardinality(1 .. n) = n
  <2>1. n \in Nat
    BY FS_CardinalityType
  <2> HIDE DEF n
  <2> QED
    BY <2>1, FS_Interval
<1>2. \A x \in S : RankIn(S, x) \in 1 .. n
  BY RankTypes
<1>3. \A x, y \in S : RankIn(S, x) = RankIn(S, y) => x = y
  <2> SUFFICES ASSUME NEW x \in S, NEW y \in S, x # y
               PROVE  RankIn(S, x) # RankIn(S, y)
    OBVIOUS
  <2>1. x < y \/ y < x
    BY x \in Nat, y \in Nat
  <2>2. RankIn(S, x) < RankIn(S, y) \/ RankIn(S, y) < RankIn(S, x)
    BY <2>1, RanksGrow
  <2>3. RankIn(S, x) \in Int /\ RankIn(S, y) \in Int
    BY <1>1, <1>2
  <2> QED
    BY <2>2, <2>3
<1>4. F = {x \in S : RankIn(S, x) <= limit}
  <2>1. limit # NoLimit
    BY DEF NoLimit
  <2> QED
    BY <2>1 DEF FirstRows, Within, RankIn
<1>5. limit < n
  <2>1. RankIn(S, e) \in 1 .. n /\ ~(RankIn(S, e) <= limit)
    BY <1>2, <1>4
  <2> HIDE DEF n
  <2> QED
    BY <1>1, <2>1
<1> HIDE DEF n, F
<1>6. rank \in Injection(S, 1 .. n)
  BY <1>2, <1>3 DEF Injection, IsInjective
<1>7. rank \in Surjection(S, 1 .. n)
  <2>1. IsFiniteSet(1 .. n) /\ Cardinality(S) = Cardinality(1 .. n)
    BY <1>1 DEF n
  <2> HIDE DEF rank
  <2> QED
    BY <1>6, <2>1, FS_Injection
<1>8. low \in Injection(F, 1 .. limit)
  <2>1. \A x \in F : x \in S /\ RankIn(S, x) \in 1 .. limit
    BY <1>1, <1>2, <1>4
  <2> QED
    BY <1>3, <2>1 DEF Injection, IsInjective
<1>9. low \in Surjection(F, 1 .. limit)
  <2>1. ASSUME NEW i \in 1 .. limit PROVE \E x \in F : low[x] = i
    <3>1. i \in 1 .. n /\ i <= limit
      BY <1>1, <1>5
    <3>2. PICK x \in S : rank[x] = i
      <4> HIDE DEF rank
      <4> QED
        BY <1>7, <3>1 DEF Surjection
    <3>3. x \in F /\ RankIn(S, x) = i
      BY <1>4, <3>1, <3>2
    <3> QED
      BY <3>3
  <2>2. low \in [F -> 1 .. limit]
    BY <1>8 DEF Injection
  <2> HIDE DEF low
  <2> QED
    BY <2>1, <2>2 DEF Surjection
<1>10. IsFiniteSet(F)
  <2>1. F \in SUBSET S
    BY <1>4
  <2> QED
    BY <2>1, FS_Subset
<1>11. Cardinality(1 .. limit) = limit
  BY FS_Interval
<1>12. Cardinality(F) = Cardinality(1 .. limit)
  <2>1. low \in Bijection(F, 1 .. limit)
    BY <1>8, <1>9 DEF Bijection
  <2>2. ExistsBijection(F, 1 .. limit)
    BY <2>1 DEF ExistsBijection
  <2> QED
    BY <1>10, <2>2, FS_Bijection
<1> QED
  BY <1>11, <1>12 DEF F

\* What has been fetched lies between the first page of the resolve and now.
EvidenceInv ==
  /\ SourceTypeOK /\ HistoryInv
  /\ op \in {"resolve", "query"}
  /\ since \in 0 .. Watermark
  /\ wanted \in Limits
  /\ op = "resolve" => evidence = NoEvidence
  /\ evidence # NoEvidence =>
       evidence.mark \in since .. Watermark /\ evidence.filter \subseteq EntityIds
  /\ EvidenceForResolved

\* A fetch: the request covers what was resolved, and the rows are those of the
\* members among it, cut off at the limit (mock_service.py:241-261).
LEMMA FetchHasEvidence ==
  ASSUME EvidenceInv, NEW pushed \in BOOLEAN, NEW filter \in CaseFilters, NEW limit \in Pushed,
         NEW defect, FetchCases(pushed, filter, limit, defect), UNCHANGED queryVars
  PROVE  EvidenceInv'
<1> DEFINE requested == Requested(pushed)
           S == Matching(requested, filter, defect)
           found == FirstRows(S, limit)
<1>1. /\ op = "query" /\ op' = op /\ UNCHANGED <<sourceVars, resolveVars>>
      /\ found \ requested = {}
      /\ evidence' = [rows |-> found, requested |-> requested, filter |-> filter,
                      limit |-> limit, mark |-> Watermark]
  BY DEF FetchCases, Outside
<1>2. evidence'.rows = found /\ evidence'.requested = requested /\ evidence'.filter = filter
      /\ evidence'.limit = limit /\ evidence'.mark = Watermark
  BY <1>1
<1>3. filter \subseteq EntityIds /\ EntityIds \subseteq Nat /\ IsFiniteSet(EntityIds)
  BY CaseFiltersAssumption, EntityIdsAssumption
<1>4. S \subseteq EntityIds /\ S \subseteq filter /\ found \subseteq S
  BY <1>3 DEF Matching, MemberIds, FirstRows
<1>5. IsFiniteSet(S) /\ S \subseteq Nat
  BY <1>3, <1>4, FS_Subset
<1>6. found \subseteq requested \cap filter
  BY <1>1, <1>4
<1>7. limit \in Nat \/ limit = NoLimit
  BY LimitsAssumption DEF Pushed, EvidenceInv
<1>8. ids' = ids /\ since' = since /\ Watermark' = Watermark /\ members' = members
      /\ events' = events
  BY <1>1 DEF sourceVars, resolveVars, Watermark
<1>9. since \in 0 .. Watermark /\ Watermark \in Nat
  BY DEF EvidenceInv, Watermark, SourceTypeOK
<1> HIDE DEF requested, S, found
<1>10. ASSUME NEW e \in (Resolved \cap filter) \ found
       PROVE  \/ \E n \in since .. Watermark : e \notin MembersAt(n)
              \/ Cardinality(found) = limit
  <2>1. e \in EntityIds /\ e \in filter /\ e \in requested
    BY <1>3 DEF requested, Requested, Resolved
  <2>2. CASE members[e] = Absent
    <3>1. e \notin MembersAt(Watermark)
      BY <2>2 DEF MembersAt, EvidenceInv, HistoryInv, LogExplainsMembers
    <3> QED
      BY <1>9, <3>1
  <2>3. CASE members[e] # Absent
    <3>1. e \in S
      BY <2>1, <2>3 DEF S, Matching, MemberIds
    <3>2. limit \in Nat
      BY <1>7, <3>1 DEF found, FirstRows, Within
    <3> QED
      BY <1>5, <3>1, <3>2, FirstRowsFill DEF found
  <2> QED
    BY <2>2, <2>3
<1>11. \A n \in since .. Watermark : MembersAt(n)' = MembersAt(n)
  BY <1>8 DEF MembersAt, SourceAt, Touching
<1>12. Resolved' = Resolved
  BY <1>8 DEF Resolved
<1>13. EvidenceForResolved'
  <2>1. \A e \in (Resolved' \cap filter) \ found :
          \/ \E n \in since .. Watermark : e \notin MembersAt(n)'
          \/ Cardinality(found) = limit
    BY <1>10, <1>11, <1>12
  <2> QED
    BY <1>2, <1>6, <1>8, <2>1 DEF EvidenceForResolved, MembersAt
<1>14. HistoryInv' /\ SourceTypeOK'
  <2>1. HistoryInv'
    BY <1>1, StillPast DEF EvidenceInv
  <2> QED
    BY <1>1, <2>1 DEF EvidenceInv, SourceTypeOK, sourceVars
<1>15. wanted' = wanted
  BY DEF queryVars
<1> QED
  BY <1>1, <1>2, <1>3, <1>8, <1>9, <1>13, <1>14, <1>15 DEF EvidenceInv

\* The world goes on, and what was so between two watermarks stays so.
LEMMA WorldKeepsEvidence ==
  ASSUME EvidenceInv, SourceNext, UNCHANGED <<providerVars, queryVars>>
  PROVE  EvidenceInv'
<1>1. /\ SourceTypeOK /\ SourceTypeOK' /\ Watermark \in Nat /\ Watermark' = Watermark + 1
      /\ HistoryInv' /\ \A n \in 0 .. Watermark : SourceAt(n)' = SourceAt(n)
  BY SourceStep, HistoryNext DEF EvidenceInv, SourceTypeOK, Watermark
<1>2. UNCHANGED <<op, since, wanted, evidence, ids>>
  BY DEF providerVars, resolveVars, queryVars
<1>3. since \in 0 .. Watermark /\ since \in 0 .. Watermark'
  BY <1>1 DEF EvidenceInv
<1>4. evidence # NoEvidence =>
        evidence.mark \in since .. Watermark /\ evidence.mark \in since .. Watermark'
  BY <1>1, <1>3 DEF EvidenceInv
<1>5. EvidenceForResolved'
  <2> SUFFICES ASSUME evidence # NoEvidence PROVE EvidenceForResolved'
    BY <1>2 DEF EvidenceForResolved, NoEvidence
  <2>1. \A n \in since .. evidence.mark : MembersAt(n)' = MembersAt(n)
    <3>1. \A n \in since .. evidence.mark : n \in 0 .. Watermark
      BY <1>1, <1>3, <1>4
    <3>2. ASSUME NEW n \in 0 .. Watermark PROVE MembersAt(n)' = MembersAt(n)
      BY <1>1 DEF MembersAt
    <3> QED
      BY <3>1, <3>2
  <2>2. Resolved' = Resolved
    BY <1>2 DEF Resolved
  <2>3. /\ evidence.rows \subseteq evidence.requested \cap evidence.filter
        /\ \A e \in (Resolved \cap evidence.filter) \ evidence.rows :
             \/ \E n \in since .. evidence.mark : e \notin MembersAt(n)
             \/ Cardinality(evidence.rows) = evidence.limit
    BY DEF EvidenceInv, EvidenceForResolved
  <2>4. \A e \in (Resolved' \cap evidence.filter) \ evidence.rows :
          \/ \E n \in since .. evidence.mark : e \notin MembersAt(n)'
          \/ Cardinality(evidence.rows) = evidence.limit
    BY <2>1, <2>2, <2>3
  <2> QED
    BY <1>2, <2>3, <2>4 DEF EvidenceForResolved, MembersAt
<1> QED
  BY <1>1, <1>2, <1>3, <1>4, <1>5 DEF EvidenceInv

\* Steps between fetches, with the world standing still, keep what was fetched
\* or have nothing yet.
LEMMA StillEvidence ==
  ASSUME EvidenceInv, UNCHANGED sourceVars, op' \in {"resolve", "query"}, wanted' \in Limits,
         \/ UNCHANGED <<ids, since, evidence>> /\ (op' = op \/ op' = "query")
         \/ evidence' = NoEvidence /\ since' \in 0 .. Watermark
  PROVE  EvidenceInv'
<1>1. /\ HistoryInv' /\ SourceTypeOK' /\ Watermark' = Watermark
      /\ \A n : SourceAt(n)' = SourceAt(n)
  <2>1. SourceTypeOK'
    BY DEF EvidenceInv, sourceVars, SourceTypeOK
  <2> QED
    BY <2>1, StillPast DEF EvidenceInv
<1>2. NoEvidence' = NoEvidence
  BY DEF NoEvidence
<1>3. CASE evidence' = NoEvidence /\ since' \in 0 .. Watermark
  <2>1. EvidenceForResolved'
    BY <1>2, <1>3 DEF EvidenceForResolved
  <2> QED
    BY <1>1, <1>2, <1>3, <2>1 DEF EvidenceInv
<1>4. CASE UNCHANGED <<ids, since, evidence>> /\ (op' = op \/ op' = "query")
  <2>1. EvidenceForResolved'
    <3>1. Resolved' = Resolved
      BY <1>4 DEF Resolved
    <3>2. \A n : MembersAt(n)' = MembersAt(n)
      BY <1>1 DEF MembersAt
    <3> QED
      BY <1>2, <1>4, <3>1, <3>2 DEF EvidenceInv, EvidenceForResolved, MembersAt
  <2> QED
    BY <1>1, <1>2, <1>4, <2>1 DEF EvidenceInv
<1> QED
  BY <1>3, <1>4

\* Every step.
LEMMA EvidenceNext == ASSUME EvidenceInv, [Next]_vars PROVE EvidenceInv'
<1>1. CASE SourceNext /\ UNCHANGED <<clientVars, providerVars, queryVars>>
  BY <1>1, WorldKeepsEvidence
<1>2. CASE \E limit \in Limits : StartQuery(limit)
  <2>1. /\ UNCHANGED sourceVars /\ op' = "resolve" /\ wanted' \in Limits
        /\ evidence' = NoEvidence /\ since' = 0
    BY <1>2 DEF StartQuery, FreshResolve
  <2>2. 0 \in 0 .. Watermark
    BY DEF EvidenceInv, Watermark, SourceTypeOK
  <2> QED
    BY <2>1, <2>2, StillEvidence
<1>3. CASE \E limit \in Pushed : ReadPage(limit) /\ UNCHANGED queryVars
  <2>1. op = "resolve" /\ op' = op /\ evidence' = evidence /\ wanted' = wanted
        /\ UNCHANGED sourceVars /\ since' \in {since, Watermark}
    BY <1>3 DEF ReadPage, PageAnswers, queryVars
  <2>2. since' \in 0 .. Watermark
    BY <2>1 DEF EvidenceInv, Watermark, SourceTypeOK
  <2> QED
    BY <2>1, <2>2, StillEvidence DEF EvidenceInv
<1>4. CASE \E pushed \in BOOLEAN, filter \in CaseFilters, limit \in Pushed, defect \in Defects :
             FetchCases(pushed, filter, limit, defect) /\ UNCHANGED queryVars
  BY <1>4, FetchHasEvidence
<1>5. CASE FetchEvidence
  <2>1. UNCHANGED <<sourceVars, ids, since, evidence, wanted>> /\ op' = "query"
    BY <1>5 DEF FetchEvidence, resolveVars, queryVars
  <2> QED
    BY <2>1, StillEvidence DEF EvidenceInv
<1>6. CASE UNCHANGED <<sourceVars, providerVars, wanted>>
  <2>1. UNCHANGED <<sourceVars, op, ids, since, evidence, wanted>>
    BY <1>6 DEF providerVars, resolveVars
  <2> QED
    BY <2>1, StillEvidence DEF EvidenceInv
<1>7. CASE \E S \in SUBSET EntityIds : Return(S)
  BY <1>6, <1>7 DEF Return
<1>10. CASE \E limit \in Pushed : PassOnMalformed(limit) /\ UNCHANGED queryVars
  <2>1. op = "resolve" /\ op' = op /\ evidence' = evidence /\ wanted' = wanted
        /\ UNCHANGED sourceVars /\ since' = Watermark
    BY <1>10 DEF PassOnMalformed, PageAnswers, queryVars
  <2>2. since' \in 0 .. Watermark
    BY <2>1 DEF EvidenceInv, Watermark, SourceTypeOK
  <2> QED
    BY <2>1, <2>2, StillEvidence DEF EvidenceInv
<1>8. CASE ProviderStep /\ UNCHANGED queryVars
  BY <1>3, <1>4, <1>6, <1>8, <1>10
  DEF ProviderStep, EngineCannotDecode, PageRejected, CasesRejected, UnknownResource, queryVars
<1>9. CASE UNCHANGED vars
  BY <1>6, <1>9 DEF vars, queryVars
<1> QED
  BY <1>1, <1>2, <1>5, <1>7, <1>8, <1>9 DEF Next, QueryStep

\* The source has a past from the beginning, and nothing was fetched in it.
LEMMA EvidenceInit == Init => EvidenceInv
<1> SUFFICES ASSUME Init PROVE EvidenceInv
  OBVIOUS
<1>1. SourceTypeOK /\ Watermark = 0 /\ HistoryInv
  BY InitialMembersAssumption, KnobsAssumption, HistoryInit
  DEF Init, SourceInit, SourceTypeOK, Watermark
<1>2. EvidenceForResolved
  BY DEF Init, EvidenceForResolved
<1> QED
  BY <1>1, <1>2 DEF Init, EvidenceInv

\* Evidence stays inside the request, also when the service ignores the filter;
\* a resolved member that satisfies the filters has evidence unless it was no
\* member at some moment between the resolve and the fetch, or the limit was
\* reached (remote_provider.py:47-61, mock_service.py:241-261).
THEOREM EvidenceForResolvedCorrect == Spec => []EvidenceForResolved
<1>1. Init => EvidenceInv
  BY EvidenceInit
<1>2. EvidenceInv /\ [Next]_vars => EvidenceInv'
  BY EvidenceNext
<1>3. EvidenceInv => EvidenceForResolved
  BY DEF EvidenceInv
<1> QED
  BY <1>1, <1>2, <1>3, PTL DEF Spec

-----------------------------------------------------------------------------
(* Sorted lists *)

\* The size of an interval.
LEMMA IntervalSize ==
  ASSUME NEW N \in Nat
  PROVE  IsFiniteSet(1 .. N) /\ Cardinality(1 .. N) = N
BY FS_Interval

\* order is a total order of S, as a set of pairs.
TotalOrder(S, order) ==
  /\ \A a \in S : <<a, a>> \in order
  /\ \A a, b \in S : <<a, b>> \in order \/ <<b, a>> \in order
  /\ \A a, b \in S : <<a, b>> \in order /\ <<b, a>> \in order => a = b
  /\ \A a, b, c \in S : <<a, b>> \in order /\ <<b, c>> \in order => <<a, c>> \in order

\* The place of e, counted from 1.
PlaceIn(S, order, e) == Cardinality({x \in S : <<x, e>> \in order})

\* Each place is that of one element.
LEMMA PlacesNumber ==
  ASSUME NEW S, IsFiniteSet(S), NEW order, TotalOrder(S, order), NEW N \in Nat, N = Cardinality(S)
  PROVE  /\ \A e \in S : PlaceIn(S, order, e) \in 1 .. N
         /\ \A a, b \in S :
              PlaceIn(S, order, a) <= PlaceIn(S, order, b) <=> <<a, b>> \in order
         /\ \A n \in 1 .. N : \E e \in S : PlaceIn(S, order, e) = n
<1>1. ASSUME NEW e \in S
      PROVE  /\ IsFiniteSet({x \in S : <<x, e>> \in order})
             /\ PlaceIn(S, order, e) \in 1 .. N
  <2> DEFINE A == {x \in S : <<x, e>> \in order}
  <2>1. A \in SUBSET S /\ e \in A
    BY DEF TotalOrder
  <2> HIDE DEF A
  <2>2. IsFiniteSet(A) /\ Cardinality(A) <= N
    BY <2>1, FS_Subset
  <2>3. Cardinality(A) \in Nat /\ Cardinality(A) # 0
    BY <2>1, <2>2, FS_CardinalityType, FS_EmptySet
  <2>4. Cardinality(A) \in 1 .. N
    BY <2>2, <2>3
  <2> QED
    BY <2>2, <2>4 DEF A, PlaceIn
<1>2. ASSUME NEW a \in S, NEW b \in S, <<a, b>> \in order
      PROVE  /\ PlaceIn(S, order, a) <= PlaceIn(S, order, b)
             /\ PlaceIn(S, order, a) = PlaceIn(S, order, b) => a = b
  <2> DEFINE A == {x \in S : <<x, a>> \in order}
             B == {x \in S : <<x, b>> \in order}
  <2>1. A \in SUBSET B /\ b \in B /\ (b \in A => a = b)
    BY <1>2 DEF TotalOrder
  <2>2. IsFiniteSet(B)
    BY <1>1
  <2> HIDE DEF A, B
  <2>3. Cardinality(A) <= Cardinality(B) /\ (Cardinality(A) = Cardinality(B) => A = B)
    BY <2>1, <2>2, FS_Subset
  <2>4. Cardinality(A) = Cardinality(B) => a = b
    BY <2>1, <2>3
  <2> QED
    BY <2>3, <2>4 DEF A, B, PlaceIn
<1> DEFINE place == [e \in S |-> PlaceIn(S, order, e)]
<1>3. ASSUME NEW a \in S, NEW b \in S
      PROVE  PlaceIn(S, order, a) <= PlaceIn(S, order, b) <=> <<a, b>> \in order
  <2>1. PlaceIn(S, order, a) \in 1 .. N /\ PlaceIn(S, order, b) \in 1 .. N
    BY <1>1
  <2>2. CASE <<a, b>> \in order
    BY <1>2, <2>2
  <2>3. CASE <<a, b>> \notin order
    <3>1. <<b, a>> \in order /\ a # b
      BY <2>3 DEF TotalOrder
    <3>2. PlaceIn(S, order, b) <= PlaceIn(S, order, a) /\ PlaceIn(S, order, b) # PlaceIn(S, order, a)
      BY <1>2, <3>1
    <3> QED
      BY <2>1, <2>3, <3>2
  <2> QED
    BY <2>2, <2>3
<1>4. place \in Injection(S, 1 .. N)
  <2>1. place \in [S -> 1 .. N]
    BY <1>1
  <2>2. ASSUME NEW a \in S, NEW b \in S, PlaceIn(S, order, a) = PlaceIn(S, order, b)
        PROVE  a = b
    <3>1. PlaceIn(S, order, a) \in 1 .. N
      BY <1>1
    <3>2. <<a, b>> \in order /\ <<b, a>> \in order
      BY <1>3, <2>2, <3>1
    <3> QED
      BY <3>2 DEF TotalOrder
  <2> QED
    BY <2>1, <2>2 DEF Injection, IsInjective
<1>5. place \in Surjection(S, 1 .. N)
  <2>1. IsFiniteSet(1 .. N) /\ Cardinality(1 .. N) = N
    BY IntervalSize
  <2> HIDE DEF place
  <2> QED
    BY <1>4, <2>1, FS_Injection
<1>6. \A n \in 1 .. N : \E e \in S : place[e] = n
  <2> HIDE DEF place
  <2> QED
    BY <1>5 DEF Surjection
<1> QED
  BY <1>1, <1>3, <1>6

\* A list of S, each element once, in its order.
SortedBy(list, S, order, N) ==
  /\ list \in [1 .. N -> S]
  /\ \A e \in S : \E n \in 1 .. N : list[n] = e
  /\ \A i, j \in 1 .. N : i <= j <=> <<list[i], list[j]>> \in order

\* What is arranged is sorted.
LEMMA ArrangedFacts ==
  ASSUME NEW S, IsFiniteSet(S), NEW order, TotalOrder(S, order), NEW N \in Nat, N = Cardinality(S),
         NEW list, list = Arranged(S, order)
  PROVE  SortedBy(list, S, order, N)
<1>1. /\ \A e \in S : PlaceIn(S, order, e) \in 1 .. N
      /\ \A a, b \in S : PlaceIn(S, order, a) <= PlaceIn(S, order, b) <=> <<a, b>> \in order
      /\ \A n \in 1 .. N : \E e \in S : PlaceIn(S, order, e) = n
  BY PlacesNumber
<1>2. list = [n \in 1 .. N |-> CHOOSE e \in S : PlaceIn(S, order, e) = n]
  BY DEF Arranged, PlaceIn
<1>3. \A n \in 1 .. N : list[n] \in S /\ PlaceIn(S, order, list[n]) = n
  <2> TAKE n \in 1 .. N
  <2>1. list[n] = CHOOSE e \in S : PlaceIn(S, order, e) = n
    BY <1>2
  <2>2. \E e \in S : PlaceIn(S, order, e) = n
    BY <1>1
  <2> QED
    BY <2>1, <2>2
<1>4. ASSUME NEW e \in S PROVE \E n \in 1 .. N : list[n] = e
  <2>1. PICK n \in 1 .. N : n = PlaceIn(S, order, e)
    BY <1>1
  <2>2. list[n] \in S /\ PlaceIn(S, order, list[n]) = PlaceIn(S, order, e)
    BY <1>3, <2>1
  <2>3. <<list[n], e>> \in order /\ <<e, list[n]>> \in order
    BY <1>1, <2>1, <2>2
  <2> QED
    BY <2>2, <2>3 DEF TotalOrder
<1>5. list \in [1 .. N -> S]
  BY <1>2, <1>3
<1>6. ASSUME NEW i \in 1 .. N, NEW j \in 1 .. N
      PROVE  i <= j <=> <<list[i], list[j]>> \in order
  BY <1>1, <1>3
<1> QED
  BY <1>4, <1>5, <1>6 DEF SortedBy

\* No two of its items are the same.
OneOfEach(list) == \A i, j \in DOMAIN list : list[i] = list[j] => i = j

\* A set of ids, lowest first.
LEMMA AscendingFacts ==
  ASSUME NEW S \in SUBSET EntityIds
  PROVE  /\ Ascending(S) \in Seq(EntityIds)
         /\ Len(Ascending(S)) = Cardinality(S)
         /\ ToSet(Ascending(S)) = S
         /\ OneOfEach(Ascending(S))
<1> DEFINE order == {p \in S \X S : p[1] <= p[2]}
           list == Ascending(S)
<1>1. IsFiniteSet(S) /\ S \subseteq Nat
  BY EntityIdsAssumption, FS_Subset
<1>2. \A a, b \in S : <<a, b>> \in order <=> a <= b
  OBVIOUS
<1>3. list = Arranged(S, order)
  BY DEF Ascending
<1> HIDE DEF order, list
<1>4. TotalOrder(S, order)
  <2>1. \A a, b \in S : a \in Nat /\ b \in Nat
    BY <1>1
  <2> QED
    BY <1>2, <2>1 DEF TotalOrder
<1>5. PICK N \in Nat : N = Cardinality(S)
  BY <1>1, FS_CardinalityType
<1>6. /\ list \in [1 .. N -> S]
      /\ \A e \in S : \E n \in 1 .. N : list[n] = e
      /\ \A i, j \in 1 .. N : i <= j <=> <<list[i], list[j]>> \in order
  <2>1. SortedBy(list, S, order, N)
    BY <1>1, <1>3, <1>4, <1>5, ArrangedFacts
  <2> QED
    BY <2>1 DEF SortedBy
<1>7. list \in Seq(EntityIds) /\ Len(list) = N /\ DOMAIN list = 1 .. N
  <2>1. list \in [1 .. N -> EntityIds]
    BY <1>6
  <2> QED
    BY <2>1
<1>8. ToSet(list) = S
  BY <1>6, <1>7 DEF ToSet
<1>9. OneOfEach(list)
  <2> SUFFICES ASSUME NEW i \in 1 .. N, NEW j \in 1 .. N, list[i] = list[j] PROVE i = j
    BY <1>7 DEF OneOfEach
  <2>1. <<list[i], list[j]>> \in order <=> <<list[j], list[i]>> \in order
    OBVIOUS
  <2>2. i <= j <=> j <= i
    BY <1>6, <2>1
  <2> QED
    BY <2>2
<1> QED
  BY <1>5, <1>7, <1>8, <1>9 DEF list

\* kept holds limit of the list's items, and nothing it lacks ranks before them.
HoldsFirst(kept, list, score, limit) ==
  \E from \in [1 .. limit -> DOMAIN list] :
    /\ \A n \in 1 .. limit : kept[n] = list[from[n]]
    /\ \A m, n \in 1 .. limit : from[m] = from[n] => m = n
    /\ \A n \in 1 .. limit, j \in DOMAIN list :
         (\A m \in 1 .. limit : from[m] # j) =>
           RanksBefore(score, list[from[n]], list[j]) \/ list[from[n]] = list[j]

\* A list that its limit cuts off: what is kept is what comes first.
LEMMA KeptFacts ==
  ASSUME NEW list \in Seq(EntityIds), NEW score \in Membership, NEW limit \in Nat,
         limit < Len(list)
  PROVE  /\ Kept(list, score, limit) \in Seq(EntityIds)
         /\ Len(Kept(list, score, limit)) = limit
         /\ HoldsFirst(Kept(list, score, limit), list, score, limit)
<1> DEFINE S == DOMAIN list
           order == {p \in S \X S : \/ RanksBefore(score, list[p[1]], list[p[2]])
                                    \/ list[p[1]] = list[p[2]] /\ p[1] <= p[2]}
           sorted == Arranged(S, order)
           kept == Kept(list, score, limit)
<1>1. PICK N \in Nat : N = Len(list)
  OBVIOUS
<1>2. S = 1 .. N /\ IsFiniteSet(S) /\ Cardinality(S) = N
  <2>1. S = 1 .. N
    BY <1>1
  <2>2. IsFiniteSet(1 .. N) /\ Cardinality(1 .. N) = N
    BY <1>1, IntervalSize
  <2> QED
    BY <2>1, <2>2
<1>3. \A a, b \in S : <<a, b>> \in order <=>
        \/ RanksBefore(score, list[a], list[b])
        \/ list[a] = list[b] /\ a <= b
  OBVIOUS
<1>4. kept = [n \in 1 .. limit |-> list[sorted[n]]]
  <2>1. limit # NoLimit /\ ~(Len(list) <= limit)
    BY <1>1 DEF NoLimit
  <2> QED
    BY <2>1 DEF Kept, Within
<1> HIDE DEF order, sorted, kept
<1>5. TotalOrder(S, order)
  <2>1. \A a \in S : a \in Nat /\ list[a] \in Nat /\ score[list[a]] \in Int
    <3> TAKE a \in S
    <3>1. a \in Nat /\ list[a] \in EntityIds
      BY <1>2
    <3>2. score[list[a]] \in Scores \/ score[list[a]] = -1
      BY <3>1 DEF Membership, Absent
    <3>3. list[a] \in Nat
      BY <3>1, EntityIdsAssumption
    <3>4. score[list[a]] \in Int
      <4>1. \A s \in Scores : s \in Int
        BY ScoresAssumption
      <4> QED
        BY <3>2, <4>1
    <3> QED
      BY <3>1, <3>3, <3>4
  <2> HIDE DEF S
  <2>2. \A a \in S : <<a, a>> \in order
    BY <1>3, <2>1
  <2>3. \A a, b \in S : <<a, b>> \in order \/ <<b, a>> \in order
    <3> TAKE a, b \in S
    <3>1. PICK x, y \in Nat : x = list[a] /\ y = list[b]
      BY <2>1
    <3>2. PICK p, q \in Int : p = score[x] /\ q = score[y]
      BY <2>1, <3>1
    <3>3. /\ <<a, b>> \in order <=> p > q \/ (p = q /\ x < y) \/ (x = y /\ a <= b)
          /\ <<b, a>> \in order <=> q > p \/ (q = p /\ y < x) \/ (y = x /\ b <= a)
      BY <1>3, <3>1, <3>2 DEF RanksBefore
    <3>4. a \in Nat /\ b \in Nat
      BY <2>1
    <3> QED
      BY <3>3, <3>4
  <2>4. \A a, b \in S : <<a, b>> \in order /\ <<b, a>> \in order => a = b
    <3> TAKE a, b \in S
    <3>1. PICK x, y \in Nat : x = list[a] /\ y = list[b]
      BY <2>1
    <3>2. PICK p, q \in Int : p = score[x] /\ q = score[y]
      BY <2>1, <3>1
    <3>3. /\ <<a, b>> \in order <=> p > q \/ (p = q /\ x < y) \/ (x = y /\ a <= b)
          /\ <<b, a>> \in order <=> q > p \/ (q = p /\ y < x) \/ (y = x /\ b <= a)
      BY <1>3, <3>1, <3>2 DEF RanksBefore
    <3>4. (x = y => p = q) /\ a \in Nat /\ b \in Nat
      BY <2>1, <3>2
    <3> QED
      BY <3>3, <3>4
  <2>5. \A a, b, c \in S : <<a, b>> \in order /\ <<b, c>> \in order => <<a, c>> \in order
    <3> TAKE a, b, c \in S
    <3>1. PICK x, y, z \in Nat : x = list[a] /\ y = list[b] /\ z = list[c]
      BY <2>1
    <3>2. PICK p, q, r \in Int : p = score[x] /\ q = score[y] /\ r = score[z]
      BY <2>1, <3>1
    <3>3. /\ <<a, b>> \in order <=> p > q \/ (p = q /\ x < y) \/ (x = y /\ a <= b)
          /\ <<b, c>> \in order <=> q > r \/ (q = r /\ y < z) \/ (y = z /\ b <= c)
          /\ <<a, c>> \in order <=> p > r \/ (p = r /\ x < z) \/ (x = z /\ a <= c)
      BY <1>3, <3>1, <3>2 DEF RanksBefore
    <3>4. (x = y => p = q) /\ (y = z => q = r) /\ a \in Nat /\ b \in Nat /\ c \in Nat
      BY <2>1, <3>2
    <3> QED
      BY <3>3, <3>4
  <2> QED
    BY <2>2, <2>3, <2>4, <2>5 DEF TotalOrder
<1>6. /\ sorted \in [1 .. N -> S]
      /\ \A e \in S : \E n \in 1 .. N : sorted[n] = e
      /\ \A i, j \in 1 .. N : i <= j <=> <<sorted[i], sorted[j]>> \in order
  <2>1. sorted = Arranged(S, order)
    BY DEF sorted
  <2> HIDE DEF S
  <2>2. SortedBy(sorted, S, order, N)
    BY <1>1, <1>2, <1>5, <2>1, ArrangedFacts
  <2> QED
    BY <2>2 DEF SortedBy
<1> DEFINE from == [n \in 1 .. limit |-> sorted[n]]
<1>7. \A n \in 1 .. limit : n \in 1 .. N
  BY <1>1
<1>8. from \in [1 .. limit -> S] /\ \A n \in 1 .. limit : kept[n] = list[from[n]]
  BY <1>4, <1>6, <1>7
<1>9. \A m, n \in 1 .. limit : from[m] = from[n] => m = n
  <2> SUFFICES ASSUME NEW m \in 1 .. limit, NEW n \in 1 .. limit, sorted[m] = sorted[n]
               PROVE  m = n
    OBVIOUS
  <2>1. m <= n <=> n <= m
    BY <1>6, <1>7
  <2> QED
    BY <2>1
<1>10. ASSUME NEW n \in 1 .. limit, NEW j \in S, \A m \in 1 .. limit : from[m] # j
       PROVE  RanksBefore(score, list[from[n]], list[j]) \/ list[from[n]] = list[j]
  <2>1. PICK k \in 1 .. N : sorted[k] = j
    BY <1>6
  <2>2. k \notin 1 .. limit
    BY <1>10, <2>1
  <2>3. n <= k /\ n \in 1 .. N
    BY <1>7, <2>2
  <2>4. <<sorted[n], j>> \in order
    BY <1>6, <2>1, <2>3
  <2>5. sorted[n] \in S
    BY <1>6, <2>3
  <2> QED
    BY <1>3, <2>4, <2>5
<1>11. kept \in Seq(EntityIds) /\ Len(kept) = limit
  <2>1. \A n \in 1 .. limit : kept[n] \in EntityIds
    BY <1>2, <1>8
  <2> QED
    BY <1>4, <2>1
<1> HIDE DEF from
<1>12. HoldsFirst(kept, list, score, limit)
  BY <1>8, <1>9, <1>10 DEF HoldsFirst
<1> QED
  BY <1>11, <1>12 DEF kept

-----------------------------------------------------------------------------
(* Types *)

\* What is kept are ids of the list.
LEMMA KeptTypes ==
  ASSUME NEW list \in Seq(EntityIds), NEW score \in Membership, NEW limit \in Nat \cup {NoLimit}
  PROVE  /\ Kept(list, score, limit) \in Seq(EntityIds)
         /\ ToSet(Kept(list, score, limit)) \subseteq ToSet(list)
<1>1. CASE Within(Len(list), limit)
  BY <1>1 DEF Kept
<1>2. CASE ~Within(Len(list), limit)
  <2>1. limit \in Nat /\ limit < Len(list)
    BY <1>2 DEF Within
  <2>2. PICK kept : kept = Kept(list, score, limit)
    OBVIOUS
  <2>3. /\ kept \in Seq(EntityIds) /\ Len(kept) = limit
        /\ \E from \in [1 .. limit -> DOMAIN list] : \A n \in 1 .. limit : kept[n] = list[from[n]]
    <3>1. /\ kept \in Seq(EntityIds) /\ Len(kept) = limit
          /\ HoldsFirst(kept, list, score, limit)
      BY <2>1, <2>2, KeptFacts
    <3> QED
      BY <3>1, Zenon DEF HoldsFirst
  <2>4. DOMAIN kept = 1 .. limit
    BY <2>1, <2>3
  <2>5. ToSet(kept) \subseteq ToSet(list)
    BY <2>3, <2>4 DEF ToSet
  <2> QED
    BY <2>2, <2>3, <2>5
<1> QED
  BY <1>1, <1>2

\* The ids and scores of a page.
LEMMA PageTypes ==
  ASSUME SourceTypeOK, ProvidersTypeOK
  PROVE  /\ SnapshotPageIds(cursor) \in SUBSET MemberIds /\ MemberIds \in SUBSET EntityIds
         /\ PageIds \in Seq(EntityIds) /\ ids \o PageIds \in Seq(EntityIds)
         /\ ToSet(PageIds) = SnapshotPageIds(cursor)
         /\ Len(PageIds) = Cardinality(SnapshotPageIds(cursor))
         /\ OneOfEach(PageIds)
         /\ PageScores \in Membership
         /\ SnapshotNextCursor(cursor) \in Nat \cup {NoCursor}
<1>1. SnapshotPageIds(cursor) \in SUBSET MemberIds /\ MemberIds \in SUBSET EntityIds
  BY DEF SnapshotPageIds, MemberIds
<1>2. /\ PageIds \in Seq(EntityIds) /\ ToSet(PageIds) = SnapshotPageIds(cursor)
      /\ Len(PageIds) = Cardinality(SnapshotPageIds(cursor)) /\ OneOfEach(PageIds)
  BY <1>1, AscendingFacts DEF PageIds
<1>3. ids \o PageIds \in Seq(EntityIds)
  BY <1>2 DEF ProvidersTypeOK
<1>4. PageScores \in Membership
  BY <1>1 DEF PageScores, Membership, ProvidersTypeOK, SourceTypeOK
<1>5. SnapshotNextCursor(cursor) \in Nat \cup {NoCursor}
  BY PageSizeAssumption DEF SnapshotNextCursor, ProvidersTypeOK
<1> QED
  BY <1>1, <1>2, <1>3, <1>4, <1>5

\* The result of the last page.
LEMMA ResultTypes ==
  ASSUME NEW list \in Seq(EntityIds), NEW score \in Membership, NEW limit \in Nat \cup {NoLimit},
         ReturnIds(list, score, limit)
  PROVE  /\ ids' \in Seq(EntityIds) /\ scores' \in Membership /\ form' \in {"ids", "encoded"}
         /\ ToSet(ids') = ToSet(Kept(list, score, limit))
         /\ ToSet(ids') \subseteq ToSet(list)
         /\ \A e \in ToSet(ids') : scores'[e] = score[e]
         /\ cut' = limit /\ cursor' = 0 /\ at' = "resolved"
<1> DEFINE kept == Kept(list, score, limit)
<1>1. kept \in Seq(EntityIds) /\ ToSet(kept) \subseteq ToSet(list)
  BY KeptTypes
<1>2. /\ ids' = IF form' = "encoded" THEN Ascending(ToSet(kept)) ELSE kept
      /\ scores' = [e \in EntityIds |-> IF e \in ToSet(kept) THEN score[e] ELSE Absent]
      /\ form' \in {"ids", "encoded"}
      /\ cut' = limit /\ cursor' = 0 /\ at' = "resolved"
  BY DEF ReturnIds
<1> HIDE DEF kept
<1>3. ToSet(kept) \in SUBSET EntityIds
  BY <1>1 DEF ToSet
<1>4. /\ Ascending(ToSet(kept)) \in Seq(EntityIds)
      /\ ToSet(Ascending(ToSet(kept))) = ToSet(kept)
  BY <1>3, AscendingFacts
<1>5. ids' \in Seq(EntityIds) /\ ToSet(ids') = ToSet(kept)
  BY <1>1, <1>2, <1>4
<1>6. scores' \in Membership
  BY <1>2 DEF Membership
<1>7. \A e \in ToSet(kept) : scores'[e] = score[e]
  BY <1>2, <1>3
<1> QED
  BY <1>1, <1>2, <1>5, <1>6, <1>7 DEF kept

\* A page read leaves the resolve well typed.
LEMMA ReadPageTypes ==
  ASSUME TypeOK, NEW limit \in Pushed, ReadPage(limit), UNCHANGED queryVars
  PROVE  TypeOK'
<1>1. limit \in Nat \cup {NoLimit}
  BY LimitsAssumption DEF Pushed, TypeOK
<1>2. /\ op' = op /\ evidence' = evidence /\ UNCHANGED sourceVars
      /\ access' = access /\ ForgetCall /\ error' = error
      /\ since' \in {since, Watermark} /\ mark' = Watermark
  BY DEF ReadPage, PageAnswers, Answers
<1>3. Watermark \in Nat
  BY DEF TypeOK, SourceTypeOK, Watermark
<1>4. /\ ids' \in Seq(EntityIds) /\ scores' \in Membership
      /\ form' \in {"none", "ids", "encoded", "wire", "malformed"} /\ cut' \in Nat \cup {NoLimit}
      /\ cursor' \in Nat /\ at' \in {"resolved", "token"}
  <2>1. CASE ReturnWireBitmap(limit)
    <3>1. Ascending(MemberIds) \in Seq(EntityIds)
      BY AscendingFacts DEF MemberIds
    <3> QED
      BY <1>1, <2>1, <3>1 DEF ReturnWireBitmap, TypeOK, SourceTypeOK
  <2>2. CASE ReturnIds(ids \o PageIds, PageScores, limit)
    <3>1. ids \o PageIds \in Seq(EntityIds) /\ PageScores \in Membership
      BY PageTypes DEF TypeOK
    <3>2. PICK list, score : list = ids \o PageIds /\ score = PageScores
      OBVIOUS
    <3>3. list \in Seq(EntityIds) /\ score \in Membership /\ ReturnIds(list, score, limit)
      BY <2>2, <3>1, <3>2
    <3>4. /\ ids' \in Seq(EntityIds) /\ scores' \in Membership /\ form' \in {"ids", "encoded"}
          /\ cut' = limit /\ cursor' = 0 /\ at' = "resolved"
      BY <1>1, <3>3, ResultTypes
    <3> QED
      BY <1>1, <3>4
  <2>3. CASE /\ SnapshotNextCursor(cursor) # NoCursor
             /\ ids' = ids \o PageIds /\ scores' = PageScores
             /\ cursor' = SnapshotNextCursor(cursor) /\ at' = "token"
             /\ UNCHANGED <<form, cut>>
    BY <2>3, PageTypes DEF TypeOK, ProvidersTypeOK
  <2> QED
    BY <2>1, <2>2, <2>3 DEF ReadPage
<1>5. ProvidersTypeOK'
  BY <1>2, <1>3, <1>4 DEF TypeOK, ProvidersTypeOK
<1>6. ClientTypeOK'
  <2>1. 0 \in 0 .. MaxRetries
    BY DelayAssumption
  <2> QED
    BY <1>2, <1>4, <2>1 DEF TypeOK, ClientTypeOK, ForgetCall, Steps
<1>7. SourceTypeOK'
  BY <1>2 DEF TypeOK, SourceTypeOK, sourceVars
<1> QED
  BY <1>5, <1>6, <1>7 DEF TypeOK, queryVars

\* So does a bitmap that is passed on though it is none.
LEMMA MalformedTypes ==
  ASSUME TypeOK, NEW limit \in Pushed, PassOnMalformed(limit), UNCHANGED queryVars
  PROVE  TypeOK'
<1>1. limit \in Nat \cup {NoLimit} /\ Watermark \in Nat /\ 0 \in 0 .. MaxRetries
  BY LimitsAssumption, DelayAssumption DEF Pushed, TypeOK, SourceTypeOK, Watermark
<1>2. ProvidersTypeOK'
  BY <1>1 DEF PassOnMalformed, PageAnswers, TypeOK, ProvidersTypeOK, SourceTypeOK
<1>3. ClientTypeOK' /\ SourceTypeOK'
  BY <1>1 DEF PassOnMalformed, PageAnswers, Answers, ForgetCall, TypeOK, ClientTypeOK, Steps,
     SourceTypeOK, sourceVars
<1> QED
  BY <1>2, <1>3 DEF TypeOK, queryVars

\* The steps of a call; its numbers are ClientInv's.
LEMMA CallTypes ==
  ASSUME ClientTypeOK, ClientInv', CallStep
  PROVE  ClientTypeOK'
<1>1. at' \in Steps /\ attempt' \in 0 .. MaxRetries /\ slept' \in Nat /\ tries' \in Nat
  BY DEF ClientInv
<1>2. access' = access /\ token' \in BOOLEAN /\ error' \in Errors \cup {"none"}
  <2>1. CASE \E kind \in FailureKinds : BackOff(kind) \/ GiveUp(kind)
    BY <2>1 DEF BackOff, GiveUp, CallService, Raise, ClientTypeOK, Errors
  <2>2. CASE CredentialMissing \/ WakeUp
    BY <2>2 DEF CredentialMissing, WakeUp, Raise, callVars, ClientTypeOK, Errors
  <2>3. CASE Refused
    BY <2>3 DEF Refused, CallService, Raise, ClientTypeOK, Errors, FailureKinds
  <2>4. CASE ResolveToken
    BY <2>4 DEF ResolveToken, ClientTypeOK, Access
  <2> QED
    BY <2>1, <2>2, <2>3, <2>4 DEF CallStep
<1> QED
  BY <1>1, <1>2 DEF ClientTypeOK

\* The rows of a fetch.
LEMMA FetchTypes ==
  ASSUME TypeOK, NEW pushed \in BOOLEAN, NEW filter \in CaseFilters, NEW limit \in Pushed,
         NEW defect, FetchCases(pushed, filter, limit, defect), UNCHANGED queryVars
  PROVE  TypeOK'
<1>1. limit \in Nat \cup {NoLimit}
  BY LimitsAssumption DEF Pushed, TypeOK
<1> DEFINE requested == Requested(pushed)
           found == FirstRows(Matching(requested, filter, defect), limit)
<1>2. /\ op' = op /\ UNCHANGED <<sourceVars, resolveVars, error, access>> /\ ForgetCall
      /\ at' = "evidenced"
      /\ evidence' = [rows |-> found, requested |-> requested, filter |-> filter,
                      limit |-> limit, mark |-> Watermark]
  BY DEF FetchCases, Answers
<1>3. requested \in SUBSET EntityIds
  BY DEF requested, Requested, ToSet, TypeOK, ProvidersTypeOK
<1>4. found \in SUBSET EntityIds
  BY DEF found, FirstRows, Matching, MemberIds
<1>5. filter \in SUBSET EntityIds /\ Watermark \in Nat
  BY CaseFiltersAssumption DEF TypeOK, SourceTypeOK, Watermark
<1> HIDE DEF requested, found
<1>6. evidence' \in [rows : SUBSET EntityIds, requested : SUBSET EntityIds,
                     filter : SUBSET EntityIds, limit : Nat \cup {NoLimit},
                     mark : Nat \cup {-1}]
  BY <1>1, <1>2, <1>3, <1>4, <1>5
<1>7. ProvidersTypeOK'
  BY <1>2, <1>6 DEF TypeOK, ProvidersTypeOK, resolveVars
<1>8. ClientTypeOK'
  <2>1. 0 \in 0 .. MaxRetries
    BY DelayAssumption
  <2> QED
    BY <1>2, <2>1 DEF TypeOK, ClientTypeOK, ForgetCall, Steps
<1>9. SourceTypeOK'
  BY <1>2 DEF TypeOK, SourceTypeOK, sourceVars
<1> QED
  BY <1>7, <1>8, <1>9 DEF TypeOK, queryVars

\* Every step keeps the types.
LEMMA TypeNext == TypeOK /\ ClientInv' /\ [Next]_vars => TypeOK'
<1> SUFFICES ASSUME TypeOK, ClientInv', [Next]_vars PROVE TypeOK'
  OBVIOUS
<1>1. 0 \in 0 .. MaxRetries /\ 0 \in Nat
  BY DelayAssumption
<1>2. NoEvidence \in [rows : SUBSET EntityIds, requested : SUBSET EntityIds,
                      filter : SUBSET EntityIds, limit : Nat \cup {NoLimit},
                      mark : Nat \cup {-1}]
  BY DEF NoEvidence
<1>3. ASSUME NEW limit \in Limits, StartQuery(limit) PROVE TypeOK'
  <2>1. /\ wanted' \in Limits /\ rows' = {} /\ evidence' = NoEvidence
        /\ error' = "none" /\ access' = access /\ UNCHANGED sourceVars
        /\ FreshResolve /\ ForgetCall
        /\ outcome' \in {"none", "E305"} /\ at' \in {"token", "idle"}
    BY <1>3 DEF StartQuery
  <2>2. ProvidersTypeOK'
    <3>1. ids' \in Seq(EntityIds) /\ scores' \in Membership
      BY <2>1 DEF FreshResolve, Membership
    <3> QED
      BY <1>1, <1>2, <2>1, <3>1 DEF FreshResolve, ProvidersTypeOK
  <2>3. ClientTypeOK'
    BY <1>1, <2>1 DEF TypeOK, ClientTypeOK, ForgetCall, Steps
  <2>4. SourceTypeOK'
    BY <2>1 DEF TypeOK, SourceTypeOK, sourceVars
  <2> QED
    BY <2>1, <2>2, <2>3, <2>4 DEF TypeOK
<1>4. ASSUME UNCHANGED <<sourceVars, providerVars, queryVars>>, ClientTypeOK' PROVE TypeOK'
  BY <1>4 DEF TypeOK, SourceTypeOK, sourceVars, ProvidersTypeOK, providerVars, resolveVars,
              queryVars
<1>5. CASE CallStep /\ UNCHANGED <<sourceVars, providerVars, queryVars>>
  BY <1>4, <1>5, CallTypes DEF TypeOK
<1>6. CASE \E limit \in Pushed : ReadPage(limit) /\ UNCHANGED queryVars
  BY <1>6, ReadPageTypes
<1>7. CASE \E pushed \in BOOLEAN, filter \in CaseFilters, limit \in Pushed, defect \in Defects :
             FetchCases(pushed, filter, limit, defect) /\ UNCHANGED queryVars
  BY <1>7, FetchTypes
<1>8. CASE \E defect \in Defects : PageRejected(defect) /\ UNCHANGED queryVars
  <2>1. ClientTypeOK'
    BY <1>1, <1>8 DEF PageRejected, Answers, Raise, ForgetCall, TypeOK, ClientTypeOK, Steps, Errors
  <2> QED
    BY <1>4, <1>8, <2>1 DEF PageRejected
<1>9. CASE \E defect \in Defects, filter \in CaseFilters, limit \in Pushed :
             CasesRejected(filter, limit, defect) /\ UNCHANGED queryVars
  <2>1. /\ access' = access /\ ForgetCall /\ at' = "idle"
        /\ error' \in {"stale", "contract", "key_error"}
        /\ UNCHANGED <<sourceVars, providerVars, queryVars>>
    BY <1>9 DEF CasesRejected, Answers, Raise
  <2>2. ClientTypeOK'
    BY <1>1, <2>1 DEF ForgetCall, TypeOK, ClientTypeOK, Steps, Errors
  <2> QED
    BY <1>4, <2>1, <2>2
<1>10. CASE UnknownResource /\ UNCHANGED queryVars
  <2>1. ClientTypeOK'
    BY <1>10 DEF UnknownResource, Raise, callVars, TypeOK, ClientTypeOK, Steps, Errors
  <2> QED
    BY <1>4, <1>10, <2>1 DEF UnknownResource
<1>11. CASE FetchEvidence
  <2>1. ClientTypeOK' /\ ProvidersTypeOK'
    BY <1>11 DEF FetchEvidence, callVars, TypeOK, ClientTypeOK, Steps, ProvidersTypeOK, resolveVars
  <2> QED
    BY <1>11, <2>1 DEF FetchEvidence, TypeOK, SourceTypeOK, sourceVars, queryVars
<1>12. ASSUME NEW S \in SUBSET EntityIds, Return(S) PROVE TypeOK'
  <2>1. ClientTypeOK' /\ ProvidersTypeOK' /\ SourceTypeOK'
    BY <1>12 DEF Return, callVars, TypeOK, ClientTypeOK, Steps, ProvidersTypeOK, providerVars,
                 resolveVars, SourceTypeOK, sourceVars
  <2>2. wanted' = wanted /\ rows' = S /\ outcome' \in {"E306", "answered"}
    BY <1>12 DEF Return
  <2> QED
    BY <2>1, <2>2 DEF TypeOK
<1>13. CASE SourceNext /\ UNCHANGED <<clientVars, providerVars, queryVars>>
  <2>1. SourceTypeOK'
    BY <1>13, SourceStep DEF TypeOK
  <2> QED
    BY <1>13, <2>1 DEF TypeOK, clientVars, callVars, ClientTypeOK, providerVars, resolveVars,
                       ProvidersTypeOK, queryVars
<1>14. CASE UNCHANGED vars
  BY <1>4, <1>14 DEF vars, clientVars, callVars, TypeOK, ClientTypeOK
<1>15. CASE EngineCannotDecode /\ UNCHANGED queryVars
  <2>1. ClientTypeOK'
    BY <1>15 DEF EngineCannotDecode, Raise, callVars, TypeOK, ClientTypeOK, Steps, Errors
  <2> QED
    BY <1>4, <1>15, <2>1 DEF EngineCannotDecode
<1>16. CASE \E limit \in Pushed : PassOnMalformed(limit) /\ UNCHANGED queryVars
  BY <1>16, MalformedTypes
<1> QED
  BY <1>3, <1>5, <1>6, <1>7, <1>8, <1>9, <1>10, <1>11, <1>12, <1>13, <1>14, <1>15, <1>16
  DEF Next, QueryStep, ProviderStep

\* The types, by ClientInv's numbers.
LEMMA TypeInit == Init => TypeOK
<1> SUFFICES ASSUME Init PROVE TypeOK
  OBVIOUS
<1>1. SourceTypeOK
  BY InitialMembersAssumption, KnobsAssumption DEF Init, SourceInit, SourceTypeOK
<1>2. ClientTypeOK
  <2>1. access \in Access
    BY AccessesAssumption DEF Init, ClientInit
  <2>2. 0 \in 0 .. MaxRetries
    BY DelayAssumption
  <2> QED
    BY <2>1, <2>2 DEF Init, ClientInit, ClientTypeOK, Steps
<1>3. ProvidersTypeOK
  <2>1. ids \in Seq(EntityIds) /\ scores \in Membership
    BY DEF Init, Membership
  <2> QED
    BY <2>1 DEF Init, ProvidersTypeOK, NoEvidence
<1> QED
  BY <1>1, <1>2, <1>3 DEF Init, TypeOK

\* Every state of a query is well typed: ids, scores and the evidence are of
\* the source's entities (query_service.py:36-66, mcp_provider.py:42-121).
THEOREM QueryTypeCorrect == Spec => []TypeOK
<1>1. Init => TypeOK
  BY TypeInit
<1>2. TypeOK /\ ClientInv' /\ [Next]_vars => TypeOK'
  BY TypeNext
<1>3. Spec => []ClientInv
  BY BudgetInit, BudgetNext, PTL DEF Spec
<1> QED
  BY <1>1, <1>2, <1>3, PTL DEF Spec

-----------------------------------------------------------------------------
(* The pages of a resolve *)

\* What resolve() has gathered is what the source had between two watermarks,
Seen(list, score, from, to) ==
  \A e \in ToSet(list) :
    score[e] # Absent /\ \E n \in from .. to : SourceAt(n)[e] = score[e]

\* what it had at watermark m, up to the rank upto, if it was read in one go.
ReadInOne(list, score, upto, m) ==
  /\ OneOfEach(list)
  /\ ToSet(list) = {e \in MembersAt(m) : RankIn(MembersAt(m), e) <= upto}
  /\ \A e \in ToSet(list) : score[e] = SourceAt(m)[e]

\* Event k made somebody a member, or ended it.
Shift(change, k) ==
  /\ events[k].change = change
  /\ (SourceAt(k - 1)[events[k].entity] = Absent) <=> change = "added"

\* Who is missing has a rank beyond, or left, or moved down.
NotSkipped(list, upto, from) ==
  \A e \in EntityIds \ ToSet(list) :
    \/ \E n \in from .. Watermark : e \notin MembersAt(n)
    \/ \E k \in from + 1 .. Watermark : Shift("removed", k) /\ events[k].entity < e
    \/ upto < Rank(e)

\* Who is there has a rank read already, and is there once, or moved up.
Once(list, e) == \A i, j \in DOMAIN list : list[i] = e /\ list[j] = e => i = j
NotRepeated(list, upto, from) ==
  \A e \in EntityIds :
    \/ \E k \in from + 1 .. Watermark : Shift("added", k) /\ events[k].entity <= e
    \/ Once(list, e) /\ (e \in ToSet(list) \cap MemberIds => Rank(e) <= upto)

ReadingInv ==
  /\ since \in 0 .. mark /\ mark \in 0 .. Watermark
  /\ op = "resolve" /\ at \in {"token", "call", "sleep"} => form = "none"
  /\ form = "none" /\ cursor = 0 => ids = << >>
  /\ Seen(ids, scores, since, mark)
  /\ form = "none" /\ cursor # 0 =>
       /\ since = mark => ReadInOne(ids, scores, cursor, mark)
       /\ NotSkipped(ids, cursor, since) /\ NotRepeated(ids, cursor, since)

\* Joining two lists.
LEMMA JoinedFacts ==
  ASSUME NEW a \in Seq(EntityIds), NEW b \in Seq(EntityIds), OneOfEach(b), NEW c, c = a \o b
  PROVE  /\ c \in Seq(EntityIds) /\ ToSet(c) = ToSet(a) \cup ToSet(b)
         /\ \A e : e \notin ToSet(a) => Once(c, e)
         /\ \A e : e \notin ToSet(b) /\ Once(a, e) => Once(c, e)
<1>1. PICK m, n \in Nat : m = Len(a) /\ n = Len(b)
  OBVIOUS
<1>2. /\ c \in Seq(EntityIds) /\ DOMAIN a = 1 .. m /\ DOMAIN b = 1 .. n /\ DOMAIN c = 1 .. m + n
      /\ \A i \in 1 .. m + n : c[i] = IF i <= m THEN a[i] ELSE b[i - m]
  BY <1>1
<1>3. \A i \in 1 .. m + n : (i <= m => i \in 1 .. m) /\ (~(i <= m) => i - m \in 1 .. n)
  BY <1>1
<1>4. ToSet(c) = ToSet(a) \cup ToSet(b)
  <2>1. ASSUME NEW i \in 1 .. m + n PROVE c[i] \in ToSet(a) \cup ToSet(b)
    BY <1>2, <1>3 DEF ToSet
  <2>2. ASSUME NEW i \in 1 .. m PROVE a[i] \in ToSet(c)
    <3>1. i \in 1 .. m + n /\ i <= m
      BY <1>1
    <3>2. c[i] = a[i]
      BY <1>2, <3>1
    <3> QED
      BY <1>2, <3>1, <3>2 DEF ToSet
  <2>3. ASSUME NEW i \in 1 .. n PROVE b[i] \in ToSet(c)
    <3>1. i + m \in 1 .. m + n /\ ~(i + m <= m) /\ (i + m) - m = i
      BY <1>1
    <3>2. c[i + m] = b[i]
      BY <1>2, <3>1
    <3> QED
      BY <1>2, <3>1, <3>2 DEF ToSet
  <2>4. ToSet(c) \subseteq ToSet(a) \cup ToSet(b)
    <3>1. ToSet(c) = {c[i] : i \in 1 .. m + n}
      BY <1>2 DEF ToSet
    <3> QED
      BY <2>1, <3>1
  <2>5. ToSet(a) \subseteq ToSet(c)
    <3>1. ToSet(a) = {a[i] : i \in 1 .. m}
      BY <1>2 DEF ToSet
    <3> QED
      BY <2>2, <3>1
  <2>6. ToSet(b) \subseteq ToSet(c)
    <3>1. ToSet(b) = {b[i] : i \in 1 .. n}
      BY <1>2 DEF ToSet
    <3> QED
      BY <2>3, <3>1
  <2> QED
    BY <2>4, <2>5, <2>6
<1>5. ASSUME NEW e, e \notin ToSet(a) PROVE Once(c, e)
  <2> SUFFICES ASSUME NEW i \in 1 .. m + n, NEW j \in 1 .. m + n, c[i] = e, c[j] = e PROVE i = j
    BY <1>2 DEF Once
  <2>1. ~(i <= m) /\ ~(j <= m)
    BY <1>2, <1>3, <1>5 DEF ToSet
  <2>2. b[i - m] = b[j - m] /\ i - m \in 1 .. n /\ j - m \in 1 .. n
    BY <1>2, <1>3, <2>1
  <2>3. i - m = j - m
    BY <1>2, <2>2 DEF OneOfEach
  <2> QED
    BY <1>1, <2>3
<1>6. ASSUME NEW e, e \notin ToSet(b), Once(a, e) PROVE Once(c, e)
  <2> SUFFICES ASSUME NEW i \in 1 .. m + n, NEW j \in 1 .. m + n, c[i] = e, c[j] = e PROVE i = j
    BY <1>2 DEF Once
  <2>1. i <= m /\ j <= m
    BY <1>2, <1>3, <1>6 DEF ToSet
  <2>2. a[i] = e /\ a[j] = e /\ i \in 1 .. m /\ j \in 1 .. m
    BY <1>2, <1>3, <2>1
  <2> QED
    BY <1>2, <1>6, <2>2 DEF Once
<1> QED
  BY <1>2, <1>4, <1>5, <1>6

\* Ranks of a set that has all the elements of another up to e.
LEMMA RanksCompare ==
  ASSUME NEW S \in SUBSET EntityIds, NEW T \in SUBSET EntityIds, NEW e,
         \A x \in S : x <= e => x \in T
  PROVE  RankIn(S, e) \in Nat /\ RankIn(T, e) \in Nat /\ RankIn(S, e) <= RankIn(T, e)
<1> DEFINE A == {x \in S : x <= e}
           B == {x \in T : x <= e}
<1>1. A \in SUBSET B /\ B \in SUBSET EntityIds
  OBVIOUS
<1> HIDE DEF A, B
<1>2. IsFiniteSet(B)
  BY <1>1, EntityIdsAssumption, FS_Subset
<1>3. IsFiniteSet(A) /\ Cardinality(A) <= Cardinality(B)
  BY <1>1, <1>2, FS_Subset
<1> QED
  BY <1>2, <1>3, FS_CardinalityType DEF A, B, RankIn

\* The members now, and their ranks.
LEMMA MembersNow ==
  ASSUME SourceTypeOK, HistoryInv
  PROVE  /\ Watermark \in Nat /\ MemberIds = MembersAt(Watermark)
         /\ MemberIds \in SUBSET EntityIds /\ IsFiniteSet(MemberIds)
         /\ Cardinality(MemberIds) \in Nat
         /\ \A e \in EntityIds : members[e] = SourceAt(Watermark)[e]
         /\ \A e : Rank(e) = RankIn(MemberIds, e) /\ Rank(e) \in Nat
         /\ \A e \in MemberIds : Rank(e) \in 1 .. Cardinality(MemberIds)
<1>1. MemberIds \in SUBSET EntityIds
  BY DEF MemberIds
<1>2. IsFiniteSet(MemberIds) /\ MemberIds \in SUBSET Nat
  BY <1>1, EntityIdsAssumption, FS_Subset
<1>3. members = SourceAt(Watermark)
  BY DEF HistoryInv, LogExplainsMembers
<1>4. MemberIds = MembersAt(Watermark)
  BY <1>3 DEF MemberIds, MembersAt
<1>5. \A e : Rank(e) = RankIn(MemberIds, e)
  BY DEF Rank, RankIn
<1>6. \A e : RankIn(MemberIds, e) \in Nat
  BY <1>1, RanksCompare
<1>7. \A e \in MemberIds : RankIn(MemberIds, e) \in 1 .. Cardinality(MemberIds)
  BY <1>2, RankTypes
<1>8. Watermark \in Nat
  BY DEF SourceTypeOK, Watermark
<1> QED
  BY <1>1, <1>2, <1>3, <1>4, <1>5, <1>6, <1>7, <1>8, FS_CardinalityType

\* A world mutation in the reader's terms.
LEMMA WorldShifts ==
  ASSUME SourceTypeOK, HistoryInv, SourceNext, NEW w, w = Watermark
  PROVE  /\ w \in Nat /\ Watermark' = w + 1 /\ SourceTypeOK' /\ HistoryInv'
         /\ \A n \in 0 .. w : SourceAt(n)' = SourceAt(n) /\ MembersAt(n)' = MembersAt(n)
         /\ MembersAt(w + 1)' = MemberIds'
         /\ \A k \in 1 .. w :
              events'[k] = events[k] /\ \A change : Shift(change, k)' <=> Shift(change, k)
         /\ \A y \in MemberIds \ MemberIds' :
              Shift("removed", w + 1)' /\ events'[w + 1].entity = y
         /\ \A y \in MemberIds' \ MemberIds :
              Shift("added", w + 1)' /\ events'[w + 1].entity = y
<1>1. /\ SourceTypeOK' /\ HistoryInv' /\ w \in Nat /\ Watermark' = w + 1
      /\ \A n \in 0 .. w : SourceAt(n)' = SourceAt(n)
  BY SourceStep, HistoryNext DEF SourceTypeOK, Watermark
<1>2. PICK v \in SourceEvent :
        /\ events' = Append(events, v)
        /\ members' = [members EXCEPT ![v.entity] = v.score]
        /\ v.change = "score_changed" => members[v.entity] # Absent
  BY SourceChanges
<1>3. /\ \A k \in 1 .. w : events'[k] = events[k]
      /\ events'[w + 1] = v
  BY <1>2 DEF SourceTypeOK, Watermark
<1>4. /\ v.entity \in EntityIds /\ v.change \in ChangeTypes
      /\ v.change = "removed" <=> v.score = Absent
  BY DEF SourceEvent, Event
<1>5. \A e \in EntityIds : members'[e] = IF e = v.entity THEN v.score ELSE members[e]
  BY <1>2, <1>4 DEF SourceTypeOK, Membership
<1>6. /\ \A e \in EntityIds : members[e] = SourceAt(w)[e]
      /\ MemberIds' = MembersAt(w + 1)'
  <2>1. members = SourceAt(Watermark)
    BY DEF HistoryInv, LogExplainsMembers
  <2>2. (members = SourceAt(Watermark))'
    BY <1>1 DEF HistoryInv, LogExplainsMembers
  <2>3. members' = SourceAt(w + 1)'
    <3>1. PICK u : u = w + 1
      OBVIOUS
    <3>2. Watermark' = u
      BY <1>1, <3>1
    <3>3. members' = SourceAt(u)'
      BY <2>2, <3>2 DEF SourceAt
    <3> QED
      BY <3>1, <3>3 DEF SourceAt
  <2> QED
    BY <2>1, <2>3 DEF MemberIds, MembersAt
<1>7. \A n \in 0 .. w : MembersAt(n)' = MembersAt(n)
  BY <1>1 DEF MembersAt
<1>8. ASSUME NEW k \in 1 .. w, NEW change
      PROVE  Shift(change, k)' <=> Shift(change, k)
  <2>1. k - 1 \in 0 .. w
    BY <1>1
  <2>2. SourceAt(k - 1)' = SourceAt(k - 1) /\ events'[k] = events[k]
    BY <1>1, <1>3, <2>1
  <2> QED
    BY <2>2 DEF Shift
<1>9. \A change : Shift(change, w + 1)' <=>
        /\ v.change = change
        /\ (members[v.entity] = Absent) <=> change = "added"
  <2>1. w \in 0 .. w /\ (w + 1) - 1 = w
    BY <1>1
  <2>2. SourceAt(w)' = SourceAt(w)
    BY <1>1, <2>1
  <2>3. SourceAt((w + 1) - 1)'[v.entity] = members[v.entity]
    BY <1>4, <1>6, <2>1, <2>2
  <2> QED
    BY <1>3, <2>3 DEF Shift
<1>10. ASSUME NEW y \in MemberIds \ MemberIds'
       PROVE  Shift("removed", w + 1)' /\ events'[w + 1].entity = y
  <2>1. y \in EntityIds /\ members[y] # Absent /\ members'[y] = Absent
    BY DEF MemberIds
  <2>2. y = v.entity /\ v.score = Absent
    BY <1>5, <2>1
  <2> QED
    BY <1>3, <1>4, <1>9, <2>1, <2>2
<1>11. ASSUME NEW y \in MemberIds' \ MemberIds
       PROVE  Shift("added", w + 1)' /\ events'[w + 1].entity = y
  <2>1. y \in EntityIds /\ members[y] = Absent /\ members'[y] # Absent
    BY DEF MemberIds
  <2>2. y = v.entity /\ v.score # Absent
    BY <1>5, <2>1
  <2>3. v.change = "added"
    BY <1>2, <1>4, <2>1, <2>2 DEF ChangeTypes
  <2> QED
    BY <1>3, <1>9, <2>1, <2>2, <2>3
<1> QED
  BY <1>1, <1>3, <1>6, <1>7, <1>8, <1>10, <1>11

\* The world goes on: who moves in the order moves because of it.
LEMMA WorldKeepsOrder ==
  ASSUME SourceTypeOK, HistoryInv, SourceNext, NEW list, NEW upto \in Nat, NEW from \in 0 .. Watermark
  PROVE  /\ NotSkipped(list, upto, from) => NotSkipped(list, upto, from)'
         /\ NotRepeated(list, upto, from) => NotRepeated(list, upto, from)'
<1>1. PICK w : w = Watermark
  OBVIOUS
<1>2. /\ w \in Nat /\ Watermark' = w + 1 /\ SourceTypeOK' /\ HistoryInv'
      /\ \A n \in 0 .. w : MembersAt(n)' = MembersAt(n)
      /\ MembersAt(w + 1)' = MemberIds'
      /\ \A k \in 1 .. w :
           events'[k] = events[k] /\ \A change : Shift(change, k)' <=> Shift(change, k)
      /\ \A y \in MemberIds \ MemberIds' :
           Shift("removed", w + 1)' /\ events'[w + 1].entity = y
      /\ \A y \in MemberIds' \ MemberIds :
           Shift("added", w + 1)' /\ events'[w + 1].entity = y
  BY <1>1, WorldShifts
<1>3. /\ \A n \in from .. w : n \in 0 .. w /\ n \in from .. w + 1
      /\ \A k \in from + 1 .. w : k \in 1 .. w /\ k \in from + 1 .. w + 1
      /\ w + 1 \in from .. w + 1 /\ w + 1 \in from + 1 .. w + 1
  BY <1>1, <1>2
<1>4. /\ MemberIds \in SUBSET EntityIds /\ MemberIds' \in SUBSET EntityIds
      /\ \A e : Rank(e) = RankIn(MemberIds, e) /\ Rank(e)' = RankIn(MemberIds', e)
  BY DEF MemberIds, Rank, RankIn
<1>5. ASSUME NotSkipped(list, upto, from), NEW e \in EntityIds \ ToSet(list)
      PROVE  \/ \E n \in from .. w + 1 : e \notin MembersAt(n)'
             \/ \E k \in from + 1 .. w + 1 : Shift("removed", k)' /\ events'[k].entity < e
             \/ upto < Rank(e)'
  <2>1. CASE \E n \in from .. w : e \notin MembersAt(n)
    BY <1>2, <1>3, <2>1
  <2>2. CASE \E k \in from + 1 .. w : Shift("removed", k) /\ events[k].entity < e
    BY <1>2, <1>3, <2>2
  <2>3. CASE e \notin MemberIds'
    BY <1>2, <1>3, <2>3
  <2>4. CASE \E y \in MemberIds \ MemberIds' : y < e
    BY <1>2, <1>3, <2>4
  <2>5. CASE /\ upto < Rank(e) /\ e \in MemberIds'
             /\ ~ \E y \in MemberIds \ MemberIds' : y < e
    <3>1. \A x \in MemberIds : x <= e => x \in MemberIds'
      <4> SUFFICES ASSUME NEW x \in MemberIds, x <= e, x \notin MemberIds' PROVE FALSE
        OBVIOUS
      <4>1. x \in Nat /\ e \in Nat /\ x # e
        BY <1>4, <2>5, EntityIdsAssumption
      <4> QED
        BY <2>5, <4>1
    <3>2. /\ RankIn(MemberIds, e) \in Nat /\ RankIn(MemberIds', e) \in Nat
          /\ RankIn(MemberIds, e) <= RankIn(MemberIds', e)
      BY <1>4, <3>1, RanksCompare
    <3>3. upto < RankIn(MemberIds, e)
      BY <1>4, <2>5
    <3>4. upto < RankIn(MemberIds', e)
      BY <3>2, <3>3
    <3> QED
      BY <1>4, <3>4
  <2> QED
    BY <1>1, <1>5, <2>1, <2>2, <2>3, <2>4, <2>5 DEF NotSkipped
<1>6. ASSUME NotRepeated(list, upto, from), NEW e \in EntityIds
      PROVE  \/ \E k \in from + 1 .. w + 1 : Shift("added", k)' /\ events'[k].entity <= e
             \/ Once(list, e) /\ (e \in ToSet(list) \cap MemberIds' => Rank(e)' <= upto)
  <2>1. CASE \E k \in from + 1 .. w : Shift("added", k) /\ events[k].entity <= e
    BY <1>2, <1>3, <2>1
  <2>2. CASE \E y \in MemberIds' \ MemberIds : y <= e
    BY <1>2, <1>3, <2>2
  <2>3. CASE /\ Once(list, e) /\ (e \in ToSet(list) \cap MemberIds => Rank(e) <= upto)
             /\ ~ \E y \in MemberIds' \ MemberIds : y <= e
    <3> SUFFICES ASSUME e \in ToSet(list) \cap MemberIds' PROVE Rank(e)' <= upto
      BY <2>3
    <3>1. \A x \in MemberIds' : x <= e => x \in MemberIds
      BY <2>3
    <3>2. e \in MemberIds
      BY <3>1, EntityIdsAssumption
    <3>3. /\ RankIn(MemberIds', e) \in Nat /\ RankIn(MemberIds, e) \in Nat
          /\ RankIn(MemberIds', e) <= RankIn(MemberIds, e)
      BY <1>4, <3>1, RanksCompare
    <3>4. RankIn(MemberIds, e) <= upto
      BY <1>4, <2>3, <3>2
    <3>5. RankIn(MemberIds', e) <= upto
      BY <3>3, <3>4
    <3> QED
      BY <1>4, <3>5
  <2> QED
    BY <1>1, <1>6, <2>1, <2>2, <2>3 DEF NotRepeated
<1> QED
  BY <1>2, <1>5, <1>6 DEF NotSkipped, NotRepeated

\* A page is read: what is gathered then is as it should be, up to its last rank.
LEMMA PageReads ==
  ASSUME TypeOK, HistoryInv, ReadingInv, form = "none", ~feed.bitmap_snapshot,
         NEW list, list = ids \o PageIds, NEW score, score = PageScores,
         NEW upto, upto = cursor + PageSize,
         NEW from, from = IF cursor = 0 THEN Watermark ELSE since
  PROVE  /\ list \in Seq(EntityIds) /\ score \in Membership
         /\ upto \in Nat /\ from \in 0 .. Watermark
         /\ Seen(list, score, from, Watermark)
         /\ from = Watermark => ReadInOne(list, score, upto, Watermark)
         /\ NotSkipped(list, upto, from) /\ NotRepeated(list, upto, from)
<1> DEFINE page == SnapshotPageIds(cursor)
<1>1. SourceTypeOK /\ ProvidersTypeOK /\ cursor \in Nat /\ PageSize \in Nat \ {0}
  BY PageSizeAssumption DEF TypeOK, ProvidersTypeOK
<1>2. /\ page \in SUBSET MemberIds /\ PageIds \in Seq(EntityIds) /\ ids \in Seq(EntityIds)
      /\ ToSet(PageIds) = page /\ OneOfEach(PageIds) /\ score \in Membership
  BY <1>1, PageTypes DEF ProvidersTypeOK
<1>3. /\ Watermark \in Nat /\ MemberIds = MembersAt(Watermark)
      /\ MemberIds \in SUBSET EntityIds
      /\ \A e \in EntityIds : members[e] = SourceAt(Watermark)[e]
      /\ \A e : Rank(e) = RankIn(MemberIds, e) /\ Rank(e) \in Nat
      /\ \A e \in MemberIds : Rank(e) \in 1 .. Cardinality(MemberIds)
  BY <1>1, MembersNow
<1>4. \A e : e \in page <=> e \in MemberIds /\ cursor < Rank(e) /\ Rank(e) <= upto
  BY DEF SnapshotPageIds
<1>5. \A e \in EntityIds : score[e] = IF e \in page THEN members[e] ELSE scores[e]
  BY DEF PageScores
<1>6. since \in 0 .. mark /\ mark \in 0 .. Watermark /\ from \in 0 .. Watermark /\ upto \in Nat
  BY <1>1, <1>3 DEF ReadingInv
<1>7. list \in Seq(EntityIds) /\ ToSet(list) = Resolved \cup page
  <2>1. PICK a, b : a = ids /\ b = PageIds
    OBVIOUS
  <2>2. list \in Seq(EntityIds) /\ ToSet(list) = ToSet(a) \cup ToSet(b)
    BY <1>2, <2>1, JoinedFacts
  <2> QED
    BY <1>2, <2>1, <2>2 DEF Resolved
<1>8. /\ \A e : e \notin Resolved => Once(list, e)
      /\ \A e : e \notin page /\ Once(ids, e) => Once(list, e)
  <2>1. PICK a, b : a = ids /\ b = PageIds
    OBVIOUS
  <2>2. /\ \A e : e \notin ToSet(a) => Once(list, e)
        /\ \A e : e \notin ToSet(b) /\ Once(a, e) => Once(list, e)
    BY <1>2, <2>1, JoinedFacts
  <2> QED
    BY <1>2, <2>1, <2>2 DEF Resolved
<1> HIDE DEF page
<1>9. Resolved \in SUBSET EntityIds /\ (cursor = 0 => Resolved = {})
  <2>1. Resolved \in SUBSET EntityIds
    BY <1>2 DEF Resolved, ToSet
  <2>2. cursor = 0 => ids = << >>
    BY DEF ReadingInv
  <2> QED
    BY <2>1, <2>2 DEF Resolved, ToSet
<1>10. Seen(list, score, from, Watermark)
  <2> SUFFICES ASSUME NEW e \in Resolved \cup page
               PROVE  score[e] # Absent /\ \E n \in from .. Watermark : SourceAt(n)[e] = score[e]
    BY <1>7 DEF Seen
  <2>1. CASE e \in page
    <3>1. e \in MemberIds /\ e \in EntityIds
      BY <1>2, <1>3, <2>1
    <3>2. score[e] = SourceAt(Watermark)[e] /\ members[e] # Absent
      BY <1>3, <1>5, <2>1, <3>1 DEF MemberIds
    <3> QED
      BY <1>3, <1>5, <1>6, <2>1, <3>1, <3>2
  <2>2. CASE e \notin page
    <3>1. e \in Resolved /\ e \in EntityIds /\ cursor # 0 /\ from = since
      BY <1>9, <2>2
    <3>2. score[e] = scores[e]
      BY <1>5, <2>2, <3>1
    <3>3. scores[e] # Absent /\ \E n \in since .. mark : SourceAt(n)[e] = scores[e]
      BY <3>1 DEF ReadingInv, Seen, Resolved
    <3>4. \A n \in since .. mark : n \in since .. Watermark
      BY <1>6
    <3> QED
      BY <3>1, <3>2, <3>3, <3>4
  <2> QED
    BY <2>1, <2>2
<1>11. ASSUME from = Watermark PROVE ReadInOne(list, score, upto, Watermark)
  <2>1. cursor # 0 => ReadInOne(ids, scores, cursor, Watermark)
    BY <1>3, <1>6, <1>11 DEF ReadingInv
  <2>2. /\ Resolved = {e \in MemberIds : Rank(e) <= cursor}
        /\ \A e \in Resolved : scores[e] = SourceAt(Watermark)[e]
        /\ \A e : Once(ids, e)
    <3>1. CASE cursor = 0
      <4>1. \A e \in MemberIds : Rank(e) \in Int /\ 1 <= Rank(e)
        BY <1>3
      <4>2. Resolved = {} /\ DOMAIN ids = {}
        BY <1>9, <3>1 DEF ReadingInv
      <4> QED
        BY <3>1, <4>1, <4>2 DEF Once
    <3>2. CASE cursor # 0
      BY <1>3, <2>1, <3>2 DEF ReadInOne, Resolved, OneOfEach, Once
    <3> QED
      BY <3>1, <3>2
  <2>3. \A e \in page : e \notin Resolved
    BY <1>1, <1>3, <1>4, <2>2
  <2>4. \A e : Once(list, e)
    BY <1>8, <2>2, <2>3
  <2>5. Resolved \cup page = {e \in MemberIds : Rank(e) <= upto}
    <3> SUFFICES ASSUME NEW e \in MemberIds
                 PROVE  e \in Resolved \cup page <=> Rank(e) <= upto
      BY <1>2, <2>2
    <3>1. Rank(e) \in Nat /\ upto = cursor + PageSize
      BY <1>3
    <3> QED
      BY <1>1, <1>4, <2>2, <3>1
  <2>6. \A e \in Resolved \cup page : score[e] = SourceAt(Watermark)[e]
    BY <1>2, <1>3, <1>5, <1>9, <2>2
  <2>7. OneOfEach(list)
    BY <2>4 DEF OneOfEach, Once
  <2> QED
    BY <1>3, <1>7, <2>5, <2>6, <2>7 DEF ReadInOne
<1>12. NotSkipped(list, upto, from)
  <2> SUFFICES ASSUME NEW e \in EntityIds, e \notin Resolved, e \notin page
               PROVE  \/ \E n \in from .. Watermark : e \notin MembersAt(n)
                      \/ \E k \in from + 1 .. Watermark :
                           Shift("removed", k) /\ events[k].entity < e
                      \/ upto < Rank(e)
    BY <1>7 DEF NotSkipped
  <2>1. CASE e \notin MemberIds
    BY <1>3, <1>6, <2>1
  <2>2. CASE e \in MemberIds /\ cursor < Rank(e)
    BY <1>1, <1>3, <1>4, <1>6, <2>2
  <2>3. CASE e \in MemberIds /\ ~(cursor < Rank(e))
    <3>1. Rank(e) \in Int /\ 1 <= Rank(e)
      BY <1>3, <2>3
    <3>2. cursor # 0 /\ from = since
      BY <2>3, <3>1
    <3> QED
      BY <2>3, <3>2 DEF ReadingInv, NotSkipped, Resolved
  <2> QED
    BY <2>1, <2>2, <2>3
<1>13. NotRepeated(list, upto, from)
  <2> SUFFICES ASSUME NEW e \in EntityIds,
                      ~ \E k \in from + 1 .. Watermark : Shift("added", k) /\ events[k].entity <= e
               PROVE  Once(list, e) /\ (e \in (Resolved \cup page) \cap MemberIds => Rank(e) <= upto)
    BY <1>7 DEF NotRepeated
  <2>1. Once(ids, e) /\ (e \in Resolved \cap MemberIds => Rank(e) <= cursor)
    <3>1. CASE cursor = 0
      <4>1. Resolved = {} /\ DOMAIN ids = {}
        BY <1>9, <3>1 DEF ReadingInv
      <4> QED
        BY <4>1 DEF Once
    <3>2. CASE cursor # 0
      BY <3>2 DEF ReadingInv, NotRepeated, Resolved
    <3> QED
      BY <3>1, <3>2
  <2>2. e \in Resolved \cap page => FALSE
    BY <1>1, <1>3, <1>4, <2>1
  <2>3. Once(list, e)
    BY <1>8, <2>1, <2>2
  <2>4. e \in Resolved \cap MemberIds => Rank(e) <= upto
    BY <1>1, <1>3, <2>1
  <2> QED
    BY <1>4, <2>3, <2>4
<1> QED
  BY <1>2, <1>6, <1>7, <1>10, <1>11, <1>12, <1>13

\* A list without repetitions is as long as it has items.
LEMMA OneOfEachCount ==
  ASSUME NEW list \in Seq(EntityIds), OneOfEach(list)
  PROVE  Cardinality(ToSet(list)) = Len(list)
<1>1. PICK n \in Nat : n = Len(list) /\ DOMAIN list = 1 .. n
  OBVIOUS
<1> DEFINE item == [i \in 1 .. n |-> list[i]]
<1>2. item \in Bijection(1 .. n, ToSet(list))
  <2>1. item \in [1 .. n -> ToSet(list)]
    BY <1>1 DEF ToSet
  <2>2. \A i, j \in 1 .. n : item[i] = item[j] => i = j
    BY <1>1 DEF OneOfEach
  <2>3. \A e \in ToSet(list) : \E i \in 1 .. n : item[i] = e
    BY <1>1 DEF ToSet
  <2> HIDE DEF item
  <2>4. item \in Injection(1 .. n, ToSet(list))
    BY <2>1, <2>2 DEF Injection, IsInjective
  <2>5. item \in Surjection(1 .. n, ToSet(list))
    BY <2>1, <2>3 DEF Surjection
  <2> QED
    BY <2>4, <2>5 DEF Bijection
<1>3. IsFiniteSet(1 .. n) /\ Cardinality(1 .. n) = n
  BY <1>1, IntervalSize
<1>4. ExistsBijection(1 .. n, ToSet(list))
  BY <1>2 DEF ExistsBijection
<1>5. Cardinality(ToSet(list)) = Cardinality(1 .. n)
  BY <1>3, <1>4, FS_Bijection
<1> QED
  BY <1>1, <1>3, <1>5

\* An item that is there at most once is counted at most once.
LEMMA OnceCount ==
  ASSUME NEW list, NEW e, Once(list, e)
  PROVE  ~ (Cardinality({i \in DOMAIN list : list[i] = e}) > 1)
<1> DEFINE A == {i \in DOMAIN list : list[i] = e}
<1>1. A = {} \/ \E i : A = {i}
  BY DEF Once
<1> HIDE DEF A
<1>2. CASE A = {}
  <2>1. Cardinality(A) = 0
    BY <1>2, FS_EmptySet
  <2> QED
    BY <2>1 DEF A
<1>3. CASE \E i : A = {i}
  <2>1. Cardinality(A) = 1
    BY <1>3, FS_Singleton
  <2> QED
    BY <2>1 DEF A
<1> QED
  BY <1>1, <1>2, <1>3

\* What becomes of the list of all pages: the limit counts its items, and a
\* bitmap holds each id once.
LEMMA ResultFacts ==
  ASSUME NEW list \in Seq(EntityIds), NEW score \in Membership, NEW limit \in Nat \cup {NoLimit},
         NEW kept, kept = Kept(list, score, limit), NEW result, NEW carried \in {"ids", "encoded"},
         result = IF carried = "encoded" THEN Ascending(ToSet(kept)) ELSE kept
  PROVE  /\ result \in Seq(EntityIds) /\ ToSet(result) \subseteq ToSet(list)
         /\ OneOfEach(list) =>
              /\ Cardinality(ToSet(result)) = Len(result)
              /\ IF Within(Cardinality(ToSet(list)), limit)
                 THEN ToSet(result) = ToSet(list)
                 ELSE /\ Cardinality(ToSet(result)) = limit
                      /\ \A e \in ToSet(result), lost \in ToSet(list) \ ToSet(result) :
                           RanksBefore(score, e, lost)
         /\ limit = NoLimit \/ Len(result) < limit =>
              \/ ToSet(result) = ToSet(list)
              \/ carried = "encoded" /\ limit # NoLimit /\ ~OneOfEach(list)
         /\ \A e : Once(list, e) => Once(result, e)
<1>1. kept \in Seq(EntityIds) /\ ToSet(kept) \subseteq ToSet(list)
  BY KeptTypes
<1>2. ToSet(kept) \in SUBSET EntityIds
  BY <1>1 DEF ToSet
<1>3. carried = "encoded" =>
        /\ result \in Seq(EntityIds) /\ ToSet(result) = ToSet(kept)
        /\ Len(result) = Cardinality(ToSet(kept)) /\ OneOfEach(result)
  BY <1>2, AscendingFacts
<1>4. carried # "encoded" => result = kept
  OBVIOUS
<1>5. result \in Seq(EntityIds) /\ ToSet(result) = ToSet(kept)
  BY <1>1, <1>3, <1>4
<1>6. CASE Within(Len(list), limit)
  <2>1. kept = list
    BY <1>6 DEF Kept
  <2>2. OneOfEach(list) => Cardinality(ToSet(list)) = Len(list)
    BY OneOfEachCount
  <2>3. OneOfEach(list) => Len(result) = Cardinality(ToSet(result))
    BY <1>3, <1>4, <2>1, <2>2
  <2>4. \A e : Once(list, e) => Once(result, e)
    BY <1>3, <1>4, <2>1 DEF OneOfEach, Once
  <2> QED
    BY <1>5, <1>6, <2>1, <2>2, <2>3, <2>4
<1>7. CASE ~Within(Len(list), limit)
  <2>1. limit \in Nat /\ limit < Len(list) /\ limit # NoLimit
    BY <1>7 DEF Within, NoLimit
  <2>2. Len(kept) = limit /\ DOMAIN kept = 1 .. limit
    BY <1>1, <2>1, KeptFacts
  <2>3. PICK from \in [1 .. limit -> DOMAIN list] :
          /\ \A n \in 1 .. limit : kept[n] = list[from[n]]
          /\ \A m, n \in 1 .. limit : from[m] = from[n] => m = n
          /\ \A n \in 1 .. limit, j \in DOMAIN list :
               (\A m \in 1 .. limit : from[m] # j) =>
                 RanksBefore(score, list[from[n]], list[j]) \/ list[from[n]] = list[j]
    <3>1. HoldsFirst(kept, list, score, limit)
      BY <2>1, KeptFacts
    <3> QED
      BY <3>1, Zenon DEF HoldsFirst
  <2>4. \A e : Once(list, e) => Once(kept, e)
    BY <2>2, <2>3 DEF Once
  <2>5. OneOfEach(list) => OneOfEach(kept)
    BY <2>2, <2>3 DEF OneOfEach
  <2>6. OneOfEach(kept) => Cardinality(ToSet(kept)) = limit
    BY <1>1, <2>2, OneOfEachCount
  <2>7. ASSUME OneOfEach(list)
        PROVE  /\ Cardinality(ToSet(result)) = Len(result) /\ Cardinality(ToSet(result)) = limit
               /\ ~Within(Cardinality(ToSet(list)), limit)
    <3>1. Cardinality(ToSet(list)) = Len(list)
      BY <2>7, OneOfEachCount
    <3> QED
      BY <1>3, <1>4, <1>5, <1>7, <2>2, <2>5, <2>6, <2>7, <3>1
  <2>8. ASSUME NEW e \in ToSet(kept), NEW lost \in ToSet(list) \ ToSet(kept)
        PROVE  RanksBefore(score, e, lost)
    <3>1. PICK n \in 1 .. limit : e = kept[n]
      BY <2>2 DEF ToSet
    <3>2. PICK j \in DOMAIN list : lost = list[j]
      BY DEF ToSet
    <3>3. \A m \in 1 .. limit : list[from[m]] # lost
      <4>1. \A m \in 1 .. limit : kept[m] \in ToSet(kept)
        BY <2>2 DEF ToSet
      <4>2. \A m \in 1 .. limit : kept[m] = list[from[m]]
        BY <2>3
      <4> QED
        BY <4>1, <4>2
    <3> QED
      BY <2>3, <3>1, <3>2, <3>3
  <2>9. ASSUME Len(result) < limit
        PROVE  carried = "encoded" /\ ~OneOfEach(list)
    <3>1. Len(result) # limit
      BY <1>5, <2>1, <2>9
    <3> QED
      BY <1>3, <1>4, <2>2, <2>5, <2>6, <3>1
  <2>10. \A e : Once(list, e) => Once(result, e)
    <3>1. OneOfEach(result) => \A e : Once(result, e)
      BY DEF OneOfEach, Once
    <3> QED
      BY <1>3, <1>4, <2>4, <3>1
  <2> QED
    BY <1>1, <1>5, <2>1, <2>7, <2>8, <2>9, <2>10
<1> QED
  BY <1>6, <1>7

\* What every step of a resolve keeps: what its pages are worth so far, and what
\* its result is worth once there is one.
ResolveInv == ReadingInv /\ UntornResolveIsExact /\ OnlyShiftsTearPages

\* What the source had while a resolve read it, the source will always have had.
LEMMA PastReading ==
  ASSUME ResolveInv, UNCHANGED resolveVars, Watermark' \in Nat, Watermark <= Watermark',
         \A n \in 0 .. mark : SourceAt(n)' = SourceAt(n),
         \A k \in 1 .. mark : events'[k] = events[k]
  PROVE  /\ UntornResolveIsExact' /\ OnlyShiftsTearPages'
         /\ since' \in 0 .. mark' /\ mark' \in 0 .. Watermark'
         /\ Seen(ids, scores, since, mark)'
         /\ ReadInOne(ids, scores, cursor, mark) => ReadInOne(ids, scores, cursor, mark)'
<1>1. PICK s, m : s = since /\ m = mark
  OBVIOUS
<1>2. /\ since' = s /\ mark' = m /\ ids' = ids /\ scores' = scores /\ form' = form
      /\ cut' = cut /\ cursor' = cursor /\ s \in 0 .. m /\ m \in 0 .. Watermark
  BY <1>1 DEF resolveVars, ResolveInv, ReadingInv
<1>3. /\ \A n \in s .. m : SourceAt(n)' = SourceAt(n) /\ MembersAt(n)' = MembersAt(n)
      /\ m \in s .. m
      /\ \A k \in s + 1 .. m : events'[k] = events[k] /\ k - 1 \in 0 .. m
      /\ \A k \in s + 1 .. m : SourceAt(k - 1)' = SourceAt(k - 1)
  <2>1. \A n \in s .. m : n \in 0 .. m
    BY <1>2
  <2>2. \A k \in s + 1 .. m : k \in 1 .. m /\ k - 1 \in 0 .. m
    BY <1>2
  <2>3. m \in s .. m
    BY <1>2
  <2> QED
    BY <1>1, <2>1, <2>2, <2>3 DEF MembersAt
<1>4. /\ SourceAt(mark)' = SourceAt(m)' /\ MembersAt(mark)' = MembersAt(m)'
  BY <1>2 DEF SourceAt, MembersAt, Touching
<1>5. SourceAt(mark)' = SourceAt(mark) /\ MembersAt(mark)' = MembersAt(mark)
  BY <1>1, <1>3, <1>4
<1>6. Resolved' = Resolved
  BY <1>2 DEF Resolved
<1>7. UntornResolveIsExact'
  <2> SUFFICES ASSUME form # "none", since = mark
               PROVE  /\ form' \in {"wire", "malformed"} => scores' = SourceAt(mark)'
                      /\ form' # "malformed" =>
                           /\ Cardinality(Resolved') = Len(ids')
                           /\ \A e \in Resolved' : scores'[e] = SourceAt(mark)'[e]
                           /\ Resolved' \subseteq MembersAt(mark)'
                           /\ IF form' = "wire" \/ Within(Cardinality(MembersAt(mark)'), cut')
                              THEN Resolved' = MembersAt(mark)'
                              ELSE /\ Cardinality(Resolved') = cut'
                                   /\ \A kept \in Resolved', lost \in MembersAt(mark)' \ Resolved' :
                                        RanksBefore(SourceAt(mark)', kept, lost)
    BY <1>1, <1>2 DEF UntornResolveIsExact
  <2>1. /\ form \in {"wire", "malformed"} => scores = SourceAt(mark)
        /\ form # "malformed" =>
             /\ Cardinality(Resolved) = Len(ids)
             /\ \A e \in Resolved : scores[e] = SourceAt(mark)[e]
             /\ Resolved \subseteq MembersAt(mark)
             /\ IF form = "wire" \/ Within(Cardinality(MembersAt(mark)), cut)
                THEN Resolved = MembersAt(mark)
                ELSE /\ Cardinality(Resolved) = cut
                     /\ \A kept \in Resolved, lost \in MembersAt(mark) \ Resolved :
                          RanksBefore(SourceAt(mark), kept, lost)
    BY DEF ResolveInv, UntornResolveIsExact
  <2> QED
    BY <1>2, <1>5, <1>6, <2>1
<1>8. \A change, k : Took(change, k)' <=> Took(change, k)
  BY <1>1, <1>2, <1>3 DEF Took
<1>9. OnlyShiftsTearPages'
  <2> SUFFICES ASSUME form \notin {"none", "malformed"}, cut = NoLimit \/ Len(ids) < cut, NEW e \in EntityIds
               PROVE  /\ e \notin Resolved =>
                           \/ \E n \in s .. m : e \notin MembersAt(n)'
                           \/ \E k \in s + 1 .. m : Took("removed", k)' /\ events'[k].entity < e
                           \/ /\ form = "encoded" /\ cut # NoLimit
                              /\ \E k \in s + 1 .. m : Took("added", k)'
                      /\ Cardinality({i \in DOMAIN ids : ids[i] = e}) > 1 =>
                           \E k \in s + 1 .. m : Took("added", k)' /\ events'[k].entity <= e
    BY <1>2, <1>6 DEF OnlyShiftsTearPages
  <2>1. /\ e \notin Resolved =>
             \/ \E n \in s .. m : e \notin MembersAt(n)
             \/ \E k \in s + 1 .. m : Took("removed", k) /\ events[k].entity < e
             \/ /\ form = "encoded" /\ cut # NoLimit
                /\ \E k \in s + 1 .. m : Took("added", k)
        /\ Cardinality({i \in DOMAIN ids : ids[i] = e}) > 1 =>
             \E k \in s + 1 .. m : Took("added", k) /\ events[k].entity <= e
    BY <1>1 DEF ResolveInv, OnlyShiftsTearPages
  <2>2. \A k \in s + 1 .. m : events'[k] = events[k]
    BY <1>3
  <2>3. \A n \in s .. m : MembersAt(n)' = MembersAt(n)
    BY <1>3
  <2> QED
    BY <1>8, <2>1, <2>2, <2>3
<1>10. Seen(ids, scores, since, mark)'
  BY <1>1, <1>2, <1>3 DEF ResolveInv, ReadingInv, Seen
<1>11. ReadInOne(ids, scores, cursor, mark) => ReadInOne(ids, scores, cursor, mark)'
  BY <1>2, <1>5 DEF ReadInOne, OneOfEach, RankIn
<1>12. since' \in 0 .. mark' /\ mark' \in 0 .. Watermark'
  BY <1>2 DEF Watermark
<1> QED
  BY <1>7, <1>9, <1>10, <1>11, <1>12

\* Steps beside the resolve and the world.
LEMMA StillReading ==
  ASSUME SourceTypeOK, ResolveInv, UNCHANGED <<sourceVars, resolveVars>>,
         \/ UNCHANGED op /\ at \in {"token", "call", "sleep"}
         \/ UNCHANGED <<op, at>>
         \/ op' = "query"
         \/ at' \notin {"token", "call", "sleep"}
  PROVE  ResolveInv'
<1>1. /\ Watermark' = Watermark /\ Watermark \in Nat /\ events' = events
      /\ \A n : SourceAt(n)' = SourceAt(n) /\ MembersAt(n)' = MembersAt(n)
      /\ \A e : Rank(e)' = Rank(e)
      /\ MemberIds' = MemberIds
      /\ \A change, k : Shift(change, k)' <=> Shift(change, k)
  BY DEF sourceVars, Watermark, SourceTypeOK, SourceAt, MembersAt, Touching, Rank, MemberIds, Shift
<1>2. /\ UntornResolveIsExact' /\ OnlyShiftsTearPages'
      /\ since' \in 0 .. mark' /\ mark' \in 0 .. Watermark'
      /\ Seen(ids, scores, since, mark)'
      /\ ReadInOne(ids, scores, cursor, mark) => ReadInOne(ids, scores, cursor, mark)'
  BY <1>1, PastReading
<1>3. /\ NotSkipped(ids, cursor, since) => NotSkipped(ids, cursor, since)'
      /\ NotRepeated(ids, cursor, since) => NotRepeated(ids, cursor, since)'
  BY <1>1 DEF NotSkipped, NotRepeated, Once, resolveVars
<1> QED
  BY <1>2, <1>3 DEF ResolveInv, ReadingInv, resolveVars

\* The world goes on.
LEMMA WorldKeepsResolve ==
  ASSUME SourceTypeOK, HistoryInv, ResolveInv, ProvidersTypeOK,
         SourceNext, UNCHANGED <<op, at, resolveVars>>
  PROVE  ResolveInv'
<1>1. PICK w : w = Watermark
  OBVIOUS
<1>2. /\ w \in Nat /\ Watermark' = w + 1
      /\ \A n \in 0 .. w : SourceAt(n)' = SourceAt(n)
      /\ \A k \in 1 .. w : events'[k] = events[k]
  BY <1>1, WorldShifts
<1>3. since \in 0 .. mark /\ mark \in 0 .. w
  BY <1>1 DEF ResolveInv, ReadingInv
<1>4. /\ Watermark' \in Nat /\ Watermark <= Watermark'
      /\ \A n \in 0 .. mark : n \in 0 .. w
      /\ \A k \in 1 .. mark : k \in 1 .. w
  BY <1>1, <1>2, <1>3
<1>5. /\ UntornResolveIsExact' /\ OnlyShiftsTearPages'
      /\ since' \in 0 .. mark' /\ mark' \in 0 .. Watermark'
      /\ Seen(ids, scores, since, mark)'
      /\ ReadInOne(ids, scores, cursor, mark) => ReadInOne(ids, scores, cursor, mark)'
  BY <1>2, <1>4, PastReading
<1>6. PICK list, upto, from : list = ids /\ upto = cursor /\ from = since
  OBVIOUS
<1>7. upto \in Nat /\ from \in 0 .. Watermark
  BY <1>1, <1>2, <1>3, <1>6 DEF ProvidersTypeOK
<1>8. /\ NotSkipped(list, upto, from) => NotSkipped(list, upto, from)'
      /\ NotRepeated(list, upto, from) => NotRepeated(list, upto, from)'
  BY <1>7, WorldKeepsOrder
<1>9. list = ids' /\ upto = cursor' /\ from = since'
  BY <1>6 DEF resolveVars
<1>10. /\ NotSkipped(list, upto, from)' => NotSkipped(ids, cursor, since)'
       /\ NotRepeated(list, upto, from)' => NotRepeated(ids, cursor, since)'
  BY <1>9 DEF NotSkipped, NotRepeated, Once
<1>11. /\ NotSkipped(ids, cursor, since) => NotSkipped(ids, cursor, since)'
       /\ NotRepeated(ids, cursor, since) => NotRepeated(ids, cursor, since)'
  BY <1>6, <1>8, <1>10
<1> QED
  BY <1>5, <1>11 DEF ResolveInv, ReadingInv, resolveVars

\* A new resolve has read nothing.
LEMMA FreshReading ==
  ASSUME SourceTypeOK', FreshResolve
  PROVE  ResolveInv'
<1>1. 0 \in 0 .. 0 /\ 0 \in 0 .. Watermark'
  BY DEF SourceTypeOK, Watermark
<1>2. Seen(ids, scores, since, mark)'
  BY DEF FreshResolve, Seen, ToSet
<1> QED
  BY <1>1, <1>2 DEF FreshResolve, ResolveInv, ReadingInv, UntornResolveIsExact, OnlyShiftsTearPages,
                    Watermark

\* The source stands still while a page is read.
LEMMA SourceStands ==
  ASSUME SourceTypeOK, UNCHANGED sourceVars
  PROVE  /\ Watermark' = Watermark /\ Watermark \in Nat /\ events' = events
         /\ members' = members /\ MemberIds' = MemberIds
         /\ \A n : SourceAt(n)' = SourceAt(n) /\ MembersAt(n)' = MembersAt(n)
         /\ \A e : Rank(e)' = Rank(e)
         /\ \A change, k : Shift(change, k)' <=> Shift(change, k)
BY DEF sourceVars, Watermark, SourceTypeOK, SourceAt, MembersAt, Touching, Rank, MemberIds, Shift

\* A bitmap from the wire holds the members as they are.
LEMMA WireBitmapIsExact ==
  ASSUME TypeOK, HistoryInv, ResolveInv, UNCHANGED sourceVars, NEW limit,
         ReturnWireBitmap(limit), since' \in 0 .. Watermark, mark' = Watermark
  PROVE  ResolveInv'
<1>1. PICK w : w = Watermark
  OBVIOUS
<1>2. /\ w \in Nat /\ Watermark' = w /\ MemberIds = MembersAt(w)
      /\ MemberIds \in SUBSET EntityIds
      /\ \A e \in EntityIds : members[e] = SourceAt(w)[e]
      /\ SourceAt(w)' = SourceAt(w) /\ MembersAt(w)' = MembersAt(w)
  BY <1>1, MembersNow, SourceStands DEF TypeOK
<1>3. /\ ids' = Ascending(MemberIds) /\ scores' = members /\ form' = "wire"
      /\ mark' = w /\ since' \in 0 .. w /\ at' = "resolved"
  BY <1>1 DEF ReturnWireBitmap
<1>4. /\ ToSet(ids') = MemberIds /\ OneOfEach(ids') /\ Cardinality(MemberIds) = Len(ids')
  BY <1>2, <1>3, AscendingFacts
<1>5. SourceAt(mark)' = SourceAt(w) /\ MembersAt(mark)' = MembersAt(w)
  <2>1. SourceAt(mark)' = SourceAt(w)'
    BY <1>3 DEF SourceAt, Touching
  <2>2. MembersAt(mark)' = MembersAt(w)'
    BY <1>3 DEF MembersAt, SourceAt, Touching
  <2> QED
    BY <1>2, <2>1, <2>2
<1>6. Resolved' = MembersAt(w) /\ \A e \in MembersAt(w) : scores'[e] = SourceAt(w)[e]
  BY <1>2, <1>3, <1>4 DEF Resolved
<1>10. members = SourceAt(w)
  BY <1>2 DEF TypeOK, SourceTypeOK, Membership, SourceAt
<1>7. UntornResolveIsExact'
  BY <1>2, <1>3, <1>4, <1>5, <1>6, <1>10 DEF UntornResolveIsExact
<1>8. OnlyShiftsTearPages'
  <2> SUFFICES ASSUME NEW e \in EntityIds
               PROVE  /\ e \notin Resolved' => \E n \in since' .. mark' : e \notin MembersAt(n)'
                      /\ ~ (Cardinality({i \in DOMAIN ids' : ids'[i] = e}) > 1)
    BY DEF OnlyShiftsTearPages
  <2>1. w \in since' .. mark'
    BY <1>2, <1>3
  <2>2. e \notin Resolved' => e \notin MembersAt(w)'
    BY <1>2, <1>6
  <2>3. Once(ids', e)
    BY <1>4 DEF OneOfEach, Once
  <2> QED
    BY <2>1, <2>2, <2>3, OnceCount
<1>9. Seen(ids, scores, since, mark)'
  <2> SUFFICES ASSUME NEW e \in MembersAt(w)
               PROVE  scores'[e] # Absent /\ \E n \in since' .. mark' : SourceAt(n)'[e] = scores'[e]
    BY <1>2, <1>4 DEF Seen
  <2>1. w \in since' .. mark'
    BY <1>2, <1>3
  <2>2. scores'[e] = SourceAt(w)'[e] /\ scores'[e] # Absent
    BY <1>2, <1>6 DEF MembersAt
  <2> QED
    BY <2>1, <2>2
<1> QED
  BY <1>2, <1>3, <1>7, <1>8, <1>9 DEF ResolveInv, ReadingInv

\* The scores beside a bitmap that does not decode are the members'.
LEMMA MalformedHasScores ==
  ASSUME TypeOK, HistoryInv, ResolveInv, UNCHANGED sourceVars,
         since' = Watermark, mark' = Watermark,
         ids' = << >>, scores' = members, form' = "malformed", at' = "resolved"
  PROVE  ResolveInv'
<1>1. PICK w : w = Watermark
  OBVIOUS
<1>2. /\ w \in Nat /\ Watermark' = w /\ SourceAt(w)' = SourceAt(w)
      /\ \A e \in EntityIds : members[e] = SourceAt(w)[e]
  BY <1>1, MembersNow, SourceStands DEF TypeOK
<1>3. members = SourceAt(w)
  BY <1>2 DEF TypeOK, SourceTypeOK, Membership, SourceAt
<1>4. SourceAt(mark)' = SourceAt(w)
  <2>1. SourceAt(mark)' = SourceAt(w)'
    BY <1>1 DEF SourceAt, Touching
  <2> QED
    BY <1>2, <2>1
<1>5. UntornResolveIsExact' /\ OnlyShiftsTearPages'
  BY <1>3, <1>4 DEF UntornResolveIsExact, OnlyShiftsTearPages
<1>6. Seen(ids, scores, since, mark)'
  BY DEF Seen, ToSet
<1> QED
  BY <1>1, <1>2, <1>5, <1>6 DEF ResolveInv, ReadingInv

\* More pages are to come.
LEMMA PageGathers ==
  ASSUME TypeOK, HistoryInv, ResolveInv, UNCHANGED <<sourceVars, form>>, form = "none",
         ~feed.bitmap_snapshot, SnapshotNextCursor(cursor) # NoCursor,
         ids' = ids \o PageIds, scores' = PageScores, cursor' = SnapshotNextCursor(cursor),
         since' = IF cursor = 0 THEN Watermark ELSE since, mark' = Watermark
  PROVE  ResolveInv'
<1>1. PICK list, score, upto, from, w :
        /\ list = ids \o PageIds /\ score = PageScores /\ upto = cursor + PageSize
        /\ from = IF cursor = 0 THEN Watermark ELSE since
        /\ w = Watermark
  OBVIOUS
<1>2. /\ list \in Seq(EntityIds) /\ score \in Membership
      /\ upto \in Nat /\ from \in 0 .. Watermark
      /\ Seen(list, score, from, Watermark)
      /\ from = Watermark => ReadInOne(list, score, upto, Watermark)
      /\ NotSkipped(list, upto, from) /\ NotRepeated(list, upto, from)
  BY <1>1, PageReads DEF ResolveInv
<1>3. cursor' = upto /\ upto # 0
  BY <1>1, PageSizeAssumption DEF SnapshotNextCursor, NoCursor, TypeOK, ProvidersTypeOK
<1>4. ids' = list /\ scores' = score /\ since' = from /\ mark' = w /\ form' = "none"
  BY <1>1
<1>5. /\ Watermark' = w /\ w \in Nat /\ events' = events
      /\ MemberIds' = MemberIds
      /\ \A n : SourceAt(n)' = SourceAt(n) /\ MembersAt(n)' = MembersAt(n)
      /\ \A e : Rank(e)' = Rank(e)
      /\ \A change, k : Shift(change, k)' <=> Shift(change, k)
  BY <1>1, SourceStands DEF TypeOK
<1>6. SourceAt(mark)' = SourceAt(w) /\ MembersAt(mark)' = MembersAt(w)
  <2>1. SourceAt(mark)' = SourceAt(w)'
    BY <1>4 DEF SourceAt, Touching
  <2>2. MembersAt(mark)' = MembersAt(w)'
    BY <1>4 DEF MembersAt, SourceAt, Touching
  <2> QED
    BY <1>5, <2>1, <2>2
<1>7. from = w => ReadInOne(list, score, upto, w)
  BY <1>1, <1>2
<1>8. since' = mark' => ReadInOne(ids, scores, cursor, mark)'
  <2> SUFFICES ASSUME from = w
               PROVE  /\ OneOfEach(list)
                      /\ ToSet(list) = {e \in MembersAt(w) : RankIn(MembersAt(w), e) <= upto}
                      /\ \A e \in ToSet(list) : score[e] = SourceAt(w)[e]
    BY <1>3, <1>4, <1>6 DEF ReadInOne
  <2> QED
    BY <1>7 DEF ReadInOne
<1>9. NotSkipped(ids, cursor, since)' /\ NotRepeated(ids, cursor, since)'
  BY <1>1, <1>2, <1>3, <1>4, <1>5 DEF NotSkipped, NotRepeated
<1>10. Seen(ids, scores, since, mark)'
  BY <1>1, <1>2, <1>4, <1>5 DEF Seen
<1>11. since' \in 0 .. mark' /\ mark' \in 0 .. Watermark'
  BY <1>1, <1>2, <1>4, <1>5
<1> QED
  BY <1>3, <1>4, <1>8, <1>9, <1>10, <1>11
  DEF ResolveInv, ReadingInv, UntornResolveIsExact, OnlyShiftsTearPages

\* The last page.
LEMMA LastPageResolves ==
  ASSUME TypeOK, HistoryInv, ResolveInv, UNCHANGED sourceVars, form = "none",
         NEW limit \in Nat \cup {NoLimit},
         ~feed.bitmap_snapshot, SnapshotNextCursor(cursor) = NoCursor,
         ReturnIds(ids \o PageIds, PageScores, limit),
         since' = IF cursor = 0 THEN Watermark ELSE since, mark' = Watermark
  PROVE  ResolveInv'
<1>1. PICK list, score, upto, from, w, kept, result :
        /\ list = ids \o PageIds /\ score = PageScores /\ upto = cursor + PageSize
        /\ from = IF cursor = 0 THEN Watermark ELSE since
        /\ w = Watermark
        /\ kept = Kept(list, score, limit) /\ result = ids'
  OBVIOUS
<1>2. /\ list \in Seq(EntityIds) /\ score \in Membership
      /\ upto \in Nat /\ from \in 0 .. Watermark
      /\ Seen(list, score, from, Watermark)
      /\ from = Watermark => ReadInOne(list, score, upto, Watermark)
      /\ NotSkipped(list, upto, from) /\ NotRepeated(list, upto, from)
  BY <1>1, PageReads DEF ResolveInv
<1>3. /\ form' \in {"ids", "encoded"} /\ cut' = limit /\ at' = "resolved"
      /\ result = IF form' = "encoded" THEN Ascending(ToSet(kept)) ELSE kept
      /\ scores' = [e \in EntityIds |-> IF e \in ToSet(kept) THEN score[e] ELSE Absent]
      /\ since' = from /\ mark' = w /\ ids' = result
  BY <1>1 DEF ReturnIds
<1>4. PICK carried \in {"ids", "encoded"} : carried = form'
  BY <1>3
<1>5. /\ result \in Seq(EntityIds) /\ ToSet(result) \subseteq ToSet(list)
      /\ OneOfEach(list) =>
           /\ Cardinality(ToSet(result)) = Len(result)
           /\ IF Within(Cardinality(ToSet(list)), limit)
              THEN ToSet(result) = ToSet(list)
              ELSE /\ Cardinality(ToSet(result)) = limit
                   /\ \A e \in ToSet(result), lost \in ToSet(list) \ ToSet(result) :
                        RanksBefore(score, e, lost)
      /\ limit = NoLimit \/ Len(result) < limit =>
           \/ ToSet(result) = ToSet(list)
           \/ carried = "encoded" /\ limit # NoLimit /\ ~OneOfEach(list)
      /\ \A e : Once(list, e) => Once(result, e)
  <2>1. /\ result = IF carried = "encoded" THEN Ascending(ToSet(kept)) ELSE kept
        /\ kept = Kept(list, score, limit)
        /\ list \in Seq(EntityIds) /\ score \in Membership
    BY <1>1, <1>2, <1>3, <1>4
  <2> QED
    BY <2>1, ResultFacts
<1>6. ToSet(list) \in SUBSET EntityIds /\ \A e \in ToSet(result) : scores'[e] = score[e]
  <2>1. ToSet(list) \in SUBSET EntityIds
    BY <1>2 DEF ToSet
  <2>2. ToSet(kept) \in SUBSET EntityIds
    <3>1. kept \in Seq(EntityIds)
      BY <1>1, <1>2, KeptTypes
    <3> QED
      BY <3>1 DEF ToSet
  <2>3. ToSet(result) = ToSet(kept)
    BY <1>3, <2>2, AscendingFacts
  <2> QED
    BY <1>3, <2>1, <2>2, <2>3
<1>7. /\ w \in Nat /\ Watermark' = w /\ MemberIds = MembersAt(w) /\ events' = events
      /\ \A n : SourceAt(n)' = SourceAt(n) /\ MembersAt(n)' = MembersAt(n)
      /\ \A e \in MemberIds : Rank(e) \in Nat /\ Rank(e) = RankIn(MembersAt(w), e)
  BY <1>1, MembersNow, SourceStands DEF TypeOK
<1>8. \A e \in MemberIds : Rank(e) <= upto
  <2>1. Cardinality(MemberIds) <= upto
    <3>1. Cardinality(MemberIds) \in Nat
      BY MembersNow DEF TypeOK
    <3>2. cursor \in Nat /\ PageSize \in Nat
      BY PageSizeAssumption DEF TypeOK, ProvidersTypeOK
    <3>3. ~(upto < Cardinality(MemberIds))
      BY <1>1, <3>2 DEF SnapshotNextCursor, NoCursor
    <3> QED
      BY <1>2, <3>1, <3>3
  <2>2. \A e \in MemberIds : Rank(e) \in 1 .. Cardinality(MemberIds)
    BY MembersNow DEF TypeOK
  <2>3. Cardinality(MemberIds) \in Nat
    BY MembersNow DEF TypeOK
  <2> QED
    BY <1>2, <2>1, <2>2, <2>3
<1>9. SourceAt(mark)' = SourceAt(w) /\ MembersAt(mark)' = MembersAt(w)
  <2>1. SourceAt(mark)' = SourceAt(w)'
    BY <1>3 DEF SourceAt, Touching
  <2>2. MembersAt(mark)' = MembersAt(w)'
    BY <1>3 DEF MembersAt, SourceAt, Touching
  <2> QED
    BY <1>7, <2>1, <2>2
<1>10. Resolved' = ToSet(result)
  BY <1>3 DEF Resolved
<1>11. UntornResolveIsExact'
  <2> SUFFICES ASSUME from = w
               PROVE  /\ Cardinality(ToSet(result)) = Len(result)
                      /\ \A e \in ToSet(result) : scores'[e] = SourceAt(w)[e]
                      /\ ToSet(result) \subseteq MembersAt(w)
                      /\ IF Within(Cardinality(MembersAt(w)), limit)
                         THEN ToSet(result) = MembersAt(w)
                         ELSE /\ Cardinality(ToSet(result)) = limit
                              /\ \A e \in ToSet(result), lost \in MembersAt(w) \ ToSet(result) :
                                   RanksBefore(SourceAt(w), e, lost)
    BY <1>3, <1>9, <1>10 DEF UntornResolveIsExact
  <2>1. ReadInOne(list, score, upto, w)
    BY <1>1, <1>2
  <2>2. ToSet(list) = MembersAt(w) /\ OneOfEach(list)
    BY <1>7, <1>8, <2>1 DEF ReadInOne
  <2>3. \A e \in MembersAt(w) : score[e] = SourceAt(w)[e]
    BY <2>1, <2>2 DEF ReadInOne
  <2>4. \A e, lost \in MembersAt(w) : RanksBefore(score, e, lost) <=> RanksBefore(SourceAt(w), e, lost)
    BY <2>3 DEF RanksBefore
  <2> QED
    BY <1>5, <1>6, <2>2, <2>3, <2>4
<1>12. OnlyShiftsTearPages'
  <2>1. \A change, k : k \in from + 1 .. w /\ Shift(change, k) => Took(change, k)'
    BY <1>3, <1>7 DEF Took, Shift
  <2>2. ASSUME NEW e \in EntityIds, e \notin ToSet(list)
        PROVE  \/ \E n \in from .. w : e \notin MembersAt(n)
               \/ \E k \in from + 1 .. w : Shift("removed", k) /\ events[k].entity < e
    <3>1. \/ \E n \in from .. w : e \notin MembersAt(n)
          \/ \E k \in from + 1 .. w : Shift("removed", k) /\ events[k].entity < e
          \/ upto < Rank(e)
      BY <1>1, <1>2, <2>2 DEF NotSkipped
    <3>2. CASE upto < Rank(e) /\ e \in MemberIds
      BY <1>2, <1>7, <1>8, <3>2
    <3>3. CASE e \notin MemberIds
      <4>1. w \in from .. w
        BY <1>1, <1>2, <1>7
      <4> QED
        BY <1>7, <3>3, <4>1
    <3> QED
      BY <3>1, <3>2, <3>3
  <2>3. ASSUME NEW e \in EntityIds, ~Once(list, e)
        PROVE  \E k \in from + 1 .. w : Shift("added", k) /\ events[k].entity <= e
    BY <1>1, <1>2, <2>3 DEF NotRepeated
  <2>4. ~OneOfEach(list) => \E e \in EntityIds : ~Once(list, e)
    <3>1. \A i \in DOMAIN list : list[i] \in EntityIds
      BY <1>2
    <3> QED
      BY <3>1 DEF OneOfEach, Once
  <2> SUFFICES ASSUME limit = NoLimit \/ Len(result) < limit, NEW e \in EntityIds
               PROVE  /\ e \notin ToSet(result) =>
                           \/ \E n \in from .. w : e \notin MembersAt(n)'
                           \/ \E k \in from + 1 .. w : Took("removed", k)' /\ events'[k].entity < e
                           \/ /\ form' = "encoded" /\ limit # NoLimit
                              /\ \E k \in from + 1 .. w : Took("added", k)'
                      /\ Cardinality({i \in DOMAIN result : result[i] = e}) > 1 =>
                           \E k \in from + 1 .. w : Took("added", k)' /\ events'[k].entity <= e
    BY <1>3, <1>10 DEF OnlyShiftsTearPages
  <2>5. ASSUME e \notin ToSet(result)
        PROVE  \/ \E n \in from .. w : e \notin MembersAt(n)'
               \/ \E k \in from + 1 .. w : Took("removed", k)' /\ events'[k].entity < e
               \/ /\ form' = "encoded" /\ limit # NoLimit
                  /\ \E k \in from + 1 .. w : Took("added", k)'
    <3>1. CASE ToSet(result) = ToSet(list)
      BY <1>7, <2>1, <2>2, <2>5, <3>1
    <3>2. CASE carried = "encoded" /\ limit # NoLimit /\ ~OneOfEach(list)
      BY <1>4, <2>1, <2>3, <2>4, <3>2
    <3> QED
      BY <1>5, <3>1, <3>2
  <2>6. ASSUME Cardinality({i \in DOMAIN result : result[i] = e}) > 1
        PROVE  \E k \in from + 1 .. w : Took("added", k)' /\ events'[k].entity <= e
    <3>1. ~Once(result, e)
      BY <2>6, OnceCount
    <3> QED
      BY <1>5, <1>7, <2>1, <2>3, <3>1
  <2> QED
    BY <2>5, <2>6
<1>13. Seen(ids, scores, since, mark)'
  <2> SUFFICES ASSUME NEW e \in ToSet(result)
               PROVE  scores'[e] # Absent /\ \E n \in from .. w : SourceAt(n)'[e] = scores'[e]
    BY <1>3 DEF Seen
  <2>1. score[e] # Absent /\ \E n \in from .. w : SourceAt(n)[e] = score[e]
    BY <1>1, <1>2, <1>5 DEF Seen
  <2> QED
    BY <1>6, <1>7, <2>1
<1>14. since' \in 0 .. mark' /\ mark' \in 0 .. Watermark'
  BY <1>1, <1>2, <1>3, <1>7
<1> QED
  BY <1>3, <1>11, <1>12, <1>13, <1>14 DEF ResolveInv, ReadingInv

\* Every step.
LEMMA ResolveNext ==
  ASSUME TypeOK, HistoryInv, ResolveInv, TypeOK', [Next]_vars
  PROVE  ResolveInv'
<1>1. SourceTypeOK /\ SourceTypeOK' /\ ProvidersTypeOK
  BY DEF TypeOK
<1>2. CASE SourceNext /\ UNCHANGED <<clientVars, providerVars, queryVars>>
  <2>1. SourceNext /\ UNCHANGED <<op, at, resolveVars>>
    BY <1>2 DEF clientVars, providerVars
  <2> QED
    BY <1>1, <2>1, WorldKeepsResolve
<1>3. CASE \E limit \in Limits : StartQuery(limit)
  BY <1>1, <1>3, FreshReading DEF StartQuery
<1>4. ASSUME NEW limit \in Pushed, ReadPage(limit) PROVE ResolveInv'
  <2>1. form = "none"
    BY <1>4 DEF ReadPage, PageAnswers, Answers, ResolveInv, ReadingInv
  <2>2. limit \in Nat \cup {NoLimit}
    BY LimitsAssumption DEF Pushed, TypeOK
  <2>3. /\ UNCHANGED sourceVars /\ mark' = Watermark
        /\ since' = IF cursor = 0 THEN Watermark ELSE since
    BY <1>4 DEF ReadPage
  <2>4. CASE feed.bitmap_snapshot
    <3>1. ReturnWireBitmap(limit)
      BY <1>4, <2>4 DEF ReadPage
    <3>2. since' \in 0 .. Watermark
      <4>1. Watermark \in Nat
        BY <1>1 DEF SourceTypeOK, Watermark
      <4>2. since \in 0 .. mark /\ mark \in 0 .. Watermark
        BY DEF ResolveInv, ReadingInv
      <4> QED
        BY <2>3, <4>1, <4>2
    <3> QED
      BY <2>3, <3>1, <3>2, WireBitmapIsExact
  <2>5. CASE ~feed.bitmap_snapshot /\ SnapshotNextCursor(cursor) = NoCursor
    <3>1. ReturnIds(ids \o PageIds, PageScores, limit)
      BY <1>4, <2>5 DEF ReadPage
    <3> QED
      BY <2>1, <2>2, <2>3, <2>5, <3>1, LastPageResolves
  <2>6. CASE ~feed.bitmap_snapshot /\ SnapshotNextCursor(cursor) # NoCursor
    <3>1. /\ ids' = ids \o PageIds /\ scores' = PageScores
          /\ cursor' = SnapshotNextCursor(cursor) /\ form' = form
      BY <1>4, <2>6 DEF ReadPage
    <3> QED
      BY <2>1, <2>3, <2>6, <3>1, PageGathers
  <2> QED
    BY <2>4, <2>5, <2>6
<1>10. CASE \E limit \in Pushed : PassOnMalformed(limit)
  BY <1>10, MalformedHasScores DEF PassOnMalformed
<1>5. CASE CallStep /\ UNCHANGED <<sourceVars, providerVars>>
  <2>1. UNCHANGED <<sourceVars, resolveVars, op>>
    BY <1>5 DEF providerVars
  <2>2. at \in {"token", "call", "sleep"}
    BY <1>5 DEF CallStep, CredentialMissing, ResolveToken, BackOff, GiveUp, CallService, WakeUp, Refused
  <2> QED
    BY <1>1, <2>1, <2>2, StillReading
<1>6. CASE FetchEvidence
  <2>1. UNCHANGED <<sourceVars, resolveVars>> /\ op' = "query"
    BY <1>6 DEF FetchEvidence
  <2> QED
    BY <1>1, <2>1, StillReading
<1>7. CASE \/ \E defect \in Defects : PageRejected(defect)
           \/ \E defect \in Defects, filter \in CaseFilters, limit \in Pushed :
                CasesRejected(filter, limit, defect)
           \/ UnknownResource \/ EngineCannotDecode
           \/ \E S \in SUBSET EntityIds : Return(S)
  <2>1. UNCHANGED <<sourceVars, resolveVars>> /\ at' = "idle"
    BY <1>7 DEF EngineCannotDecode, PageRejected, CasesRejected, UnknownResource, Return, Raise, providerVars
  <2> QED
    BY <1>1, <2>1, StillReading
<1>8. CASE \E pushed \in BOOLEAN, filter \in CaseFilters, limit \in Pushed, defect \in Defects :
             FetchCases(pushed, filter, limit, defect)
  <2>1. UNCHANGED <<sourceVars, resolveVars>> /\ at' = "evidenced"
    BY <1>8 DEF FetchCases
  <2> QED
    BY <1>1, <2>1, StillReading
<1>9. CASE UNCHANGED vars
  <2>1. UNCHANGED <<sourceVars, resolveVars, op, at>>
    BY <1>9 DEF vars, providerVars, clientVars
  <2> QED
    BY <1>1, <2>1, StillReading
<1> QED
  BY <1>2, <1>3, <1>4, <1>5, <1>6, <1>7, <1>8, <1>9, <1>10 DEF Next, QueryStep, ProviderStep

\* A query has resolved nothing yet when the first one starts.
LEMMA ResolveInit == Init => ResolveInv
<1> SUFFICES ASSUME Init PROVE ResolveInv
  OBVIOUS
<1>1. 0 \in 0 .. 0 /\ 0 \in 0 .. Watermark
  BY DEF Init, SourceInit, Watermark
<1>2. Seen(ids, scores, since, mark)
  BY DEF Init, Seen, ToSet
<1> QED
  BY <1>1, <1>2 DEF Init, ResolveInv, ReadingInv, UntornResolveIsExact, OnlyShiftsTearPages

\* It holds throughout.
LEMMA ResolveAlways == Spec => []ResolveInv
<1>1. Spec => []TypeOK
  BY QueryTypeCorrect
<1>2. Spec => []EvidenceInv
  BY EvidenceInit, EvidenceNext, PTL DEF Spec
<1>3. TypeOK /\ TypeOK' /\ EvidenceInv /\ ResolveInv /\ [Next]_vars => ResolveInv'
  BY ResolveNext DEF EvidenceInv
<1> QED
  BY <1>1, <1>2, <1>3, ResolveInit, PTL DEF Spec

\* If nothing changed between its first and its last page, resolve() returns
\* the members and their scores, each member once, and under a limit those of
\* the highest scores; a bitmap from the wire all of them, unless it does not
\* decode, when the scores passed on with it are still theirs
\* (mcp_provider.py:55-121).
THEOREM UntornResolveIsExactCorrect == Spec => []UntornResolveIsExact
<1>1. ResolveInv => UntornResolveIsExact
  BY DEF ResolveInv
<1> QED
  BY <1>1, ResolveAlways, PTL

\* Each id resolve() returns was a member with the score it is given at some
\* moment between the first page and the last, whatever changed in the
\* meantime (mcp_provider.py:70-90).
THEOREM NothingInventedCorrect == Spec => []NothingInvented
<1>1. ResolveInv => NothingInvented
  BY DEF ResolveInv, ReadingInv, Seen, Resolved, NothingInvented
<1> QED
  BY <1>1, ResolveAlways, PTL

\* If the limit did not fill the result, a member of the whole time is missed
\* only if a member below it was removed between the pages, or a limit that
\* counts an id twice cut it off a bitmap; and an id comes twice only if one at
\* or below it was added (mcp_provider.py:70-134, mock_service.py:170-183).
THEOREM OnlyShiftsTearPagesCorrect == Spec => []OnlyShiftsTearPages
<1>1. ResolveInv => OnlyShiftsTearPages
  BY DEF ResolveInv
<1> QED
  BY <1>1, ResolveAlways, PTL

-----------------------------------------------------------------------------
(* What a query has still to do                                            *)
(*                                                                         *)
(* Three numbers that every step of a query lowers, read in this order:    *)
(* the part of the query it is in, the offsets resolve() may still reach   *)
(* before MAX_PAGES stops it, and the steps its operation of the client    *)
(* may still take.                                                         *)

PartsLeft ==
  CASE at = "idle" -> 0
    [] at = "evidenced" -> 1
    [] at = "resolved" -> 3
    [] OTHER -> IF op = "query" THEN 2 ELSE 4

OffsetsLeft == MaxPages * PageSize - cursor

CallsLeft ==
  CASE at = "token" -> 2 * MaxRetries + 2
    [] at = "call" -> 2 * (MaxRetries - attempt) + 1
    [] at = "sleep" -> 2 * (MaxRetries - attempt)
    [] OTHER -> 0

LeftInv == PartsLeft \in Nat /\ OffsetsLeft \in Nat /\ CallsLeft \in Nat

Nearer ==
  \/ PartsLeft' < PartsLeft
  \/ /\ PartsLeft' = PartsLeft
     /\ \/ OffsetsLeft' < OffsetsLeft
        \/ OffsetsLeft' = OffsetsLeft /\ CallsLeft' < CallsLeft

\* A query's steps bring it nearer to its end; no step of the world and of
\* other callers takes it further away.
QueryAdvances ==
  [][IF QueryStep THEN Nearer
     ELSE at = "idle" \/ UNCHANGED <<PartsLeft, OffsetsLeft, CallsLeft>>]_vars

\* The steps of an operation.
LEMMA Calls ==
  /\ at = "token" => CallsLeft = 2 * MaxRetries + 2
  /\ at = "call" => CallsLeft = 2 * (MaxRetries - attempt) + 1
  /\ at = "sleep" => CallsLeft = 2 * (MaxRetries - attempt)
  /\ at \notin {"token", "call", "sleep"} => CallsLeft = 0
BY DEF CallsLeft

\* The offset the cursor chain may not reach.
LEMMA ChainEnd == MaxPages * PageSize \in Nat /\ PageSize \in Nat \ {0}
<1>1. MaxPages \in Nat /\ PageSize \in Nat \ {0}
  BY PagesAssumption, PageSizeAssumption
<1> QED
  BY <1>1

\* What is left is counted in natural numbers.
LEMMA LeftIsNat ==
  ASSUME ClientInv, cursor \in Nat, cursor <= MaxPages * PageSize
  PROVE  LeftInv
<1>1. PartsLeft \in Nat
  BY DEF PartsLeft
<1>2. OffsetsLeft \in Nat
  BY ChainEnd DEF OffsetsLeft
<1>3. CallsLeft \in Nat
  <2>1. MaxRetries \in Nat /\ attempt \in 0 .. MaxRetries /\ at \in Steps
    BY DelayAssumption DEF ClientInv
  <2> QED
    BY <2>1, Calls DEF Steps
<1> QED
  BY <1>1, <1>2, <1>3 DEF LeftInv

\* A page leads to the next one only below the end of the chain.
LEMMA PageAdvances ==
  ASSUME cursor \in Nat, cursor <= MaxPages * PageSize, NEW limit, ReadPage(limit)
  PROVE  /\ at = "call" /\ op = "resolve" /\ op' = op
         /\ \/ at' = "resolved" /\ cursor' = 0
            \/ at' = "token" /\ cursor' = cursor + PageSize /\ cursor' < MaxPages * PageSize
<1>1. at = "call" /\ op = "resolve" /\ op' = op
  BY DEF ReadPage, PageAnswers, Answers
<1>2. CASE ReturnWireBitmap(limit)
  BY <1>1, <1>2 DEF ReturnWireBitmap
<1>3. CASE ReturnIds(ids \o PageIds, PageScores, limit)
  BY <1>1, <1>3 DEF ReturnIds
<1>4. CASE /\ SnapshotNextCursor(cursor) # NoCursor
           /\ ~Unbounded(SnapshotNextCursor(cursor))
           /\ cursor' = SnapshotNextCursor(cursor) /\ at' = "token"
  <2>1. SnapshotNextCursor(cursor) = cursor + PageSize
    BY <1>4 DEF SnapshotNextCursor
  <2>2. cursor + PageSize \in Nat /\ MaxPages * PageSize \in Nat
    BY ChainEnd
  <2>3. cursor + PageSize < MaxPages * PageSize
    BY <1>4, <2>1, <2>2 DEF Unbounded
  <2> QED
    BY <1>1, <1>4, <2>1, <2>3
<1> QED
  BY <1>2, <1>3, <1>4 DEF ReadPage

\* A query that ends has no part left.
LEMMA EndIsNearer ==
  ASSUME at # "idle", at \in Steps, at' = "idle"
  PROVE  Nearer
<1>1. PartsLeft > 0 /\ PartsLeft \in Nat
  BY DEF PartsLeft
<1>2. PartsLeft' = 0
  BY DEF PartsLeft
<1> QED
  BY <1>1, <1>2 DEF Nearer

\* Within an operation the steps left decrease, whatever the service answers.
LEMMA CallIsNearer ==
  ASSUME ClientInv, CallStep, UNCHANGED providerVars
  PROVE  Nearer
<1>1. op' = op /\ cursor' = cursor
  BY DEF providerVars, resolveVars
<1>2. MaxRetries \in Nat /\ attempt \in 0 .. MaxRetries /\ at \in Steps
  BY DelayAssumption DEF ClientInv
<1>3. OffsetsLeft' = OffsetsLeft
  BY <1>1 DEF OffsetsLeft
<1>4. at \in {"token", "call", "sleep"} /\ at' \in {"token", "call", "sleep"} => PartsLeft' = PartsLeft
  BY <1>1 DEF PartsLeft
<1>5. CASE \E kind \in FailureKinds : BackOff(kind)
  <2>1. at = "call" /\ at' = "sleep" /\ attempt' = attempt
    BY <1>5 DEF BackOff, CallService
  <2>2. CallsLeft = 2 * (MaxRetries - attempt) + 1 /\ CallsLeft' = 2 * (MaxRetries - attempt)
    BY <2>1 DEF CallsLeft
  <2> QED
    BY <1>2, <1>3, <1>4, <2>1, <2>2 DEF Nearer
<1>6. CASE WakeUp
  <2>1. at = "sleep" /\ at' = "call" /\ attempt' = attempt + 1
    BY <1>6 DEF WakeUp
  <2>2. /\ CallsLeft = 2 * (MaxRetries - attempt)
        /\ CallsLeft' = 2 * (MaxRetries - (attempt + 1)) + 1
    BY <2>1 DEF CallsLeft
  <2> QED
    BY <1>2, <1>3, <1>4, <2>1, <2>2 DEF Nearer
<1>7. CASE ResolveToken
  <2>1. at = "token" /\ at' = "call" /\ attempt' = 0
    BY <1>7 DEF ResolveToken
  <2>2. CallsLeft = 2 * MaxRetries + 2 /\ CallsLeft' = 2 * (MaxRetries - 0) + 1
    BY <2>1 DEF CallsLeft
  <2> QED
    BY <1>2, <1>3, <1>4, <2>1, <2>2 DEF Nearer
<1>8. CASE CredentialMissing \/ Refused \/ \E kind \in FailureKinds : GiveUp(kind)
  <2>1. at # "idle" /\ at' = "idle"
    BY <1>8 DEF CredentialMissing, Refused, GiveUp, CallService, Raise
  <2> QED
    BY <1>2, <2>1, EndIsNearer
<1> QED
  BY <1>5, <1>6, <1>7, <1>8 DEF CallStep

\* So does every other step of a query.
LEMMA QueryIsNearer ==
  ASSUME ClientInv, cursor \in Nat, cursor <= MaxPages * PageSize, QueryStep
  PROVE  Nearer /\ cursor' \in Nat /\ cursor' <= MaxPages * PageSize
<1>1. at \in Steps /\ PageSize \in Nat \ {0} /\ MaxPages * PageSize \in Nat
  BY ChainEnd DEF ClientInv
<1>2. CASE CallStep /\ UNCHANGED providerVars
  BY <1>2, CallIsNearer DEF providerVars, resolveVars
<1>3. ASSUME NEW limit \in Pushed, ReadPage(limit)
      PROVE  Nearer /\ cursor' \in Nat /\ cursor' <= MaxPages * PageSize
  <2>1. /\ at = "call" /\ op = "resolve" /\ op' = op
        /\ \/ at' = "resolved" /\ cursor' = 0
           \/ at' = "token" /\ cursor' = cursor + PageSize /\ cursor' < MaxPages * PageSize
    BY <1>3, PageAdvances
  <2>2. PartsLeft = 4
    BY <2>1 DEF PartsLeft
  <2>3. CASE at' = "resolved" /\ cursor' = 0
    <3>1. PartsLeft' = 3
      BY <2>3 DEF PartsLeft
    <3> QED
      BY <1>1, <2>2, <2>3, <3>1 DEF Nearer
  <2>4. CASE at' = "token" /\ cursor' = cursor + PageSize /\ cursor' < MaxPages * PageSize
    <3>1. PartsLeft' = 4
      BY <2>1, <2>4 DEF PartsLeft
    <3>2. OffsetsLeft' < OffsetsLeft
      BY <1>1, <2>4 DEF OffsetsLeft
    <3> QED
      BY <1>1, <2>2, <2>4, <3>1, <3>2 DEF Nearer
  <2> QED
    BY <2>1, <2>3, <2>4
<1>4. CASE \E defect \in Defects, filter \in CaseFilters, limit \in Pushed, pushed \in BOOLEAN :
             FetchCases(pushed, filter, limit, defect)
  <2>1. at = "call" /\ op = "query" /\ at' = "evidenced" /\ cursor' = cursor
    BY <1>4 DEF FetchCases, Answers, resolveVars
  <2>2. PartsLeft = 2 /\ PartsLeft' = 1
    BY <2>1 DEF PartsLeft
  <2> QED
    BY <2>1, <2>2 DEF Nearer
<1>5. CASE FetchEvidence
  <2>1. at = "resolved" /\ op' = "query" /\ at' = "token" /\ cursor' = cursor
    BY <1>5 DEF FetchEvidence, resolveVars
  <2>2. PartsLeft = 3 /\ PartsLeft' = 2
    BY <2>1 DEF PartsLeft
  <2> QED
    BY <2>1, <2>2 DEF Nearer
<1>6. CASE \/ \E defect \in Defects : PageRejected(defect)
           \/ \E defect \in Defects, filter \in CaseFilters, limit \in Pushed :
                CasesRejected(filter, limit, defect)
           \/ UnknownResource \/ EngineCannotDecode
           \/ \E S \in SUBSET EntityIds : Return(S)
  <2>1. at # "idle" /\ at' = "idle" /\ cursor' = cursor
    BY <1>6 DEF EngineCannotDecode, PageRejected, CasesRejected, UnknownResource, Return, Answers, Raise,
       providerVars, resolveVars
  <2> QED
    BY <1>1, <2>1, EndIsNearer
<1>7. CASE \E limit \in Pushed : PassOnMalformed(limit)
  <2>1. at = "call" /\ op = "resolve" /\ at' = "resolved" /\ cursor' = 0
    BY <1>7 DEF PassOnMalformed, PageAnswers, Answers
  <2>2. PartsLeft = 4 /\ PartsLeft' = 3
    BY <2>1 DEF PartsLeft
  <2> QED
    BY <1>1, <2>1, <2>2 DEF Nearer
<1> QED
  BY <1>2, <1>3, <1>4, <1>5, <1>6, <1>7 DEF QueryStep, ProviderStep

\* The cursor stays within the chain, and what is left never grows while a
\* query runs.
LEMMA AdvanceNext ==
  ASSUME ClientInv, cursor \in Nat, cursor <= MaxPages * PageSize, [Next]_vars
  PROVE  /\ cursor' \in Nat /\ cursor' <= MaxPages * PageSize
         /\ IF QueryStep THEN Nearer
            ELSE at = "idle" \/ UNCHANGED <<PartsLeft, OffsetsLeft, CallsLeft>>
<1>1. CASE QueryStep
  BY <1>1, QueryIsNearer
<1>2. CASE ~QueryStep /\ \E limit \in Limits : StartQuery(limit)
  <2>1. at = "idle" /\ cursor' = 0
    BY <1>2 DEF StartQuery, FreshResolve
  <2> QED
    BY <1>2, <2>1, ChainEnd
<1>3. CASE ~QueryStep /\ UNCHANGED <<clientVars, providerVars>>
  <2>1. UNCHANGED <<at, op, cursor, attempt>>
    BY <1>3 DEF clientVars, callVars, providerVars, resolveVars
  <2>2. UNCHANGED <<PartsLeft, OffsetsLeft, CallsLeft>>
    BY <2>1 DEF PartsLeft, OffsetsLeft, CallsLeft
  <2> QED
    BY <1>3, <2>1, <2>2
<1> QED
  BY <1>1, <1>2, <1>3 DEF Next, vars

\* No query goes on for ever: for any configuration of retries, pages and page
\* sizes, and whatever the service and the world do, every step of a query
\* lowers a triple of natural numbers in their lexicographic order, and nothing
\* raises it before the query has ended (client.py:155-165,
\* mcp_provider.py:77-81).  Of QueriesEnd there remains that a query that has
\* not ended can take a step.
THEOREM QueryAdvancesCorrect == Spec => []LeftInv /\ QueryAdvances
<1> DEFINE Inv == ClientInv /\ cursor \in Nat /\ cursor <= MaxPages * PageSize
<1>1. Init => Inv
  BY BudgetInit, ChainEnd DEF Init
<1>2. Inv /\ [Next]_vars => Inv'
  BY BudgetNext, AdvanceNext
<1>3. Inv => LeftInv
  BY LeftIsNat
<1>4. Inv /\ [Next]_vars =>
        [IF QueryStep THEN Nearer
         ELSE at = "idle" \/ UNCHANGED <<PartsLeft, OffsetsLeft, CallsLeft>>]_vars
  BY AdvanceNext
<1> HIDE DEF Inv
<1> QED
  BY <1>1, <1>2, <1>3, <1>4, PTL DEF Spec, QueryAdvances
=============================================================================
