----------------------- MODULE RefreshSchedulerProofs -----------------------
(***************************************************************************)
(* Theorems about RefreshScheduler, for any contexts, intervals, callers   *)
(* of tick() and bound on the clock.                                       *)
(***************************************************************************)
EXTENDS RefreshScheduler, TLAPS

Steps ==
  {"unborn", "waiting", "ticking", "lock", "release", "set_due", "dead"} \cup Refreshing

TickerState ==
  [at : Steps, now : 0 .. MaxTime, todo : SUBSET Contexts, busy : Contexts, escaping : BOOLEAN]

TypeInv == TypeOK /\ nextDue \in [Contexts -> Int]

\* A ticker from the lock's acquisition to its release.
Holding(t) == ticker[t].at \in Refreshing \cup {"release"}

LocksAreHeld ==
  /\ \A t \in Tickers : Holding(t) => Busy(t) \in locked
  /\ \A t, u \in Tickers : t # u /\ Holding(t) /\ Holding(u) => Busy(t) # Busy(u)

\* The thread has ended before stop() returns, which is before close_db().
EndedBeforeStopped == server \in {"stopped", "closed"} => At(Loop, "dead")

\* A refresh that raised is recorded, or its ticker is about to record it.
RaisedIsRecorded ==
  ~deployment.escapes =>
    \A c \in raised : c \in error \/ \E t \in Tickers : Busy(t) = c /\ At(t, "record")

\* Until the loop's thread ends, a context it has refreshed is due an interval
\* after the beginning of the tick that did, or still in the hands of that tick.
InHand == Refreshing \cup {"release", "set_due"}
LoopSpaced ==
  /\ ticker[Loop].now <= clock
  /\ At(Loop, "lock") => Due(Busy(Loop), ticker[Loop].now)
  /\ \A c \in Contexts :
       \/ At(Loop, "dead") \/ begun[c] = NotYet
       \/ IF ticker[Loop].at \in InHand /\ c = Busy(Loop)
          THEN begun[c] = ticker[Loop].now
          ELSE nextDue[c] = begun[c] + Interval[c]

\* With nobody else to call tick(), only the loop's thread is ever on its way.
Spaced ==
  deployment.callers = {} =>
    (\A t \in Tickers \ {Loop} : At(t, "waiting")) /\ LoopSpaced

-----------------------------------------------------------------------------
(* Types *)

\* Moving a ticker, or giving it a new state, leaves tickers well typed.
LEMMA MoveTypes ==
  ASSUME ticker \in [Tickers -> TickerState], NEW t \in Tickers, NEW to \in Steps
  PROVE  [ticker EXCEPT ![t].at = to] \in [Tickers -> TickerState]
BY DEF TickerState

\* Types hold initially: the loop's thread does not run, nothing is due yet.
LEMMA TypesInit == Init => TypeInv
<1> SUFFICES ASSUME Init PROVE TypeInv
  OBVIOUS
<1>1. (CHOOSE c \in Contexts : TRUE) \in Contexts
  BY ContextsAssumption
<1>2. 0 \in 0 .. MaxTime
  BY MaxTimeAssumption
<1>3. ticker \in [Tickers -> TickerState]
  BY <1>1, <1>2 DEF Init, TickerState, Steps
<1>4. nextDue \in [Contexts -> Int] /\ \A c \in Contexts : nextDue[c] = NotYet
  BY DEF Init, NotYet
<1> QED
  BY <1>2, <1>3, <1>4 DEF Init, TypeInv, TypeOK, TickerState, Steps

\* Each step of tick() and _refresh() keeps the types.
LEMMA TickTypes ==
  ASSUME TypeInv, NEW t \in Tickers, TickStep(t)
  PROVE  TypeInv'
<1>1. ticker \in [Tickers -> TickerState]
  BY DEF TypeInv, TypeOK, TickerState, Steps
<1>2. UNCHANGED <<deployment, server, stopping, clock>>
  BY DEF TickStep
<1>3. Busy(t) \in Contexts
  BY <1>1 DEF Busy, TickerState
<1> SUFFICES /\ ticker' \in [Tickers -> TickerState]
             /\ locked' \subseteq Contexts /\ error' \subseteq Contexts
             /\ raised' \subseteq Contexts
             /\ nextDue' \in [Contexts -> Int]
             /\ \A c \in Contexts : nextDue'[c] \in {NotYet} \cup 0 .. MaxTime + Interval[c]
             /\ begun' \in [Contexts -> {NotYet} \cup 0 .. MaxTime]
  BY <1>2 DEF TypeInv, TypeOK, TickerState, Steps
<1>4. ASSUME NEW c \in Contexts, SkipContext(t, c)
      PROVE  ticker' \in [Tickers -> TickerState]
  BY <1>1, <1>4 DEF SkipContext, TickerState
<1>5. ASSUME NEW c \in Contexts, FindDue(t, c)
      PROVE  ticker' \in [Tickers -> TickerState]
  <2>1. ticker' = [ticker EXCEPT ![t].at = "lock", ![t].busy = c, ![t].todo = @ \ {c}]
    BY <1>5 DEF FindDue, TakeUp
  <2>2. PICK to \in Steps : to = "lock"
    BY DEF Steps, Refreshing
  <2> DEFINE moved == [ticker[t] EXCEPT !.at = to, !.busy = c, !.todo = @ \ {c}]
  <2>3. moved \in TickerState
    <3>1. ticker[t] \in TickerState
      BY <1>1
    <3> QED
      BY <3>1 DEF TickerState
  <2>4. ticker' = [ticker EXCEPT ![t] = moved]
    BY <2>1, <2>2
  <2> HIDE DEF moved
  <2> QED
    BY <1>1, <2>3, <2>4
<1>6. CASE \E c \in Contexts : SkipContext(t, c) \/ FindDue(t, c)
  BY <1>4, <1>5, <1>6 DEF SkipContext, FindDue, TakeUp, contextVars, TypeInv, TypeOK
<1>11. CASE LockContext(t)
  <2>1. ticker' \in [Tickers -> TickerState]
    BY <1>1, <1>11, MoveTypes DEF LockContext, Acquire, Move, Steps, Refreshing
  <2>2. ticker[t].now \in 0 .. MaxTime
    BY <1>1 DEF TickerState
  <2>3. begun' \in [Contexts -> {NotYet} \cup 0 .. MaxTime]
    BY <1>11, <2>2 DEF LockContext, Acquire, TypeInv, TypeOK
  <2> QED
    BY <1>3, <1>11, <2>1, <2>3 DEF LockContext, Acquire, TypeInv, TypeOK
<1>12. CASE LockIsTaken(t) \/ TickRaises(t)
  <2>1. ticker' \in [Tickers -> TickerState]
    BY <1>1, <1>12, MoveTypes DEF LockIsTaken, TickRaises, AfterException, Move, Steps
  <2> QED
    BY <1>12, <2>1 DEF LockIsTaken, TickRaises, contextVars, TypeInv, TypeOK
<1>13. CASE JitterRaises(t)
  <2>1. PICK next \in Steps : ticker' = [ticker EXCEPT ![t].at = next, ![t].escaping = FALSE]
    BY <1>13 DEF JitterRaises, AfterException, Steps
  <2>2. ticker' \in [Tickers -> TickerState]
    BY <1>1, <2>1 DEF TickerState
  <2> QED
    BY <1>13, <2>2 DEF JitterRaises, contextVars, TypeInv, TypeOK
<1>7. CASE RefreshStep(t)
  <2>1. nextDue' = nextDue /\ locked' = locked /\ begun' = begun
    BY <1>7 DEF RefreshStep, RefreshSucceeds, RefreshRaises, RaisesTo, AuditSuccess,
       AuditSuccessRaises, RecordFailure, AuditFailure, RecordingRaises, contextVars
  <2>2. error' \subseteq Contexts /\ raised' \subseteq Contexts
    BY <1>3, <1>7 DEF RefreshStep, RefreshSucceeds, RefreshRaises, RaisesTo, AuditSuccess,
       AuditSuccessRaises, RecordFailure, AuditFailure, RecordingRaises, contextVars,
       TypeInv, TypeOK
  <2>3. RecordingRaises(t) => ticker' \in [Tickers -> TickerState]
    <3> SUFFICES ASSUME RecordingRaises(t) PROVE ticker' \in [Tickers -> TickerState]
      OBVIOUS
    <3>1. PICK to \in Steps : ticker' = [ticker EXCEPT ![t].at = to, ![t].escaping = TRUE]
      BY DEF RecordingRaises, Steps
    <3> DEFINE moved == [ticker[t] EXCEPT !.at = to, !.escaping = TRUE]
    <3>2. moved \in TickerState
      <4>1. ticker[t] \in TickerState
        BY <1>1
      <4> QED
        BY <4>1 DEF TickerState
    <3>3. ticker' = [ticker EXCEPT ![t] = moved]
      BY <3>1
    <3> HIDE DEF moved
    <3> QED
      BY <1>1, <3>2, <3>3
  <2>4. ASSUME NEW to \in Steps, ticker' = [ticker EXCEPT ![t].at = to]
        PROVE  ticker' \in [Tickers -> TickerState]
    BY <1>1, <2>4, MoveTypes
  <2>5. RecordingRaises(t) \/ \E to \in Steps : ticker' = [ticker EXCEPT ![t].at = to]
    BY <1>7 DEF RefreshStep, RefreshSucceeds, RefreshRaises, RaisesTo, AuditSuccess,
       AuditSuccessRaises, RecordFailure, AuditFailure, Move, Steps, Refreshing
  <2> QED
    BY <2>1, <2>2, <2>3, <2>4, <2>5 DEF TypeInv, TypeOK
<1>8. CASE ReleaseLock(t)
  <2>1. ticker' \in [Tickers -> TickerState]
    BY <1>1, <1>8, MoveTypes DEF ReleaseLock, Move, Steps
  <2> QED
    BY <1>8, <2>1 DEF ReleaseLock, TypeInv, TypeOK
<1>9. CASE SetNextDue(t)
  <2>1. PICK next \in Steps : ticker' = [ticker EXCEPT ![t].at = next, ![t].escaping = FALSE]
    BY <1>9 DEF SetNextDue, AfterException, Steps
  <2>2. ticker' \in [Tickers -> TickerState]
    BY <1>1, <2>1 DEF TickerState
  <2>3. ticker[t].now \in 0 .. MaxTime
    BY <1>1 DEF TickerState
  <2>4. DueAfter(t) \in 0 .. MaxTime + Interval[Busy(t)]
    BY <1>3, <2>3, IntervalAssumption, MaxTimeAssumption DEF DueAfter
  <2>5. DueAfter(t) \in Int
    BY <2>4, <1>3, IntervalAssumption, MaxTimeAssumption
  <2>6. nextDue' = [nextDue EXCEPT ![Busy(t)] = DueAfter(t)]
    BY <1>9 DEF SetNextDue
  <2>7. nextDue' \in [Contexts -> Int]
    BY <2>5, <2>6 DEF TypeInv
  <2>8. \A c \in Contexts : nextDue'[c] \in {NotYet} \cup 0 .. MaxTime + Interval[c]
    BY <2>4, <2>6 DEF TypeInv, TypeOK
  <2> QED
    BY <1>9, <2>2, <2>7, <2>8 DEF SetNextDue, TypeInv, TypeOK
<1>10. CASE EndTick(t)
  <2>1. ticker' \in [Tickers -> TickerState]
    BY <1>1, <1>10, MoveTypes DEF EndTick, Move, Steps
  <2> QED
    BY <1>10, <2>1 DEF EndTick, contextVars, TypeInv, TypeOK
<1> QED
  BY <1>6, <1>7, <1>8, <1>9, <1>10, <1>11, <1>12, <1>13 DEF TickStep

\* Every step keeps the types.
LEMMA TypesNext == TypeInv /\ [Next]_vars => TypeInv'
<1> SUFFICES ASSUME TypeInv, [Next]_vars PROVE TypeInv'
  OBVIOUS
<1>1. ticker \in [Tickers -> TickerState]
  BY DEF TypeInv, TypeOK, TickerState, Steps
<1>2. CASE \E t \in Tickers : TickStep(t)
  BY <1>2, TickTypes
<1>3. ASSUME NEW t \in Tickers, BeginTick(t)
      PROVE  ticker' \in [Tickers -> TickerState] /\ UNCHANGED contextVars
  <2>1. PICK to \in Steps : to = "ticking"
    BY DEF Steps
  <2>2. deployment.contexts \subseteq Contexts /\ clock \in 0 .. MaxTime
    BY DeploymentsAssumption DEF TypeInv, TypeOK
  <2>3. ticker' =
          [ticker EXCEPT ![t].at = to, ![t].now = clock, ![t].todo = deployment.contexts]
    BY <1>3, <2>1 DEF BeginTick
  <2> DEFINE moved == [ticker[t] EXCEPT !.at = to, !.now = clock, !.todo = deployment.contexts]
  <2>4. moved \in TickerState
    <3>1. ticker[t] \in TickerState
      BY <1>1
    <3> QED
      BY <2>2, <3>1 DEF TickerState
  <2>5. ticker' = [ticker EXCEPT ![t] = moved]
    BY <2>3
  <2> HIDE DEF moved
  <2>6. ticker' \in [Tickers -> TickerState]
    BY <1>1, <2>4, <2>5
  <2> QED
    BY <1>3, <2>6 DEF BeginTick
<1>4. CASE LoopStep
  <2>1. LoopEnds => ticker' \in [Tickers -> TickerState] /\ UNCHANGED contextVars
    BY <1>1, MoveTypes, TickersAssumption DEF LoopEnds, Move, Steps
  <2>2. ticker' \in [Tickers -> TickerState] /\ UNCHANGED contextVars
    BY <1>3, <1>4, <2>1, TickersAssumption DEF LoopStep, LoopWakes
  <2> QED
    BY <1>4, <2>2 DEF LoopStep, contextVars, TypeInv, TypeOK, TickerState, Steps
<1>5. ASSUME NEW t \in Tickers, Call(t) PROVE TypeInv'
  BY <1>3, <1>5 DEF Call, contextVars, TypeInv, TypeOK, TickerState, Steps
<1>6. CASE Start
  <2>1. ticker' \in [Tickers -> TickerState]
    BY <1>1, <1>6, MoveTypes, TickersAssumption DEF Start, Move, Steps
  <2> QED
    BY <1>6, <2>1 DEF Start, Lifespan, contextVars, TypeInv, TypeOK, TickerState, Steps
<1>7. CASE \/ Serve \/ StartupRaises \/ RequestStop \/ Joined \/ JoinTimesOut
           \/ CloseDb \/ StopAuditRaises
  BY <1>7 DEF Serve, StartupRaises, RequestStop, Joined, JoinTimesOut, CloseDb,
     StopAuditRaises, Lifespan, contextVars, TypeInv, TypeOK
<1>8. CASE TimePasses
  BY <1>8, MaxTimeAssumption DEF TimePasses, contextVars, TypeInv, TypeOK
<1>9. CASE UNCHANGED vars
  BY <1>9 DEF vars, contextVars, TypeInv, TypeOK
<1> QED
  BY <1>2, <1>4, <1>5, <1>6, <1>7, <1>8, <1>9 DEF Next

\* Positions, clock and due times stay in their ranges: a due time is at most
\* one interval ahead of the clock (refresh_scheduler.py:54-81).
THEOREM TypeCorrect == Spec => []TypeOK
<1>1. Init => TypeInv
  BY TypesInit
<1>2. TypeInv /\ [Next]_vars => TypeInv'
  BY TypesNext
<1>3. TypeInv => TypeOK
  BY DEF TypeInv
<1> QED
  BY <1>1, <1>2, <1>3, PTL DEF Spec

-----------------------------------------------------------------------------
(* What the steps of a tick do to the tickers *)

\* A step of one ticker leaves the others where they are.
LEMMA OthersStay ==
  ASSUME TypeInv, NEW t \in Tickers, TickStep(t) \/ BeginTick(t)
  PROVE  \A u \in Tickers \ {t} : ticker'[u] = ticker[u]
<1>1. ticker \in [Tickers -> TickerState]
  BY DEF TypeInv, TypeOK, TickerState, Steps
<1>2. CASE RefreshStep(t)
  BY <1>1, <1>2 DEF RefreshStep, RefreshSucceeds, RefreshRaises, RaisesTo, AuditSuccess,
     AuditSuccessRaises, RecordFailure, AuditFailure, RecordingRaises, Move
<1>3. CASE \/ BeginTick(t) \/ LockContext(t) \/ LockIsTaken(t) \/ ReleaseLock(t)
           \/ SetNextDue(t) \/ JitterRaises(t) \/ EndTick(t) \/ TickRaises(t)
  BY <1>1, <1>3 DEF BeginTick, LockContext, Acquire, LockIsTaken, ReleaseLock, SetNextDue,
     JitterRaises, EndTick, TickRaises, Move
<1>4. CASE \E c \in Contexts : SkipContext(t, c) \/ FindDue(t, c)
  BY <1>1, <1>4 DEF SkipContext, FindDue, TakeUp
<1> QED
  BY <1>2, <1>3, <1>4 DEF TickStep

\* A context found due is in hand, before its lock is asked for.
LEMMA FindDueMoves ==
  ASSUME TypeInv, NEW t \in Tickers, NEW c \in Contexts, FindDue(t, c)
  PROVE  ticker'[t].at = "lock" /\ ticker'[t].busy = c /\ ticker'[t].now = ticker[t].now
<1>1. ticker \in [Tickers -> TickerState] /\ ticker[t] \in TickerState
  BY DEF TypeInv, TypeOK, TickerState, Steps
<1> DEFINE moved == [ticker[t] EXCEPT !.at = "lock", !.busy = c, !.todo = @ \ {c}]
<1>2. moved.at = "lock" /\ moved.busy = c /\ moved.now = ticker[t].now
  BY <1>1 DEF TickerState
<1>3. ticker' = [ticker EXCEPT ![t] = moved]
  BY DEF FindDue, TakeUp
<1> HIDE DEF moved
<1> QED
  BY <1>1, <1>2, <1>3

\* A refresh keeps its context and its lock until the finally clause.
LEMMA RefreshHolds ==
  ASSUME TypeInv, NEW t \in Tickers, RefreshStep(t)
  PROVE  Holding(t) /\ Holding(t)' /\ Busy(t)' = Busy(t) /\ locked' = locked
<1>1. ticker \in [Tickers -> TickerState]
  BY DEF TypeInv, TypeOK, TickerState, Steps
<1>2. CASE RecordingRaises(t)
  BY <1>1, <1>2 DEF RecordingRaises, At, Holding, Busy, Refreshing, contextVars, TickerState
<1>3. CASE RefreshSucceeds(t) \/ RefreshRaises(t) \/ RecordFailure(t)
  BY <1>1, <1>3 DEF RefreshSucceeds, RefreshRaises, RaisesTo, RecordFailure, Move, At, Holding,
     Busy, Refreshing, TickerState
<1>4. CASE AuditSuccess(t) \/ AuditSuccessRaises(t) \/ AuditFailure(t)
  BY <1>1, <1>4 DEF AuditSuccess, AuditSuccessRaises, AuditFailure, Move, At, Holding, Busy,
     Refreshing, contextVars, TickerState
<1> QED
  BY <1>2, <1>3, <1>4 DEF RefreshStep

\* A ticker that neither takes a lock nor refreshes nor releases one holds none.
LEMMA RestHoldsNothing ==
  ASSUME TypeInv, NEW t \in Tickers,
         \/ BeginTick(t) \/ SetNextDue(t) \/ JitterRaises(t)
         \/ EndTick(t) \/ TickRaises(t) \/ LockIsTaken(t)
         \/ \E c \in Contexts : SkipContext(t, c) \/ FindDue(t, c)
  PROVE  ~Holding(t)' /\ locked' = locked
<1>1. ticker \in [Tickers -> TickerState]
  BY DEF TypeInv, TypeOK, TickerState, Steps
<1>2. CASE BeginTick(t) \/ EndTick(t) \/ TickRaises(t) \/ LockIsTaken(t)
  BY <1>1, <1>2 DEF BeginTick, EndTick, TickRaises, LockIsTaken, AfterException, Move, Holding,
     Refreshing, contextVars, TickerState
<1>3. CASE SetNextDue(t) \/ JitterRaises(t)
  BY <1>1, <1>3 DEF SetNextDue, JitterRaises, AfterException, Holding, Refreshing,
     contextVars, TickerState
<1>4. ASSUME NEW c \in Contexts, SkipContext(t, c) PROVE ~Holding(t)' /\ locked' = locked
  BY <1>1, <1>4 DEF SkipContext, Considers, At, Holding, Refreshing, contextVars, TickerState
<1>5. ASSUME NEW c \in Contexts, FindDue(t, c) PROVE ~Holding(t)' /\ locked' = locked
  BY <1>5, FindDueMoves DEF FindDue, TakeUp, Holding, Refreshing, contextVars
<1> QED
  BY <1>2, <1>3, <1>4, <1>5

-----------------------------------------------------------------------------
(* Locks *)

\* A step of one ticker keeps the locks: it takes only a free one.
LEMMA LocksTick ==
  ASSUME TypeInv, LocksAreHeld, NEW t \in Tickers, TickStep(t) \/ BeginTick(t)
  PROVE  LocksAreHeld'
<1>1. ticker \in [Tickers -> TickerState]
  BY DEF TypeInv, TypeOK, TickerState, Steps
<1>2. \A u \in Tickers \ {t} : Busy(u)' = Busy(u) /\ (Holding(u)' <=> Holding(u))
  BY OthersStay DEF Busy, Holding
<1>3. CASE \/ BeginTick(t) \/ SetNextDue(t) \/ JitterRaises(t)
           \/ EndTick(t) \/ TickRaises(t) \/ LockIsTaken(t)
           \/ \E c \in Contexts : SkipContext(t, c) \/ FindDue(t, c)
  <2>1. ~Holding(t)' /\ locked' = locked
    BY <1>3, RestHoldsNothing
  <2> QED
    BY <1>2, <2>1 DEF LocksAreHeld
<1>4. CASE RefreshStep(t)
  <2>1. Holding(t) /\ Holding(t)' /\ Busy(t)' = Busy(t) /\ locked' = locked
    BY <1>4, RefreshHolds
  <2> QED
    BY <1>2, <2>1 DEF LocksAreHeld
<1>5. CASE ReleaseLock(t)
  <2>1. ~Holding(t)'
    BY <1>1, <1>5 DEF ReleaseLock, Move, Holding, Refreshing, TickerState
  <2>2. Holding(t) /\ locked' = locked \ {Busy(t)}
    BY <1>5 DEF ReleaseLock, Move, At, Holding
  <2> QED
    BY <1>2, <2>1, <2>2 DEF LocksAreHeld
<1>6. CASE LockContext(t)
  <2>1. Busy(t)' = Busy(t)
    BY <1>1, <1>6 DEF LockContext, Acquire, Move, Busy, TickerState
  <2>2. Busy(t) \notin locked /\ locked' = locked \cup {Busy(t)}
    BY <1>6 DEF LockContext, Acquire
  <2> QED
    BY <1>2, <2>1, <2>2 DEF LocksAreHeld
<1> QED
  BY <1>3, <1>4, <1>5, <1>6 DEF TickStep

\* Starting or ending the loop's thread takes and gives back no lock.
LEMMA LocksElse ==
  ASSUME TypeInv, LocksAreHeld, Start \/ LoopEnds
  PROVE  LocksAreHeld'
<1>1. ticker \in [Tickers -> TickerState]
  BY DEF TypeInv, TypeOK, TickerState, Steps
<1>2. locked' = locked
  BY DEF Start, Lifespan, LoopEnds, contextVars
<1>3. ~Holding(Loop) /\ ~Holding(Loop)'
  BY <1>1, TickersAssumption DEF Start, LoopEnds, Move, At, Holding, Refreshing, TickerState
<1>4. \A u \in Tickers \ {Loop} : Busy(u)' = Busy(u) /\ (Holding(u)' <=> Holding(u))
  BY <1>1, TickersAssumption DEF Start, LoopEnds, Move, Busy, Holding
<1> QED
  BY <1>2, <1>3, <1>4 DEF LocksAreHeld

\* Every step keeps the locks.
LEMMA LocksNext == TypeInv /\ LocksAreHeld /\ [Next]_vars => LocksAreHeld'
<1> SUFFICES ASSUME TypeInv, LocksAreHeld, [Next]_vars PROVE LocksAreHeld'
  OBVIOUS
<1>1. CASE \E t \in Tickers : TickStep(t) \/ Call(t)
  BY <1>1, LocksTick DEF Call
<1>2. CASE LoopStep \/ Start
  BY <1>2, LocksTick, LocksElse, TickersAssumption DEF LoopStep, LoopWakes
<1>3. CASE \/ Serve \/ StartupRaises \/ RequestStop \/ Joined \/ JoinTimesOut
           \/ CloseDb \/ StopAuditRaises \/ TimePasses \/ UNCHANGED vars
  BY <1>3 DEF Serve, StartupRaises, RequestStop, Joined, JoinTimesOut, CloseDb,
     StopAuditRaises, TimePasses, Lifespan, vars, contextVars, LocksAreHeld, Holding, Busy
<1> QED
  BY <1>1, <1>2, <1>3 DEF Next

\* No two ticks refresh a context at a time, however many callers tick() has
\* (refresh_scheduler.py:67-72).
THEOREM OneRefreshPerContextCorrect == Spec => []OneRefreshPerContext
<1>1. Init => TypeInv /\ LocksAreHeld
  BY TypesInit DEF Init, LocksAreHeld, Holding, Refreshing
<1>2. TypeInv /\ LocksAreHeld /\ [Next]_vars => TypeInv' /\ LocksAreHeld'
  BY TypesNext, LocksNext
<1>3. LocksAreHeld => OneRefreshPerContext
  BY DEF LocksAreHeld, OneRefreshPerContext, Holding
<1> QED
  BY <1>1, <1>2, <1>3, PTL DEF Spec

-----------------------------------------------------------------------------
(* The end of the scheduler's thread *)

\* A thread that has ended takes no further step.
LEMMA DeadStays ==
  ASSUME TypeInv, At(Loop, "dead"),
         LoopStep \/ \E t \in Tickers : TickStep(t) \/ Call(t)
  PROVE  At(Loop, "dead")'
<1>1. ~LoopStep
  BY DEF LoopStep, LoopWakes, LoopEnds, BeginTick, Move, At
<1>2. PICK t \in Tickers : TickStep(t) \/ Call(t)
  BY <1>1
<1>3. TickStep(t) \/ BeginTick(t)
  BY <1>2 DEF Call
<1>4. t # Loop
  BY <1>3 DEF TickStep, SkipContext, FindDue, TakeUp, Considers, LockContext, Acquire,
     LockIsTaken, RefreshStep, RefreshSucceeds, RefreshRaises, RaisesTo, AuditSuccess,
     AuditSuccessRaises, RecordFailure, AuditFailure, RecordingRaises, ReleaseLock, SetNextDue,
     JitterRaises, EndTick, TickRaises, BeginTick, Move, At
<1>5. ticker'[Loop] = ticker[Loop]
  BY <1>3, <1>4, OthersStay, TickersAssumption
<1> QED
  BY <1>5 DEF At

\* Every step keeps it: stop() returns only after the thread has ended.
LEMMA EndedNext == TypeInv /\ EndedBeforeStopped /\ [Next]_vars => EndedBeforeStopped'
<1> SUFFICES ASSUME TypeInv, EndedBeforeStopped, [Next]_vars PROVE EndedBeforeStopped'
  OBVIOUS
<1>1. CASE LoopStep \/ \E t \in Tickers : TickStep(t) \/ Call(t)
  <2>1. server' = server
    BY <1>1 DEF LoopStep, TickStep, Call
  <2> QED
    BY <1>1, <2>1, DeadStays DEF EndedBeforeStopped
<1>2. CASE Start \/ Serve \/ StartupRaises \/ RequestStop \/ JoinTimesOut \/ StopAuditRaises
  BY <1>2 DEF Start, Serve, StartupRaises, RequestStop, JoinTimesOut, StopAuditRaises,
     Lifespan, EndedBeforeStopped
<1>3. CASE Joined \/ CloseDb \/ TimePasses \/ UNCHANGED vars
  BY <1>3 DEF Joined, CloseDb, TimePasses, vars, Lifespan, EndedBeforeStopped, At
<1> QED
  BY <1>1, <1>2, <1>3 DEF Next

\* The database is closed only after the scheduler's thread has ended, in time
\* or late, by stop() or by an exception (refresh_scheduler.py:45-52).
THEOREM ClosedOnlyWhenQuietCorrect == Spec => []ClosedOnlyWhenQuiet
<1>1. Init => TypeInv /\ EndedBeforeStopped
  BY TypesInit DEF Init, EndedBeforeStopped
<1>2. TypeInv /\ EndedBeforeStopped /\ [Next]_vars => TypeInv' /\ EndedBeforeStopped'
  BY TypesNext, EndedNext
<1>3. EndedBeforeStopped => ClosedOnlyWhenQuiet
  BY DEF EndedBeforeStopped, ClosedOnlyWhenQuiet
<1> QED
  BY <1>1, <1>2, <1>3, PTL DEF Spec

-----------------------------------------------------------------------------
(* Failures *)

\* A ticker that is not about to record a failure may do what leaves both sets
\* alone.
LEMMA RaisedElsewhere ==
  ASSUME TypeInv, RaisedIsRecorded, NEW t \in Tickers,
         TickStep(t) \/ BeginTick(t), ~At(t, "record"),
         UNCHANGED <<deployment, error, raised>>
  PROVE  RaisedIsRecorded'
<1>1. \A u \in Tickers \ {t} : Busy(u)' = Busy(u) /\ (At(u, "record")' <=> At(u, "record"))
  BY OthersStay DEF Busy, At
<1> QED
  BY <1>1 DEF RaisedIsRecorded

\* Starting or ending the loop's thread records and loses no failure.
LEMMA LoopMoves ==
  ASSUME TypeInv, RaisedIsRecorded, Start \/ LoopEnds, UNCHANGED deployment
  PROVE  RaisedIsRecorded'
<1>1. ticker \in [Tickers -> TickerState]
  BY DEF TypeInv, TypeOK, TickerState, Steps
<1>2. UNCHANGED <<error, raised>> /\ ~At(Loop, "record")
  BY DEF Start, Lifespan, LoopEnds, Move, At, contextVars
<1>3. \A u \in Tickers \ {Loop} :
        Busy(u)' = Busy(u) /\ (At(u, "record")' <=> At(u, "record"))
  BY <1>1, TickersAssumption DEF Start, LoopEnds, Move, Busy, At
<1> QED
  BY <1>2, <1>3 DEF RaisedIsRecorded

\* A step of a refresh keeps failures recorded, or about to be.
LEMMA RaisedRefresh ==
  ASSUME TypeInv, RaisedIsRecorded, NEW t \in Tickers, TickStep(t), RefreshStep(t)
  PROVE  RaisedIsRecorded'
<1>1. ticker \in [Tickers -> TickerState]
  BY DEF TypeInv, TypeOK, TickerState, Steps
<1>2. \A u \in Tickers \ {t} : Busy(u)' = Busy(u) /\ (At(u, "record")' <=> At(u, "record"))
  BY OthersStay DEF Busy, At
<1>3. UNCHANGED deployment /\ Busy(t)' = Busy(t)
  BY RefreshHolds DEF TickStep
<1>4. CASE RefreshSucceeds(t)
  <2>1. ~At(t, "record")
    BY <1>4 DEF RefreshSucceeds, Move, At
  <2>2. raised' = raised \ {Busy(t)} /\ error' = error \ {Busy(t)}
    BY <1>4 DEF RefreshSucceeds
  <2> QED
    BY <1>2, <1>3, <2>1, <2>2 DEF RaisedIsRecorded
<1>5. CASE RefreshRaises(t)
  <2>1. ~At(t, "record") /\ At(t, "record")'
    BY <1>1, <1>5 DEF RefreshRaises, RaisesTo, Move, At, TickerState
  <2>2. raised' = raised \cup {Busy(t)} /\ error' = error
    BY <1>5 DEF RefreshRaises, RaisesTo
  <2> QED
    BY <1>2, <1>3, <2>1, <2>2 DEF RaisedIsRecorded
<1>6. CASE RecordFailure(t)
  <2>1. raised' = raised /\ error' = error \cup {Busy(t)}
    BY <1>6 DEF RecordFailure
  <2> QED
    BY <1>2, <1>3, <2>1 DEF RaisedIsRecorded
<1>7. CASE AuditSuccess(t) \/ AuditSuccessRaises(t) \/ AuditFailure(t)
  <2>1. ~At(t, "record") /\ UNCHANGED <<deployment, error, raised>>
    BY <1>3, <1>7 DEF AuditSuccess, AuditSuccessRaises, AuditFailure, Move, At, contextVars
  <2> QED
    BY <2>1, RaisedElsewhere
<1>8. CASE RecordingRaises(t)
  BY <1>3, <1>8 DEF RecordingRaises, RaisedIsRecorded
<1> QED
  BY <1>4, <1>5, <1>6, <1>7, <1>8 DEF RefreshStep

\* Every step keeps failures recorded, or about to be.
LEMMA RaisedNext == TypeInv /\ RaisedIsRecorded /\ [Next]_vars => RaisedIsRecorded'
<1> SUFFICES ASSUME TypeInv, RaisedIsRecorded, [Next]_vars PROVE RaisedIsRecorded'
  OBVIOUS
<1>1. ASSUME NEW t \in Tickers, TickStep(t), ~RefreshStep(t)
      PROVE  ~At(t, "record") /\ UNCHANGED <<deployment, error, raised>>
  BY <1>1 DEF TickStep, SkipContext, FindDue, TakeUp, Considers, LockContext, Acquire,
     LockIsTaken, ReleaseLock, SetNextDue, JitterRaises, EndTick, TickRaises, Move, At,
     contextVars
<1>2. ASSUME NEW t \in Tickers, TickStep(t) PROVE RaisedIsRecorded'
  BY <1>1, <1>2, RaisedRefresh, RaisedElsewhere
<1>3. ASSUME NEW t \in Tickers, BeginTick(t), UNCHANGED deployment PROVE RaisedIsRecorded'
  <2>1. ~At(t, "record") /\ UNCHANGED <<deployment, error, raised>>
    BY <1>3 DEF BeginTick, At, contextVars
  <2> QED
    BY <1>3, <2>1, RaisedElsewhere
<1>4. CASE LoopStep \/ \E t \in Tickers : Call(t)
  <2>1. UNCHANGED deployment
    BY <1>4 DEF LoopStep, Call
  <2>2. CASE LoopWakes \/ \E t \in Tickers : Call(t)
    BY <1>3, <2>1, <2>2, TickersAssumption DEF LoopWakes, Call
  <2>3. CASE LoopEnds
    BY <2>1, <2>3, LoopMoves
  <2> QED
    BY <1>4, <2>2, <2>3 DEF LoopStep
<1>5. CASE Start
  BY <1>5, LoopMoves DEF Start, Lifespan
<1>6. CASE \/ Serve \/ StartupRaises \/ RequestStop \/ Joined \/ JoinTimesOut
           \/ CloseDb \/ StopAuditRaises \/ TimePasses \/ UNCHANGED vars
  BY <1>6 DEF Serve, StartupRaises, RequestStop, Joined, JoinTimesOut, CloseDb,
     StopAuditRaises, TimePasses, Lifespan, vars, contextVars, RaisedIsRecorded, Busy, At
<1> QED
  BY <1>2, <1>4, <1>5, <1>6 DEF Next

\* A refresh that raised stays visible until one succeeds, unless recording it
\* raises as well (refresh_scheduler.py:90-99).
THEOREM FailureIsVisibleCorrect == Spec => []FailureIsVisible
<1>1. Init => TypeInv /\ RaisedIsRecorded
  BY TypesInit DEF Init, RaisedIsRecorded
<1>2. TypeInv /\ RaisedIsRecorded /\ [Next]_vars => TypeInv' /\ RaisedIsRecorded'
  BY TypesNext, RaisedNext
<1>3. RaisedIsRecorded => FailureIsVisible
  BY DEF RaisedIsRecorded, FailureIsVisible, At, Refreshing
<1> QED
  BY <1>1, <1>2, <1>3, PTL DEF Spec

-----------------------------------------------------------------------------
(* Spacing *)

\* What a step of the loop's tick leaves alone, up to the end of a refresh.
LEMMA RefreshKeeps ==
  ASSUME TypeInv, RefreshStep(Loop) \/ ReleaseLock(Loop)
  PROVE  /\ UNCHANGED <<nextDue, begun>> /\ ticker'[Loop].now = ticker[Loop].now
         /\ Busy(Loop)' = Busy(Loop)
         /\ ticker[Loop].at \in InHand /\ ticker'[Loop].at \in InHand
<1>1. ticker \in [Tickers -> TickerState] /\ Loop \in Tickers
  BY TickersAssumption DEF TypeInv, TypeOK, TickerState, Steps
<1>2. CASE RefreshStep(Loop)
  <2>1. Holding(Loop) /\ Holding(Loop)' /\ Busy(Loop)' = Busy(Loop)
    BY <1>1, <1>2, RefreshHolds
  <2>2. UNCHANGED <<nextDue, begun>>
    BY <1>2 DEF RefreshStep, RefreshSucceeds, RefreshRaises, RaisesTo, AuditSuccess,
       AuditSuccessRaises, RecordFailure, AuditFailure, RecordingRaises, contextVars
  <2>3. ticker'[Loop].now = ticker[Loop].now
    BY <1>1, <1>2 DEF RefreshStep, RefreshSucceeds, RefreshRaises, RaisesTo, AuditSuccess,
       AuditSuccessRaises, RecordFailure, AuditFailure, RecordingRaises, Move, TickerState
  <2> QED
    BY <2>1, <2>2, <2>3 DEF Holding, InHand
<1>3. CASE ReleaseLock(Loop)
  BY <1>1, <1>3 DEF ReleaseLock, Move, At, Busy, InHand, TickerState
<1> QED
  BY <1>2, <1>3

\* The loop's steps between two refreshes touch neither a due time nor what has
\* been refreshed; the context at the lock has been found due.
LEMMA BetweenRefreshes ==
  ASSUME TypeInv, ticker[Loop].now <= clock,
         \/ BeginTick(Loop) \/ TickRaises(Loop) \/ EndTick(Loop) \/ LockIsTaken(Loop)
         \/ LoopEnds \/ Start
         \/ \E c \in Contexts : SkipContext(Loop, c) \/ FindDue(Loop, c)
  PROVE  /\ UNCHANGED <<nextDue, begun>> /\ ticker'[Loop].now <= clock
         /\ ticker[Loop].at \notin InHand /\ ticker'[Loop].at \notin InHand
         /\ ~At(Loop, "dead")
         /\ At(Loop, "lock")' => Due(Busy(Loop), ticker[Loop].now)'
<1>1. ticker \in [Tickers -> TickerState] /\ Loop \in Tickers
  BY TickersAssumption DEF TypeInv, TypeOK, TickerState, Steps
<1>2. clock \in Int
  BY MaxTimeAssumption DEF TypeInv, TypeOK
<1>3. CASE BeginTick(Loop)
  BY <1>1, <1>2, <1>3 DEF BeginTick, At, InHand, Refreshing, contextVars, TickerState
<1>4. CASE TickRaises(Loop)
  BY <1>1, <1>4 DEF TickRaises, AfterException, Move, At, InHand, Refreshing, contextVars,
     TickerState
<1>5. CASE EndTick(Loop) \/ LockIsTaken(Loop) \/ LoopEnds
  BY <1>1, <1>5 DEF EndTick, LockIsTaken, LoopEnds, Move, At, InHand, Refreshing, contextVars,
     TickerState
<1>6. CASE Start
  BY <1>1, <1>6 DEF Start, Lifespan, Move, At, InHand, Refreshing, contextVars, TickerState
<1>7. ASSUME NEW c \in Contexts, SkipContext(Loop, c)
      PROVE  /\ UNCHANGED <<nextDue, begun>> /\ ticker'[Loop].now <= clock
             /\ At(Loop, "ticking") /\ At(Loop, "ticking")'
  BY <1>1, <1>7 DEF SkipContext, Considers, At, contextVars, TickerState
<1>8. ASSUME NEW c \in Contexts, FindDue(Loop, c)
      PROVE  /\ UNCHANGED <<nextDue, begun>> /\ ticker'[Loop].now <= clock
             /\ At(Loop, "ticking") /\ At(Loop, "lock")'
             /\ Due(Busy(Loop), ticker[Loop].now)'
  <2>1. Busy(Loop)' = c /\ ticker'[Loop].now = ticker[Loop].now /\ At(Loop, "lock")'
    BY <1>1, <1>8, FindDueMoves DEF Busy, At
  <2> QED
    BY <1>8, <2>1 DEF FindDue, TakeUp, Considers, Due, contextVars
<1> QED
  BY <1>3, <1>4, <1>5, <1>6, <1>7, <1>8 DEF At, InHand, Refreshing

\* With nobody else to call tick(), another ticker that waits is never called.
LEMMA OnlyLoopSteps ==
  ASSUME TypeInv, Spaced, [Next]_vars, deployment.callers = {}
  PROVE  \A t \in Tickers \ {Loop} :
           ~TickStep(t) /\ ~Call(t) /\ ticker'[t] = ticker[t]
<1>1. ticker \in [Tickers -> TickerState] /\ Loop \in Tickers
  BY TickersAssumption DEF TypeInv, TypeOK, TickerState, Steps
<1>2. \A t \in Tickers \ {Loop} : ~TickStep(t) /\ ~Call(t)
  BY DEF Spaced, TickStep, SkipContext, FindDue, TakeUp, Considers, LockContext, Acquire,
     LockIsTaken, RefreshStep, RefreshSucceeds, RefreshRaises, RaisesTo, AuditSuccess,
     AuditSuccessRaises, RecordFailure, AuditFailure, RecordingRaises, ReleaseLock, SetNextDue,
     JitterRaises, EndTick, TickRaises, Call, Move, At
<1>3. CASE TickStep(Loop) \/ LoopWakes \/ Call(Loop)
  BY <1>1, <1>2, <1>3, OthersStay DEF LoopWakes, Call
<1>4. CASE LoopEnds \/ Start
  BY <1>1, <1>2, <1>4 DEF LoopEnds, Start, Move
<1>5. CASE \/ Serve \/ StartupRaises \/ RequestStop \/ Joined \/ JoinTimesOut
           \/ CloseDb \/ StopAuditRaises \/ TimePasses \/ UNCHANGED vars
  BY <1>2, <1>5 DEF Serve, StartupRaises, RequestStop, Joined, JoinTimesOut, CloseDb,
     StopAuditRaises, TimePasses, vars
<1> QED
  BY <1>2, <1>3, <1>4, <1>5 DEF Next, LoopStep

\* A step of the loop's tick keeps the due times an interval after the tick that
\* refreshed last.
LEMMA SpacedTick ==
  ASSUME TypeInv, Spaced, deployment.callers = {}, TickStep(Loop), UNCHANGED clock
  PROVE  LoopSpaced'
<1>1. ticker \in [Tickers -> TickerState] /\ Loop \in Tickers /\ LoopSpaced
  BY TickersAssumption DEF TypeInv, TypeOK, TickerState, Steps, Spaced
<1>2. CASE \/ TickRaises(Loop) \/ EndTick(Loop) \/ LockIsTaken(Loop)
           \/ \E c \in Contexts : SkipContext(Loop, c) \/ FindDue(Loop, c)
  BY <1>1, <1>2, BetweenRefreshes DEF LoopSpaced
<1>3. CASE RefreshStep(Loop) \/ ReleaseLock(Loop)
  <2>1. ~At(Loop, "dead") /\ ~At(Loop, "lock")'
    BY <1>3, RefreshKeeps DEF At, InHand, Refreshing
  <2> QED
    BY <1>1, <1>3, <2>1, RefreshKeeps DEF LoopSpaced
<1>4. CASE LockContext(Loop)
  <2>1. /\ Busy(Loop)' = Busy(Loop) /\ ticker'[Loop].now = ticker[Loop].now
        /\ ticker[Loop].at = "lock" /\ ticker'[Loop].at = "refresh" /\ UNCHANGED nextDue
    BY <1>1, <1>4 DEF LockContext, Acquire, Move, At, Busy, TickerState
  <2>2. begun' = [begun EXCEPT ![Busy(Loop)] = ticker[Loop].now]
    BY <1>4 DEF LockContext, Acquire
  <2>3. ASSUME NEW c \in Contexts, c = Busy(Loop) PROVE begun'[c] = ticker'[Loop].now
    BY <2>1, <2>2, <2>3 DEF TypeInv, TypeOK
  <2>4. ASSUME NEW c \in Contexts, c # Busy(Loop) PROVE begun'[c] = begun[c]
    BY <2>2, <2>4 DEF TypeInv, TypeOK
  <2> QED
    BY <1>1, <2>1, <2>3, <2>4 DEF LoopSpaced, At, InHand, Refreshing
<1>5. CASE SetNextDue(Loop)
  <2>1. /\ Busy(Loop)' = Busy(Loop) /\ ticker'[Loop].now = ticker[Loop].now
        /\ ticker[Loop].at = "set_due" /\ ticker'[Loop].at \in {"dead", "waiting", "ticking"}
        /\ UNCHANGED begun
    BY <1>1, <1>5 DEF SetNextDue, AfterException, At, Busy, TickerState
  <2>2. nextDue' = [nextDue EXCEPT ![Busy(Loop)] = ticker[Loop].now + Interval[Busy(Loop)]]
    BY <1>5 DEF SetNextDue, DueAfter
  <2>3. ASSUME NEW c \in Contexts, c = Busy(Loop)
        PROVE  nextDue'[c] = ticker[Loop].now + Interval[c]
    BY <2>2, <2>3 DEF TypeInv
  <2>4. ASSUME NEW c \in Contexts, c # Busy(Loop) PROVE nextDue'[c] = nextDue[c]
    BY <2>2, <2>4 DEF TypeInv
  <2> QED
    BY <1>1, <2>1, <2>3, <2>4 DEF LoopSpaced, At, InHand, Refreshing
<1>6. CASE JitterRaises(Loop)
  <2>1. ticker'[Loop].now = ticker[Loop].now /\ ticker'[Loop].at = "dead"
    BY <1>1, <1>6 DEF JitterRaises, AfterException, TickerState
  <2> QED
    BY <1>1, <2>1 DEF LoopSpaced, At
<1> QED
  BY <1>2, <1>3, <1>4, <1>5, <1>6 DEF TickStep

\* Every step keeps the due times an interval after the tick that refreshed last.
LEMMA SpacedNext == TypeInv /\ Spaced /\ [Next]_vars => Spaced'
<1>1. deployment' = deployment \/ ~[Next]_vars
  BY DEF Next, Start, Serve, StartupRaises, RequestStop, Joined, JoinTimesOut, CloseDb,
     StopAuditRaises, Lifespan, LoopStep, Call, TickStep, TimePasses, vars
<1> SUFFICES ASSUME TypeInv, Spaced, [Next]_vars, deployment.callers = {}
             PROVE  (\A t \in Tickers \ {Loop} : At(t, "waiting")') /\ LoopSpaced'
  BY <1>1 DEF Spaced
<1>2. \A t \in Tickers \ {Loop} :
        At(t, "waiting") /\ At(t, "waiting")' /\ ~TickStep(t) /\ ~Call(t)
  BY OnlyLoopSteps DEF Spaced, At
<1>3. LoopSpaced
  BY DEF Spaced
<1>4. CASE TickStep(Loop)
  BY <1>2, <1>4, SpacedTick DEF TickStep
<1>5. CASE LoopStep \/ Start \/ Call(Loop)
  <2>1. UNCHANGED clock /\ (BeginTick(Loop) \/ LoopEnds \/ Start)
    BY <1>5 DEF LoopStep, LoopWakes, Start, Lifespan, Call
  <2> QED
    BY <1>2, <1>3, <2>1, BetweenRefreshes DEF LoopSpaced
<1>6. CASE \/ Serve \/ StartupRaises \/ RequestStop \/ Joined \/ JoinTimesOut
           \/ CloseDb \/ StopAuditRaises \/ TimePasses \/ UNCHANGED vars
  <2>1. UNCHANGED <<ticker, nextDue, begun>> /\ clock' \in {clock, clock + 1}
    BY <1>6 DEF Serve, StartupRaises, RequestStop, Joined, JoinTimesOut, CloseDb,
       StopAuditRaises, TimePasses, Lifespan, vars, contextVars
  <2>2. ticker[Loop].now \in Int /\ clock \in Int
    BY TickersAssumption, MaxTimeAssumption DEF TypeInv, TypeOK
  <2>3. ticker'[Loop].now <= clock'
    BY <1>3, <2>1, <2>2 DEF LoopSpaced
  <2> QED
    BY <1>2, <1>3, <2>1, <2>3 DEF LoopSpaced, At, Busy, Due
<1> QED
  BY <1>2, <1>4, <1>5, <1>6 DEF Next

\* The lock of a context that has been refreshed before is taken only when the
\* due time has come, by the tick's clock and so by the real one.
LEMMA SpacingStep ==
  ASSUME TypeInv, Spaced, [Next]_vars, deployment.callers = {},
         NEW t \in Tickers, At(t, "lock"), At(t, "refresh")', begun[Busy(t)] # NotYet
  PROVE  clock >= begun[Busy(t)] + Interval[Busy(t)]
<1>1. t = Loop /\ Loop \in Tickers /\ ticker \in [Tickers -> TickerState]
  BY TickersAssumption DEF Spaced, At, TypeInv, TypeOK, TickerState, Steps
<1>2. Busy(Loop) \in Contexts
  BY <1>1 DEF Busy, TickerState
<1> DEFINE c == Busy(Loop)
<1>3. nextDue[c] = begun[c] + Interval[c] /\ ticker[Loop].now <= clock
      /\ Due(c, ticker[Loop].now)
  BY <1>1, <1>2 DEF Spaced, LoopSpaced, At, InHand, Refreshing
<1>4. begun[c] \in 0 .. MaxTime /\ Interval[c] \in Nat /\ ticker[Loop].now \in Int
      /\ clock \in Int
  BY <1>1, <1>2, IntervalAssumption, MaxTimeAssumption DEF TypeInv, TypeOK, TickerState
<1>5. nextDue[c] # NotYet
  BY <1>3, <1>4, MaxTimeAssumption DEF NotYet
<1> QED
  BY <1>1, <1>3, <1>4, <1>5 DEF Due

\* Where the loop is the only caller of tick(), it refreshes no context before
\* an interval has passed, by the real clock, since the tick that refreshed it
\* last began (refresh_scheduler.py:55, 67-81).
THEOREM RefreshSpacingCorrect == Spec => RefreshSpacing
<1>1. Init => TypeInv /\ Spaced
  <2> SUFFICES ASSUME Init PROVE TypeInv /\ Spaced
    OBVIOUS
  <2>1. ticker[Loop].now = 0 /\ clock = 0 /\ At(Loop, "unborn")
        /\ (\A t \in Tickers \ {Loop} : At(t, "waiting"))
        /\ \A c \in Contexts : begun[c] = NotYet
    BY TickersAssumption DEF Init, At
  <2> QED
    BY <2>1, TypesInit DEF Spaced, LoopSpaced, At
<1>2. TypeInv /\ Spaced /\ [Next]_vars => TypeInv' /\ Spaced'
  BY TypesNext, SpacedNext
<1>3. TypeInv /\ Spaced /\ [Next]_vars =>
        [deployment.callers = {} =>
           \A t \in Tickers, c \in Contexts :
             At(t, "lock") /\ At(t, "refresh")' /\ c = Busy(t) /\ begun[c] # NotYet
               => clock >= begun[c] + Interval[c]]_vars
  BY SpacingStep
<1> QED
  BY <1>1, <1>2, <1>3, PTL DEF Spec, RefreshSpacing
=============================================================================
