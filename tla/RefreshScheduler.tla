-------------------------- MODULE RefreshScheduler --------------------------
(***************************************************************************)
(* RefreshScheduler (app/services/refresh_scheduler.py) and the part of    *)
(* the server's lifespan (app/main.py) that starts and stops it.           *)
(*                                                                         *)
(* A ticker is a thread that runs tick(): the scheduler's own loop, and in *)
(* some instances another caller of the public method.  A step of a ticker *)
(* lies between two points where other threads can matter: the test        *)
(* whether a context is due, the attempt to take its lock, each call to    *)
(* the engine or the audit log, releasing the lock, and setting the        *)
(* context's next due time.                                                *)
(***************************************************************************)
EXTENDS Integers, FiniteSets

CONSTANTS
  Contexts,   \* the contexts with refresh_mode 'scheduled'
  Interval,   \* [context |-> its refresh interval with its jitter]
  Tickers,    \* threads that run tick()
  Loop,       \* the one the scheduler starts
  MaxTime,    \* bound on the clock
  Deployments \* the servers to consider: the contexts each one has, who else
              \* calls tick(), and whether an exception may escape from tick()

ASSUME ContextsAssumption == Contexts # {}
ASSUME TickersAssumption == Loop \in Tickers
ASSUME IntervalAssumption == Interval \in [Contexts -> Nat \ {0}]
ASSUME MaxTimeAssumption == MaxTime \in Nat
ASSUME DeploymentsAssumption ==
  Deployments \subseteq
    [contexts : SUBSET Contexts, callers : SUBSET (Tickers \ {Loop}), escapes : BOOLEAN]

VARIABLES
  deployment,\* the server that runs; it never changes
  server,    \* how far the lifespan is
  stopping,  \* _stop
  clock,     \* monotonic()
  ticker,    \* [ticker |-> where it is, and its tick's `current`, contexts still
             \* to look at, context in hand and whether an exception is on its way]
  locked,    \* contexts whose lock is held
  nextDue,   \* _next_due; NotYet where there is no entry
  error,     \* contexts whose last_refresh_error is set
  raised,    \* auxiliary: contexts whose last refresh raised
  begun      \* auxiliary: when the tick began that refreshed a context last

contextVars == <<locked, nextDue, error, raised, begun>>
vars == <<deployment, server, stopping, clock, ticker, contextVars>>

NotYet == -1

Refreshing == {"refresh", "audit", "record", "audit_failure"}

TypeOK ==
  /\ deployment \in Deployments
  /\ server \in {"starting", "started", "serving", "joining", "stopped", "closed", "raised"}
  /\ stopping \in BOOLEAN
  /\ clock \in 0 .. MaxTime
  /\ ticker \in
       [Tickers ->
         [at : {"unborn", "waiting", "ticking", "lock", "release", "set_due", "dead"}
                 \cup Refreshing,
          now : 0 .. MaxTime, todo : SUBSET Contexts, busy : Contexts, escaping : BOOLEAN]]
  /\ locked \subseteq Contexts
  /\ \A c \in Contexts : nextDue[c] \in {NotYet} \cup 0 .. MaxTime + Interval[c]
  /\ error \subseteq Contexts /\ raised \subseteq Contexts
  /\ begun \in [Contexts -> {NotYet} \cup 0 .. MaxTime]

Init ==
  /\ deployment \in Deployments
  /\ server = "starting" /\ stopping = FALSE /\ clock = 0
  /\ ticker = [t \in Tickers |->
       [at |-> IF t = Loop THEN "unborn" ELSE "waiting",
        now |-> 0, todo |-> {}, busy |-> CHOOSE c \in Contexts : TRUE, escaping |-> FALSE]]
  /\ locked = {}
  /\ nextDue = [c \in Contexts |-> NotYet]
  /\ error = {} /\ raised = {} /\ begun = [c \in Contexts |-> NotYet]

At(t, step) == ticker[t].at = step
Busy(t) == ticker[t].busy
Move(t, from, to) == At(t, from) /\ ticker' = [ticker EXCEPT ![t].at = to]

-----------------------------------------------------------------------------
(* tick() *)

BeginTick(t) ==
  /\ At(t, "waiting")
  /\ ticker' = [ticker EXCEPT ![t].at = "ticking", ![t].now = clock, ![t].todo = deployment.contexts]
  /\ UNCHANGED contextVars

\* _stop.wait(poll_seconds) times out, or returns TRUE.
LoopWakes == ~stopping /\ BeginTick(Loop)
LoopEnds == stopping /\ Move(Loop, "waiting", "dead") /\ UNCHANGED contextVars

\* An exception that leaves tick() ends the loop's thread; another caller gets it.
AfterException(t) == IF t = Loop THEN "dead" ELSE "waiting"

\* The listing of the contexts raises, or the parsing of an interval.
TickRaises(t) ==
  /\ deployment.escapes
  /\ Move(t, "ticking", AfterException(t))
  /\ UNCHANGED contextVars

Due(c, time) == nextDue[c] = NotYet \/ nextDue[c] <= time

Considers(t, c) == At(t, "ticking") /\ c \in ticker[t].todo

SkipContext(t, c) ==
  /\ Considers(t, c)
  /\ ~Due(c, ticker[t].now)
  /\ ticker' = [ticker EXCEPT ![t].todo = @ \ {c}]
  /\ UNCHANGED contextVars

TakeUp(t, c) ==
  /\ Considers(t, c)
  /\ ticker' = [ticker EXCEPT ![t].at = "lock", ![t].busy = c, ![t].todo = @ \ {c}]
  /\ UNCHANGED contextVars

\* Mutant of FindDue: nobody asks whether the context is due.
FindDue_NotDue(t, c) == TakeUp(t, c)

FindDue(t, c) == Due(c, ticker[t].now) /\ TakeUp(t, c)

Acquire(t) ==
  /\ Move(t, "lock", "refresh")
  /\ locked' = locked \cup {Busy(t)}
  /\ begun' = [begun EXCEPT ![Busy(t)] = ticker[t].now]
  /\ UNCHANGED <<nextDue, error, raised>>

\* Mutant of LockContext: nobody asks whether the lock is free.
LockContext_Blindly(t) == Acquire(t)

\* lock.acquire(blocking=False): another tick may have taken the lock, or
\* refreshed the context and given the lock back, since it was found due.
LockContext(t) == Busy(t) \notin locked /\ Acquire(t)

LockIsTaken(t) ==
  Busy(t) \in locked /\ Move(t, "lock", "ticking") /\ UNCHANGED contextVars

EndTick(t) ==
  ticker[t].todo = {} /\ Move(t, "ticking", "waiting") /\ UNCHANGED contextVars

-----------------------------------------------------------------------------
(* _refresh() *)

RefreshSucceeds(t) ==
  /\ Move(t, "refresh", "audit")
  /\ raised' = raised \ {Busy(t)} /\ error' = error \ {Busy(t)}
  /\ UNCHANGED <<locked, nextDue, begun>>

RaisesTo(t, handler) ==
  /\ Move(t, "refresh", handler)
  /\ raised' = raised \cup {Busy(t)}
  /\ UNCHANGED <<locked, nextDue, error, begun>>

\* Mutant of RefreshRaises: the exception is swallowed.
RefreshRaises_Swallowed(t) == RaisesTo(t, "release")

RefreshRaises(t) == RaisesTo(t, "record")

\* The audit call is inside the try: its failure counts as the refresh's.
AuditSuccess(t) == Move(t, "audit", "release") /\ UNCHANGED contextVars
AuditSuccessRaises(t) == Move(t, "audit", "record") /\ UNCHANGED contextVars

RecordFailure(t) ==
  /\ Move(t, "record", "audit_failure")
  /\ error' = error \cup {Busy(t)}
  /\ UNCHANGED <<locked, nextDue, raised, begun>>

AuditFailure(t) == Move(t, "audit_failure", "release") /\ UNCHANGED contextVars

\* A call of the except clause raises: only the finally clause still runs.
RecordingRaises(t) ==
  /\ deployment.escapes
  /\ At(t, "record") \/ At(t, "audit_failure")
  /\ ticker' = [ticker EXCEPT ![t].at = "release", ![t].escaping = TRUE]
  /\ UNCHANGED contextVars

-----------------------------------------------------------------------------
(* The finally clause *)

\* Mutant of ReleaseLock: the lock is not released after a failure.
ReleaseLock_OnSuccess(t) ==
  /\ Move(t, "release", "set_due")
  /\ locked' = IF Busy(t) \in error THEN locked ELSE locked \ {Busy(t)}
  /\ UNCHANGED <<nextDue, error, raised, begun>>

ReleaseLock(t) ==
  /\ Move(t, "release", "set_due")
  /\ locked' = locked \ {Busy(t)}
  /\ UNCHANGED <<nextDue, error, raised, begun>>

\* Mutant of DueAfter: the due time is added to the old one.
DueAfter_Accumulates(t) ==
  (IF nextDue[Busy(t)] = NotYet THEN 0 ELSE nextDue[Busy(t)])
    + ticker[t].now + Interval[Busy(t)]

DueAfter(t) == ticker[t].now + Interval[Busy(t)]

\* The exception of a failed recording goes on its way after the finally clause.
SetNextDue(t) ==
  /\ At(t, "set_due")
  /\ nextDue' = [nextDue EXCEPT ![Busy(t)] = DueAfter(t)]
  /\ LET next == IF ticker[t].escaping THEN AfterException(t) ELSE "ticking"
     IN  ticker' = [ticker EXCEPT ![t].at = next, ![t].escaping = FALSE]
  /\ UNCHANGED <<locked, error, raised, begun>>

\* The context's id has no hexadecimal digits to take the jitter from.
JitterRaises(t) ==
  /\ deployment.escapes
  /\ At(t, "set_due")
  /\ ticker' = [ticker EXCEPT ![t].at = AfterException(t), ![t].escaping = FALSE]
  /\ UNCHANGED contextVars

-----------------------------------------------------------------------------
(* The lifespan: start(), audit.log("server_start"), serving, stop(),       *)
(* audit.log("server_stop"), close_db().                                    *)

Lifespan(from, to) == server = from /\ server' = to /\ UNCHANGED <<deployment, clock, contextVars>>

Start ==
  /\ Lifespan("starting", "started")
  /\ stopping' = FALSE
  /\ Move(Loop, "unborn", "waiting")

Serve == Lifespan("started", "serving") /\ UNCHANGED <<stopping, ticker>>

\* The audit log, or the listing logged before it, raises: nobody calls stop().
StartupRaises == Lifespan("started", "raised") /\ UNCHANGED <<stopping, ticker>>

RequestStop == Lifespan("serving", "joining") /\ stopping' = TRUE /\ UNCHANGED ticker

Joined ==
  At(Loop, "dead") /\ Lifespan("joining", "stopped") /\ UNCHANGED <<stopping, ticker>>

\* Mutant of JoinTimesOut: stop() does not look whether the thread is alive.
JoinTimesOut_Silently ==
  ~At(Loop, "dead") /\ Lifespan("joining", "stopped") /\ UNCHANGED <<stopping, ticker>>

JoinTimesOut ==
  ~At(Loop, "dead") /\ Lifespan("joining", "raised") /\ UNCHANGED <<stopping, ticker>>

\* audit.log("server_stop") and close_db(), or the former raises.
CloseDb == Lifespan("stopped", "closed") /\ UNCHANGED <<stopping, ticker>>
StopAuditRaises == Lifespan("stopped", "raised") /\ UNCHANGED <<stopping, ticker>>

TimePasses ==
  /\ clock < MaxTime /\ clock' = clock + 1
  /\ UNCHANGED <<deployment, server, stopping, ticker, contextVars>>

-----------------------------------------------------------------------------
RefreshStep(t) ==
  \/ RefreshSucceeds(t) \/ RefreshRaises(t)
  \/ AuditSuccess(t) \/ AuditSuccessRaises(t)
  \/ RecordFailure(t) \/ AuditFailure(t) \/ RecordingRaises(t)

TickStep(t) ==
  /\ \/ \E c \in Contexts : SkipContext(t, c) \/ FindDue(t, c)
     \/ LockContext(t) \/ LockIsTaken(t)
     \/ RefreshStep(t)
     \/ ReleaseLock(t) \/ SetNextDue(t) \/ JitterRaises(t)
     \/ EndTick(t) \/ TickRaises(t)
  /\ UNCHANGED <<deployment, server, stopping, clock>>

LoopStep == (LoopWakes \/ LoopEnds) /\ UNCHANGED <<deployment, server, stopping, clock>>

\* Another caller of tick().
Call(t) ==
  t \in deployment.callers /\ BeginTick(t) /\ UNCHANGED <<deployment, server, stopping, clock>>

Next ==
  \/ Start \/ Serve \/ StartupRaises
  \/ RequestStop \/ Joined \/ JoinTimesOut \/ CloseDb \/ StopAuditRaises
  \/ LoopStep
  \/ \E t \in Tickers : Call(t) \/ TickStep(t)
  \/ TimePasses

Spec == Init /\ [][Next]_vars

\* The poll timer fires, and a tick that has begun is carried through: the
\* calls it makes return or raise.
Fairness == WF_vars(LoopStep) /\ \A t \in Tickers : WF_vars(TickStep(t))

FairSpec == Spec /\ Fairness

-----------------------------------------------------------------------------
(* Correctness *)

\* Two ticks never refresh one context at a time, although a tick decides that
\* a context is due before it takes the lock and sets its next due time after
\* giving it back (refresh_scheduler.py:67-81).
OneRefreshPerContext ==
  \A t, u \in Tickers :
    t # u /\ ticker[t].at \in Refreshing /\ ticker[u].at \in Refreshing => Busy(t) # Busy(u)

\* The scheduler's thread and its refreshes use the database connection; it is
\* closed only after the thread has ended, whether it ends in time, late or by
\* an exception (refresh_scheduler.py:45-52, main.py:88-91).
ClosedOnlyWhenQuiet == server = "closed" => At(Loop, "dead")

\* A refresh that raised can be seen in last_refresh_error once its context is
\* let go, until a later one succeeds, unless its recording raised as well
\* (refresh_scheduler.py:96-99).
FailureIsVisible ==
  ~deployment.escapes =>
  \A c \in raised :
    c \in error \/ \E t \in Tickers : Busy(t) = c /\ ticker[t].at \in Refreshing

\* Where the loop is the only caller of tick(), a refresh of a context starts,
\* by the real clock, at least its interval after the beginning of the tick
\* that refreshed it last, however long that tick or the present one has taken
\* until now, and whatever has failed meanwhile (refresh_scheduler.py:55,
\* 67-69, 77-81).  Two starts may be closer than the interval by as much as the
\* earlier one came late in its tick.
RefreshSpacing ==
  [][deployment.callers = {} =>
     \A t \in Tickers, c \in Contexts :
       At(t, "lock") /\ At(t, "refresh")' /\ c = Busy(t) /\ begun[c] # NotYet
         => clock >= begun[c] + Interval[c]]_vars

\* Failures, slow refreshes and clock skips never end the refreshing of a
\* context: until stop() is called, a due context is refreshed
\* (refresh_scheduler.py:54-81, 115-117).
KeepsRefreshing ==
  \A c \in Contexts :
    ( /\ c \in deployment.contexts /\ ~deployment.escapes
      /\ ~At(Loop, "unborn") /\ Due(c, clock)
      /\ \A t \in Tickers : Busy(t) = c => At(t, "waiting") \/ At(t, "ticking") )
      ~> (stopping \/ \E t \in Tickers : Busy(t) = c /\ At(t, "refresh"))
=============================================================================
