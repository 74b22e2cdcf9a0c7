----------------------------- MODULE Lifecycle -----------------------------
(***************************************************************************)
(* The tasks of the process (main.amm_main) and how they end: one market   *)
(* task per market (run_market), the reconcile loop, an oracle loop per    *)
(* market with an oracle, and the health server; the signal handler, the   *)
(* guard of the background tasks, and GracefulShutdown (lifecycle/         *)
(* shutdown.py).                                                           *)
(*                                                                         *)
(* asyncio runs one task at a time, so what stands between two awaits is   *)
(* one action.  task.cancel() takes effect when the task is next resumed:  *)
(* such a task is in told or toldBg until then.  What a quote cycle        *)
(* computes is OrderManager and InventorySync; here it sends orders, fails *)
(* or ends.                                                                *)
(***************************************************************************)
EXTENDS Naturals, FiniteSets

CONSTANTS
    Markets,       \* market_ids
    OracleMarkets, \* those whose config has an oracle_slug
    MaxFailures,   \* _MAX_CONSECUTIVE_FAILURES = 5
    InOrder,       \* the exchange executes requests in the order of sending
    Events         \* what may happen besides, a subset of AllEvents

AllEvents == {"signal",     \* SIGTERM or SIGINT
              "failure",    \* a call fails in a way worth a retry
              "hard",       \* a call fails for good
              "reconcile",  \* a call of the reconcile loop fails
              "cancel",     \* a cancel_all fails
              "final"}      \* a market gets a final status

ASSUME MarketsAssumption == IsFiniteSet(Markets) /\ OracleMarkets \subseteq Markets
ASSUME FailuresAssumption == MaxFailures \in Nat \ {0}
ASSUME EventsAssumption == InOrder \in BOOLEAN /\ Events \subseteq AllEvents

VARIABLES
    main,         \* amm_main: where it stands
    task,         \* market -> its task: not created, at the loop's test, ...
    flag,         \* market -> ctx.shutdown_requested
    failures,     \* market -> consecutive_failures
    bg,           \* background task -> how it is
    told,         \* market tasks told task.cancel() that still run
    toldBg,       \* background tasks told so
    signalled,    \* _shutdown_event
    withdrawn,    \* history: a request to stop was taken back
    active,       \* health_state.markets_active
    sent,         \* exchange: markets with a placement on its way
    resting,      \* exchange: markets with an order on the book
    todo,         \* GracefulShutdown: markets it has still to cancel
    uncancelled   \* GracefulShutdown: markets whose cancel_all raised

tasks == <<task, failures, active>>
exchange == <<sent, resting>>
shutdown == <<todo, uncancelled>>
cancels == <<told, toldBg>>
requests == <<signalled, withdrawn>>
vars == <<main, tasks, flag, bg, cancels, requests, exchange, shutdown>>

Background == {"reconcile", "health"} \cup OracleMarkets
Ends == {"done", "failed", "cancelled"}
Ended(m) == task[m] \in Ends
LiveMarkets == {m \in Markets : task[m] \in {"top", "cycle"}}
LiveBackground == {b \in Background : bg[b] = "run"}

TypeOK ==
    /\ main \in {"setup", "gather", "wait", "cancel", "closed"}
    /\ task \in [Markets -> {"none", "top", "cycle"} \cup Ends]
    /\ flag \in [Markets -> BOOLEAN]
    /\ failures \in [Markets -> 0 .. MaxFailures]
    /\ bg \in [Background -> {"none", "run", "done", "dead", "cancelled"}]
    /\ told \subseteq Markets /\ toldBg \subseteq Background
    /\ signalled \in BOOLEAN /\ withdrawn \in BOOLEAN
    /\ active \in 0 .. Cardinality(Markets)
    /\ sent \subseteq Markets /\ resting \subseteq Markets
    /\ todo \subseteq Markets /\ uncancelled \subseteq Markets

\* After AMMInitializer.initialize, with the signal handlers in place; a
\* process that crashed before may have left orders on the book.
Init ==
    /\ main = "setup"
    /\ task = [m \in Markets |-> "none"]
    /\ flag = [m \in Markets |-> FALSE]
    /\ failures = [m \in Markets |-> 0]
    /\ bg = [b \in Background |-> "none"]
    /\ told = {} /\ toldBg = {} /\ signalled = FALSE /\ withdrawn = FALSE
    /\ active = Cardinality(Markets)
    /\ sent = {} /\ resting \in SUBSET Markets
    /\ todo = {} /\ uncancelled = {}

AllFlags == flag' = [m \in Markets |-> TRUE]

-----------------------------------------------------------------------------
(***************************************************************************)
(* A market task: run_market_with_health and run_market.                   *)
(***************************************************************************)
At(m, place) == task[m] = place /\ m \notin told
GoTo(m, place) == task' = [task EXCEPT ![m] = place]

\* The finally of run_market_with_health, on every way out.
\* Mutation: no try/finally, only a normal return counts.
LeaveNormallyOnly(m, how) ==
    GoTo(m, how) /\ active' = IF how = "done" THEN active - 1 ELSE active
Leave(m, how) == GoTo(m, how) /\ active' = active - 1

BeginCycle(m) ==
    /\ At(m, "top") /\ ~flag[m]
    /\ GoTo(m, "cycle")
    /\ UNCHANGED <<main, failures, active, flag, bg, cancels, requests, exchange, shutdown>>

StopRequested(m) ==
    /\ At(m, "top") /\ flag[m]
    /\ Leave(m, "done")
    /\ UNCHANGED <<main, failures, flag, bg, cancels, requests, exchange, shutdown>>

\* place_order is on its way to the exchange.
Place(m) ==
    /\ At(m, "cycle") /\ m \notin sent
    /\ sent' = sent \cup {m}
    /\ UNCHANGED <<main, tasks, flag, bg, cancels, requests, resting, shutdown>>

\* The cycle returns; under the kill switch it has cancelled all orders.
CycleDone(m) ==
    /\ At(m, "cycle") /\ m \notin sent
    /\ GoTo(m, "top") /\ failures' = [failures EXCEPT ![m] = 0]
    /\ resting' \in {resting, resting \ {m}}
    /\ UNCHANGED <<main, flag, active, bg, cancels, requests, sent, shutdown>>

\* A recoverable failure, also of a placement whose fate is then unknown.
Failure(m) ==
    /\ "failure" \in Events /\ At(m, "cycle")
    /\ failures' = [failures EXCEPT ![m] = @ + 1]

\* Mutation: the limit is not looked at.
RetryForever(m) ==
    /\ Failure(m) /\ GoTo(m, "top")
    /\ UNCHANGED <<main, flag, active, bg, cancels, requests, exchange, shutdown>>

Retry(m) ==
    /\ Failure(m) /\ failures[m] + 1 < MaxFailures
    /\ GoTo(m, "top")
    /\ UNCHANGED <<main, flag, active, bg, cancels, requests, exchange, shutdown>>
GiveUp(m) ==
    /\ Failure(m) /\ failures[m] + 1 = MaxFailures
    /\ Leave(m, "failed") /\ flag' = [flag EXCEPT ![m] = TRUE]
    /\ UNCHANGED <<main, bg, cancels, requests, exchange, shutdown>>

HardFailure(m) ==
    /\ "hard" \in Events /\ At(m, "cycle")
    /\ Leave(m, "failed") /\ flag' = [flag EXCEPT ![m] = TRUE]
    /\ UNCHANGED <<main, failures, bg, cancels, requests, exchange, shutdown>>

\* handle_winding_down; a failure is undone and counts as a good cycle.
FinalStatus(m) ==
    /\ "final" \in Events /\ At(m, "cycle") /\ m \notin sent
    /\ GoTo(m, "top") /\ failures' = [failures EXCEPT ![m] = 0]

WindDown(m) ==
    /\ FinalStatus(m)
    /\ flag' = [flag EXCEPT ![m] = TRUE] /\ resting' = resting \ {m}
    /\ UNCHANGED <<main, active, bg, cancels, requests, sent, shutdown>>
WindDownFails(m) ==
    /\ FinalStatus(m)
    /\ flag' = [flag EXCEPT ![m] = FALSE]
    /\ withdrawn' = (withdrawn \/ flag[m])
    /\ resting' \in {resting, resting \ {m}}
    /\ UNCHANGED <<main, active, bg, cancels, signalled, sent, shutdown>>

\* CancelledError at the await where the task stands.
MarketCancelled(m) ==
    /\ m \in told /\ Leave(m, "cancelled")
    /\ told' = told \ {m}
    /\ UNCHANGED <<main, toldBg, failures, flag, bg, requests, exchange, shutdown>>

-----------------------------------------------------------------------------
(***************************************************************************)
(* The background tasks.  The health server and the oracle loops log their *)
(* errors and do not fail.                                                 *)
(***************************************************************************)
BackgroundEnds(b, how) ==
    /\ bg[b] = "run" /\ b \notin toldBg
    /\ bg' = [bg EXCEPT ![b] = how]
    /\ UNCHANGED <<main, tasks, cancels, requests, exchange, shutdown>>

\* while not any shutdown_requested.
ReconcileLoopEnds ==
    /\ \E m \in Markets : flag[m]
    /\ BackgroundEnds("reconcile", "done") /\ UNCHANGED flag

OracleLoopEnds(m) ==
    /\ m \in OracleMarkets /\ flag[m]
    /\ BackgroundEnds(m, "done") /\ UNCHANGED flag

\* An exception, and _bg_task_guard.

GuardStopsAll == AllFlags
ReconcileLoopDies ==
    /\ "reconcile" \in Events
    /\ BackgroundEnds("reconcile", "dead") /\ GuardStopsAll

BackgroundCancelled(b) ==
    /\ b \in toldBg
    /\ bg' = [bg EXCEPT ![b] = "cancelled"] /\ toldBg' = toldBg \ {b}
    /\ UNCHANGED <<main, told, tasks, flag, requests, exchange, shutdown>>

-----------------------------------------------------------------------------
(***************************************************************************)
(* _signal_handler.  The lists of task handles are filled once all tasks   *)
(* have been created; a signal before that finds them empty.               *)
(***************************************************************************)
CancelHandles ==
    IF main = "setup" THEN UNCHANGED cancels
    ELSE told' = told \cup LiveMarkets /\ toldBg' = toldBg \cup LiveBackground

\* Mutation: the handler only cancels.
SignalCancelsOnly ==
    /\ "signal" \in Events /\ main # "closed"
    /\ signalled' = TRUE
    /\ CancelHandles
    /\ UNCHANGED <<main, tasks, flag, bg, withdrawn, exchange, shutdown>>

Signal ==
    /\ "signal" \in Events /\ main # "closed"
    /\ AllFlags /\ signalled' = TRUE
    /\ CancelHandles
    /\ UNCHANGED <<main, tasks, bg, withdrawn, exchange, shutdown>>

-----------------------------------------------------------------------------
(***************************************************************************)
(* amm_main after the initialization.                                      *)
(***************************************************************************)
\* load_from_cache is awaited before each task, so tasks already run while
\* others are still to be created.
CreateTask(m) ==
    /\ main = "setup" /\ task[m] = "none"
    /\ GoTo(m, "top")
    /\ UNCHANGED <<main, failures, active, flag, bg, cancels, requests, exchange, shutdown>>

StartBackground ==
    /\ main = "setup" /\ main' = "gather"
    /\ \A m \in Markets : task[m] # "none"
    /\ bg' = [b \in Background |-> "run"]
    /\ UNCHANGED <<tasks, flag, cancels, requests, exchange, shutdown>>

\* gather(return_exceptions=True) returns when every market task has ended.
\* Mutation: without return_exceptions the first failure ends it.
GatheredOrFailed == \A m \in Markets : Ended(m)
                    \/ \E f \in Markets : task[f] = "failed"
Gathered == \A m \in Markets : Ended(m)
GatherReturns ==
    /\ main = "gather" /\ Gathered /\ main' = "wait"
    /\ IF signalled
       THEN UNCHANGED <<flag, toldBg>>
       ELSE AllFlags /\ toldBg' = toldBg \cup LiveBackground
    /\ UNCHANGED <<told, tasks, bg, requests, exchange, shutdown>>

\* _wait_for_task_shutdown: after 30 s the tasks still running are cancelled.
WaitTimesOut ==
    /\ main = "wait" /\ ~(LiveBackground \subseteq toldBg)
    /\ toldBg' = toldBg \cup LiveBackground
    /\ UNCHANGED <<main, told, tasks, flag, bg, requests, exchange, shutdown>>
AllTasksEnded ==
    /\ main = "wait" /\ LiveMarkets = {} /\ LiveBackground = {}
    /\ main' = "cancel" /\ todo' = Markets
    /\ UNCHANGED <<tasks, flag, bg, cancels, requests, exchange, uncancelled>>

\* GracefulShutdown.execute: cancel_all for each market.
CancelMarket(m) ==
    /\ main = "cancel" /\ m \in todo
    /\ flag' = [flag EXCEPT ![m] = TRUE] /\ todo' = todo \ {m}
    /\ resting' = resting \ {m}
    /\ sent' = IF InOrder THEN sent \ {m} ELSE sent
    /\ UNCHANGED <<main, tasks, bg, cancels, requests, uncancelled>>

\* Mutation: an exception ends the loop over the markets.
CancelFailsForAll(m) ==
    /\ "cancel" \in Events /\ main = "cancel" /\ m \in todo
    /\ flag' = [flag EXCEPT ![m] = TRUE] /\ todo' = {}
    /\ uncancelled' = uncancelled \cup {m}
    /\ UNCHANGED <<main, tasks, bg, cancels, requests, exchange>>

\* It raised, and the error is logged.
CancelMarketFails(m) ==
    /\ "cancel" \in Events /\ main = "cancel" /\ m \in todo
    /\ flag' = [flag EXCEPT ![m] = TRUE] /\ todo' = todo \ {m}
    /\ uncancelled' = uncancelled \cup {m}
    /\ UNCHANGED <<main, tasks, bg, cancels, requests, exchange>>

Close ==
    /\ main = "cancel" /\ todo = {} /\ main' = "closed"
    /\ UNCHANGED <<tasks, flag, bg, cancels, requests, exchange, shutdown>>

\* The exchange accepts or refuses a placement, whoever still waits for it.
Accept(m) ==
    /\ m \in sent /\ sent' = sent \ {m} /\ resting' = resting \cup {m}
    /\ UNCHANGED <<main, tasks, flag, bg, cancels, requests, shutdown>>
Refuse(m) ==
    /\ m \in sent /\ sent' = sent \ {m}
    /\ UNCHANGED <<main, tasks, flag, bg, cancels, requests, resting, shutdown>>

-----------------------------------------------------------------------------
MarketEnds(m) == CycleDone(m) \/ WindDown(m) \/ WindDownFails(m)
MarketFails(m) == Retry(m) \/ GiveUp(m) \/ HardFailure(m)
MarketRuns(m) == BeginCycle(m) \/ StopRequested(m) \/ MarketCancelled(m)
BackgroundRuns == \/ ReconcileLoopEnds
                  \/ \E m \in Markets : OracleLoopEnds(m)
                  \/ \E b \in Background : BackgroundCancelled(b)
MainRuns == \/ \E m \in Markets : CreateTask(m) \/ CancelMarket(m)
            \/ StartBackground \/ GatherReturns
            \/ WaitTimesOut \/ AllTasksEnded \/ Close

Next ==
    \/ \E m \in Markets : \/ MarketRuns(m) \/ Place(m) \/ MarketEnds(m)
                          \/ MarketFails(m) \/ CancelMarketFails(m)
                          \/ Accept(m) \/ Refuse(m)
    \/ BackgroundRuns \/ ReconcileLoopDies \/ Signal \/ MainRuns

Spec == Init /\ [][Next]_vars

\* asyncio resumes every task whose await is over; each call of a cycle is
\* answered or times out, and a cycle makes finitely many.
FairSpec ==
    /\ Spec
    /\ \A m \in Markets : /\ WF_vars(MarketRuns(m))
                          /\ SF_vars(MarketEnds(m))
                          /\ WF_vars(Accept(m) \/ Refuse(m))
    /\ WF_vars(BackgroundRuns) /\ WF_vars(MainRuns)

-----------------------------------------------------------------------------
(***************************************************************************)
(* Properties.                                                             *)
(***************************************************************************)
\* However the tasks ended, and whichever cancel_all raised, the process
\* closes without an order on the book of a market it could cancel.
NoOrdersLeft == main = "closed" => resting \subseteq uncancelled

\* A market that fails or ends takes no other with it: a running market is
\* asked to stop by its own failure or final status, by a signal, or by the
\* guard of the background tasks.
AskedByItself(m) == task[m] = "cycle" /\ task'[m] # "cycle"
MarketsFailAlone ==
    [][\A m \in Markets : ~Ended(m) /\ ~flag[m] /\ flag'[m] =>
           AskedByItself(m) \/ signalled' \/ bg'["reconcile"] = "dead"]_vars

\* /health and /readiness report the number of market tasks that have not
\* ended, whichever way they end.
HealthCountsTheTasks ==
    active = Cardinality({m \in Markets : ~Ended(m)})

\* A signal ends the process, from the creation of the tasks on, and so does
\* a dead background task, whatever else fails or ends before and after it,
\* unless the undo of a failed winding down has taken a request back.
EndsWhenTold ==
    signalled \/ bg["reconcile"] = "dead" ~> main = "closed" \/ withdrawn

\* AMM_Bot_Design/01_AMM_数据字典与状态机规范_v1.0.md:863: the AMM reconciles
\* every five minutes; a market that still quotes is reconciled.
QuotingIsReconciled ==
    main = "gather" /\ bg["reconcile"] = "done" =>
        \A m \in Markets : flag[m] \/ Ended(m)
=============================================================================
