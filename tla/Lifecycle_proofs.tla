------------------------- MODULE Lifecycle_proofs -------------------------
(* Theorems about Lifecycle, for every set of markets and every bound on    *)
(* the failures.                                                            *)
EXTENDS Lifecycle, FiniteSetTheorems, TLAPS

(***************************************************************************)
(* The inductive invariant.  Only running tasks are told to stop; no       *)
(* market task runs once amm_main has left gather; and from then on an     *)
(* order, on the book or on its way to it, belongs to a market that is     *)
(* still to be cancelled or whose cancel_all raised.                       *)
(***************************************************************************)
ToldAreLive == \A m \in told : ~Ended(m)
Gone == main \in {"wait", "cancel", "closed"} => \A m \in Markets : Ended(m)
Accounted ==
    /\ main = "cancel" => sent \cup resting \subseteq todo \cup uncancelled
    /\ main = "closed" => sent \cup resting \subseteq uncancelled

IInv == /\ TypeOK /\ HealthCountsTheTasks /\ ToldAreLive /\ Gone
        /\ InOrder => Accounted

\* A task that leaves is counted once.
LEMMA LeaveCounts ==
    ASSUME TypeOK, HealthCountsTheTasks,
           NEW m \in Markets, ~Ended(m), NEW how \in Ends, Leave(m, how)
    PROVE  /\ task' \in [Markets -> {"none", "top", "cycle"} \cup Ends]
           /\ active' \in 0 .. Cardinality(Markets)
           /\ HealthCountsTheTasks'
<1> DEFINE left == {k \in Markets : ~Ended(k)}
<1>1. task \in [Markets -> {"none", "top", "cycle"} \cup Ends]
  BY DEF TypeOK
<1>2. /\ task' \in [Markets -> {"none", "top", "cycle"} \cup Ends]
      /\ left' = left \ {m}
  BY <1>1 DEF Leave, GoTo, Ended
<1>3. IsFiniteSet(left) /\ Cardinality(left) <= Cardinality(Markets)
  BY FS_Subset, MarketsAssumption
<1>4. m \in left /\ Cardinality(left') = Cardinality(left) - 1
  BY <1>2, <1>3, FS_RemoveElement
<1>5. Cardinality(left) \in Nat /\ Cardinality(Markets) \in Nat
  BY <1>3, FS_CardinalityType, MarketsAssumption
<1>6. active' = Cardinality(left')
  BY <1>4 DEF Leave, HealthCountsTheTasks
<1> HIDE DEF left
<1>7. active' \in 0 .. Cardinality(Markets)
  <2>1. Cardinality(left) # 0
    BY <1>3, <1>4, FS_EmptySet
  <2> QED BY <2>1, <1>3, <1>4, <1>5, <1>6
<1> QED BY <1>2, <1>6, <1>7 DEF HealthCountsTheTasks, left

\* A task that stays is not counted.
LEMMA StayCounts ==
    ASSUME TypeOK, HealthCountsTheTasks,
           UNCHANGED active, \A k \in Markets : Ended(k)' = Ended(k)
    PROVE  HealthCountsTheTasks'
BY DEF HealthCountsTheTasks

LEMMA InitIInv == Init => IInv
<1> SUFFICES ASSUME Init PROVE IInv
  OBVIOUS
<1>1. \A m \in Markets : ~Ended(m)
  BY DEF Init, Ended, Ends
<1>2. {m \in Markets : ~Ended(m)} = Markets
  BY <1>1
<1>3. Cardinality(Markets) \in Nat
  BY FS_CardinalityType, MarketsAssumption
<1>4. HealthCountsTheTasks
  BY <1>2 DEF Init, HealthCountsTheTasks
<1>5. TypeOK
  <2>1. active \in 0 .. Cardinality(Markets)
    BY <1>3 DEF Init
  <2>2. MaxFailures \in Nat
    BY FailuresAssumption
  <2>3. failures \in [Markets -> 0 .. MaxFailures]
    BY <2>2 DEF Init
  <2>4. /\ task \in [Markets -> {"none", "top", "cycle"} \cup Ends]
        /\ bg \in [Background -> {"none", "run", "done", "dead", "cancelled"}]
        /\ flag \in [Markets -> BOOLEAN]
    BY DEF Init
  <2> QED BY <2>1, <2>3, <2>4 DEF Init, TypeOK
<1> QED BY <1>1, <1>4, <1>5 DEF IInv, Init, ToldAreLive, Gone, Accounted

-----------------------------------------------------------------------------
\* A task stays, or runs and leaves.
LEMMA TaskSteps ==
    ASSUME IInv, [Next]_vars
    PROVE  \/ /\ UNCHANGED active /\ \A k \in Markets : Ended(k)' = Ended(k)
              /\ task' \in [Markets -> {"none", "top", "cycle"} \cup Ends]
           \/ \E m \in Markets, how \in Ends : ~Ended(m) /\ Leave(m, how)
<1> USE DEF IInv, TypeOK, tasks, At, GoTo, Ended, Ends
<1>1. CASE \E m \in Markets : \/ StopRequested(m) \/ GiveUp(m) \/ HardFailure(m)
                              \/ MarketCancelled(m)
  BY <1>1 DEF StopRequested, GiveUp, Failure, HardFailure, MarketCancelled, ToldAreLive
<1>2. CASE \E m \in Markets : \/ CreateTask(m) \/ BeginCycle(m) \/ CycleDone(m) \/ Retry(m)
                              \/ WindDown(m) \/ WindDownFails(m)
  BY <1>2
     DEF CreateTask, BeginCycle, CycleDone, Retry, Failure, WindDown, WindDownFails,
         FinalStatus
<1>3. CASE UNCHANGED tasks
  BY <1>3
<1>4. Next => \/ UNCHANGED tasks
              \/ \E m \in Markets :
                    \/ StopRequested(m) \/ GiveUp(m) \/ HardFailure(m) \/ MarketCancelled(m)
                    \/ CreateTask(m) \/ BeginCycle(m) \/ CycleDone(m) \/ Retry(m)
                    \/ WindDown(m) \/ WindDownFails(m)
  BY DEF Next, MarketRuns, Place, MarketEnds, MarketFails, CancelMarketFails, Accept, Refuse,
         BackgroundRuns, ReconcileLoopEnds, OracleLoopEnds, BackgroundCancelled,
         BackgroundEnds, ReconcileLoopDies, Signal, MainRuns, CancelMarket, StartBackground,
         GatherReturns, WaitTimesOut, AllTasksEnded, Close
<1> QED BY <1>1, <1>2, <1>3, <1>4 DEF vars

\* So the tasks are counted, and those that have ended stay so.
LEMMA CountsStep ==
    ASSUME IInv, [Next]_vars
    PROVE  /\ task' \in [Markets -> {"none", "top", "cycle"} \cup Ends]
           /\ active' \in 0 .. Cardinality(Markets)
           /\ HealthCountsTheTasks'
           /\ \A k \in Markets : Ended(k) => Ended(k)'
<1>1. TypeOK /\ HealthCountsTheTasks BY DEF IInv
<1>2. CASE /\ UNCHANGED active /\ \A k \in Markets : Ended(k)' = Ended(k)
           /\ task' \in [Markets -> {"none", "top", "cycle"} \cup Ends]
  BY <1>1, <1>2, StayCounts DEF TypeOK
<1>3. ASSUME NEW m \in Markets, NEW how \in Ends, ~Ended(m), Leave(m, how)
      PROVE  /\ task' \in [Markets -> {"none", "top", "cycle"} \cup Ends]
             /\ active' \in 0 .. Cardinality(Markets)
             /\ HealthCountsTheTasks'
             /\ \A k \in Markets : Ended(k) => Ended(k)'
  <2>1. \A k \in Markets : Ended(k) => Ended(k)'
    BY <1>1, <1>3 DEF TypeOK, Leave, GoTo, Ended
  <2> QED BY <1>1, <1>3, <2>1, LeaveCounts
<1> QED BY <1>2, <1>3, TaskSteps

LEMMA TypesStep ==
    ASSUME IInv, [Next]_vars
    PROVE  TypeOK'
<1> USE DEF tasks, cancels, requests, exchange, shutdown
<1>0. TypeOK /\ MaxFailures \in Nat \ {0}
  BY FailuresAssumption DEF IInv
<1>1. task' \in [Markets -> {"none", "top", "cycle"} \cup Ends]
      /\ active' \in 0 .. Cardinality(Markets)
  BY CountsStep
<1>2. failures' \in [Markets -> 0 .. MaxFailures]
  <2>1. Next => \/ UNCHANGED failures
                \/ \E m \in Markets : failures' = [failures EXCEPT ![m] = 0]
                \/ \E m \in Markets : Failure(m) /\ failures[m] + 1 <= MaxFailures
    BY <1>0
       DEF TypeOK, Next, MarketRuns, BeginCycle, StopRequested, MarketCancelled, Place,
           MarketEnds, CycleDone, WindDown, WindDownFails, FinalStatus, MarketFails, Retry, GiveUp,
           HardFailure, CancelMarketFails, Accept, Refuse, BackgroundRuns,
           ReconcileLoopEnds, OracleLoopEnds, BackgroundCancelled, BackgroundEnds,
           ReconcileLoopDies, Signal, MainRuns, CreateTask, CancelMarket, StartBackground,
           GatherReturns, WaitTimesOut, AllTasksEnded, Close
  <2> QED BY <1>0, <2>1 DEF TypeOK, Failure, vars
<1>3. /\ flag' \in [Markets -> BOOLEAN]
      /\ bg' \in [Background -> {"none", "run", "done", "dead", "cancelled"}]
      /\ main' \in {"setup", "gather", "wait", "cancel", "closed"}
      /\ told' \subseteq Markets /\ toldBg' \subseteq Background
      /\ signalled' \in BOOLEAN /\ withdrawn' \in BOOLEAN
      /\ sent' \subseteq Markets /\ resting' \subseteq Markets
      /\ todo' \subseteq Markets /\ uncancelled' \subseteq Markets
  <2> USE <1>0 DEF TypeOK
  <2>1. CASE \E m \in Markets : MarketRuns(m) \/ MarketEnds(m) \/ MarketFails(m)
    BY <2>1
       DEF MarketRuns, BeginCycle, StopRequested, MarketCancelled, MarketEnds, CycleDone,
           WindDown, WindDownFails, FinalStatus, MarketFails, Retry, GiveUp, HardFailure
  <2>2. CASE \E m \in Markets : Place(m) \/ CancelMarketFails(m) \/ Accept(m) \/ Refuse(m)
    BY <2>2 DEF Place, CancelMarketFails, Accept, Refuse
  <2>3. CASE BackgroundRuns \/ ReconcileLoopDies
    BY <2>3
       DEF BackgroundRuns, ReconcileLoopEnds, OracleLoopEnds, BackgroundCancelled,
           BackgroundEnds, ReconcileLoopDies, GuardStopsAll, AllFlags, Background
  <2>4. CASE Signal \/ MainRuns
    BY <2>4
       DEF Signal, CancelHandles, LiveMarkets, LiveBackground, AllFlags, MainRuns, CreateTask,
           CancelMarket, StartBackground, GatherReturns, WaitTimesOut, AllTasksEnded, Close
  <2>5. CASE UNCHANGED vars
    BY <2>5 DEF vars
  <2> QED BY <2>1, <2>2, <2>3, <2>4, <2>5 DEF Next
<1> QED BY <1>1, <1>2, <1>3 DEF TypeOK

\* Only a signal tells a task to stop, and only one that runs.
LEMMA ToldStep ==
    ASSUME IInv, [Next]_vars
    PROVE  ToldAreLive'
<1> USE DEF IInv, TypeOK, ToldAreLive, tasks, cancels, At, GoTo, Leave, Ended, Ends
<1>1. CASE \E m \in Markets : MarketRuns(m) \/ MarketEnds(m) \/ MarketFails(m)
  BY <1>1
     DEF MarketRuns, BeginCycle, StopRequested, MarketCancelled, MarketEnds, CycleDone,
         WindDown, WindDownFails, FinalStatus, MarketFails, Retry, GiveUp, Failure, HardFailure
<1>2. CASE Signal
  BY <1>2 DEF Signal, CancelHandles, LiveMarkets
<1>3. CASE \E m \in Markets : CreateTask(m)
  BY <1>3 DEF CreateTask
<1>4. CASE UNCHANGED <<task, told>>
  BY <1>4
<1>5. Next => \/ UNCHANGED <<task, told>> \/ Signal
              \/ \E m \in Markets :
                    MarketRuns(m) \/ MarketEnds(m) \/ MarketFails(m) \/ CreateTask(m)
  BY DEF Next, Place, CancelMarketFails, Accept, Refuse, BackgroundRuns, ReconcileLoopEnds,
         OracleLoopEnds, BackgroundCancelled, BackgroundEnds, ReconcileLoopDies, MainRuns,
         CancelMarket, StartBackground, GatherReturns, WaitTimesOut, AllTasksEnded, Close
<1> QED BY <1>1, <1>2, <1>3, <1>4, <1>5 DEF vars

\* amm_main leaves gather when all have ended.
LEMMA GoneStep ==
    ASSUME IInv, [Next]_vars
    PROVE  Gone'
<1>1. Gone /\ \A k \in Markets : Ended(k) => Ended(k)'
  BY CountsStep DEF IInv
<1>2. \/ UNCHANGED main \/ main' = "gather" \/ main \in {"wait", "cancel"}
      \/ \A m \in Markets : Ended(m)
  BY DEF Next, MarketRuns, BeginCycle, StopRequested, MarketCancelled, Place, MarketEnds,
         CycleDone, WindDown, WindDownFails, MarketFails, Retry, GiveUp, HardFailure,
         CancelMarketFails, Accept, Refuse, BackgroundRuns, ReconcileLoopEnds,
         OracleLoopEnds, BackgroundCancelled, BackgroundEnds, ReconcileLoopDies, Signal,
         MainRuns, CreateTask, CancelMarket, StartBackground, GatherReturns, Gathered,
         WaitTimesOut, AllTasksEnded, Close, vars
<1> QED BY <1>1, <1>2 DEF Gone

\* A market sends nothing once its task has ended, and what it has sent is
\* decided before the batch cancel that was sent after it.
LEMMA AccountedStep ==
    ASSUME IInv, [Next]_vars, InOrder
    PROVE  Accounted'
<1> USE DEF exchange, shutdown
<1>0. TypeOK /\ Accounted /\ (main \in {"cancel", "closed"} => \A m \in Markets : Ended(m))
  BY DEF IInv, Gone
<1>1. CASE main' \notin {"cancel", "closed"}
  BY <1>1 DEF Accounted
<1>2. CASE AllTasksEnded
  BY <1>0, <1>2 DEF AllTasksEnded, Accounted, TypeOK
<1>3. CASE Close
  BY <1>0, <1>3 DEF Close, Accounted
<1>4. CASE \E m \in Markets : CancelMarket(m) \/ CancelMarketFails(m)
  BY <1>0, <1>4 DEF CancelMarket, CancelMarketFails, Accounted
<1>5. CASE \E m \in Markets : Accept(m) \/ Refuse(m)
  BY <1>0, <1>5 DEF Accept, Refuse, Accounted
<1>6. CASE UNCHANGED <<main, exchange, shutdown>>
  BY <1>0, <1>6 DEF Accounted
<1>7. ASSUME NEW m \in Markets, \/ Place(m) \/ MarketEnds(m)
      PROVE  main' \notin {"cancel", "closed"}
  <2>1. ~Ended(m) /\ main' = main
    BY <1>7
       DEF Place, MarketEnds, CycleDone, WindDown, WindDownFails, FinalStatus, At, Ended, Ends
  <2> QED BY <1>0, <2>1
<1>8. Next => \/ AllTasksEnded \/ Close \/ UNCHANGED <<main, exchange, shutdown>>
              \/ \E m \in Markets :
                    \/ CancelMarket(m) \/ CancelMarketFails(m) \/ Accept(m) \/ Refuse(m)
                    \/ Place(m) \/ MarketEnds(m)
              \/ main' \notin {"cancel", "closed"}
  BY DEF Next, MarketRuns, BeginCycle, StopRequested, MarketCancelled, MarketFails, Retry,
         GiveUp, HardFailure, BackgroundRuns, ReconcileLoopEnds, OracleLoopEnds,
         BackgroundCancelled, BackgroundEnds, ReconcileLoopDies, Signal, MainRuns, CreateTask,
         StartBackground, GatherReturns, WaitTimesOut
<1> QED BY <1>1, <1>2, <1>3, <1>4, <1>5, <1>6, <1>7, <1>8 DEF vars

LEMMA NextIInv == IInv /\ [Next]_vars => IInv'
BY CountsStep, TypesStep, ToldStep, GoneStep, AccountedStep DEF IInv

LEMMA Invariance == Spec => []IInv
BY InitIInv, NextIInv, PTL DEF Spec

\* The types, for every set of markets.
THEOREM TypeCorrect == Spec => []TypeOK
BY Invariance, PTL DEF IInv

\* markets_active is the number of market tasks that have not ended.
THEOREM HealthIsRight == Spec => []HealthCountsTheTasks
BY Invariance, PTL DEF IInv

\* When the exchange executes requests in the order of sending, the process
\* closes with no order on the book but those of a failed cancel_all.
THEOREM ClosesWithoutOrders ==
    ASSUME InOrder
    PROVE  Spec => []NoOrdersLeft
<1>1. IInv => NoOrdersLeft
  BY InOrder DEF IInv, Accounted, NoOrdersLeft
<1> QED BY <1>1, Invariance, PTL

\* No market is asked to stop by the end of another.
THEOREM NoMarketStopsAnother == Spec => MarketsFailAlone
<1> DEFINE Alone == \A m \in Markets : ~Ended(m) /\ ~flag[m] /\ flag'[m] =>
               AskedByItself(m) \/ signalled' \/ bg'["reconcile"] = "dead"
<1>1. ASSUME IInv, [Next]_vars PROVE Alone
  <2> SUFFICES ASSUME NEW m \in Markets, ~Ended(m), ~flag[m], flag'[m]
               PROVE  AskedByItself(m) \/ signalled' \/ bg'["reconcile"] = "dead"
    OBVIOUS
  <2> USE <1>1 DEF IInv
  <2>1. CASE UNCHANGED vars
    BY <2>1 DEF vars
  <2>2. ASSUME NEW k \in Markets, MarketRuns(k) \/ Place(k) \/ Retry(k)
                   \/ CycleDone(k) \/ WindDownFails(k) \/ CreateTask(k)
                   \/ OracleLoopEnds(k) \/ Accept(k) \/ Refuse(k)
        PROVE  FALSE
    BY <2>2 DEF TypeOK, MarketRuns, BeginCycle, StopRequested,
       MarketCancelled, Place, Retry, CycleDone, WindDownFails, FinalStatus,
       CreateTask, OracleLoopEnds, Accept, Refuse
  <2>3. ASSUME NEW k \in Markets, GiveUp(k) \/ HardFailure(k) \/ WindDown(k)
        PROVE  AskedByItself(m)
    <3>1. k = m
      BY <2>3 DEF TypeOK, GiveUp, HardFailure, WindDown
    <3> QED BY <2>3, <3>1 DEF TypeOK, GiveUp, HardFailure, WindDown, Failure,
               FinalStatus, At, Leave, GoTo, AskedByItself
  <2>4. ASSUME NEW k \in Markets, CancelMarket(k) \/ CancelMarketFails(k)
        PROVE  FALSE
    BY <2>4 DEF Gone, CancelMarket, CancelMarketFails
  <2>5. CASE ReconcileLoopDies
    BY <2>5 DEF ReconcileLoopDies, BackgroundEnds, TypeOK, Background
  <2>6. CASE Signal
    BY <2>6 DEF Signal
  <2>7. CASE GatherReturns
    BY <2>7 DEF GatherReturns, Gathered
  <2>8. CASE ReconcileLoopEnds \/ (\E b \in Background : BackgroundCancelled(b))
             \/ StartBackground \/ WaitTimesOut \/ AllTasksEnded \/ Close
    BY <2>8 DEF ReconcileLoopEnds, BackgroundCancelled, StartBackground,
       WaitTimesOut, AllTasksEnded, Close
  <2> QED
    BY <2>1, <2>2, <2>3, <2>4, <2>5, <2>6, <2>7, <2>8
    DEF Next, MarketEnds, MarketFails, BackgroundRuns, MainRuns
<1>2. IInv /\ [Next]_vars => [Alone]_vars
  BY <1>1
<1> QED BY <1>2, Invariance, PTL DEF Spec, MarketsFailAlone
=============================================================================
