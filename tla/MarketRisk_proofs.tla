------------------------- MODULE MarketRisk_proofs -------------------------
(***************************************************************************)
(* Proofs about MarketRisk, for all prices, limits and durations.          *)
(*                                                                         *)
(* The invariant relates the clocks: an age is at most the time the task   *)
(* that brought the value has been waiting, plus what was promised of it   *)
(* before.  Ages stop counting at Old, which lies beyond every limit.      *)
(***************************************************************************)
EXTENDS MarketRisk, TLAPS

\* The refresh of the outside price.
Refresh ==
    /\ waited <= IF refresher = "sleep" THEN Interval ELSE FetchTime
    /\ fetched # NoPrice => refresher = "fetch" /\ ages.fetched <= waited
    /\ last # NoPrice => ages.last <= updated + FetchTime
    /\ "price" \notin failed =>
           /\ last # NoPrice
           /\ updated <= IF refresher = "sleep" THEN waited ELSE Interval + waited

Near(b) == b.price # NoPrice /\ b.mid - b.price \in -Deviation .. Deviation

\* The verdict of the cycle that waits for the market status.
Pending ==
    pc = "status" =>
        /\ timer <= StatusTime
        /\ verdict = "NORMAL" => Near(basis) /\ ages.basis <= Lag + FetchTime + timer
        /\ answer # "none" => ages.answer <= timer

\* What is known of the market.
Known == "status" \notin failed /\ known => ages.active <= checked

IInv == TypeOK /\ Refresh /\ Pending /\ Known

-----------------------------------------------------------------------------
LEMMA OldIsBeyond ==
    /\ Old \in Nat /\ Old > Lag + FetchTime + StatusTime /\ Old > TTL
    /\ Old > StatusTime
BY TimesAssumption DEF Old

LEMMA Aging ==
    ASSUME NEW a \in Ages
    PROVE  /\ Older(a) \in Ages /\ Older(a) <= a + 1
           /\ Older(a) = a + 1 \/ Older(a) = Old
           /\ \A b \in Ages : a <= b => Older(a) <= Older(b)
           /\ \A b \in Ages, n \in Nat : a <= b + n => Older(a) <= Older(b) + n
BY OldIsBeyond DEF Ages, Older

LEMMA Timers ==
    /\ Longest(Interval, FetchTime) \in Nat /\ Longest(MaxCycle, StatusTime) \in Nat
    /\ Interval <= Longest(Interval, FetchTime) /\ FetchTime <= Longest(Interval, FetchTime)
    /\ MaxCycle <= Longest(MaxCycle, StatusTime) /\ StatusTime <= Longest(MaxCycle, StatusTime)
BY TimesAssumption DEF Longest

LEMMA InitIsInv == Init => IInv
<1> SUFFICES ASSUME Init PROVE IInv
  OBVIOUS
<1>1. 0 \in Ages /\ Old \in Ages BY OldIsBeyond DEF Ages
<1>2. TypeOK
  <2>1. /\ waited \in 0 .. Longest(Interval, FetchTime)
        /\ timer \in 0 .. Longest(MaxCycle, StatusTime)
    BY Timers DEF Init
  <2>2. ages \in [fetched : Ages, last : Ages, basis : Ages, answer : Ages, active : Ages]
    BY <1>1 DEF Init
  <2>3. failed \subseteq {"price", "status"} BY DEF Init
  <2> QED
    BY <1>1, <2>1, <2>2, <2>3
       DEF Init, TypeOK, Statuses, OracleStates, Levels, NoBasis
<1>3. Refresh BY TimesAssumption DEF Init, Refresh
<1>4. Pending /\ Known BY DEF Init, Pending, Known
<1> QED BY <1>2, <1>3, <1>4 DEF IInv

LEMMA TickKeeps == IInv /\ Tick => IInv'
<1> SUFFICES ASSUME IInv, Tick PROVE IInv'
  OBVIOUS
<1>0. TypeOK BY DEF IInv
<1>1. /\ updated \in Ages /\ checked \in Ages /\ waited \in Nat /\ timer \in Nat
      /\ ages \in [fetched : Ages, last : Ages, basis : Ages, answer : Ages, active : Ages]
  BY <1>0, Timers DEF TypeOK
<1>2. /\ ages'.fetched = Older(ages.fetched) /\ ages'.last = Older(ages.last)
      /\ ages'.answer = Older(ages.answer) /\ ages'.active = Older(ages.active)
      /\ pc = "status" => ages'.basis = Older(ages.basis)
  BY <1>1 DEF Tick
<1>3. TypeOK'
  <2>1. Old \in Ages BY OldIsBeyond DEF Ages
  <2>2. waited' \in 0 .. Longest(Interval, FetchTime)
    BY <1>0, <1>1, Timers, TimesAssumption DEF Tick, InTime, TypeOK
  <2>3. timer' \in 0 .. Longest(MaxCycle, StatusTime)
    BY <1>0, <1>1, Timers, TimesAssumption DEF Tick, InTime, TypeOK
  <2>4. updated' \in Ages /\ checked' \in Ages
    BY <1>1, Aging DEF Tick
  <2>5. ages' \in [fetched : Ages, last : Ages, basis : Ages, answer : Ages, active : Ages]
    BY <1>1, <2>1, Aging DEF Tick
  <2>6. /\ verdict' \in OracleStates
        /\ basis' \in [mid : Mids \cup {NoPrice}, price : Prices \cup {NoPrice}]
    BY <1>0 DEF Tick, Forget, NoBasis, TypeOK, OracleStates
  <2> QED
    BY <1>0, <2>2, <2>3, <2>4, <2>5, <2>6 DEF TypeOK, Tick, world
<1>4. Refresh'
  <2>1. waited' = waited + 1 /\ updated' = Older(updated) BY DEF Tick
  <2>2. /\ waited' <= (IF refresher = "sleep" THEN Interval ELSE FetchTime)
        /\ UNCHANGED <<refresher, fetched, last, failed>>
    BY <1>1, TimesAssumption DEF Tick, InTime
  <2>3. fetched # NoPrice => refresher = "fetch" /\ ages'.fetched <= waited'
    <3>1. /\ ages.fetched \in Nat /\ ages'.fetched \in Nat
          /\ ages'.fetched <= ages.fetched + 1
      BY <1>1, <1>2, Aging, OldIsBeyond DEF Ages
    <3> QED BY <1>1, <2>1, <3>1 DEF IInv, Refresh
  <2>4. last # NoPrice => ages'.last <= updated' + FetchTime
    BY <1>1, <1>2, <2>1, Aging, TimesAssumption DEF IInv, Refresh
  <2>5. updated' <= updated + 1 BY <1>1, <2>1, Aging
  <2>6. updated \in Nat /\ updated' \in Nat
    BY <1>1, <2>1, Aging, OldIsBeyond DEF Ages
  <2> QED
    BY <1>1, <2>1, <2>2, <2>3, <2>4, <2>5, <2>6, TimesAssumption DEF IInv, Refresh
<1>5. Pending'
  <2>1. timer' = timer + 1 /\ UNCHANGED <<pc, answer>> BY DEF Tick
  <2>2. CASE pc = "status"
    <3>1. timer' <= StatusTime
      BY <1>1, <2>1, <2>2, TimesAssumption DEF Tick, InTime
    <3>2. UNCHANGED <<verdict, basis>> BY <2>2 DEF Tick
    <3>3. ages'.basis <= ages.basis + 1 /\ ages'.answer <= ages.answer + 1
      BY <1>1, <1>2, <2>2, Aging
    <3>4. /\ ages.basis \in Ages /\ ages'.basis \in Ages
          /\ ages.answer \in Ages /\ ages'.answer \in Ages /\ Ages \subseteq Nat
      BY <1>1, <1>2, <1>3, OldIsBeyond DEF Ages, TypeOK
    <3>5. /\ ages.basis \in Nat /\ ages'.basis \in Nat
          /\ ages.answer \in Nat /\ ages'.answer \in Nat
      BY <3>4
    <3>6. verdict' = "NORMAL" =>
              Near(basis)' /\ ages'.basis <= Lag + FetchTime + timer'
      <4>1. verdict = "NORMAL" => Near(basis) /\ ages.basis <= Lag + FetchTime + timer
        BY <2>2 DEF IInv, Pending
      <4>2. Near(basis) => Near(basis)' BY <3>2 DEF Near
      <4> QED BY <1>1, <2>1, <3>2, <3>3, <3>5, <4>1, <4>2, TimesAssumption
    <3>7. answer' # "none" => ages'.answer <= timer'
      BY <1>1, <2>1, <2>2, <3>3, <3>5 DEF IInv, Pending
    <3> QED BY <3>1, <3>6, <3>7 DEF Pending
  <2> QED BY <2>1, <2>2 DEF Pending
<1>6. Known'
  BY <1>1, <1>2, Aging DEF IInv, Known, Tick
<1> QED BY <1>3, <1>4, <1>5, <1>6 DEF IInv

Background == FetchPrice \/ ReadPrice \/ PriceArrives \/ FetchFails
LEMMA BackgroundKeeps == IInv /\ Background => IInv'
<1> SUFFICES ASSUME IInv, Background PROVE IInv'
  OBVIOUS
<1>0. 0 \in Ages /\ Old \in Ages /\ Ages \subseteq Nat BY OldIsBeyond DEF Ages
<1>1. /\ UNCHANGED <<world, task, status>>
      /\ refresher' \in {"sleep", "fetch"} /\ failed' \subseteq {"price", "status"}
      /\ fetched' \in Prices \cup {NoPrice}
      /\ last' \in Prices \cup {NoPrice} /\ updated' \in Ages
  BY <1>0
     DEF IInv, TypeOK, Background, FetchPrice, ReadPrice, PriceArrives, FetchFails,
         Sleep, oracle
<1>2. waited' \in 0 .. Longest(Interval, FetchTime)
  BY Timers
     DEF IInv, TypeOK, Background, FetchPrice, ReadPrice, PriceArrives, FetchFails, Sleep
<1>3. /\ ages' \in [fetched : Ages, last : Ages, basis : Ages, answer : Ages, active : Ages]
      /\ ages'.basis = ages.basis /\ ages'.answer = ages.answer
      /\ ages'.active = ages.active
  BY <1>0
     DEF IInv, TypeOK, Background, FetchPrice, ReadPrice, PriceArrives, FetchFails
<1>4. TypeOK'
  BY <1>1, <1>2, <1>3 DEF IInv, TypeOK, world, task, status
<1>5. Refresh'
  <2>1. waited \in Nat /\ ages.last \in Nat /\ ages.fetched \in Nat /\ updated \in Nat
    <3>1. waited \in 0 .. Longest(Interval, FetchTime) BY DEF IInv, TypeOK
    <3>2. waited \in Nat BY <3>1, Timers
    <3> QED BY <1>0, <3>2 DEF IInv, TypeOK
  <2>2. CASE FetchPrice
    BY <2>1, <2>2, TimesAssumption DEF IInv, Refresh, FetchPrice, oracle
  <2>3. CASE ReadPrice
    <3>1. ages'.fetched = 0 /\ ages'.last = ages.last
      BY <2>3 DEF IInv, TypeOK, ReadPrice
    <3> QED BY <2>1, <2>3, <3>1, TimesAssumption DEF IInv, Refresh, ReadPrice, oracle
  <2>4. CASE PriceArrives
    <3>1. ages'.last = ages.fetched BY <2>4 DEF IInv, TypeOK, PriceArrives
    <3> QED
      BY <2>1, <2>4, <3>1, TimesAssumption DEF IInv, Refresh, PriceArrives, Sleep
  <2>5. CASE FetchFails
    <3>1. ages'.last = ages.last BY <2>5 DEF IInv, TypeOK, FetchFails
    <3> QED
      BY <2>1, <2>5, <3>1, TimesAssumption DEF IInv, Refresh, FetchFails, Sleep, oracle
  <2> QED BY <2>2, <2>3, <2>4, <2>5 DEF Background
<1>6. Pending' /\ Known'
  <2>1. "status" \in failed => "status" \in failed'
    BY DEF Background, FetchPrice, ReadPrice, PriceArrives, FetchFails
  <2> QED BY <1>1, <1>3, <2>1 DEF IInv, Pending, Known, Near, task, status
<1> QED BY <1>4, <1>5, <1>6 DEF IInv

-----------------------------------------------------------------------------
\* An evaluation that finds the oracle normal has a price to rely on.
LEMMA NormalHasABasis ==
    ASSUME IInv, Evaluate
    PROVE  /\ verdict' \in OracleStates
           /\ basis' \in [mid : Mids \cup {NoPrice}, price : Prices \cup {NoPrice}]
           /\ ages' \in [fetched : Ages, last : Ages, basis : Ages, answer : Ages,
                         active : Ages]
           /\ ages' = [ages EXCEPT !.basis = ages.last]
           /\ verdict' = "NORMAL" =>
                  Near(basis') /\ ages'.basis <= Lag + FetchTime
<1>1. PICK mid \in Mids :
          verdict' = OracleState(mid) /\ basis' = [mid |-> mid, price |-> last]
  BY DEF Evaluate
<1>2. ages' = [ages EXCEPT !.basis = ages.last] BY DEF Evaluate
<1>3. /\ updated \in Nat /\ ages.last \in Nat /\ ages.last \in Ages
      /\ ages \in [fetched : Ages, last : Ages, basis : Ages, answer : Ages, active : Ages]
  BY OldIsBeyond DEF IInv, TypeOK, Ages
<1>4. ASSUME verdict' = "NORMAL"
      PROVE  Near(basis') /\ ages'.basis <= Lag + FetchTime
  <2>1. ~CheckLag /\ ~CheckDeviation(mid) BY <1>1, <1>4 DEF OracleState
  <2>2. last # NoPrice /\ updated <= Lag
    BY <1>3, <2>1, TimesAssumption DEF CheckLag
  <2>3. last \in Int /\ mid \in Int
    BY <2>2, PricesAssumption DEF IInv, TypeOK
  <2>4. mid - last \in -Deviation .. Deviation
    BY <2>1, <2>3, TimesAssumption DEF CheckDeviation
  <2>5. ages'.basis <= Lag + FetchTime
    BY <1>2, <1>3, <2>2, TimesAssumption DEF IInv, Refresh
  <2> QED BY <1>1, <2>2, <2>4, <2>5 DEF Near
<1>5. verdict' \in OracleStates BY <1>1 DEF OracleState, OracleStates
<1>6. basis' \in [mid : Mids \cup {NoPrice}, price : Prices \cup {NoPrice}]
  BY <1>1 DEF IInv, TypeOK
<1>7. ages' \in [fetched : Ages, last : Ages, basis : Ages, answer : Ages, active : Ages]
  BY <1>2, <1>3
<1> QED BY <1>2, <1>4, <1>5, <1>6, <1>7

\* The worse of the two levels is mild only if both are.
LEMMA Applying ==
    ASSUME NEW active \in BOOLEAN, NEW state \in OracleStates, Apply(active, state)
    PROVE  /\ level' \in Levels /\ pc' = "quote" /\ timer' = 0
           /\ level' \in Mild => state = "NORMAL"
           /\ level' # "KILL_SWITCH" => active
BY DEF Apply, Worse, Severity, Levels, Mild, OracleDefense, OracleStates

LEMMA EvaluateKeeps == IInv /\ (EvaluateAndApply \/ EvaluateAndFetch) => IInv'
<1> SUFFICES ASSUME IInv, Evaluate, EvaluateAndApply \/ EvaluateAndFetch PROVE IInv'
  BY DEF EvaluateAndApply, EvaluateAndFetch
<1>1. /\ pc' \in {"status", "quote"} /\ timer' = 0 /\ level' \in Levels
      /\ pc' = "status" => answer' = "none"
      /\ answer' \in Statuses \cup {"none"} /\ UNCHANGED <<known, checked, failed>>
      /\ UNCHANGED <<world, background, oracle>>
  <2>1. verdict' \in OracleStates /\ known \in BOOLEAN
    BY NormalHasABasis DEF IInv, TypeOK
  <2>2. CASE EvaluateAndApply
    BY <2>1, <2>2, Applying DEF EvaluateAndApply, IInv, TypeOK, status
  <2>3. CASE EvaluateAndFetch
    BY <2>3 DEF EvaluateAndFetch, IInv, TypeOK, Statuses
  <2> QED BY <2>2, <2>3
<1>2. TypeOK'
  BY <1>1, NormalHasABasis, Timers DEF IInv, TypeOK, world, background, oracle
<1>3. /\ ages'.fetched = ages.fetched /\ ages'.last = ages.last
      /\ ages'.active = ages.active
  BY NormalHasABasis DEF IInv, TypeOK
<1>4. Refresh'
  BY <1>1, <1>3 DEF IInv, Refresh, background, oracle
<1>5. Pending'
  BY <1>1, NormalHasABasis, TimesAssumption DEF Pending
<1>6. Known' BY <1>1, <1>3 DEF IInv, Known
<1> QED BY <1>2, <1>4, <1>5, <1>6 DEF IInv

LEMMA StatusKeeps == IInv /\ (ReadStatus \/ StatusArrives \/ StatusFails) => IInv'
<1> SUFFICES ASSUME IInv, ReadStatus \/ StatusArrives \/ StatusFails PROVE IInv'
  OBVIOUS
<1>0. /\ 0 \in Ages /\ Old \in Ages /\ Ages \subseteq Nat /\ StatusTime \in Nat
      /\ 0 .. StatusTime \subseteq Ages
  BY OldIsBeyond, TimesAssumption DEF Ages
<1>1. CASE ReadStatus
  BY <1>0, <1>1
     DEF ReadStatus, IInv, TypeOK, Refresh, Pending, Known, Near, world, background,
         oracle, task
<1>2. CASE StatusArrives
  <2>1. /\ known' = (answer = "active") /\ known' \in BOOLEAN /\ verdict \in OracleStates
        /\ checked' = timer /\ timer \in 0 .. StatusTime /\ ages.answer <= timer
    BY <1>0, <1>2, Timers DEF StatusArrives, IInv, TypeOK, Pending
  <2>2. level' \in Levels /\ pc' = "quote" /\ timer' = 0
    BY <1>2, <2>1, Applying DEF StatusArrives
  <2>3. AgeOfActive \in Ages
    BY <1>0 DEF AgeOfActive, IInv, TypeOK
  <2>4. TypeOK'
    <3>1. ages' \in [fetched : Ages, last : Ages, basis : Ages, answer : Ages, active : Ages]
      BY <1>0, <1>2, <2>3 DEF StatusArrives, IInv, TypeOK
    <3>2. timer' \in 0 .. Longest(MaxCycle, StatusTime) BY <2>2, Timers
    <3>3. failed' \subseteq {"price", "status"} /\ answer' = "none"
          /\ UNCHANGED <<world, background, oracle, verdict, basis>>
      BY <1>2 DEF StatusArrives, IInv, TypeOK
    <3> QED
      BY <1>0, <2>1, <2>2, <3>1, <3>2, <3>3
         DEF IInv, TypeOK, world, background, oracle
  <2>5. Refresh'
    BY <1>2 DEF StatusArrives, IInv, TypeOK, Refresh, background, oracle
  <2>6. Known'
    BY <1>2, <2>1 DEF StatusArrives, IInv, TypeOK, Known, AgeOfActive
  <2> QED BY <2>2, <2>4, <2>5, <2>6 DEF IInv, Pending
<1>3. CASE StatusFails
  <2>1. level' \in Levels /\ pc' = "quote" /\ timer' = 0
    BY <1>3, Applying DEF StatusFails, IInv, TypeOK
  <2>2. TypeOK'
    BY <1>0, <1>3, <2>1, Timers
       DEF StatusFails, IInv, TypeOK, world, background, oracle
  <2>3. Refresh'
    BY <1>3 DEF StatusFails, IInv, TypeOK, Refresh, background, oracle
  <2> QED BY <1>3, <2>1, <2>2, <2>3 DEF IInv, Pending, Known, StatusFails
<1> QED BY <1>1, <1>2, <1>3

LEMMA NextKeeps == IInv /\ [Next]_vars => IInv'
<1>1. IInv /\ WorldChanges => IInv'
  BY DEF IInv, TypeOK, Refresh, Pending, Known, Near, WorldChanges, background, oracle,
         task, status
<1>2. IInv /\ UNCHANGED vars => IInv'
  BY DEF IInv, TypeOK, Refresh, Pending, Known, Near, vars, world, background, oracle,
         task, status
<1> QED
  BY <1>1, <1>2, TickKeeps, BackgroundKeeps, EvaluateKeeps, StatusKeeps
     DEF Next, Background

LEMMA Invariance == Spec => []IInv
BY InitIsInv, NextKeeps, PTL DEF Spec

-----------------------------------------------------------------------------
(***************************************************************************)
(* The theorems.                                                           *)
(***************************************************************************)
\* Prices, levels, timers and ages stay what they are.
THEOREM TypeCorrect == Spec => []TypeOK
BY Invariance, PTL DEF IInv

\* With a limit on the lag of at least the interval and the duration of a
\* refresh, an oracle whose refreshes succeed is never called stale.
THEOREM HealthyIsNeverStale == Spec => []NoFalseStale
<1>1. IInv => NoFalseStale
  <2> SUFFICES ASSUME IInv, Interval + FetchTime <= Lag, "price" \notin failed
               PROVE  ~CheckLag
    BY DEF NoFalseStale
  <2>1. last # NoPrice /\ updated \in Nat /\ waited \in Nat
    BY OldIsBeyond, Timers DEF IInv, TypeOK, Refresh, Ages
  <2>2. updated <= Interval + FetchTime
    BY <2>1, TimesAssumption DEF IInv, TypeOK, Refresh
  <2> QED BY <2>1, <2>2, TimesAssumption DEF CheckLag
<1> QED BY <1>1, Invariance, PTL

\* The steps that apply a level.
LEMMA AppliedSteps ==
    ASSUME IInv, [Next]_vars, Applied, ~UNCHANGED vars
    PROVE  EvaluateAndApply \/ StatusArrives \/ StatusFails
BY DEF Applied, Next, WorldChanges, Tick, FetchPrice, ReadPrice, PriceArrives, FetchFails,
       EvaluateAndFetch, ReadStatus, task, IInv, TypeOK

\* Whatever the refresh does meanwhile, a market is quoted on both sides only
\* on the strength of an outside price near the internal one and not too old.
THEOREM NoBlindQuotes == Spec => BothSidesNeedTheOracle
<1> DEFINE Supported ==
        /\ basis'.price # NoPrice
        /\ basis'.mid - basis'.price \in -Deviation .. Deviation
        /\ ages'.basis <= Lag + FetchTime + StatusTime
<1>1. IInv /\ [Next]_vars => [Applied /\ level' \in Mild => Supported]_vars
  <2> SUFFICES ASSUME IInv, Next, ~UNCHANGED vars, Applied, level' \in Mild
               PROVE  Supported
    OBVIOUS
  <2>1. CASE EvaluateAndApply
    <3>1. Evaluate /\ verdict' \in OracleStates /\ known \in BOOLEAN
      BY <2>1, NormalHasABasis DEF EvaluateAndApply, IInv, TypeOK
    <3>2. verdict' = "NORMAL" BY <2>1, <3>1, Applying DEF EvaluateAndApply
    <3>3. Near(basis') /\ ages'.basis <= Lag + FetchTime
      BY <3>1, <3>2, NormalHasABasis
    <3>4. ages'.basis \in Nat
      BY <3>1, NormalHasABasis, OldIsBeyond DEF Ages
    <3> QED BY <3>3, <3>4, TimesAssumption DEF Near
  <2>2. CASE StatusArrives \/ StatusFails
    <3>1. /\ verdict \in OracleStates /\ known' \in BOOLEAN /\ pc = "status"
          /\ ages'.basis = ages.basis /\ UNCHANGED basis
          /\ \E active \in BOOLEAN : Apply(active, verdict)
      BY <2>2 DEF StatusArrives, StatusFails, IInv, TypeOK
    <3>2. verdict = "NORMAL" BY <3>1, Applying
    <3>3. /\ Near(basis) /\ ages.basis <= Lag + FetchTime + timer
          /\ timer <= StatusTime /\ timer \in Nat /\ ages.basis \in Nat
      BY <3>1, <3>2, Timers, OldIsBeyond DEF IInv, TypeOK, Pending, Ages
    <3> QED BY <3>1, <3>3, TimesAssumption DEF Near
  <2> QED BY <2>1, <2>2, AppliedSteps
<1>2. BothSidesNeedTheOracle <=> [][Applied /\ level' \in Mild => Supported]_vars
  BY DEF BothSidesNeedTheOracle
<1> QED BY <1>1, <1>2, Invariance, PTL DEF Spec

\* As long as the exchange answers, a market is quoted only if it said not
\* longer ago than the TTL, or a fetch, that the market is active.
THEOREM NoQuotesInAHalt == Spec => HaltIsNoticed
<1> DEFINE Fresh == ages'.active < TTL \/ ages'.active <= StatusTime
           Quoted == Applied /\ level' # "KILL_SWITCH" /\ "status" \notin failed'
<1>1. IInv /\ [Next]_vars => [Quoted => Fresh]_vars
  <2> SUFFICES ASSUME IInv, Next, ~UNCHANGED vars, Quoted PROVE Fresh
    OBVIOUS
  <2>1. CASE EvaluateAndApply
    <3>1. Evaluate /\ verdict' \in OracleStates /\ known \in BOOLEAN
      BY <2>1, NormalHasABasis DEF EvaluateAndApply, IInv, TypeOK
    <3>2. known /\ "status" \notin failed /\ checked < TTL
      BY <2>1, <3>1, Applying DEF EvaluateAndApply, StatusIsFresh
    <3>3. ages'.active = ages.active /\ ages.active \in Nat /\ checked \in Nat
      BY <3>1, NormalHasABasis, OldIsBeyond DEF IInv, TypeOK, Ages
    <3> QED BY <3>2, <3>3, TimesAssumption DEF IInv, Known
  <2>2. CASE StatusArrives
    <3>1. known' \in BOOLEAN /\ verdict \in OracleStates
      BY <2>2 DEF StatusArrives, IInv, TypeOK
    <3>2. answer = "active"
      BY <2>2, <3>1, Applying DEF StatusArrives
    <3>3. ages'.active = ages.answer /\ ages.answer \in Nat
      BY <2>2, <3>2, OldIsBeyond DEF StatusArrives, AgeOfActive, IInv, TypeOK, Ages
    <3>4. ages.answer <= timer /\ timer <= StatusTime /\ timer \in Nat
      BY <2>2, <3>2, Timers DEF StatusArrives, IInv, TypeOK, Pending
    <3> QED BY <3>3, <3>4, TimesAssumption
  <2>3. ~StatusFails BY DEF StatusFails
  <2> QED BY <2>1, <2>2, <2>3, AppliedSteps
<1>2. HaltIsNoticed <=> [][Quoted => Fresh]_vars BY DEF HaltIsNoticed
<1> QED BY <1>1, <1>2, Invariance, PTL DEF Spec
=============================================================================
