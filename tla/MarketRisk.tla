----------------------------- MODULE MarketRisk -----------------------------
(***************************************************************************)
(* What one market's defense level rests on (step 3 of main.quote_cycle):  *)
(* the price of the outside oracle, which a background task refreshes      *)
(* (oracle/polymarket.py, main._oracle_refresh_loop), the market status,   *)
(* which is fetched when the last answer is too old, and the defense stack.*)
(*                                                                         *)
(* Time passes in ticks; an action takes no time.  Ages are counted up to  *)
(* Old, from where on they make no difference.  The defense stack is its   *)
(* promise (DefenseStack!NeverUnderreacts): any level, and KILL_SWITCH for *)
(* a market that is not active.                                            *)
(***************************************************************************)
EXTENDS Integers

CONSTANTS
    Prices,      \* what the outside price may be
    Mids,        \* what the internal price may be
    Deviation,   \* oracle_deviation_threshold
    Lag,         \* oracle_lag_threshold
    Interval,    \* update_interval_seconds
    FetchTime,   \* the timeout of a refresh
    TTL,         \* _MARKET_STATUS_TTL
    StatusTime,  \* what get_market_status takes at most, with its retries
    MaxCycle,    \* what lies between two evaluations at most
    NoPrice      \* last_price is None

ASSUME PricesAssumption ==
    Prices \subseteq Int /\ Mids \subseteq Int /\ NoPrice \notin Prices
ASSUME TimesAssumption ==
    /\ Deviation \in Nat /\ Lag \in Nat /\ Interval \in Nat /\ FetchTime \in Nat
    /\ TTL \in Nat /\ StatusTime \in Nat /\ MaxCycle \in Nat \ {0}

VARIABLES
    outside,   \* the outside price
    market,    \* its status at the exchange
    refresher, \* background task: it sleeps or waits for a fetch
    waited,    \* background task: for how long
    fetched,   \* background task: the price the fetch has read
    last,      \* oracle.last_price
    updated,   \* oracle.last_update, as its age
    pc,        \* market task: at the status fetch, or beyond the evaluation
    timer,     \* market task: for how long
    verdict,   \* market task: oracle_state
    known,     \* ctx.last_known_market_active
    checked,   \* ctx.market_status_checked_at, as its age
    answer,    \* market task: what the status fetch has read
    level,     \* ctx.defense_level
    basis,     \* history: internal and outside price of the verdict
    ages,      \* history: how long ago things were true
    failed     \* history: fetches that failed since the last that did not

world == <<outside, market>>
background == <<refresher, waited, fetched>>
oracle == <<last, updated>>
task == <<pc, timer, verdict, level, basis>>
status == <<known, checked, answer>>
vars == <<world, background, oracle, task, status, ages, failed>>

Levels == {"NORMAL", "WIDEN", "ONE_SIDE", "KILL_SWITCH"}
Severity == [NORMAL |-> 0, WIDEN |-> 1, ONE_SIDE |-> 2, KILL_SWITCH |-> 3]
Worse(a, b) == IF Severity[b] > Severity[a] THEN b ELSE a

\* The final statuses wind the market down instead (InventorySync).
Statuses == {"active", "halted"}
OracleStates == {"NORMAL", "STALE", "DEVIATION"}

Longest(a, b) == IF a > b THEN a ELSE b
Old == Lag + FetchTime + StatusTime + TTL + 1
Ages == 0 .. Old
Older(age) == IF age < Old THEN age + 1 ELSE Old

TypeOK ==
    /\ outside \in Prices /\ market \in Statuses
    /\ refresher \in {"sleep", "fetch"}
    /\ waited \in 0 .. Longest(Interval, FetchTime)
    /\ fetched \in Prices \cup {NoPrice}
    /\ last \in Prices \cup {NoPrice} /\ updated \in Ages
    /\ pc \in {"status", "quote"} /\ timer \in 0 .. Longest(MaxCycle, StatusTime)
    /\ verdict \in OracleStates /\ level \in Levels
    /\ known \in BOOLEAN /\ checked \in Ages
    /\ answer \in Statuses \cup {"none"}
    /\ basis \in [mid : Mids \cup {NoPrice}, price : Prices \cup {NoPrice}]
    /\ ages \in [fetched : Ages, last : Ages, basis : Ages, answer : Ages,
                 active : Ages]
    /\ failed \subseteq {"price", "status"}

-----------------------------------------------------------------------------
\* The verdict is a local variable of the cycle.
NoBasis == [mid |-> NoPrice, price |-> NoPrice]
Forget == verdict' = "NORMAL" /\ basis' = NoBasis

Init ==
    /\ outside \in Prices /\ market \in Statuses
    /\ refresher = "fetch" /\ waited = 0 /\ fetched = NoPrice
    \* amm_main asks for a first price and goes on without one.
    /\ last \in {outside, NoPrice} /\ updated = 0
    /\ pc = "quote" /\ timer = 0 /\ verdict = "NORMAL" /\ level = "NORMAL"
    /\ known = FALSE /\ checked = Old /\ answer = "none"
    /\ basis = NoBasis
    /\ ages = [fetched |-> Old, last |-> 0, basis |-> Old, answer |-> Old,
               active |-> Old]
    /\ failed = {"status"} \cup IF last = NoPrice THEN {"price"} ELSE {}

\* The outside price moves, the market is halted or opened.
WorldChanges ==
    /\ outside' \in Prices /\ market' \in Statuses
    /\ UNCHANGED <<background, oracle, task, status, ages, failed>>

\* Nothing waits beyond its timeout: httpx and wait_for end the calls, and
\* asyncio.sleep ends when it should.
InTime ==
    /\ waited < IF refresher = "sleep" THEN Interval ELSE FetchTime
    /\ timer < IF pc = "status" THEN StatusTime ELSE MaxCycle
Tick ==
    /\ InTime
    /\ waited' = waited + 1 /\ timer' = timer + 1
    /\ updated' = Older(updated) /\ checked' = Older(checked)
    /\ ages' = [ages EXCEPT
                    !.fetched = Older(@), !.last = Older(@), !.answer = Older(@),
                    !.active = Older(@),
                    !.basis = IF pc = "status" THEN Older(@) ELSE Old]
    /\ IF pc = "status" THEN UNCHANGED <<verdict, basis>> ELSE Forget
    /\ UNCHANGED <<world, refresher, fetched, last, pc, level, known, answer,
                   failed>>

-----------------------------------------------------------------------------
(***************************************************************************)
(* _oracle_refresh_loop and PolymarketOracle.get_price.                    *)
(***************************************************************************)
FetchPrice ==
    /\ refresher = "sleep" /\ waited = Interval
    /\ refresher' = "fetch" /\ waited' = 0
    /\ UNCHANGED <<world, fetched, oracle, task, status, ages, failed>>

\* The command reads the price, some time before it prints it.
ReadPrice ==
    /\ refresher = "fetch" /\ fetched = NoPrice
    /\ fetched' = outside /\ ages' = [ages EXCEPT !.fetched = 0]
    /\ UNCHANGED <<world, refresher, waited, oracle, task, status, failed>>

Sleep == refresher' = "sleep" /\ waited' = 0 /\ fetched' = NoPrice

PriceArrives ==
    /\ refresher = "fetch" /\ fetched # NoPrice /\ Sleep
    /\ last' = fetched /\ updated' = 0
    /\ ages' = [ages EXCEPT !.last = ages.fetched, !.fetched = Old]
    /\ failed' = failed \ {"price"}
    /\ UNCHANGED <<world, task, status>>

\* Timeout, no such command, or no price in its output.
FetchFails ==
    /\ refresher = "fetch" /\ Sleep
    /\ failed' = failed \cup {"price"}
    /\ ages' = [ages EXCEPT !.fetched = Old]
    /\ UNCHANGED <<world, oracle, task, status>>

-----------------------------------------------------------------------------
(***************************************************************************)
(* quote_cycle, step 3.                                                    *)
(***************************************************************************)
\* Mutation: a price is out of date when it reaches the limit.
CheckLagStrict == last = NoPrice \/ updated >= Lag
CheckLag == last = NoPrice \/ updated > Lag

CheckDeviation(mid) == mid - last > Deviation \/ last - mid > Deviation

\* _evaluate_oracle_state and OracleState.defense_level.
OracleState(mid) ==
    IF CheckLag THEN "STALE" ELSE IF CheckDeviation(mid) THEN "DEVIATION"
    ELSE "NORMAL"
OracleDefense(state) ==
    CASE state = "NORMAL" -> "NORMAL" [] state = "STALE" -> "ONE_SIDE"
      [] state = "DEVIATION" -> "KILL_SWITCH"

\* Mutation: the stack decides, the oracle only warns.
ApplyRisk(active, state) ==
    /\ \E risk \in Levels :
           /\ ~active => risk = "KILL_SWITCH"
           /\ level' = risk
    /\ pc' = "quote" /\ timer' = 0

\* risk.evaluate, and the worse of the two levels.
Apply(active, state) ==
    /\ \E risk \in Levels :
           /\ ~active => risk = "KILL_SWITCH"
           /\ level' = Worse(risk, OracleDefense(state))
    /\ pc' = "quote" /\ timer' = 0

\* The oracle is asked before the status is fetched, if it is.
Evaluate ==
    /\ pc = "quote" /\ timer > 0
    /\ \E mid \in Mids :
           /\ verdict' = OracleState(mid)
           /\ basis' = [mid |-> mid, price |-> last]
    /\ ages' = [ages EXCEPT !.basis = ages.last]

StatusIsFresh == checked < TTL
EvaluateAndApply ==
    /\ Evaluate /\ StatusIsFresh /\ Apply(known, verdict')
    /\ UNCHANGED <<world, background, oracle, status, failed>>
EvaluateAndFetch ==
    /\ Evaluate /\ ~StatusIsFresh
    /\ pc' = "status" /\ timer' = 0 /\ answer' = "none"
    /\ UNCHANGED <<world, background, oracle, known, checked, level, failed>>

\* The exchange looks the market up, some time before its answer arrives.
ReadStatus ==
    /\ pc = "status" /\ answer = "none"
    /\ answer' = market /\ ages' = [ages EXCEPT !.answer = 0]
    /\ UNCHANGED <<world, background, oracle, task, known, checked, failed>>

AgeOfActive == IF answer = "active" THEN ages.answer ELSE Old

\* Mutation: only an active status is written down.
StatusArrivesActive ==
    /\ pc = "status" /\ answer # "none"
    /\ known' = (known \/ answer = "active") /\ checked' = timer /\ answer' = "none"
    /\ ages' = [ages EXCEPT !.active = AgeOfActive, !.answer = Old]
    /\ failed' = failed \ {"status"}
    /\ Apply(known', verdict)
    /\ UNCHANGED <<world, background, oracle, verdict, basis>>

\* market_status_checked_at is the time before the fetch.
StatusArrives ==
    /\ pc = "status" /\ answer # "none"
    /\ known' = (answer = "active") /\ checked' = timer /\ answer' = "none"
    /\ ages' = [ages EXCEPT !.active = AgeOfActive, !.answer = Old]
    /\ failed' = failed \ {"status"}
    /\ Apply(known', verdict)
    /\ UNCHANGED <<world, background, oracle, verdict, basis>>

\* The last known status is kept, and its age with it.
StatusFails ==
    /\ pc = "status" /\ answer' = "none"
    /\ failed' = failed \cup {"status"}
    /\ Apply(known, verdict)
    /\ ages' = [ages EXCEPT !.answer = Old]
    /\ UNCHANGED <<world, background, oracle, verdict, basis, known, checked>>

Next ==
    \/ WorldChanges \/ Tick
    \/ FetchPrice \/ ReadPrice \/ PriceArrives \/ FetchFails
    \/ EvaluateAndApply \/ EvaluateAndFetch
    \/ ReadStatus \/ StatusArrives \/ StatusFails

Spec == Init /\ [][Next]_vars

-----------------------------------------------------------------------------
(***************************************************************************)
(* Properties.                                                             *)
(***************************************************************************)
Applied == pc' = "quote" /\ timer' = 0 /\ ~(pc = "quote" /\ timer = 0)
Mild == {"NORMAL", "WIDEN"}

\* The market is quoted on both sides only on the strength of an outside price
\* that was near the internal one, and true not long ago: the limit on the
\* lag, the fetch that brought it and the status fetch add up.
BothSidesNeedTheOracle ==
    [][Applied /\ level' \in Mild =>
           /\ basis'.price # NoPrice
           /\ basis'.mid - basis'.price \in -Deviation .. Deviation
           /\ ages'.basis <= Lag + FetchTime + StatusTime]_vars

\* The market is quoted at all only if the exchange has recently said that it
\* is active, as far as the exchange answers: a halt is noticed in time.
HaltIsNoticed ==
    [][Applied /\ level' # "KILL_SWITCH" /\ "status" \notin failed' =>
           ages'.active < TTL \/ ages'.active <= StatusTime]_vars

\* A healthy oracle is never called stale, if the limit leaves room for the
\* refresh interval and a slow refresh (config/oracle.yaml asks for less).
NoFalseStale ==
    Interval + FetchTime <= Lag /\ "price" \notin failed => ~CheckLag
=============================================================================
