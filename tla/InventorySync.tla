--------------------------- MODULE InventorySync ---------------------------
(***************************************************************************)
(* The inventory of one market in three places: the exchange's positions   *)
(* and balance, the Redis hash amm:inventory, and ctx.inventory in memory. *)
(* Two coroutines keep them together: the market task, which polls trades  *)
(* (connector/trade_poller.py), reads Redis into ctx, reinvests, quotes    *)
(* and winds down (main.py, lifecycle/reinvest.py and winding_down.py),    *)
(* and the reconciler (lifecycle/reconciler.py with main.reconcile_loop).  *)
(* lifecycle/initializer.py fills the three at a start.                    *)
(*                                                                         *)
(* Every await is a step boundary.  The cost sums and the frozen balance   *)
(* are left out; that they may differ is the reconciler's choice to find   *)
(* a drift though the volumes and the cash agree.  Prices and cash are in  *)
(* a currency whose PairCost stands for the code's 100 cents.              *)
(***************************************************************************)
EXTENDS Integers, Sequences, FiniteSets, Functions

CONSTANTS
    Deals,        \* the trades that may happen, as GET /trades shows them
    MaxTrades,    \* bound: trades in a behaviour
    Page,         \* limit = 50 of get_trades
    Overlap,      \* trades at or before the cursor a page may show again
    Window,       \* MAX_DEDUP_WINDOW = 1000
    InitialMint,  \* initial_mint_quantity
    InitialCash,  \* the balance before the first start
    PairCost,     \* PAIR_COST_CENTS
    Threshold,    \* AUTO_REINVEST_THRESHOLD_CENTS
    Pendings,     \* the totals of pending sells in use
    Faults,       \* the kinds of fault that may occur
    NoKey         \* the amm:inventory key is absent

FaultKinds == {"lost",       \* a POST times out or its reply is lost
               "down",       \* a start fails, or five cycles in a row
               "reconcile",  \* a call of the reconciler fails for good
               "crash"}      \* the process dies

Incidents == {"corrected",  \* the reconciler has written to Redis
              "replay",     \* a start comes after trades, or in the middle of one
              "reused"}     \* a new mint had the key of an old one

Roles == {"buyer", "seller", "none"}
Scenarios == {"MINT", "BURN", "TRANSFER_YES", "TRANSFER_NO"}
Trade == [scenario : Scenarios, role : Roles, qty : Nat, price : Nat, fee : Nat]

ASSUME DealsAssumption == Deals \subseteq Trade
ASSUME FeedAssumption ==
    /\ MaxTrades \in Nat /\ Page \in Nat /\ Overlap \in Nat /\ Window \in Nat
    /\ Overlap < Page      \* a page goes beyond its cursor
    /\ Overlap <= Window   \* the window remembers what a page may repeat
ASSUME CashAssumption ==
    /\ InitialMint \in Nat /\ InitialCash \in Nat
    /\ PairCost \in Nat \ {0} /\ Threshold \in Nat
ASSUME ChoicesAssumption ==
    /\ Pendings \subseteq Nat /\ 0 \in Pendings
    /\ Faults \subseteq FaultKinds

VARIABLES
    truth,      \* exchange: positions of the market and account balance
    feed,       \* exchange: the trades GET /trades lists, oldest first
    keys,       \* exchange: idempotency keys of executed mints and burns
    resolved,   \* exchange: the market has a final status
    offered,    \* exchange: orders of the AMM may rest there
    redis,      \* Redis: amm:inventory:{market}
    cursor,     \* poller: position of _cursors in the feed, 0 for ""
    window,     \* poller: _processed_ids
    page,       \* poller: what is left of the answered page
    times,      \* poller: how often it applied the n-th trade (history)
    pc,         \* market task: the await it stands at
    ctx,        \* market task: ctx.inventory
    local,      \* market task: the inventory it just read
    qty,        \* market task: quantity of the mint or burn under way
    phase,      \* market task: ctx.phase
    requested,  \* ctx.shutdown_requested
    rec,        \* reconciler: the await it stands at
    db,         \* reconciler: db_truth, as far as it has been fetched
    snap,       \* reconciler: cached, later fresh
    uncredited, \* history: minted pairs Redis has not been told of
    seen        \* history: "lost", and Incidents

exchange == <<truth, feed, keys, resolved, offered>>
poller == <<cursor, window, page, times>>
market == <<pc, ctx, local, qty, phase, requested>>
reconciler == <<rec, db, snap>>
vars == <<exchange, redis, poller, market, reconciler, uncredited, seen>>

Nothing == [yes |-> 0, no |-> 0, cash |-> 0]
Inventory == [yes : Int, no : Int, cash : Int]
Cached == [yes : Int, no : Int, cash : Int, pending : Pendings]

Places == {"off", "balance", "positions", "initMint", "reread", "set",
           "idle", "apply", "locked", "assign", "mint", "credit", "adjust",
           "status", "quote", "cancel", "burn", "ended"}
Booting == {"balance", "positions", "initMint", "reread", "set"}
Stopped == {"off", "ended"}

TypeOK ==
    /\ truth \in [yes : Nat, no : Nat, cash : Nat]
    /\ feed \in Seq(Trade) /\ Len(feed) <= MaxTrades
    /\ resolved \in BOOLEAN /\ offered \in BOOLEAN
    /\ redis = NoKey \/ redis \in Cached
    /\ cursor \in 0 .. Len(feed)
    /\ window \in Seq(1 .. Len(feed)) /\ Len(window) <= Window
    /\ page \in Seq(1 .. Len(feed))
    /\ DOMAIN times = 1 .. MaxTrades
    /\ pc \in Places /\ ctx \in Inventory /\ local \in Inventory
    /\ qty \in Nat
    /\ phase \in {"EXPLORATION", "STABILIZATION"}
    /\ requested \in BOOLEAN
    /\ rec \in {"off", "balance", "positions", "cache", "set", "fresh",
                "assign", "dead"}
    /\ uncredited \in Nat
    /\ seen \subseteq {"lost"} \cup Incidents

-----------------------------------------------------------------------------
Delta(yes, no, cash) == [yes |-> yes, no |-> no, cash |-> cash]
Pairs(n) == Delta(n, n, -(n * PairCost))

Plus(inv, delta) == [inv EXCEPT !.yes = @ + delta.yes, !.no = @ + delta.no,
                                !.cash = @ + delta.cash]
Position(inv) == Delta(inv.yes, inv.no, inv.cash)
Lesser(m, n) == IF m < n THEN m ELSE n

\* _apply_trade: what the poller adds to Redis for a trade of the AMM.
NoPrice(t) == PairCost - t.price
Bought(price, t) == -(price * t.qty + t.fee)
Sold(price, t) == price * t.qty - t.fee

Effect(t) ==
    LET buyer == t.role = "buyer" IN
    CASE t.scenario = "MINT" -> Pairs(t.qty)
      [] t.scenario = "BURN" -> Pairs(-t.qty)
      [] t.scenario = "TRANSFER_YES" /\ buyer ->
             Delta(t.qty, 0, Bought(t.price, t))
      [] t.scenario = "TRANSFER_YES" /\ ~buyer ->
             Delta(-t.qty, 0, Sold(t.price, t))
      [] t.scenario = "TRANSFER_NO" /\ buyer ->
             Delta(0, t.qty, Bought(NoPrice(t), t))
      [] t.scenario = "TRANSFER_NO" /\ ~buyer ->
             Delta(0, -t.qty, Sold(NoPrice(t), t))

\* _is_amm_trade.
IsAmmTrade(t) == t.role # "none"

\* What the exchange did to the account.
TrueEffect(t) == IF IsAmmTrade(t) THEN Effect(t) ELSE Nothing

Ours == {n \in DOMAIN feed : IsAmmTrade(feed[n])}

\* A step that needs a fault of this kind.  Only lost replies are remembered:
\* some of the properties excuse them.
Fault(kind) ==
    /\ kind \in Faults
    /\ seen' = IF kind = "lost" THEN seen \cup {kind} ELSE seen
NoFault == UNCHANGED seen

Running == pc \notin Stopped /\ pc \notin Booting

-----------------------------------------------------------------------------
Init ==
    /\ truth = Delta(0, 0, InitialCash)
    /\ feed = <<>> /\ keys = {}
    /\ resolved = FALSE /\ offered = FALSE
    /\ redis = NoKey
    /\ cursor = 0 /\ window = <<>> /\ page = <<>>
    /\ times = [n \in 1 .. MaxTrades |-> 0]
    /\ pc = "off" /\ ctx = Nothing /\ local = Nothing /\ qty = 0
    /\ phase = "EXPLORATION" /\ requested = FALSE
    /\ rec = "off" /\ db = Nothing /\ snap = Nothing
    /\ uncredited = 0 /\ seen = {}

(***************************************************************************)
(* The exchange.  A trade of the AMM needs its holdings and an order, which *)
(* rests there once the bot has quoted, through a crash too.               *)
(***************************************************************************)
Happen(t) ==
    /\ ~resolved /\ Len(feed) < MaxTrades
    /\ IsAmmTrade(t) => offered
    /\ LET after == Plus(truth, TrueEffect(t)) IN
           /\ after.yes >= 0 /\ after.no >= 0 /\ after.cash >= 0
           /\ truth' = after
    /\ feed' = Append(feed, t)
    /\ seen' = IF pc \in Booting /\ IsAmmTrade(t) THEN seen \cup {"replay"}
               ELSE seen
    /\ UNCHANGED <<keys, resolved, offered, redis, poller, market, reconciler,
                   uncredited>>

Resolve ==
    /\ ~resolved /\ resolved' = TRUE
    /\ UNCHANGED <<truth, feed, keys, offered, redis, poller, market, reconciler,
                   uncredited, seen>>

\* POST /amm/mint: refused without the cash, done once per key.
ExchangeMint(n, key) ==
    /\ n * PairCost <= truth.cash /\ ~resolved
    /\ keys' = keys \cup {key}
    /\ truth' = IF key \in keys THEN truth ELSE Plus(truth, Pairs(n))
    /\ UNCHANGED <<feed, resolved, offered>>

-----------------------------------------------------------------------------
(***************************************************************************)
(* AMMInitializer.initialize, for one market.                              *)
(***************************************************************************)
Start ==
    /\ pc = "off" /\ pc' = "balance" /\ ~resolved
    /\ ctx' = Nothing /\ local' = Nothing /\ qty' = 0
    /\ phase' = "EXPLORATION" /\ requested' = FALSE
    /\ cursor' = 0 /\ window' = <<>> /\ page' = <<>>
    /\ times' = [n \in 1 .. MaxTrades |-> 0]
    /\ seen' = IF Ours = {} THEN seen ELSE seen \cup {"replay"}
    /\ UNCHANGED <<exchange, redis, reconciler, uncredited>>

Boot(here, there) ==
    /\ pc = here /\ pc' = there
    /\ uncredited' = IF there = "idle" THEN 0 ELSE uncredited
    /\ UNCHANGED <<local, qty, phase, requested, poller, seen>>

BootBalance ==
    /\ Boot("balance", "positions")
    /\ ctx' = [ctx EXCEPT !.cash = truth.cash]
    /\ UNCHANGED <<exchange, redis, reconciler>>

\* Mutation: a side that is sold out is enough for the initial mint.
BootPositionsAnySide ==
    /\ Boot("positions", IF truth.yes = 0 \/ truth.no = 0
                         THEN "initMint" ELSE "set")
    /\ ctx' = [ctx EXCEPT !.yes = truth.yes, !.no = truth.no]
    /\ UNCHANGED <<exchange, redis, reconciler>>

BootPositions ==
    /\ Boot("positions", IF truth.yes = 0 /\ truth.no = 0
                         THEN "initMint" ELSE "set")
    /\ ctx' = [ctx EXCEPT !.yes = truth.yes, !.no = truth.no]
    /\ UNCHANGED <<exchange, redis, reconciler>>

\* The key holds the time, so no two starts share one.
BootMint ==
    /\ Boot("initMint", "reread")
    /\ ExchangeMint(InitialMint, <<"init", Cardinality(keys)>>)
    /\ UNCHANGED <<ctx, redis, reconciler>>

\* Nothing can trade between these two reads: there is no order yet.
BootReread ==
    /\ Boot("reread", "set")
    /\ ctx' = truth
    /\ UNCHANGED <<exchange, redis, reconciler>>

BootSet ==
    /\ Boot("set", "idle")
    /\ redis' = [yes |-> ctx.yes, no |-> ctx.no, cash |-> ctx.cash,
                 pending |-> 0]
    /\ rec' = "balance"
    /\ UNCHANGED <<exchange, ctx, db, snap>>

\* A call fails: the key is deleted and the process ends.  A mint that failed
\* may have been executed all the same, unless it was refused.
BootMintRefused ==
    pc = "initMint" /\ (InitialMint * PairCost > truth.cash \/ resolved)
BootFails ==
    /\ \/ pc \in Booting /\ Fault("down")
       \/ BootMintRefused /\ NoFault
    /\ pc' = "off" /\ redis' = NoKey
    /\ \/ UNCHANGED exchange
       \/ pc = "initMint"
          /\ ExchangeMint(InitialMint, <<"init", Cardinality(keys)>>)
    /\ UNCHANGED <<ctx, local, qty, phase, requested, poller, reconciler,
                   uncredited>>

-----------------------------------------------------------------------------
(***************************************************************************)
(* run_market and quote_cycle.                                             *)
(***************************************************************************)
Go(here, there) == pc = here /\ pc' = there

\* The task returns, or raises: with one market the process ends with it and
\* its reconciler is cancelled.
End(place) ==
    /\ pc' = place /\ requested' = TRUE
    /\ rec' = "off"
    /\ db' = Nothing /\ snap' = Nothing
    /\ ctx' = Nothing /\ local' = Nothing /\ qty' = 0 /\ page' = <<>>
    /\ UNCHANGED <<phase, cursor, window, times>>

\* TradePoller.poll: GET /trades answers with what follows the cursor; it
\* may begin a little before.
Numbers(first, last) == [i \in 1 .. last - first + 1 |-> first + i - 1]

Poll ==
    /\ Go("idle", "apply") /\ ~requested
    /\ \E first \in 1 .. cursor + 1 :
           /\ first + Overlap > cursor
           /\ page' = Numbers(first, Lesser(first + Page - 1, Len(feed)))
    /\ UNCHANGED <<exchange, redis, cursor, window, times, ctx, local, qty,
                   phase, requested, reconciler, uncredited, seen>>

\* A failed poll changes nothing until the fifth in a row, which ends the task.
PollFails ==
    /\ pc = "idle" /\ ~requested /\ Fault("down")
    /\ End("off")
    /\ UNCHANGED <<exchange, redis, uncredited>>

\* Mutations: no deduplication; a deque without maxlen.
NeverProcessed(n) == FALSE
RememberAll(n) == window' = Append(window, n)

\* _is_processed: a trade in the window is skipped, any other enters it,
\* and the deque drops its oldest beyond Window.
IsProcessed(n) == \E i \in DOMAIN window : window[i] = n
Remember(n) ==
    window' = LET w == Append(window, n)
              IN  IF Len(w) > Window THEN Tail(w) ELSE w

\* One trade of the page: skipped, not the AMM's, or applied.
SkipTrade(n) == IsProcessed(n) /\ UNCHANGED <<window, times, redis>>
IgnoreTrade(n) ==
    /\ ~IsProcessed(n) /\ ~IsAmmTrade(feed[n]) /\ Remember(n)
    /\ UNCHANGED <<times, redis>>
ApplyTrade(n) ==
    /\ ~IsProcessed(n) /\ IsAmmTrade(feed[n]) /\ Remember(n)
    /\ redis' = Plus(redis, Effect(feed[n]))
    /\ times' = [times EXCEPT ![n] = @ + 1]

\* After the last one the cursor moves to it.
HandleTrade ==
    /\ pc = "apply" /\ page # <<>>
    /\ SkipTrade(Head(page)) \/ IgnoreTrade(Head(page)) \/ ApplyTrade(Head(page))
    /\ page' = Tail(page)
    /\ IF Len(page) = 1
       THEN pc' = "locked" /\ cursor' = Head(page)
       ELSE UNCHANGED <<pc, cursor>>
    /\ UNCHANGED <<exchange, ctx, local, qty, phase, requested, reconciler,
                   uncredited, seen>>

EmptyPage ==
    /\ Go("apply", "locked") /\ page = <<>>
    /\ UNCHANGED <<exchange, redis, poller, ctx, local, qty, phase, requested,
                   reconciler, uncredited, seen>>

\* Under inventory_lock: cache.get, then ctx.inventory = fresh.
LockHeld == pc \in {"locked", "assign"}
ReadCache ==
    /\ Go("locked", "assign")
    /\ local' = Position(redis)
    /\ UNCHANGED <<exchange, redis, poller, ctx, qty, phase, requested,
                   reconciler, uncredited, seen>>

\* The lock is released and maybe_auto_reinvest reads ctx without an await.
\* Mutation: the division rounds up.
SurplusRoundedUp(inv) ==
    (inv.cash - Threshold + PairCost - 1) \div PairCost
Surplus(inv) == (inv.cash - Threshold) \div PairCost
Assign ==
    /\ pc = "assign"
    /\ ctx' = local
    /\ IF phase = "STABILIZATION" /\ Surplus(local) > 0
       THEN pc' = "mint" /\ qty' = Surplus(local) /\ UNCHANGED local
       ELSE pc' = "status" /\ local' = Nothing /\ UNCHANGED qty
    /\ UNCHANGED <<exchange, redis, poller, phase, requested, reconciler,
                   uncredited, seen>>

\* f"reinvest_{market}_{quantity}_{cash}", built before the await from the
\* inventory just assigned; the quantity follows from the cash.
ReinvestKey == <<"reinvest", local.cash>>
Minted(n) == IF keys' = keys THEN 0 ELSE n

Mint ==
    /\ Go("mint", "credit")
    /\ ExchangeMint(qty, ReinvestKey)
    /\ uncredited' = uncredited + Minted(qty)
    /\ seen' = IF ReinvestKey \in keys /\ uncredited < qty
               THEN seen \cup {"reused"} ELSE seen
    /\ local' = Nothing
    /\ UNCHANGED <<redis, poller, ctx, qty, phase, requested, reconciler>>

\* A lost reply or an overloaded exchange: the next cycle starts over, with
\* a mint that may have been executed.
MintFails ==
    /\ Go("mint", "idle") /\ Fault("lost")
    /\ \/ ExchangeMint(qty, ReinvestKey)
          /\ uncredited' = uncredited + Minted(qty)
       \/ UNCHANGED <<exchange, uncredited>>
    /\ local' = Nothing /\ qty' = 0
    /\ UNCHANGED <<redis, poller, ctx, phase, requested, reconciler>>

\* A refusal is a 4xx: unrecoverable.
MintRefused ==
    /\ pc = "mint" /\ (qty * PairCost > truth.cash \/ resolved)
    /\ End("off")
    /\ UNCHANGED <<exchange, redis, uncredited, seen>>

\* The reply: ctx, which the reconciler may have replaced meanwhile.
Credit ==
    /\ Go("credit", "adjust")
    /\ ctx' = Plus(ctx, Pairs(qty))
    /\ UNCHANGED <<exchange, redis, poller, local, qty, phase, requested,
                   reconciler, uncredited, seen>>

\* inventory_cache.adjust: the same in Redis.
Credited(n) == IF uncredited > n THEN uncredited - n ELSE 0

\* Mutation: maybe_auto_reinvest without an inventory_cache.
CreditCtxOnly ==
    /\ Go("adjust", "status")
    /\ uncredited' = Credited(qty)
    /\ qty' = 0
    /\ UNCHANGED <<exchange, redis, poller, ctx, local, phase, requested,
                   reconciler, seen>>

CreditRedis ==
    /\ Go("adjust", "status")
    /\ redis' = Plus(redis, Pairs(qty))
    /\ uncredited' = Credited(qty)
    /\ qty' = 0
    /\ UNCHANGED <<exchange, poller, ctx, local, phase, requested, reconciler,
                   seen>>

\* PhaseManager.update, then the market status if its 30 s are over and the
\* fetch succeeds.
UpdatePhase == phase' \in {phase, "STABILIZATION"}

SeeFinalStatus ==
    /\ Go("status", "cancel") /\ resolved /\ UpdatePhase
    /\ UNCHANGED <<exchange, redis, poller, ctx, local, qty, requested,
                   reconciler, uncredited, seen>>
SeeNoFinalStatus ==
    /\ Go("status", "quote") /\ UpdatePhase
    /\ UNCHANGED <<exchange, redis, poller, ctx, local, qty, requested,
                   reconciler, uncredited, seen>>

\* execute_intents, or cancel_all under the kill switch: what matters here is
\* the last await of either, _sync_pending_sell.
Quote ==
    /\ Go("quote", "idle")
    /\ \E total \in Pendings : redis' = [redis EXCEPT !.pending = total]
    /\ offered' = TRUE
    /\ UNCHANGED <<truth, feed, keys, resolved, poller, ctx, local, qty, phase, requested,
                   reconciler, uncredited, seen>>

\* handle_winding_down: cancel_all, then burn the pairs that ctx knows of.
Burnable(inv) == Lesser(inv.yes, inv.no)
CancelAll ==
    /\ pc = "cancel"
    /\ redis' = [redis EXCEPT !.pending = 0]
    /\ IF Burnable(ctx) > 0
       THEN /\ pc' = "burn" /\ qty' = Burnable(ctx)
            /\ UNCHANGED <<ctx, local, phase, requested, reconciler, poller>>
       ELSE End("ended")
    /\ UNCHANGED <<exchange, uncredited, seen>>

\* POST /amm/burn: refused without the pairs, done once per key.
BurnKey == <<"winding_down", qty>>
ExchangeBurn ==
    /\ qty <= Burnable(truth)
    /\ keys' = keys \cup {BurnKey}
    /\ truth' = IF BurnKey \in keys THEN truth ELSE Plus(truth, Pairs(-qty))
    /\ UNCHANGED <<feed, resolved, offered>>

\* shutdown_requested is set, and run_market returns.
Burn ==
    /\ pc = "burn" /\ ExchangeBurn /\ End("ended")
    /\ UNCHANGED <<redis, uncredited, seen>>

\* A cancel or a burn that raises is undone: the next cycle tries again.
\* The undo clears shutdown_requested, whoever set it.
UndoWindingDown ==
    /\ pc' = "idle" /\ requested' = FALSE /\ qty' = 0
    /\ UNCHANGED <<redis, poller, ctx, local, phase, reconciler, uncredited>>
CancelFails ==
    /\ pc = "cancel" /\ Fault("lost")
    /\ UndoWindingDown /\ UNCHANGED exchange
BurnFails ==
    /\ pc = "burn" /\ Fault("lost")
    /\ UndoWindingDown
    /\ ExchangeBurn \/ UNCHANGED exchange
\* Mutation: after a refusal the market ends all the same.
BurnRefusedEnds ==
    /\ pc = "burn" /\ qty > Burnable(truth)
    /\ End("ended")
    /\ UNCHANGED <<exchange, redis, uncredited, seen>>
BurnRefused ==
    /\ pc = "burn" /\ qty > Burnable(truth)
    /\ UndoWindingDown /\ UNCHANGED <<exchange, seen>>

\* while not ctx.shutdown_requested.
Stop ==
    /\ pc = "idle" /\ requested
    /\ End("off")
    /\ UNCHANGED <<exchange, redis, uncredited, seen>>


-----------------------------------------------------------------------------
(***************************************************************************)
(* main.reconcile_loop and AMMReconciler.reconcile, for one market.        *)
(***************************************************************************)
Reconciler(here, there) ==
    /\ rec = here /\ rec' = there
    /\ UNCHANGED <<exchange, poller, pc, local, qty, phase, requested>>

\* Mutation: markets that have a final status are not reconciled any more.
FetchBalanceWhileActive ==
    /\ Reconciler("balance", "positions") /\ ~requested /\ ~resolved
    /\ db' = Delta(0, 0, truth.cash)
    /\ UNCHANGED <<redis, ctx, snap, uncredited, seen>>

\* fetch_balance, at the head of a pass.
FetchBalance ==
    /\ Reconciler("balance", "positions") /\ ~requested
    /\ db' = Delta(0, 0, truth.cash)
    /\ UNCHANGED <<redis, ctx, snap, uncredited, seen>>

FetchPositions ==
    /\ Reconciler("positions", "cache")
    /\ db' = [db EXCEPT !.yes = truth.yes, !.no = truth.no]
    /\ UNCHANGED <<redis, ctx, snap, uncredited, seen>>

\* cache.get and _detect_drift: the cost sums and the frozen balance may
\* have drifted, or not, when the volumes and the cash have not.
\* Mutation: cash is not compared.
InSyncVolumes ==
    /\ Reconciler("cache", "balance")
    /\ redis.yes = db.yes /\ redis.no = db.no /\ db' = Nothing
    /\ UNCHANGED <<redis, ctx, snap, uncredited, seen>>
InSync ==
    /\ Reconciler("cache", "balance")
    /\ Position(redis) = db /\ db' = Nothing
    /\ UNCHANGED <<redis, ctx, snap, uncredited, seen>>
DetectDrift ==
    /\ Reconciler("cache", "set")
    /\ snap' = redis
    /\ UNCHANGED <<redis, ctx, db, uncredited, seen>>

\* cache.set: every field, the pending sells as they were when read.
CorrectDrift ==
    /\ Reconciler("set", "fresh")
    /\ redis' = [yes |-> db.yes, no |-> db.no, cash |-> db.cash,
                 pending |-> snap.pending]
    /\ db' = Nothing /\ snap' = Nothing
    /\ uncredited' = 0 /\ seen' = seen \cup {"corrected"}
    /\ UNCHANGED ctx

\* reconcile_loop reads the cache outside the lock and assigns under it.
ReadFresh ==
    /\ Reconciler("fresh", "assign")
    /\ snap' = Position(redis)
    /\ UNCHANGED <<redis, ctx, db, uncredited, seen>>
AssignFresh ==
    /\ Reconciler("assign", "balance") /\ ~LockHeld
    /\ ctx' = snap /\ snap' = Nothing
    /\ UNCHANGED <<redis, db, uncredited, seen>>

\* An exception ends the background task, and its guard asks for shutdown.
ReconcilerDies ==
    /\ rec \notin {"off", "dead"} /\ Fault("reconcile")
    /\ rec' = "dead" /\ requested' = TRUE
    /\ db' = Nothing /\ snap' = Nothing
    /\ UNCHANGED <<exchange, redis, poller, pc, ctx, local, qty, phase,
                   uncredited>>

Crash ==
    /\ pc \notin Stopped /\ Fault("crash")
    /\ pc' = "off" /\ requested' = TRUE /\ rec' = "off"
    /\ db' = Nothing /\ snap' = Nothing
    /\ ctx' = Nothing /\ local' = Nothing /\ qty' = 0 /\ page' = <<>>
    /\ UNCHANGED <<exchange, redis, cursor, window, times, phase, uncredited>>

-----------------------------------------------------------------------------
BootStep == BootBalance \/ BootPositions \/ BootMint \/ BootReread \/ BootSet
Cycle == \/ Poll \/ HandleTrade \/ EmptyPage \/ ReadCache \/ Assign
         \/ Mint \/ MintRefused \/ Credit \/ CreditRedis
         \/ SeeFinalStatus \/ SeeNoFinalStatus \/ Quote
         \/ CancelAll \/ Burn \/ BurnRefused \/ Stop
Failure == BootFails \/ PollFails \/ MintFails \/ CancelFails \/ BurnFails
Reconcile == \/ FetchBalance \/ FetchPositions \/ InSync \/ DetectDrift
             \/ CorrectDrift \/ ReadFresh \/ AssignFresh

\* The first start, or one after a crash or a failure.
Restart == Start /\ (Ours = {} \/ Faults # {})

Next ==
    \/ \E t \in Deals : Happen(t)
    \/ Resolve
    \/ Restart \/ BootStep \/ Cycle \/ Failure
    \/ Reconcile \/ ReconcilerDies
    \/ Crash

Spec == Init /\ [][Next]_vars

\* Both coroutines run on: the HTTP client has a timeout, Redis answers or
\* raises, and asyncio is fair.  The status is fetched every 30 s.
FairSpec ==
    /\ Spec
    /\ WF_vars(Restart) /\ WF_vars(BootStep) /\ WF_vars(Cycle)
    /\ SF_vars(SeeFinalStatus)
    /\ WF_vars(Reconcile) /\ SF_vars(AssignFresh)

-----------------------------------------------------------------------------
(***************************************************************************)
(* Properties.                                                             *)
(***************************************************************************)
Unseen(kinds) == seen \cap kinds = {}
Unpolled == {n \in Ours : times[n] = 0}
Owed(field) == SumFunctionOnSet(
    [n \in DOMAIN feed |-> TrueEffect(feed[n])[field]], Unpolled)
Settled == [field \in DOMAIN Nothing |->
                redis[field] + Pairs(uncredited)[field] + Owed(field)]

\* The poller applies each trade of the AMM once, in spite of pages that
\* repeat trades, and leaves none behind its cursor.
PolledExactlyOnce ==
    Running => \A n \in DOMAIN feed :
        /\ times[n] <= 1
        /\ times[n] = 1 => IsAmmTrade(feed[n])
        /\ n <= cursor /\ IsAmmTrade(feed[n]) => times[n] = 1

\* Until the reconciler writes, Redis differs from the exchange by exactly
\* the trades not yet polled and the mints not yet credited, also those whose
\* replies were lost.  The incidents are excused.
RedisLagsByTheUnpolled ==
    (Running /\ ~resolved /\ Unseen(Incidents)) =>
        Settled = truth

\* Reinvesting leaves the threshold in the account, though it decides on a
\* copy that trades have overtaken: they only add cash.
ReserveIsKept ==
    [][pc = "mint" /\ truth'.cash < truth.cash
           /\ Unseen(Incidents \cup {"lost"})
       => truth'.cash >= Threshold]_vars

\* However often the bot is started anew, and whatever replies it lost, a
\* start mints only for an account that holds no position in the market.
StartMintsFromNothing ==
    [][pc = "initMint" /\ truth'.yes > truth.yes
       => truth.yes = 0 /\ truth.no = 0]_vars

\* Whatever the races of poller, reinvestment and reconciler leave in Redis,
\* it ends up equal to the exchange once trading stops.  A reused mint key is
\* excused: with the reconciler restoring the cash that its key was made of,
\* the mint that does nothing is credited again in every cycle.
Converges ==
    <>[](Running /\ Unseen({"reused"}) => Position(redis) = truth)

\* A resolved market is wound down, however wrong its inventory was.
ResolvedMarketEnds == resolved /\ Running ~> pc \in Stopped

\* A resolved market leaves no pair unburned, although trades may have
\* overtaken the inventory that the first tries were computed from; unless
\* Redis was wrong by one of the incidents, or lost replies.
BurnsAllPairs ==
    (pc = "ended" /\ Unseen(Incidents \cup {"lost"})) => Burnable(truth) = 0

\* trade_poller.py:24 and AMM_Bot_Design/01_AMM_数据字典与状态机规范_v1.0.md:46:
\* the poller adds the new trades to a Redis rebuilt from the exchange, so
\* with none left, and no correction, the two agree.
PolledUpIsTrue ==
    (pc = "locked" /\ cursor = Len(feed) /\ uncredited = 0
        /\ ~resolved /\ Unseen({"corrected"})) => Position(redis) = truth
=============================================================================
