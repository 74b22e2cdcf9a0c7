------------------------------ MODULE Quoting ------------------------------
(***************************************************************************)
(* From a reservation price to the orders of one market: the integer part  *)
(* of ASEngine.compute_quotes, the WIDEN step of quote_cycle, the ladders  *)
(* of GradientEngine, OrderSanitizer, drop_buy_side_intents_when_cash_     *)
(* depleted, and what execute_intents makes of the result.                 *)
(*                                                                         *)
(* The logarithms behind the reservation price r and the spread delta stay *)
(* out: mid is round(r), up and down are the distances from it to          *)
(* ceil(r + delta / 2) and floor(r - delta / 2).  A placement may be     *)
(* refused, or skipped because of its mark: OrderManager says when.  A bid *)
(* at b is a sale of NO at 100 - b: the market maker only ever sells.      *)
(***************************************************************************)
EXTENDS Integers, Sequences, FiniteSetsExt

CONSTANTS
    MaxPrice,     \* 99: prices are 1 .. 99, and a pair is worth 100
    SpreadMin,    \* spread_min_cents
    SpreadMax,    \* spread_max_cents
    WidenTenths,  \* widen_factor * 10
    Step,         \* gradient_price_step_cents
    Sizes,        \* max(1, int(qty)) at each of the gradient_levels
    Mids,         \* values of round(r) in use
    Halves,       \* distances from it in use
    MaxVolume     \* bound: shares of a side

ASSUME PriceAssumption == MaxPrice \in Nat /\ MaxPrice >= 2
ASSUME SpreadAssumption ==
    \* else compute_quotes raises ValueError
    SpreadMin \in Nat /\ SpreadMax \in Nat /\ SpreadMin <= SpreadMax
ASSUME WidenAssumption == WidenTenths \in Nat /\ WidenTenths >= 10
ASSUME LadderAssumption == Step \in Nat \ {0} /\ Sizes \in Seq(Nat \ {0})
ASSUME RangeAssumption == Mids \subseteq Int /\ Halves \subseteq Nat /\ MaxVolume \in Nat

VARIABLES
    base,     \* what compute_quotes returned
    quote,    \* ask and bid after the WIDEN step
    level,    \* ctx.defense_level
    intents,  \* what goes to execute_intents
    book,     \* active_orders
    live,     \* exchange: those of them that rest on the book
    volume,   \* shares held of each side
    funded    \* cash_cents > 0

vars == <<base, quote, level, intents, book, live, volume, funded>>

Prices == 1 .. MaxPrice
Sides == {"YES", "NO"}
Levels == {"NORMAL", "WIDEN", "ONE_SIDE", "KILL_SWITCH"}
Quotes == [ask : Prices, bid : Prices]
Order == [side : Sides, price : Prices, qty : Nat \ {0}]

TypeOK ==
    /\ base \in Quotes /\ quote \in Quotes /\ level \in Levels
    /\ intents \subseteq Order /\ book \subseteq Order /\ live \subseteq book
    /\ volume \in [Sides -> 0 .. MaxVolume] /\ funded \in BOOLEAN

-----------------------------------------------------------------------------
(***************************************************************************)
(* Ask and bid.                                                            *)
(***************************************************************************)
Least(m, n) == IF m < n THEN m ELSE n
Greatest(m, n) == IF m < n THEN n ELSE m
\* Mutation: the upper bound is forgotten.
ClampBelow(price) == Greatest(1, price)
Clamp(price) == Greatest(1, Least(price, MaxPrice))
Quote(ask, bid) == [ask |-> ask, bid |-> bid]
Spread(q) == q.ask - q.bid

\* if ask <= bid: the ask goes up, or at the top the bid goes down.
Separate(q) ==
    LET ask == Least(MaxPrice, q.bid + 1)
    IN  IF q.ask > q.bid THEN q
        ELSE IF ask > q.bid THEN Quote(ask, q.bid)
        ELSE Quote(ask, Greatest(1, ask - 1))

\* _recalculate_spread.
Recalculate(mid, spread) ==
    LET half == spread \div 2
    IN  Quote(Clamp(mid + (spread - half)), Clamp(mid - half))

AtLeastMin(q, mid) ==
    IF Spread(q) < SpreadMin THEN Recalculate(mid, SpreadMin) ELSE q
AtMostMax(q, mid) ==
    IF Spread(q) > SpreadMax THEN Recalculate(mid, SpreadMax) ELSE q

ComputeQuotes(mid, up, down) ==
    LET first == Separate(Quote(Clamp(mid + up), Clamp(mid - down)))
    IN  Separate(AtMostMax(AtLeastMin(first, mid), mid))

\* round(), half to even, of a number of tenths.
Round(tenths) ==
    LET whole == tenths \div 10
        rest == tenths % 10
    IN  IF rest < 5 \/ (rest = 5 /\ whole % 2 = 0) THEN whole ELSE whole + 1

\* Mutation: what is widened is spread_min, not the spread in use.
WidenMin(q) ==
    LET mid == (q.ask + q.bid) \div 2
        ask == Least(MaxPrice, Round(10 * mid + (SpreadMin \div 2) * WidenTenths))
        bid == Greatest(1, Round(10 * mid - (SpreadMin \div 2) * WidenTenths))
    IN  Quote(Greatest(ask, bid + 1), bid)

Widen(q) ==
    LET mid == (q.ask + q.bid) \div 2
        ask == Least(MaxPrice, Round(10 * mid + (q.ask - mid) * WidenTenths))
        bid == Greatest(1, Round(10 * mid - (mid - q.bid) * WidenTenths))
    IN  Quote(Greatest(ask, bid + 1), bid)

-----------------------------------------------------------------------------
(***************************************************************************)
(* Intents.                                                                *)
(***************************************************************************)
Sale(side, price, qty) == [side |-> side, price |-> price, qty |-> qty]
Rungs == 0 .. Len(Sizes) - 1

\* Mutation: levels beyond the last price are clamped to it.
AskLadderClamped(ask) ==
    {Sale("YES", Clamp(ask + k * Step), Sizes[k + 1]) : k \in Rungs}

\* The loops end at the first level beyond the last price.
AskLadder(ask) ==
    {Sale("YES", ask + k * Step, Sizes[k + 1]) :
        k \in {k \in Rungs : ask + k * Step <= MaxPrice}}
NoPrice(bid) == MaxPrice + 1 - bid
BidLadder(bid) ==
    {Sale("NO", NoPrice(bid - k * Step), Sizes[k + 1]) :
        k \in {k \in Rungs : NoPrice(bid - k * Step) \in Prices}}

SellsOn(side, orders) == {o \in orders : o.side = side}
Shares(orders) == SumFunction([o \in orders |-> o.qty])
\* Mutation: pending sells of the other side count, too.
AvailableOfBoth(side) == volume[side] - Shares(book)
Available(side) == volume[side] - Shares(SellsOn(side, book))

\* Mutation: ONE_SIDE suppresses the heavy side.
SuppressedHeavy(side, l) ==
    /\ l = "ONE_SIDE"
    /\ \/ volume["YES"] > volume["NO"] /\ side = "YES"
       \/ volume["YES"] < volume["NO"] /\ side = "NO"

\* _sanitize_one: ONE_SIDE suppresses the light side, and a quantity is cut
\* to what is available.
Suppressed(side, l) ==
    /\ l = "ONE_SIDE"
    /\ \/ volume["YES"] > volume["NO"] /\ side = "NO"
       \/ volume["YES"] < volume["NO"] /\ side = "YES"
Cut(o) == [o EXCEPT !.price = Clamp(@), !.qty = Least(@, Available(o.side))]
Sanitize(orders, l) ==
    {Cut(o) : o \in {o \in orders : ~Suppressed(o.side, l) /\ Available(o.side) > 0}}

\* drop_buy_side_intents_when_cash_depleted.
DropBuys(orders) == IF funded THEN orders ELSE SellsOn("YES", orders)

Intents(q, l) == DropBuys(Sanitize(AskLadder(q.ask) \cup BidLadder(q.bid), l))

-----------------------------------------------------------------------------
Key(o) == <<o.side, o.price>>
Keys(orders) == {Key(o) : o \in orders}

\* The account holds what was minted, or a position it was started with;
\* nothing has been quoted yet.
Init ==
    /\ base = Quote(2, 1) /\ quote = base /\ level = "NORMAL"
    /\ intents = {} /\ book = {} /\ live = {}
    /\ volume \in [Sides -> 0 .. MaxVolume] /\ funded \in BOOLEAN

\* Mutation: an order is kept while its side is quoted.
WantedSide(o, targets) == o.side \in {t.side : t \in targets}
Wanted(o, targets) == Key(o) \in Keys(targets)
Fits(orders) == \A side \in Sides : Shares(SellsOn(side, orders)) <= volume[side]
\* execute_intents: orders off the target prices are cancelled, but the
\* exchange refuses the cancel of one that was filled; prices without an
\* order get one, if the exchange has the shares to freeze.
Execute(targets) ==
    LET kept == {o \in book : Wanted(o, targets) \/ o \notin live}
        resting == {o \in live : Wanted(o, targets)}
    IN  \E placed \in SUBSET {o \in targets : ~Wanted(o, book)} :
            /\ Fits(resting \cup placed)
            /\ book' = kept \cup placed
            /\ live' = resting \cup placed

\* quote_cycle from compute_quotes on.
Cycle(q, l) ==
    /\ base' = q
    /\ level' = l
    /\ quote' = IF l = "WIDEN" THEN Widen(q) ELSE q
    /\ intents' = Intents(quote', l)
    /\ Execute(intents')
    /\ UNCHANGED <<volume, funded>>

\* The kill switch: cancel_all instead.
Kill(q) ==
    /\ base' = q /\ quote' = q
    /\ level' = "KILL_SWITCH"
    /\ intents' = {} /\ book' = {} /\ live' = {}
    /\ UNCHANGED <<volume, funded>>

\* An order is bought: its shares go, cash comes; nobody tells active_orders.
Fill(o) ==
    /\ o \in live /\ live' = live \ {o}
    /\ volume' = [volume EXCEPT ![o.side] = @ - o.qty]
    /\ funded' = TRUE
    /\ UNCHANGED <<base, quote, level, intents, book>>

\* Reinvestment turns cash into pairs.
Reinvest ==
    /\ funded /\ \A side \in Sides : volume[side] < MaxVolume
    /\ volume' = [side \in Sides |-> volume[side] + 1]
    /\ funded' \in BOOLEAN
    /\ UNCHANGED <<base, quote, level, intents, book, live>>

\* The two distances differ by one at most, for both are half of delta.
Distances == {d \in Halves \X Halves : d[1] - d[2] \in -1 .. 1}
BaseQuotes == {ComputeQuotes(mid, d[1], d[2]) : mid \in Mids, d \in Distances}

Next ==
    \/ \E q \in BaseQuotes :
           \/ \E l \in Levels \ {"KILL_SWITCH"} : Cycle(q, l)
           \/ Kill(q)
    \/ \E o \in live : Fill(o)
    \/ Reinvest

Spec == Init /\ [][Next]_vars

-----------------------------------------------------------------------------
(***************************************************************************)
(* Properties.                                                             *)
(***************************************************************************)
Stands(q) == 1 <= q.bid /\ q.bid < q.ask /\ q.ask <= MaxPrice

\* Whatever the reservation price, far outside the prices even, ask and bid
\* are prices, in order, and at most spread_max apart until they are widened;
\* WIDEN never brings them closer, rounding and boundaries included.
QuotesStand ==
    /\ Stands(base) /\ Stands(quote)
    /\ Spread(base) <= Greatest(1, SpreadMax)
    /\ Spread(quote) >= Spread(base)

\* The market maker's own orders never match each other: a YES and a NO of
\* its cost more than a pair.  Orders kept from earlier cycles count.
NeverCrossesItself ==
    \A a \in SellsOn("YES", live), b \in SellsOn("NO", live) :
        a.price + b.price > MaxPrice + 1

\* execute_intents tells orders apart by side and price; no two intents of
\* a cycle share them, at the boundaries neither.
OneIntentPerPrice == \A a, b \in intents : Key(a) = Key(b) => a = b

\* After a cycle under ONE_SIDE no order of the light side rests, not one
\* that an earlier cycle has placed either.
OneSideSellsTheHeavySide ==
    [][level' = "ONE_SIDE" /\ volume' = volume =>
           \A o \in live', side \in Sides : volume[o.side] >= volume[side]]_vars

\* Resting orders count as spent, so a side that is all on offer is quoted
\* nothing and loses its orders; the next cycle offers its shares again.  Dead
\* orders that are still believed to rest are excused: they count for ever.
DryForOneCycle ==
    [][level' \in {"NORMAL", "WIDEN"} /\ volume' = volume =>
           \A side \in Sides :
               (/\ SellsOn(side, intents) = {} /\ volume[side] > 0
                /\ SellsOn(side, book) \subseteq live
                /\ side = "YES" \/ funded)
               => SellsOn(side, intents') # {}]_vars
=============================================================================
