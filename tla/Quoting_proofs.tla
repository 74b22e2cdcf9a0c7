--------------------------- MODULE Quoting_proofs ---------------------------
(***************************************************************************)
(* Proofs about Quoting, for every number of prices, ladder, spread limit, *)
(* widen factor and reservation price.                                     *)
(***************************************************************************)
EXTENDS Quoting, SumTheorems, TLAPS

-----------------------------------------------------------------------------
(***************************************************************************)
(* Arithmetic of the quotes.                                               *)
(***************************************************************************)
Between(q) == q.ask \in Prices /\ q.bid \in Prices

LEMMA ClampIsAPrice == ASSUME NEW p \in Int PROVE Clamp(p) \in Prices
BY PriceAssumption DEF Clamp, Least, Greatest, Prices

LEMMA ClampKeepsPrices == ASSUME NEW p \in Prices PROVE Clamp(p) = p
BY PriceAssumption DEF Clamp, Least, Greatest, Prices

\* Separate makes a pair of prices stand, and widens a crossed one to 1.
LEMMA SeparateStands ==
    ASSUME NEW q, Between(q)
    PROVE  /\ Stands(Separate(q))
           /\ Separate(q).ask \in Prices /\ Separate(q).bid \in Prices
           /\ q.ask > q.bid => Separate(q) = q
           /\ q.ask <= q.bid => Spread(Separate(q)) = 1
BY PriceAssumption
   DEF Between, Separate, Stands, Prices, Quote, Least, Greatest, Spread

\* A recalculated spread is within prices, and no larger than asked for.
LEMMA RecalculateIsBetween ==
    ASSUME NEW mid \in Int, NEW spread \in Nat
    PROVE  /\ Between(Recalculate(mid, spread))
           /\ Spread(Recalculate(mid, spread)) <= spread
BY PriceAssumption
   DEF Between, Recalculate, Clamp, Least, Greatest, Prices, Quote, Spread

\* What compute_quotes returns stands, within spread_max.
LEMMA ComputedQuotes ==
    ASSUME NEW mid \in Int, NEW up \in Nat, NEW down \in Nat
    PROVE  LET q == ComputeQuotes(mid, up, down)
           IN  /\ Stands(q) /\ Between(q)
               /\ Spread(q) <= Greatest(1, SpreadMax)
<1> DEFINE first == Separate(Quote(Clamp(mid + up), Clamp(mid - down)))
           second == AtLeastMin(first, mid)
           third == AtMostMax(second, mid)
<1>1. Between(Quote(Clamp(mid + up), Clamp(mid - down)))
  BY ClampIsAPrice DEF Between, Quote
<1>2. Between(first)
  BY <1>1, SeparateStands DEF Between
<1>3. Between(second)
  BY <1>2, RecalculateIsBetween, SpreadAssumption DEF AtLeastMin
<1>4. Between(third) /\ Spread(third) <= SpreadMax
  <2>1. CASE Spread(second) > SpreadMax
    BY <2>1, RecalculateIsBetween, SpreadAssumption DEF AtMostMax
  <2>2. CASE ~(Spread(second) > SpreadMax)
    <3>1. third = second BY <2>2 DEF AtMostMax
    <3>2. Spread(second) <= SpreadMax
      BY <2>2, <1>3, SpreadAssumption DEF Spread, Between, Prices
    <3> QED BY <3>1, <3>2, <1>3
  <2> QED BY <2>1, <2>2
<1>5. ComputeQuotes(mid, up, down) = Separate(third)
  BY DEF ComputeQuotes
<1> HIDE DEF third
<1>6. Spread(Separate(third)) <= Greatest(1, SpreadMax)
  <2>1. CASE third.ask > third.bid
    BY <2>1, <1>4, SeparateStands, SpreadAssumption
       DEF Greatest, Spread, Between, Prices
  <2>2. CASE third.ask <= third.bid
    BY <2>2, <1>4, SeparateStands, SpreadAssumption DEF Greatest
  <2> QED BY <2>1, <2>2, <1>4, PriceAssumption DEF Between, Prices
<1>7. Stands(Separate(third)) /\ Between(Separate(third))
  BY <1>4, SeparateStands DEF Between
<1> QED BY <1>5, <1>6, <1>7

\* Rounding to a whole number does not pass a whole number.
LEMMA RoundBounds ==
    ASSUME NEW n \in Int, NEW x \in Int
    PROVE  /\ Round(x) \in Int
           /\ x >= 10 * n => Round(x) >= n
           /\ x <= 10 * n => Round(x) <= n
BY DEF Round

LEMMA FactorGrows ==
    ASSUME NEW d \in Nat PROVE d * WidenTenths \in Int /\ d * WidenTenths >= 10 * d
BY WidenAssumption

\* WIDEN keeps a standing quote standing, and does not narrow it.
LEMMA WidenGrows ==
    ASSUME NEW q, Between(q), Stands(q)
    PROVE  Stands(Widen(q)) /\ Between(Widen(q)) /\ Spread(Widen(q)) >= Spread(q)
<1> DEFINE mid == (q.ask + q.bid) \div 2
           x == 10 * mid + (q.ask - mid) * WidenTenths
           y == 10 * mid - (mid - q.bid) * WidenTenths
           ask == Least(MaxPrice, Round(x))
           bid == Greatest(1, Round(y))
<1>1. mid \in Int /\ q.ask - mid \in Nat /\ mid - q.bid \in Nat
      /\ q.ask \in Int /\ q.bid \in Int
  BY DEF Between, Prices, Stands
<1>2. x \in Int /\ x >= 10 * q.ask
  <2> HIDE DEF mid
  <2> QED BY <1>1, FactorGrows
<1>3. y \in Int /\ y <= 10 * q.bid
  <2> HIDE DEF mid
  <2> QED BY <1>1, FactorGrows
<1> HIDE DEF x, y
<1>4. Round(x) \in Int /\ Round(x) >= q.ask
  BY <1>1, <1>2, RoundBounds
<1>5. Round(y) \in Int /\ Round(y) <= q.bid
  BY <1>1, <1>3, RoundBounds
<1>6. /\ ask \in Prices /\ ask >= q.ask
      /\ bid \in Prices /\ bid <= q.bid
  BY <1>4, <1>5, PriceAssumption DEF Between, Prices, Stands, Least, Greatest
<1>7. Widen(q) = Quote(Greatest(ask, bid + 1), bid)
  BY DEF Widen, x, y
<1> HIDE DEF ask, bid
<1>8. Widen(q) = Quote(ask, bid)
  BY <1>1, <1>6, <1>7 DEF Greatest, Prices, Stands, Between
<1> QED BY <1>1, <1>6, <1>8 DEF Stands, Between, Spread, Quote, Prices

-----------------------------------------------------------------------------
(***************************************************************************)
(* The ladders and what is left of them.                                   *)
(***************************************************************************)
Ladders(q) == AskLadder(q.ask) \cup BidLadder(q.bid)

\* An order of a ladder is priced away from the other side.
Priced(o, q) ==
    /\ o.side \in Sides /\ o.price \in Prices
    /\ o.side = "YES" => o.price >= q.ask
    /\ o.side = "NO" => o.price >= NoPrice(q.bid)

LEMMA LaddersArePriced ==
    ASSUME NEW q, Between(q), NEW o \in Ladders(q)
    PROVE  Priced(o, q) /\ o \in [side : Sides, price : Prices, qty : Nat \ {0}]
<1> USE PriceAssumption, LadderAssumption DEF Between, Prices, Sides, NoPrice
<1>1. Rungs \subseteq Nat /\ \A k \in Rungs : Sizes[k + 1] \in Nat \ {0}
  BY DEF Rungs
<1>2. \A k \in Rungs : k * Step \in Nat
  BY <1>1
<1>3. CASE o \in AskLadder(q.ask)
  <2>1. PICK k \in Rungs : /\ o = Sale("YES", q.ask + k * Step, Sizes[k + 1])
                          /\ q.ask + k * Step <= MaxPrice
    BY <1>3 DEF AskLadder
  <2>2. q.ask + k * Step \in Prices /\ q.ask + k * Step >= q.ask
    BY <2>1, <1>2
  <2>3. o.side = "YES" /\ o.price = q.ask + k * Step /\ o.qty = Sizes[k + 1]
    BY <2>1 DEF Sale
  <2>4. Priced(o, q) BY <2>2, <2>3 DEF Priced
  <2> HIDE DEF Prices
  <2> QED BY <2>1, <2>2, <2>4, <1>1 DEF Sale
<1>4. CASE o \in BidLadder(q.bid)
  <2>1. PICK k \in Rungs : /\ o = Sale("NO", NoPrice(q.bid - k * Step), Sizes[k + 1])
                          /\ NoPrice(q.bid - k * Step) \in Prices
    BY <1>4 DEF BidLadder
  <2>2. \A d \in Nat : NoPrice(q.bid - d) >= NoPrice(q.bid)
    OBVIOUS
  <2>3. o.side = "NO" /\ o.price = NoPrice(q.bid - k * Step) /\ o.qty = Sizes[k + 1]
    BY <2>1 DEF Sale
  <2>4. o.price >= NoPrice(q.bid) BY <1>2, <2>2, <2>3
  <2>5. Priced(o, q) BY <2>1, <2>3, <2>4 DEF Priced
  <2> QED BY <2>1, <2>5, <1>1 DEF Sale
<1> QED BY <1>3, <1>4 DEF Ladders

\* Step is not 0: the rungs of a ladder have different prices.
LEMMA RungsDiffer ==
    ASSUME NEW k \in Nat, NEW l \in Nat, k * Step = l * Step
    PROVE  k = l
<1>1. ASSUME NEW m \in Nat, NEW n \in Nat, m < n PROVE m * Step < n * Step
  <2>1. n * Step = m * Step + (n - m) * Step /\ (n - m) * Step > 0
    BY <1>1, LadderAssumption
  <2> QED BY <2>1, LadderAssumption
<1> QED BY <1>1, LadderAssumption

LEMMA LadderSides ==
    ASSUME NEW q, NEW o \in Ladders(q)
    PROVE  /\ o.side = "YES" => o \in AskLadder(q.ask)
           /\ o.side # "YES" => o \in BidLadder(q.bid)
<1>1. \A a \in AskLadder(q.ask) : a.side = "YES" BY DEF AskLadder, Sale
<1>2. \A b \in BidLadder(q.bid) : b.side = "NO" BY DEF BidLadder, Sale
<1> QED BY <1>1, <1>2 DEF Ladders

LEMMA OneOrderPerRung ==
    ASSUME NEW q, Between(q),
           NEW a \in Ladders(q), NEW b \in Ladders(q), Key(a) = Key(b)
    PROVE  a = b
<1> USE PriceAssumption, LadderAssumption DEF Between, Prices
<1>1. Rungs \subseteq Nat BY DEF Rungs
<1>2. \A k \in Rungs : k * Step \in Nat BY <1>1
<1>3. a.side = b.side /\ a.price = b.price BY DEF Key
<1>4. CASE a.side = "YES"
  <2>1. a \in AskLadder(q.ask) /\ b \in AskLadder(q.ask)
    BY <1>3, <1>4, LadderSides
  <2>2. PICK k \in Rungs : a = Sale("YES", q.ask + k * Step, Sizes[k + 1])
    BY <2>1 DEF AskLadder
  <2>3. PICK l \in Rungs : b = Sale("YES", q.ask + l * Step, Sizes[l + 1])
    BY <2>1 DEF AskLadder
  <2>4. k * Step = l * Step BY <1>2, <1>3, <2>2, <2>3 DEF Sale
  <2> QED BY <1>1, <2>2, <2>3, <2>4, RungsDiffer
<1>5. CASE a.side # "YES"
  <2>1. a \in BidLadder(q.bid) /\ b \in BidLadder(q.bid)
    BY <1>3, <1>5, LadderSides
  <2>2. PICK k \in Rungs : a = Sale("NO", NoPrice(q.bid - k * Step), Sizes[k + 1])
    BY <2>1 DEF BidLadder
  <2>3. PICK l \in Rungs : b = Sale("NO", NoPrice(q.bid - l * Step), Sizes[l + 1])
    BY <2>1 DEF BidLadder
  <2>4. k * Step = l * Step BY <1>2, <1>3, <2>2, <2>3 DEF Sale, NoPrice
  <2> QED BY <1>1, <2>2, <2>3, <2>4, RungsDiffer
<1> QED BY <1>4, <1>5

\* Each intent comes from one order of the ladders, with its side and price.
LEMMA IntentsComeFromLadders ==
    ASSUME NEW q, Between(q), NEW l, NEW i \in Intents(q, l)
    PROVE  \E o \in Ladders(q) :
               i = Cut(o)
<1>1. i \in Sanitize(Ladders(q), l)
  BY DEF Intents, DropBuys, SellsOn, Ladders
<1> QED BY <1>1 DEF Sanitize

LEMMA IntentsKeepKeys ==
    ASSUME NEW q, Between(q), NEW o \in Ladders(q), NEW i,
           i = Cut(o)
    PROVE  i.side = o.side /\ i.price = o.price
<1>1. o \in [side : Sides, price : Prices, qty : Nat \ {0}]
  BY LaddersArePriced
<1>2. Clamp(o.price) = o.price BY <1>1, ClampKeepsPrices
<1> QED BY <1>1, <1>2 DEF Cut

LEMMA IntentsArePriced ==
    ASSUME NEW q, Between(q), NEW l, NEW i \in Intents(q, l)
    PROVE  Priced(i, q)
<1>1. PICK o \in Ladders(q) :
          i = Cut(o)
  BY IntentsComeFromLadders
<1>2. i.side = o.side /\ i.price = o.price BY <1>1, IntentsKeepKeys
<1>3. Priced(o, q) BY LaddersArePriced
<1> QED BY <1>2, <1>3 DEF Priced

LEMMA OneIntentPerKey ==
    ASSUME NEW q, Between(q), NEW l,
           NEW i \in Intents(q, l), NEW j \in Intents(q, l), Key(i) = Key(j)
    PROVE  i = j
<1>1. PICK a \in Ladders(q) :
          i = Cut(a)
  BY IntentsComeFromLadders
<1>2. PICK b \in Ladders(q) :
          j = Cut(b)
  BY IntentsComeFromLadders
<1>3. i.side = a.side /\ i.price = a.price BY <1>1, IntentsKeepKeys
<1>4. j.side = b.side /\ j.price = b.price BY <1>2, IntentsKeepKeys
<1>5. Key(a) = Key(b) BY <1>3, <1>4 DEF Key
<1>6. a = b BY <1>5, OneOrderPerRung
<1> QED BY <1>1, <1>2, <1>6

-----------------------------------------------------------------------------
(***************************************************************************)
(* The inductive invariant.  Orders rest at the prices of the last intents *)
(* only, and those stay away from each other by the spread.                *)
(***************************************************************************)
Backed == \A o \in live : Key(o) \in Keys(intents)

IInv ==
    /\ Between(base) /\ Between(quote)
    /\ QuotesStand /\ OneIntentPerPrice
    /\ \A i \in intents : Priced(i, quote)
    /\ Backed

LEMMA InitIInv == Init => IInv
BY PriceAssumption, SpreadAssumption
   DEF Init, IInv, Between, Prices, Quote, QuotesStand, Stands, Spread,
       Greatest, OneIntentPerPrice, Backed

LEMMA BaseQuotesStand ==
    ASSUME NEW q \in BaseQuotes
    PROVE  Between(q) /\ Stands(q) /\ Spread(q) <= Greatest(1, SpreadMax)
<1>1. PICK mid \in Mids, d \in Distances : q = ComputeQuotes(mid, d[1], d[2])
  BY DEF BaseQuotes
<1>2. mid \in Int /\ d[1] \in Nat /\ d[2] \in Nat
  BY RangeAssumption DEF Distances
<1> QED BY <1>1, <1>2, ComputedQuotes

LEMMA CycleKeeps ==
    ASSUME IInv, NEW q \in BaseQuotes, NEW l, Cycle(q, l)
    PROVE  IInv'
<1>1. Between(q) /\ Stands(q) /\ Spread(q) <= Greatest(1, SpreadMax)
  BY BaseQuotesStand
<1>2. base' = q /\ Between(quote') /\ Stands(quote') /\ Spread(quote') >= Spread(q)
  <2>1. CASE l = "WIDEN" BY <2>1, <1>1, WidenGrows DEF Cycle
  <2>2. CASE l # "WIDEN"
    BY <2>2, <1>1 DEF Cycle, Spread, Between, Prices
  <2> QED BY <2>1, <2>2 DEF Cycle
<1>3. intents' = Intents(quote', l) BY DEF Cycle
<1>4. \A i \in intents' : Priced(i, quote')
  BY <1>2, <1>3, IntentsArePriced
<1>5. OneIntentPerPrice'
  BY <1>2, <1>3, OneIntentPerKey DEF OneIntentPerPrice, Key
<1>6. Backed'
  BY DEF Cycle, Execute, Backed, Wanted, Keys, Key
<1>7. QuotesStand'
  BY <1>1, <1>2 DEF QuotesStand, Stands, Spread
<1>8. Between(base') BY <1>1, <1>2
<1>9. (\A i \in intents : Priced(i, quote))'
  BY <1>4 DEF Priced
<1> QED BY <1>2, <1>5, <1>6, <1>7, <1>8, <1>9 DEF IInv, Between

LEMMA KillKeeps ==
    ASSUME IInv, NEW q \in BaseQuotes, Kill(q)
    PROVE  IInv'
<1>1. Between(q) /\ Stands(q) /\ Spread(q) <= Greatest(1, SpreadMax)
  BY BaseQuotesStand
<1>2. Spread(quote') >= Spread(base')
  BY <1>1 DEF Kill, Spread, Between, Prices
<1>3. QuotesStand' /\ Between(base') /\ Between(quote')
  BY <1>1, <1>2 DEF Kill, QuotesStand
<1> QED BY <1>2, <1>3 DEF Kill, IInv, OneIntentPerPrice, Backed, Between

LEMMA NextIInv == IInv /\ [Next]_vars => IInv'
<1> SUFFICES ASSUME IInv, [Next]_vars PROVE IInv'
  OBVIOUS
<1>1. ASSUME NEW q \in BaseQuotes, NEW l, Cycle(q, l) PROVE IInv'
  BY <1>1, CycleKeeps
<1>2. ASSUME NEW q \in BaseQuotes, Kill(q) PROVE IInv'
  BY <1>2, KillKeeps
<1>3. ASSUME live' \subseteq live, UNCHANGED <<base, quote, intents>> PROVE IInv'
  BY <1>3 DEF IInv, Between, QuotesStand, Stands, Spread,
              OneIntentPerPrice, Backed, Priced, Keys, Key
<1>4. ASSUME NEW o \in live, Fill(o) PROVE IInv'
  BY <1>3, <1>4 DEF Fill
<1>5. CASE Reinvest BY <1>3, <1>5 DEF Reinvest
<1>6. CASE UNCHANGED vars BY <1>3, <1>6 DEF vars
<1> QED BY <1>1, <1>2, <1>4, <1>5, <1>6 DEF Next

LEMMA Invariance == Spec => []IInv
BY InitIInv, NextIInv, PTL DEF Spec

\* Ask and bid are prices in order and within spread_max, for every
\* reservation price and spread that ASEngine can compute.
THEOREM QuotesAlwaysStand == Spec => []QuotesStand
BY Invariance, PTL DEF IInv

\* Diffing by side and price is sound: no two intents of a cycle share them.
THEOREM IntentsHaveTheirOwnPrices == Spec => []OneIntentPerPrice
BY Invariance, PTL DEF IInv

\* The orders of the market maker that rest cannot match each other, even
\* though placements are refused, and orders filled, at any time.
THEOREM NoSelfTrade == Spec => []NeverCrossesItself
<1>1. IInv => NeverCrossesItself
  <2> SUFFICES ASSUME IInv, NEW a \in SellsOn("YES", live),
                      NEW b \in SellsOn("NO", live)
               PROVE  a.price + b.price > MaxPrice + 1
    BY DEF NeverCrossesItself
  <2>1. PICK i \in intents : i.side = "YES" /\ i.price = a.price
    BY DEF IInv, Backed, Keys, Key, SellsOn
  <2>2. PICK j \in intents : j.side = "NO" /\ j.price = b.price
    BY DEF IInv, Backed, Keys, Key, SellsOn
  <2>3. Priced(i, quote) /\ Priced(j, quote) /\ Stands(quote) /\ Between(quote)
    BY DEF IInv, QuotesStand
  <2> QED BY <2>1, <2>2, <2>3, PriceAssumption
          DEF Priced, Stands, Between, NoPrice, Prices
<1> QED BY <1>1, Invariance, PTL

-----------------------------------------------------------------------------
(***************************************************************************)
(* Shares.                                                                 *)
(***************************************************************************)
Orders(S) == S \subseteq Order /\ IsFiniteSet(S)

LEMMA SharesOfPart ==
    ASSUME NEW S, Orders(S), NEW T, T \subseteq S
    PROVE  /\ Orders(T) /\ Shares(T) \in Nat /\ Shares(S) \in Nat
           /\ Shares(T) <= Shares(S)
<1> DEFINE f == [o \in S |-> o.qty]
           g == [o \in T |-> o.qty]
<1>1. IsFiniteSet(T) BY FS_Subset DEF Orders
<1>2. \A o \in S : f[o] \in Nat BY DEF Orders, Order
<1>3. SumFunctionOnSet(f, T) = SumFunctionOnSet(g, T)
  <2>1. \A o \in T : f[o] = g[o] OBVIOUS
  <2> HIDE DEF f, g
  <2> QED BY <1>1, <2>1, SumAgrees
<1>4. Shares(S) = SumFunctionOnSet(f, S) /\ Shares(T) = SumFunctionOnSet(g, T)
  BY DEF Shares, SumFunction
<1>5. /\ SumFunctionOnSet(f, T) \in Nat /\ SumFunctionOnSet(f, S) \in Nat
      /\ SumFunctionOnSet(f, T) <= SumFunctionOnSet(f, S)
  <2> HIDE DEF f
  <2> QED BY <1>2, SumGrows DEF Orders
<1> QED BY <1>1, <1>3, <1>4, <1>5 DEF Orders

LEMMA SharesWithout ==
    ASSUME NEW S, Orders(S), NEW o \in S
    PROVE  /\ Orders(S \ {o})
           /\ Shares(S) = o.qty + Shares(S \ {o})
<1> DEFINE T == S \ {o}
           f == [p \in S |-> p.qty]
           g == [p \in T |-> p.qty]
<1>1. IsFiniteSet(T) BY FS_Subset DEF Orders
<1>2. \A p \in S : f[p] \in Int BY DEF Orders, Order
<1>3. SumFunctionOnSet(f, T) = SumFunctionOnSet(g, T)
  <2>1. \A p \in T : f[p] = g[p] OBVIOUS
  <2> HIDE DEF f, g, T
  <2> QED BY <1>1, <2>1, SumAgrees
<1>4. Shares(S) = SumFunctionOnSet(f, S) /\ Shares(T) = SumFunctionOnSet(g, T)
  BY DEF Shares, SumFunction
<1>5. SumFunctionOnSet(f, S) = f[o] + SumFunctionOnSet(f, T)
  <2> HIDE DEF f
  <2> QED BY <1>2, SumTakesOut DEF Orders
<1> QED BY <1>1, <1>3, <1>4, <1>5 DEF Orders

LEMMA NoShares == Shares({}) = 0
BY SumOfNone DEF Shares, SumFunction

-----------------------------------------------------------------------------
(***************************************************************************)
(* Type correctness.  Volumes stay natural numbers because the exchange    *)
(* never has more of a side on its book than the account holds (Fits).     *)
(***************************************************************************)
Shape ==
    /\ base \in Quotes /\ quote \in Quotes
    /\ level \in Levels /\ funded \in BOOLEAN
    /\ volume \in [Sides -> 0 .. MaxVolume]
    /\ Orders(intents) /\ Orders(book) /\ live \subseteq book
    /\ Fits(live)

LEMMA LaddersAreFinite ==
    ASSUME NEW q, Between(q) PROVE Orders(Ladders(q))
<1>1. IsFiniteSet(Rungs)
  BY FS_Interval, LadderAssumption DEF Rungs
<1> DEFINE high == {k \in Rungs : q.ask + k * Step <= MaxPrice}
           low == {k \in Rungs : NoPrice(q.bid - k * Step) \in Prices}
<1>2. IsFiniteSet(high) /\ IsFiniteSet(low) BY <1>1, FS_Subset
<1>3. IsFiniteSet(AskLadder(q.ask))
  <2> DEFINE f == [k \in high |-> Sale("YES", q.ask + k * Step, Sizes[k + 1])]
  <2>1. AskLadder(q.ask) = {f[k] : k \in high} BY DEF AskLadder
  <2> HIDE DEF f, high
  <2> QED BY <1>2, <2>1, ImageIsFinite
<1>4. IsFiniteSet(BidLadder(q.bid))
  <2> DEFINE f == [k \in low |-> Sale("NO", NoPrice(q.bid - k * Step), Sizes[k + 1])]
  <2>1. BidLadder(q.bid) = {f[k] : k \in low} BY DEF BidLadder
  <2> HIDE DEF f, low
  <2> QED BY <1>2, <2>1, ImageIsFinite
<1>5. IsFiniteSet(Ladders(q)) BY <1>3, <1>4, FS_Union DEF Ladders
<1> QED BY <1>5, LaddersArePriced DEF Orders, Order

LEMMA AvailableIsInt ==
    ASSUME Shape, NEW side \in Sides PROVE Available(side) \in Int
<1>1. SellsOn(side, book) \subseteq book BY DEF SellsOn
<1>2. Shares(SellsOn(side, book)) \in Nat BY <1>1, SharesOfPart DEF Shape
<1>3. volume[side] \in Int BY RangeAssumption DEF Shape
<1> QED BY <1>2, <1>3 DEF Available

LEMMA IntentsAreOrders ==
    ASSUME Shape, NEW q, Between(q), NEW l PROVE Orders(Intents(q, l))
<1> DEFINE offered == {o \in Ladders(q) : ~Suppressed(o.side, l) /\ Available(o.side) > 0}
<1>1. Orders(offered) BY LaddersAreFinite, FS_Subset DEF Orders
<1>2. Sanitize(Ladders(q), l) = {Cut(o) : o \in offered} BY DEF Sanitize
<1>3. \A o \in offered : Cut(o) \in Order
  <2> TAKE o \in offered
  <2>1. o \in Order BY <1>1 DEF Orders
  <2>2. Available(o.side) \in Int /\ Available(o.side) > 0
    BY <2>1, AvailableIsInt DEF Order
  <2>3. Clamp(o.price) \in Prices BY <2>1, ClampKeepsPrices DEF Order
  <2>4. Least(o.qty, Available(o.side)) \in Nat \ {0}
    BY <2>1, <2>2 DEF Order, Least
  <2> QED BY <2>1, <2>3, <2>4 DEF Cut, Order
<1>4. IsFiniteSet({Cut(o) : o \in offered})
  <2> DEFINE f == [o \in offered |-> Cut(o)]
  <2>1. {Cut(o) : o \in offered} = {f[o] : o \in offered} OBVIOUS
  <2> HIDE DEF f, offered
  <2> QED BY <1>1, <2>1, ImageIsFinite DEF Orders
<1>5. Orders(Sanitize(Ladders(q), l)) BY <1>2, <1>3, <1>4 DEF Orders
<1>6. Intents(q, l) \subseteq Sanitize(Ladders(q), l)
  BY DEF Intents, DropBuys, SellsOn, Ladders
<1> QED BY <1>5, <1>6, FS_Subset DEF Orders

LEMMA ExecuteKeepsShape ==
    ASSUME Shape, NEW targets, Orders(targets), Execute(targets), UNCHANGED volume
    PROVE  Orders(book') /\ live' \subseteq book' /\ Fits(live)'
<1> DEFINE kept == {o \in book : Wanted(o, targets) \/ o \notin live}
           resting == {o \in live : Wanted(o, targets)}
<1>1. PICK placed \in SUBSET {o \in targets : ~Wanted(o, book)} :
          /\ Fits(resting \cup placed)
          /\ book' = kept \cup placed
          /\ live' = resting \cup placed
  BY DEF Execute
<1>2. Orders(kept) /\ Orders(placed) BY FS_Subset DEF Orders, Shape
<1>3. Orders(kept \cup placed) BY <1>2, FS_Union DEF Orders
<1>4. resting \subseteq kept BY DEF Shape
<1>5. Fits(live)' BY <1>1 DEF Fits
<1> QED BY <1>1, <1>3, <1>4, <1>5

LEMMA FillKeepsShape ==
    ASSUME Shape, NEW o \in live, Fill(o) PROVE Shape'
<1>1. o \in Order /\ Orders(live) BY FS_Subset DEF Shape, Orders
<1>2. \A side \in Sides : SellsOn(side, live) \subseteq live BY DEF SellsOn
<1>3. \A side \in Sides : Orders(SellsOn(side, live))
  BY <1>1, <1>2, FS_Subset DEF Orders
<1>4. o \in SellsOn(o.side, live) /\ o.side \in Sides /\ o.qty \in Nat \ {0}
  BY <1>1 DEF SellsOn, Order
<1>5. /\ Shares(SellsOn(o.side, live)) =
              o.qty + Shares(SellsOn(o.side, live) \ {o})
      /\ Orders(SellsOn(o.side, live) \ {o})
  BY <1>3, <1>4, SharesWithout
<1>6. Shares(SellsOn(o.side, live) \ {o}) \in Nat BY <1>5, SharesOfPart
<1>7. /\ volume[o.side] \in 0 .. MaxVolume /\ Shares(SellsOn(o.side, live)) <= volume[o.side]
      /\ MaxVolume \in Nat
  BY <1>4, RangeAssumption DEF Shape, Fits
<1>8. /\ volume[o.side] - o.qty \in 0 .. MaxVolume
      /\ Shares(SellsOn(o.side, live) \ {o}) <= volume[o.side] - o.qty
  BY <1>4, <1>5, <1>6, <1>7
<1>9. volume' \in [Sides -> 0 .. MaxVolume]
  BY <1>8 DEF Fill, Shape
<1>10. Fits(live)'
  <2> SUFFICES ASSUME NEW side \in Sides
               PROVE  Shares(SellsOn(side, live')) <= volume'[side]
    BY DEF Fits
  <2>1. CASE side = o.side
    <3>1. SellsOn(side, live') = SellsOn(o.side, live) \ {o}
      BY <2>1 DEF SellsOn, Fill
    <3>2. volume'[side] = volume[o.side] - o.qty BY <1>4, <2>1 DEF Fill, Shape
    <3> QED BY <1>8, <3>1, <3>2
  <2>2. CASE side # o.side
    <3>1. SellsOn(side, live') = SellsOn(side, live) BY <2>2 DEF SellsOn, Fill
    <3>2. volume'[side] = volume[side] BY <2>2 DEF Fill, Shape
    <3> QED BY <3>1, <3>2 DEF Shape, Fits
  <2> QED BY <2>1, <2>2
<1> QED BY <1>9, <1>10 DEF Fill, Shape

LEMMA ReinvestKeepsShape ==
    ASSUME Shape, Reinvest PROVE Shape'
<1>1. \A side \in Sides : volume[side] \in 0 .. MaxVolume /\ MaxVolume \in Nat
  BY RangeAssumption DEF Shape
<1>2. volume' \in [Sides -> 0 .. MaxVolume] BY <1>1 DEF Reinvest
<1>3. \A side \in Sides : Shares(SellsOn(side, live)) \in Nat
  <2> TAKE side \in Sides
  <2>1. SellsOn(side, live) \subseteq book BY DEF SellsOn, Shape
  <2> QED BY <2>1, SharesOfPart DEF Shape
<1>4. \A side \in Sides : volume'[side] >= volume[side] BY <1>1 DEF Reinvest
<1>5. \A side \in Sides : volume'[side] \in Int BY <1>2, RangeAssumption
<1>6. Fits(live)' 
  BY <1>1, <1>3, <1>4, <1>5 DEF Fits, Shape, Reinvest
<1> QED BY <1>2, <1>6 DEF Reinvest, Shape

LEMMA ComputedIsAQuote ==
    ASSUME NEW q \in BaseQuotes PROVE q \in Quotes
<1>1. PICK mid \in Mids, d \in Distances : q = ComputeQuotes(mid, d[1], d[2])
  BY DEF BaseQuotes
<1>2. mid \in Int /\ d[1] \in Nat /\ d[2] \in Nat
  BY RangeAssumption DEF Distances
<1>3. \A p \in Quotes : Separate(p) \in Quotes
  BY PriceAssumption DEF Separate, Quotes, Quote, Prices, Least, Greatest
<1>4. \A m \in Int, s \in Nat : Recalculate(m, s) \in Quotes
  <2> TAKE m \in Int, s \in Nat
  <2>1. s \div 2 \in Int OBVIOUS
  <2>2. Clamp(m + (s - s \div 2)) \in Prices /\ Clamp(m - s \div 2) \in Prices
    BY <2>1, ClampIsAPrice
  <2> QED BY <2>2 DEF Recalculate, Quote, Quotes
<1>5. \A p \in Quotes : AtLeastMin(p, mid) \in Quotes /\ AtMostMax(p, mid) \in Quotes
  BY <1>2, <1>4, SpreadAssumption DEF AtLeastMin, AtMostMax
<1>6. Quote(Clamp(mid + d[1]), Clamp(mid - d[2])) \in Quotes
  BY <1>2, ClampIsAPrice DEF Quote, Quotes
<1> QED BY <1>1, <1>3, <1>5, <1>6 DEF ComputeQuotes

LEMMA NextShape == IInv /\ Shape /\ [Next]_vars => Shape'
<1> SUFFICES ASSUME IInv, Shape, [Next]_vars PROVE Shape'
  OBVIOUS
<1>1. ASSUME NEW q \in BaseQuotes, NEW l \in Levels, Cycle(q, l) PROVE Shape'
  <2>1. Between(q) BY BaseQuotesStand
  <2>2. Between(quote')
    BY <1>1, <2>1, BaseQuotesStand, WidenGrows DEF Cycle
  <2>3. Orders(intents') BY <1>1, <2>2, IntentsAreOrders DEF Cycle
  <2>4. Orders(book') /\ live' \subseteq book' /\ Fits(live)'
    BY <1>1, <2>3, ExecuteKeepsShape DEF Cycle
  <2>5. base' \in Quotes /\ quote' \in Quotes
    <3>1. q \in Quotes BY ComputedIsAQuote
    <3>2. l = "WIDEN" => quote' = Widen(q) BY <1>1 DEF Cycle
    <3>3. l # "WIDEN" => quote' = q BY <1>1 DEF Cycle
    <3>4. l = "WIDEN" => quote' \in Quotes
      BY <2>2, <3>2 DEF Between, Widen, Quote, Quotes
    <3> QED BY <1>1, <3>1, <3>3, <3>4 DEF Cycle
  <2> QED BY <1>1, <2>3, <2>4, <2>5 DEF Cycle, Shape, Orders
<1>2. ASSUME NEW q \in BaseQuotes, Kill(q) PROVE Shape'
  <2>1. \A side \in Sides : SellsOn(side, {}) = {} BY DEF SellsOn
  <2>2. \A side \in Sides : volume[side] \in Nat BY RangeAssumption DEF Shape
  <2>3. Fits({})' BY <1>2, <2>1, <2>2, NoShares DEF Fits, Kill
  <2>4. Orders({}) BY FS_EmptySet DEF Orders
  <2> QED BY <1>2, <2>3, <2>4, ComputedIsAQuote DEF Kill, Shape, Levels, Orders, Fits
<1>3. ASSUME NEW o \in live, Fill(o) PROVE Shape' BY <1>3, FillKeepsShape
<1>4. CASE Reinvest BY <1>4, ReinvestKeepsShape
<1>5. CASE UNCHANGED vars BY <1>5 DEF vars, Shape, Orders, Fits, SellsOn
<1> QED BY <1>1, <1>2, <1>3, <1>4, <1>5 DEF Next

LEMMA InitShape == Init => Shape
<1> SUFFICES ASSUME Init PROVE Shape OBVIOUS
<1>1. \A side \in Sides : SellsOn(side, {}) = {} BY DEF SellsOn
<1>2. \A side \in Sides : volume[side] \in Nat BY RangeAssumption DEF Init
<1>3. Orders({}) BY FS_EmptySet DEF Orders
<1> QED BY <1>1, <1>2, <1>3, NoShares, PriceAssumption
       DEF Init, Shape, Levels, Fits, Quote, Quotes, Prices

LEMMA ShapeIsInvariant == Spec => []Shape
BY InitShape, NextShape, Invariance, PTL DEF Spec

\* Quotes are prices, orders are sales, and no volume is ever negative, for
\* fills, refusals and reinvestments in any order.
THEOREM TypeCorrect == Spec => []TypeOK
<1>1. IInv /\ Shape => TypeOK
  BY DEF IInv, Shape, TypeOK, Orders
<1> QED BY <1>1, Invariance, ShapeIsInvariant, PTL

-----------------------------------------------------------------------------
(***************************************************************************)
(* Steps.  Fills and reinvestments change a volume, so a step that changes *)
(* none is a cycle or the kill switch.                                     *)
(***************************************************************************)
LEMMA OnlyCyclesKeepVolumes ==
    ASSUME Shape, Next, volume' = volume
    PROVE  \E q \in BaseQuotes :
               (\E l \in Levels \ {"KILL_SWITCH"} : Cycle(q, l)) \/ Kill(q)
<1>1. ASSUME NEW o \in live, Fill(o) PROVE FALSE
  <2>1. o \in Order BY DEF Shape, Orders
  <2>2. o.side \in Sides /\ o.qty \in Nat \ {0} BY <2>1 DEF Order
  <2>3. volume[o.side] \in Nat /\ volume'[o.side] = volume[o.side] - o.qty
    BY <1>1, <2>2, RangeAssumption DEF Fill, Shape
  <2> QED BY <2>2, <2>3
<1>2. ASSUME Reinvest PROVE FALSE
  <2>1. "YES" \in Sides BY DEF Sides
  <2>2. volume["YES"] \in Nat /\ volume'["YES"] = volume["YES"] + 1
    BY <1>2, <2>1, RangeAssumption DEF Reinvest, Shape
  <2> QED BY <2>2
<1> QED BY <1>1, <1>2 DEF Next

LEMMA IntentsAreNotSuppressed ==
    ASSUME NEW q, Between(q), NEW l, NEW i \in Intents(q, l)
    PROVE  i.side \in Sides /\ ~Suppressed(i.side, l)
<1>1. i \in Sanitize(Ladders(q), l)
  BY DEF Intents, DropBuys, SellsOn, Ladders
<1>2. PICK o \in Ladders(q) : i = Cut(o) /\ ~Suppressed(o.side, l)
  BY <1>1 DEF Sanitize
<1>3. i.side = o.side BY <1>2, IntentsKeepKeys
<1>4. o.side \in Sides BY LaddersArePriced
<1> QED BY <1>2, <1>3, <1>4

\* After a cycle an order rests only where an intent of it has a price.
LEMMA RestingIsIntended ==
    ASSUME NEW targets, Execute(targets), NEW o \in live'
    PROVE  \E t \in targets : t.side = o.side
BY DEF Execute, Wanted, Keys, Key

\* ONE_SIDE leaves no order of the light side on the book, those of earlier
\* cycles and the ones whose placement is refused included.
THEOREM LightSideIsCleared == Spec => OneSideSellsTheHeavySide
<1>1. ASSUME IInv, Shape, Next, level' = "ONE_SIDE", volume' = volume,
             NEW o \in live', NEW side \in Sides
      PROVE  volume[o.side] >= volume[side]
  <2>1. PICK q \in BaseQuotes, l \in Levels \ {"KILL_SWITCH"} : Cycle(q, l)
    BY <1>1, OnlyCyclesKeepVolumes DEF Kill
  <2>2. l = "ONE_SIDE" /\ quote' = q BY <1>1, <2>1 DEF Cycle
  <2>3. PICK i \in intents' : i.side = o.side
    BY <2>1, RestingIsIntended DEF Cycle
  <2>4. intents' = Intents(q, l) BY <2>1, <2>2 DEF Cycle
  <2>5. i.side \in Sides /\ ~Suppressed(i.side, l)
    BY <2>3, <2>4, BaseQuotesStand, IntentsAreNotSuppressed
  <2>6. volume["YES"] \in Nat /\ volume["NO"] \in Nat
    BY RangeAssumption, <1>1 DEF Shape, Sides
  <2> QED BY <2>2, <2>3, <2>5, <2>6 DEF Suppressed, Sides
<1>2. IInv /\ Shape /\ [Next]_vars =>
          [level' = "ONE_SIDE" /\ volume' = volume =>
               \A o \in live', side \in Sides : volume[o.side] >= volume[side]]_vars
  BY <1>1
<1> QED BY <1>2, Invariance, ShapeIsInvariant, PTL DEF Spec, OneSideSellsTheHeavySide

-----------------------------------------------------------------------------
\* The first rung of a ladder is on the quote itself.
LEMMA LaddersStartAtTheQuote ==
    ASSUME NEW q, Between(q), Sizes # <<>>, NEW side \in Sides
    PROVE  \E o \in Ladders(q) : o.side = side
<1>1. 0 \in Rungs
  <2>1. Len(Sizes) \in Nat /\ Len(Sizes) # 0 BY LadderAssumption
  <2> QED BY <2>1 DEF Rungs
<1>2. 0 * Step = 0 BY LadderAssumption
<1>3. CASE side = "YES"
  <2>1. q.ask + 0 * Step <= MaxPrice BY <1>2, PriceAssumption DEF Between, Prices
  <2>2. Sale("YES", q.ask + 0 * Step, Sizes[0 + 1]) \in AskLadder(q.ask)
    BY <1>1, <2>1 DEF AskLadder
  <2> QED BY <1>3, <2>2 DEF Ladders, Sale
<1>4. CASE side = "NO"
  <2>1. NoPrice(q.bid - 0 * Step) \in Prices
    BY <1>2, PriceAssumption DEF Between, Prices, NoPrice
  <2>2. Sale("NO", NoPrice(q.bid - 0 * Step), Sizes[0 + 1]) \in BidLadder(q.bid)
    BY <1>1, <2>1 DEF BidLadder
  <2> QED BY <1>4, <2>2 DEF Ladders, Sale
<1> QED BY <1>3, <1>4 DEF Sides

LEMMA FreeSidesAreQuoted ==
    ASSUME Shape, Sizes # <<>>, NEW q, Between(q), NEW l, l # "ONE_SIDE",
           NEW side \in Sides, side = "YES" \/ funded,
           volume[side] > 0, SellsOn(side, book) = {}
    PROVE  SellsOn(side, Intents(q, l)) # {}
<1>1. Available(side) = volume[side]
  <2>1. volume[side] \in Nat BY RangeAssumption DEF Shape
  <2> QED BY <2>1, NoShares DEF Available
<1>2. PICK o \in Ladders(q) : o.side = side BY LaddersStartAtTheQuote
<1>3. Cut(o) \in Sanitize(Ladders(q), l)
  BY <1>1, <1>2 DEF Sanitize, Suppressed
<1>4. Cut(o).side = side BY <1>2, IntentsKeepKeys
<1>5. Cut(o) \in Intents(q, l)
  BY <1>3, <1>4 DEF Intents, DropBuys, SellsOn, Ladders
<1> QED BY <1>4, <1>5 DEF SellsOn

\* A side that got no quote because all of it was on offer is quoted by the
\* next cycle, at any price, after fills and reinvestments: the cycle that
\* quoted nothing has cancelled its orders.  A ladder needs a rung for it.
THEOREM DrySidesComeBack ==
    ASSUME Sizes # <<>> PROVE Spec => DryForOneCycle
<1>1. ASSUME IInv, Shape, Next, level' \in {"NORMAL", "WIDEN"}, volume' = volume,
             NEW side \in Sides, SellsOn(side, intents) = {}, volume[side] > 0,
             SellsOn(side, book) \subseteq live, side = "YES" \/ funded
      PROVE  SellsOn(side, intents') # {}
  <2>1. PICK q \in BaseQuotes, l \in Levels \ {"KILL_SWITCH"} : Cycle(q, l)
    BY <1>1, OnlyCyclesKeepVolumes DEF Kill
  <2>2. SellsOn(side, book) = {}
    <3>1. \A o \in SellsOn(side, book) : \E i \in intents : i.side = side
      BY <1>1 DEF SellsOn, IInv, Backed, Keys, Key
    <3> QED BY <1>1, <3>1 DEF SellsOn
  <2>3. Between(quote')
    <3>1. l = "WIDEN" => quote' = Widen(q) BY <2>1 DEF Cycle
    <3>2. l # "WIDEN" => quote' = q BY <2>1 DEF Cycle
    <3> QED BY <3>1, <3>2, BaseQuotesStand, WidenGrows
  <2>4. l # "ONE_SIDE" /\ intents' = Intents(quote', l) BY <1>1, <2>1 DEF Cycle
  <2> HIDE DEF DryForOneCycle
  <2> QED BY <1>1, <2>2, <2>3, <2>4, FreeSidesAreQuoted
<1>2. IInv /\ Shape /\ [Next]_vars =>
          [level' \in {"NORMAL", "WIDEN"} /\ volume' = volume =>
           \A side \in Sides :
               (/\ SellsOn(side, intents) = {} /\ volume[side] > 0
                /\ SellsOn(side, book) \subseteq live
                /\ side = "YES" \/ funded)
               => SellsOn(side, intents') # {}]_vars
  BY <1>1
<1> QED BY <1>2, Invariance, ShapeIsInvariant, PTL DEF Spec, DryForOneCycle
=============================================================================
