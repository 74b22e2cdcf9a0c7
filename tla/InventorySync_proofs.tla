------------------------ MODULE InventorySync_proofs ------------------------
(***************************************************************************)
(* Theorems about InventorySync, for all trades, pages, windows, amounts   *)
(* and faults.                                                             *)
(***************************************************************************)
EXTENDS InventorySync, SequenceTheorems, SumTheorems, TLAPS

-----------------------------------------------------------------------------
(***************************************************************************)
(* Types, by who keeps the state.  The hash in Redis is there as long as   *)
(* the market runs, and only then a reconciler runs beside it.             *)
(***************************************************************************)
Holdings == [yes : Nat, no : Nat, cash : Nat]

ExchangeTypes ==
    /\ truth \in Holdings
    /\ feed \in Seq(Trade) /\ Len(feed) <= MaxTrades
    /\ resolved \in BOOLEAN /\ offered \in BOOLEAN

PollerTypes ==
    /\ cursor \in 0 .. Len(feed)
    /\ window \in Seq(1 .. Len(feed)) /\ Len(window) <= Window
    /\ page \in Seq(1 .. Len(feed))
    /\ DOMAIN times = 1 .. MaxTrades

MarketTypes ==
    /\ pc \in Places /\ ctx \in Inventory /\ local \in Inventory
    /\ qty \in Nat
    /\ phase \in {"EXPLORATION", "STABILIZATION"}
    /\ requested \in BOOLEAN

StoreTypes ==
    /\ redis = NoKey \/ redis \in Cached
    /\ rec \in {"off", "balance", "positions", "cache", "set", "fresh",
                "assign", "dead"}
    /\ db \in Inventory
    /\ rec = "set" => snap \in Cached
    /\ rec = "assign" => snap \in Inventory
    /\ Running => redis \in Cached
    /\ ~Running => rec = "off"

HistoryTypes == uncredited \in Nat /\ seen \subseteq {"lost"} \cup Incidents

Types ==
    /\ ExchangeTypes /\ PollerTypes /\ MarketTypes /\ StoreTypes /\ HistoryTypes

LEMMA TypesAreTypes == Types => TypeOK
BY DEF Types, ExchangeTypes, PollerTypes, MarketTypes, StoreTypes, HistoryTypes,
       TypeOK, Holdings

\* Amounts.
LEMMA Sums ==
    ASSUME NEW inv \in Inventory \cup Cached, NEW delta \in Inventory
    PROVE  /\ inv \in Inventory => Plus(inv, delta) \in Inventory
           /\ inv \in Cached => Plus(inv, delta) \in Cached
           /\ Plus(inv, delta).yes = inv.yes + delta.yes
           /\ Plus(inv, delta).no = inv.no + delta.no
           /\ Plus(inv, delta).cash = inv.cash + delta.cash
<1> DEFINE y == inv.yes + delta.yes
           n == inv.no + delta.no
           c == inv.cash + delta.cash
<1>1. y \in Int /\ n \in Int /\ c \in Int
  BY DEF Inventory, Cached
<1>2. Plus(inv, delta) = [inv EXCEPT !.yes = y, !.no = n, !.cash = c]
  BY DEF Plus, Inventory, Cached
<1>3. /\ inv \in Inventory => Plus(inv, delta) \in Inventory
      /\ inv \in Cached => Plus(inv, delta) \in Cached
  <2> HIDE DEF y, n, c
  <2>1. inv \in Inventory => [inv EXCEPT !.yes = y, !.no = n, !.cash = c] \in Inventory
    BY <1>1 DEF Inventory
  <2>2. inv \in Cached => [inv EXCEPT !.yes = y, !.no = n, !.cash = c] \in Cached
    BY <1>1 DEF Cached
  <2> QED BY <1>2, <2>1, <2>2
<1>4. /\ Plus(inv, delta).yes = inv.yes + delta.yes
      /\ Plus(inv, delta).no = inv.no + delta.no
      /\ Plus(inv, delta).cash = inv.cash + delta.cash
  BY DEF Plus, Inventory, Cached
<1> QED BY <1>3, <1>4

LEMMA Amounts ==
    /\ \A inv \in Inventory, delta \in Inventory : Plus(inv, delta) \in Inventory
    /\ \A inv \in Cached, delta \in Inventory : Plus(inv, delta) \in Cached
    /\ \A inv \in Cached : Position(inv) \in Inventory
    /\ \A n \in Int : Pairs(n) \in Inventory
    /\ \A t \in Trade : Effect(t) \in Inventory /\ TrueEffect(t) \in Inventory
    /\ Nothing \in Inventory /\ Holdings \subseteq Inventory
<1>1. \A n \in Int : n * PairCost \in Int BY CashAssumption
<1>2. \A n \in Int : Pairs(n) \in Inventory BY <1>1 DEF Pairs, Delta, Inventory
<1>3. /\ \A inv \in Inventory, delta \in Inventory : Plus(inv, delta) \in Inventory
      /\ \A inv \in Cached, delta \in Inventory : Plus(inv, delta) \in Cached
      /\ \A inv \in Cached : Position(inv) \in Inventory
      /\ Nothing \in Inventory /\ Holdings \subseteq Inventory
  <2>1. /\ \A inv \in Inventory, delta \in Inventory : Plus(inv, delta) \in Inventory
        /\ \A inv \in Cached, delta \in Inventory : Plus(inv, delta) \in Cached
    BY Sums
  <2>2. /\ \A inv \in Cached : Position(inv) \in Inventory
        /\ Nothing \in Inventory /\ Holdings \subseteq Inventory
    BY DEF Position, Delta, Inventory, Cached, Nothing, Holdings
  <2> QED BY <2>1, <2>2
<1>4. ASSUME NEW t \in Trade PROVE Effect(t) \in Inventory
  <2>1. /\ t.qty \in Nat /\ t.price \in Nat /\ t.fee \in Nat /\ t.scenario \in Scenarios
        /\ NoPrice(t) \in Int
    BY CashAssumption DEF Trade, NoPrice
  <2>2. \A price \in Int : Bought(price, t) \in Int /\ Sold(price, t) \in Int
    BY <2>1 DEF Bought, Sold
  <2>3. \A yes, no, cash \in Int : Delta(yes, no, cash) \in Inventory
    BY DEF Delta, Inventory
  <2>4. Pairs(t.qty) \in Inventory /\ Pairs(-t.qty) \in Inventory BY <1>2, <2>1
  <2>5. -t.qty \in Int /\ t.qty \in Int /\ t.price \in Int /\ 0 \in Int BY <2>1
  <2>6. /\ Delta(t.qty, 0, Bought(t.price, t)) \in Inventory
        /\ Delta(-t.qty, 0, Sold(t.price, t)) \in Inventory
        /\ Delta(0, t.qty, Bought(NoPrice(t), t)) \in Inventory
        /\ Delta(0, -t.qty, Sold(NoPrice(t), t)) \in Inventory
    <3>1. /\ Bought(t.price, t) \in Int /\ Sold(t.price, t) \in Int
          /\ Bought(NoPrice(t), t) \in Int /\ Sold(NoPrice(t), t) \in Int
      BY <2>1, <2>2, <2>5
    <3> QED BY <2>3, <2>5, <3>1
  <2> QED BY <2>1, <2>4, <2>6 DEF Effect, Scenarios
<1>5. \A t \in Trade : TrueEffect(t) \in Inventory
  BY <1>3, <1>4 DEF TrueEffect
<1> QED BY <1>2, <1>3, <1>4, <1>5

LEMMA MintTypes ==
    ASSUME truth \in Holdings, NEW n \in Nat, NEW key, ExchangeMint(n, key)
    PROVE  truth' \in Holdings /\ UNCHANGED <<feed, resolved, offered>>
<1>1. n * PairCost \in Int /\ -(n * PairCost) \in Int BY CashAssumption
<1>2. n * PairCost <= truth.cash BY DEF ExchangeMint
<1>3. Plus(truth, Pairs(n)) \in Holdings
  <2>1. /\ Pairs(n) \in Inventory /\ truth \in Inventory
        /\ Pairs(n).yes = n /\ Pairs(n).no = n /\ Pairs(n).cash = -(n * PairCost)
    BY Amounts DEF Pairs, Delta
  <2> DEFINE after == Plus(truth, Pairs(n))
  <2>2. /\ after \in Inventory /\ after.yes = truth.yes + n /\ after.no = truth.no + n
        /\ after.cash = truth.cash + -(n * PairCost)
    BY <2>1, Sums
  <2> HIDE DEF after
  <2>3. truth.yes \in Nat /\ truth.no \in Nat /\ truth.cash \in Nat BY DEF Holdings
  <2>4. /\ truth.yes + n \in Nat /\ truth.no + n \in Nat
        /\ truth.cash + -(n * PairCost) \in Nat
    BY <1>1, <1>2, <2>3
  <2>5. after \in Holdings BY <2>2, <2>4 DEF Holdings, Inventory
  <2> QED BY <2>5 DEF after
<1> QED BY <1>3 DEF ExchangeMint

LEMMA BurnTypes ==
    ASSUME truth \in Holdings, qty \in Nat, ExchangeBurn
    PROVE  truth' \in Holdings /\ UNCHANGED <<feed, resolved, offered>>
<1>1. qty * PairCost \in Nat /\ -((-qty) * PairCost) = qty * PairCost
  BY CashAssumption
<1>2. qty <= truth.yes /\ qty <= truth.no
  BY DEF ExchangeBurn, Burnable, Lesser, Holdings
<1>3. Plus(truth, Pairs(-qty)) \in Holdings
  <2>1. /\ Pairs(-qty) \in Inventory /\ truth \in Inventory
        /\ Pairs(-qty).yes = -qty /\ Pairs(-qty).no = -qty
        /\ Pairs(-qty).cash = qty * PairCost
    BY <1>1, Amounts DEF Pairs, Delta
  <2> DEFINE after == Plus(truth, Pairs(-qty))
  <2>2. /\ after \in Inventory /\ after.yes = truth.yes + -qty
        /\ after.no = truth.no + -qty /\ after.cash = truth.cash + qty * PairCost
    BY <2>1, Sums
  <2> HIDE DEF after
  <2>3. truth.yes \in Nat /\ truth.no \in Nat /\ truth.cash \in Nat BY DEF Holdings
  <2>4. /\ truth.yes + -qty \in Nat /\ truth.no + -qty \in Nat
        /\ truth.cash + qty * PairCost \in Nat
    BY <1>1, <1>2, <2>3
  <2>5. after \in Holdings BY <2>2, <2>4 DEF Holdings, Inventory
  <2> QED BY <2>5 DEF after
<1> QED BY <1>3 DEF ExchangeBurn

LEMMA HappenTypes ==
    ASSUME ExchangeTypes, NEW t \in Deals, Happen(t)
    PROVE  ExchangeTypes' /\ Len(feed') = Len(feed) + 1 /\ feed'[Len(feed')] = t
           /\ \A n \in DOMAIN feed : feed'[n] = feed[n]
<1>1. t \in Trade /\ TrueEffect(t) \in Inventory
  BY Amounts, DealsAssumption
<1>2. /\ feed' \in Seq(Trade) /\ Len(feed') = Len(feed) + 1
      /\ feed'[Len(feed) + 1] = t
      /\ \A n \in 1 .. Len(feed) : feed'[n] = feed[n]
  BY <1>1, AppendProperties DEF Happen, ExchangeTypes
<1>3. truth' \in Holdings
  <2>1. Plus(truth, TrueEffect(t)) \in Inventory
    BY <1>1, Amounts DEF ExchangeTypes
  <2> QED BY <2>1 DEF Happen, Inventory, Holdings
<1>4. DOMAIN feed = 1 .. Len(feed) /\ Len(feed) \in Nat
  BY LenProperties DEF ExchangeTypes
<1>5. Len(feed') <= MaxTrades
  BY <1>2, <1>4, FeedAssumption DEF Happen
<1> QED BY <1>2, <1>3, <1>4, <1>5 DEF ExchangeTypes, Happen

-----------------------------------------------------------------------------
(***************************************************************************)
(* The exchange's state.                                                   *)
(***************************************************************************)
LEMMA FeedGrows ==
    ASSUME Types, [Next]_vars
    PROVE  ExchangeTypes' /\ (feed' = feed \/ \E t \in Deals : Happen(t))
<1> USE DEF exchange
<1>0. truth \in Holdings /\ qty \in Nat /\ InitialMint \in Nat
  BY CashAssumption DEF Types, ExchangeTypes, MarketTypes
<1>1. CASE \E t \in Deals : Happen(t)
  BY <1>1, HappenTypes DEF Types
<1>2. CASE \/ UNCHANGED exchange
           \/ (\E n \in Nat : \E key : ExchangeMint(n, key)) \/ ExchangeBurn
  <2>1. truth' \in Holdings /\ UNCHANGED <<feed, resolved, offered>>
    BY <1>0, <1>2, MintTypes, BurnTypes
  <2> QED BY <2>1 DEF Types, ExchangeTypes
<1>3. CASE Resolve \/ Quote
  BY <1>3 DEF Resolve, Quote, Types, ExchangeTypes
<1>4. ASSUME Next
      PROVE  \/ \E t \in Deals : Happen(t)
             \/ UNCHANGED exchange \/ (\E n \in Nat : \E key : ExchangeMint(n, key))
             \/ ExchangeBurn \/ Resolve \/ Quote
  <2>1. CASE BootMint \/ BootFails
    BY <1>0, <2>1 DEF BootMint, BootFails
  <2>2. CASE Mint \/ MintFails
    BY <1>0, <2>2 DEF Mint, MintFails
  <2>3. CASE Burn \/ BurnFails
    BY <2>3 DEF Burn, BurnFails
  <2>4. CASE \/ Restart \/ BootBalance \/ BootPositions \/ BootReread \/ BootSet
             \/ Poll \/ HandleTrade \/ EmptyPage \/ ReadCache \/ Assign \/ MintRefused
             \/ Credit \/ CreditRedis \/ SeeFinalStatus \/ SeeNoFinalStatus \/ CancelAll
             \/ BurnRefused \/ Stop \/ PollFails \/ CancelFails \/ Reconcile
             \/ ReconcilerDies \/ Crash
    BY <2>4
       DEF Restart, Start, BootBalance, BootPositions, BootReread, BootSet, Poll,
           HandleTrade, EmptyPage, ReadCache, Assign, MintRefused, Credit, CreditRedis,
           SeeFinalStatus, SeeNoFinalStatus, CancelAll, BurnRefused, Stop, PollFails,
           CancelFails, Reconcile, FetchBalance, FetchPositions, InSync, DetectDrift,
           CorrectDrift, ReadFresh, AssignFresh, Reconciler, ReconcilerDies, Crash
  <2> QED
    BY <1>4, <2>1, <2>2, <2>3, <2>4 DEF Next, BootStep, Cycle, Failure
<1> QED BY <1>1, <1>2, <1>3, <1>4 DEF vars

\* What is said of the feed's numbers stays true while it grows.
LEMMA NumbersGrow ==
    ASSUME Types, [Next]_vars
    PROVE  /\ Len(feed) \in Nat /\ Len(feed') \in Nat /\ Len(feed) <= Len(feed')
           /\ DOMAIN feed = 1 .. Len(feed) /\ DOMAIN feed' = 1 .. Len(feed')
           /\ Len(feed') <= MaxTrades
           /\ \A n \in DOMAIN feed : feed'[n] = feed[n]
           /\ \A s \in Seq(1 .. Len(feed)) : s \in Seq(1 .. Len(feed'))
<1>1. ExchangeTypes /\ ExchangeTypes' BY FeedGrows DEF Types
<1>2. /\ Len(feed) \in Nat /\ DOMAIN feed = 1 .. Len(feed)
      /\ Len(feed') \in Nat /\ DOMAIN feed' = 1 .. Len(feed')
  BY <1>1, LenProperties DEF ExchangeTypes
<1>3. Len(feed) <= Len(feed') /\ \A n \in DOMAIN feed : feed'[n] = feed[n]
  <2>1. CASE feed' = feed BY <1>2, <2>1
  <2>2. CASE \E t \in Deals : Happen(t)
    <3>1. PICK t \in Deals : Happen(t) BY <2>2
    <3>2. Len(feed') = Len(feed) + 1 /\ \A n \in DOMAIN feed : feed'[n] = feed[n]
      BY <1>1, <3>1, HappenTypes
    <3> QED BY <1>2, <3>2
  <2> QED BY <2>1, <2>2, FeedGrows
<1>4. 1 .. Len(feed) \subseteq 1 .. Len(feed') BY <1>2, <1>3
<1>5. \A s \in Seq(1 .. Len(feed)) : s \in Seq(1 .. Len(feed'))
  BY <1>4, SeqMonotonic
<1> QED BY <1>1, <1>2, <1>3, <1>5 DEF ExchangeTypes

-----------------------------------------------------------------------------
(***************************************************************************)
(* The poller.                                                             *)
(***************************************************************************)
LEMMA PageNumbers ==
    ASSUME NEW first \in Nat, NEW last \in Nat, first >= 1, NEW limit \in Nat, last <= limit
    PROVE  /\ Numbers(first, last) \in Seq(1 .. limit)
           /\ Len(Numbers(first, last)) = IF first <= last THEN last - first + 1 ELSE 0
           /\ \A i \in 1 .. Len(Numbers(first, last)) :
                  Numbers(first, last)[i] = first + i - 1
<1> DEFINE n == IF first <= last THEN last - first + 1 ELSE 0
           s == [i \in 1 .. n |-> first + i - 1]
<1>1. n \in Nat /\ 1 .. (last - first + 1) = 1 .. n
  OBVIOUS
<1>2. Numbers(first, last) = s BY <1>1 DEF Numbers
<1>3. s \in [1 .. n -> 1 .. limit] BY <1>1
<1>4. s \in Seq(1 .. limit) BY <1>1, <1>3, SeqDef
<1>5. Len(s) = n BY <1>1, <1>4, LenProperties
<1> QED BY <1>2, <1>4, <1>5

\* The window after a trade was remembered: the trade is its last element, and
\* if it was full, its first has gone.
LEMMA Remembered ==
    ASSUME Types, NEW n \in 1 .. Len(feed), Remember(n)
    PROVE  /\ window' \in Seq(1 .. Len(feed)) /\ Len(window') <= Window
           /\ Len(window') = IF Len(window) < Window THEN Len(window) + 1 ELSE Len(window)
           /\ \A i \in 1 .. Len(window') :
                  window'[i] = LET j == IF Len(window) < Window THEN i ELSE i + 1
                               IN  IF j = Len(window) + 1 THEN n ELSE window[j]
<1> DEFINE w == Append(window, n)
<1>1. /\ window \in Seq(1 .. Len(feed)) /\ Len(window) \in Nat /\ Len(window) <= Window
      /\ Window \in Nat
  BY LenProperties, FeedAssumption DEF Types, PollerTypes
<1>2. /\ w \in Seq(1 .. Len(feed)) /\ w # <<>> /\ Len(w) = Len(window) + 1
      /\ \A i \in 1 .. Len(window) : w[i] = window[i]
      /\ w[Len(window) + 1] = n
  BY <1>1, AppendProperties
<1>3. window' = IF Len(w) > Window THEN Tail(w) ELSE w
  BY DEF Remember
<1> HIDE DEF w
<1>4. /\ Tail(w) \in Seq(1 .. Len(feed)) /\ Len(Tail(w)) = Len(w) - 1
      /\ \A i \in 1 .. Len(Tail(w)) : Tail(w)[i] = w[i + 1]
  BY <1>2, HeadTailProperties
<1>5. CASE Len(window) < Window
  BY <1>1, <1>2, <1>3, <1>5
<1>6. CASE ~(Len(window) < Window)
  <2>1. Len(window) = Window /\ window' = Tail(w) BY <1>1, <1>2, <1>3, <1>6
  <2>2. \A i \in 1 .. Len(window) :
            i + 1 \in 1 .. Len(window) + 1 /\ Tail(w)[i] = w[i + 1]
    BY <1>1, <1>2, <1>4
  <2>3. \A j \in 1 .. Len(window) + 1 :
            w[j] = IF j = Len(window) + 1 THEN n ELSE window[j]
    <3> TAKE j \in 1 .. Len(window) + 1
    <3>1. CASE j = Len(window) + 1 BY <1>2, <3>1
    <3>2. CASE j # Len(window) + 1
      <4>1. j \in 1 .. Len(window) BY <1>1, <3>2
      <4> QED BY <1>2, <3>2, <4>1
    <3> QED BY <3>1, <3>2
  <2>4. Len(window') = Len(window) BY <1>1, <1>2, <1>4, <2>1
  <2> QED BY <1>1, <1>4, <1>6, <2>1, <2>2, <2>3, <2>4
<1> QED BY <1>5, <1>6

LEMMA FirstOfPage ==
    ASSUME Types, page # <<>>
    PROVE  /\ Head(page) = page[1] /\ Head(page) \in 1 .. Len(feed)
           /\ Len(page) \in Nat \ {0} /\ DOMAIN page = 1 .. Len(page)
           /\ Tail(page) \in Seq(1 .. Len(feed)) /\ Len(Tail(page)) = Len(page) - 1
           /\ \A i \in 1 .. Len(Tail(page)) : Tail(page)[i] = page[i + 1]
<1>1. page \in Seq(1 .. Len(feed)) BY DEF Types, PollerTypes
<1>2. Len(page) \in Nat \ {0} /\ DOMAIN page = 1 .. Len(page)
  BY <1>1, EmptySeq, LenProperties
<1>3. Head(page) = page[1] BY <1>1
<1> QED BY <1>1, <1>2, <1>3, HeadTailProperties

\* The steps that touch the poller.
LEMMA PollerSteps ==
    ASSUME Types, [Next]_vars
    PROVE  \/ UNCHANGED poller
           \/ Start \/ Poll \/ HandleTrade
           \/ page' = <<>> /\ UNCHANGED <<cursor, window, times>> /\ pc' \in Stopped
<1> USE DEF poller
<1>1. CASE \/ MintRefused \/ CancelAll \/ Burn \/ Stop \/ PollFails \/ Crash
  BY <1>1 DEF MintRefused, CancelAll, Burn, Stop, PollFails, Crash, End, Stopped
<1>2. CASE \/ \E t \in Deals : Happen(t)
           \/ Resolve \/ BootBalance \/ BootPositions \/ BootMint
           \/ BootReread \/ BootSet \/ BootFails \/ EmptyPage \/ ReadCache \/ Assign \/ Mint
           \/ Credit \/ CreditRedis \/ SeeFinalStatus \/ SeeNoFinalStatus \/ Quote
           \/ BurnRefused \/ MintFails \/ CancelFails \/ BurnFails \/ Reconcile
           \/ ReconcilerDies \/ UNCHANGED vars
  BY <1>2
     DEF Happen, Resolve, BootBalance, BootPositions, BootMint, BootReread, BootSet, Boot,
         BootFails, EmptyPage, ReadCache, Assign, Mint, Credit, CreditRedis,
         SeeFinalStatus, SeeNoFinalStatus, Quote, BurnRefused, UndoWindingDown, MintFails,
         CancelFails, BurnFails, Reconcile, FetchBalance, FetchPositions, InSync,
         DetectDrift, CorrectDrift, ReadFresh, AssignFresh, Reconciler, ReconcilerDies,
         vars
<1> QED BY <1>1, <1>2 DEF Next, Restart, BootStep, Cycle, Failure

LEMMA PollTypes ==
    ASSUME Types, Poll
    PROVE  \E first \in 1 .. cursor + 1 :
               /\ first + Overlap > cursor
               /\ page' \in Seq(1 .. Len(feed))
               /\ LET last == Lesser(first + Page - 1, Len(feed))
                  IN  Len(page') = IF first <= last THEN last - first + 1 ELSE 0
               /\ \A i \in 1 .. Len(page') : page'[i] = first + i - 1
<1>1. PICK first \in 1 .. cursor + 1 :
          /\ first + Overlap > cursor
          /\ page' = Numbers(first, Lesser(first + Page - 1, Len(feed)))
  BY DEF Poll
<1>2. cursor \in Nat /\ Len(feed) \in Nat /\ Page \in Nat
  BY LenProperties, FeedAssumption DEF Types, PollerTypes, ExchangeTypes
<1>3. /\ first \in Nat /\ first >= 1 /\ Lesser(first + Page - 1, Len(feed)) \in Nat
      /\ Lesser(first + Page - 1, Len(feed)) <= Len(feed)
  BY <1>1, <1>2 DEF Lesser
<1> DEFINE last == Lesser(first + Page - 1, Len(feed))
<1>4. /\ page' \in Seq(1 .. Len(feed))
      /\ Len(page') = IF first <= last THEN last - first + 1 ELSE 0
      /\ \A i \in 1 .. Len(page') : page'[i] = first + i - 1
  <2> HIDE DEF last
  <2>1. last \in Nat /\ last <= Len(feed) /\ page' = Numbers(first, last)
    BY <1>1, <1>3 DEF last
  <2> QED BY <1>2, <1>3, <2>1, PageNumbers
<1> QED BY <1>1, <1>4

LEMMA PollerTypesStep ==
    ASSUME Types, [Next]_vars
    PROVE  PollerTypes'
<1>1. /\ cursor' \in 0 .. Len(feed) /\ window' \in Seq(1 .. Len(feed))
      /\ Len(window') <= Window /\ page' \in Seq(1 .. Len(feed))
      /\ DOMAIN times' = 1 .. MaxTrades
  <2>0. Len(feed) \in Nat /\ <<>> \in Seq(1 .. Len(feed)) /\ Len(<<>>) = 0 /\ Window \in Nat
    BY NumbersGrow, EmptySeq, FeedAssumption
  <2>1. CASE \/ UNCHANGED poller
             \/ /\ page' = <<>>
                /\ UNCHANGED <<cursor, window, times>>
    BY <2>0, <2>1 DEF Types, PollerTypes, poller
  <2>2. CASE Start
    BY <2>0, <2>2 DEF Start
  <2>3. CASE Poll
    BY <2>3, PollTypes DEF Poll, Types, PollerTypes
  <2>4. CASE HandleTrade
    <3>1. page # <<>> /\ page' = Tail(page) BY <2>4 DEF HandleTrade
    <3>2. page' \in Seq(1 .. Len(feed)) /\ Head(page) \in 1 .. Len(feed)
      BY <3>1, FirstOfPage
    <3>3. cursor' \in 0 .. Len(feed)
      BY <2>4, <3>2, NumbersGrow DEF HandleTrade, Types, PollerTypes
    <3>4. window' \in Seq(1 .. Len(feed)) /\ Len(window') <= Window
      <4>1. CASE Remember(Head(page)) BY <3>2, <4>1, Remembered
      <4>2. CASE window' = window BY <4>2 DEF Types, PollerTypes
      <4> QED BY <2>4, <4>1, <4>2 DEF HandleTrade, SkipTrade, IgnoreTrade, ApplyTrade
    <3>5. DOMAIN times' = 1 .. MaxTrades
      BY <2>4
         DEF HandleTrade, SkipTrade, IgnoreTrade, ApplyTrade, Types, PollerTypes
    <3> QED BY <3>2, <3>3, <3>4, <3>5
  <2>5. \/ UNCHANGED poller \/ Start \/ Poll \/ HandleTrade
        \/ page' = <<>> /\ UNCHANGED <<cursor, window, times>>
    BY PollerSteps
  <2> QED BY <2>1, <2>2, <2>3, <2>4, <2>5 DEF poller
<1>2. 0 .. Len(feed) \subseteq 0 .. Len(feed') BY NumbersGrow
<1> QED BY <1>1, <1>2, NumbersGrow DEF PollerTypes
-----------------------------------------------------------------------------
(***************************************************************************)
(* The market task, the stores and the history.                            *)
(***************************************************************************)
LEMMA MarketTypesStep ==
    ASSUME Types, [Next]_vars
    PROVE  MarketTypes'
<1> USE DEF market
<1>0. /\ MarketTypes /\ truth \in Holdings /\ Nothing \in Inventory
      /\ (Running => redis \in Cached) /\ (rec = "assign" => snap \in Inventory)
  BY Amounts DEF Types, ExchangeTypes, StoreTypes
<1>1. CASE UNCHANGED market BY <1>0, <1>1 DEF MarketTypes
<1>2. CASE \/ Start \/ PollFails \/ MintRefused \/ CancelAll \/ Burn \/ Stop \/ Crash
  <2>1. /\ pc' \in Places /\ phase' \in {phase, "EXPLORATION"}
        /\ requested' \in BOOLEAN
    BY <1>0, <1>2
       DEF Start, PollFails, MintRefused, CancelAll, Burn, Stop, Crash, End, Places, MarketTypes
  <2>2. ctx' \in {ctx, Nothing} /\ local' \in {local, Nothing}
    BY <1>2 DEF Start, PollFails, MintRefused, CancelAll, Burn, Stop, Crash, End
  <2>3. qty' \in Nat
    <3>1. CASE CancelAll
      <4>1. Burnable(ctx) \in Int BY <1>0 DEF Burnable, Lesser, MarketTypes, Inventory
      <4> QED BY <3>1, <4>1 DEF CancelAll, End
    <3> QED
      BY <1>2, <3>1 DEF Start, PollFails, MintRefused, Burn, Stop, Crash, End
  <2> QED BY <1>0, <2>1, <2>2, <2>3 DEF MarketTypes
<1>3. CASE BootBalance \/ BootPositions \/ BootMint \/ BootReread \/ BootSet \/ BootFails
  <2>1. /\ pc' \in Places /\ UNCHANGED <<local, qty, phase, requested>>
    BY <1>3
       DEF BootBalance, BootPositions, BootMint, BootReread, BootSet, Boot, BootFails, Places
  <2>2. ctx' \in Inventory
    <3>0. /\ truth.yes \in Int /\ truth.no \in Int /\ truth.cash \in Int
          /\ ctx \in [yes : Int, no : Int, cash : Int]
      BY <1>0 DEF MarketTypes, Inventory, Holdings
    <3>1. CASE BootBalance \/ BootPositions
      <4>1. /\ [ctx EXCEPT !.cash = truth.cash] \in Inventory
            /\ [ctx EXCEPT !.yes = truth.yes, !.no = truth.no] \in Inventory
        BY <3>0 DEF Inventory
      <4> QED BY <3>1, <4>1 DEF BootBalance, BootPositions
    <3>2. CASE BootReread BY <1>0, <3>2, Amounts DEF BootReread
    <3> QED
      BY <1>0, <1>3, <3>1, <3>2 DEF BootMint, BootSet, BootFails, MarketTypes
  <2> QED BY <1>0, <2>1, <2>2 DEF MarketTypes
<1>4. CASE \/ Poll \/ HandleTrade \/ EmptyPage \/ SeeFinalStatus \/ SeeNoFinalStatus
           \/ Quote \/ BurnRefused \/ CancelFails \/ BurnFails
  <2>1. /\ pc' \in Places /\ UNCHANGED <<ctx, local>> /\ qty' \in {qty, 0}
        /\ requested' \in BOOLEAN /\ phase' \in {phase, "STABILIZATION"}
    BY <1>0, <1>4
       DEF Poll, HandleTrade, EmptyPage, SeeFinalStatus, SeeNoFinalStatus, UpdatePhase,
           Quote, BurnRefused, CancelFails, BurnFails, UndoWindingDown, Go, Places, MarketTypes
  <2> QED BY <1>0, <2>1 DEF MarketTypes
<1>5. CASE ReadCache
  <2>1. Running BY <1>5 DEF ReadCache, Go, Running, Stopped, Booting
  <2>2. local' \in Inventory BY <1>0, <1>5, <2>1, Amounts DEF ReadCache
  <2> QED BY <1>0, <1>5, <2>2 DEF ReadCache, Go, MarketTypes, Places
<1>6. CASE Assign
  <2>1. Surplus(local) \in Int
    BY <1>0, CashAssumption DEF Surplus, MarketTypes, Inventory
  <2>2. qty' \in Nat BY <1>0, <1>6, <2>1 DEF Assign, MarketTypes
  <2> QED BY <1>0, <1>6, <2>2 DEF Assign, MarketTypes, Places
<1>7. CASE Mint \/ MintFails
  BY <1>0, <1>7 DEF Mint, MintFails, Go, MarketTypes, Places
<1>8. CASE Credit
  <2>1. ctx' \in Inventory BY <1>0, <1>8, Amounts DEF Credit, MarketTypes
  <2> QED BY <1>0, <1>8, <2>1 DEF Credit, Go, MarketTypes, Places
<1>9. CASE CreditRedis
  BY <1>0, <1>9 DEF CreditRedis, Go, MarketTypes, Places
<1>10. CASE AssignFresh
  BY <1>0, <1>10 DEF AssignFresh, Reconciler, MarketTypes
<1>11. CASE ReconcilerDies
  BY <1>0, <1>11 DEF ReconcilerDies, MarketTypes
<1>12. CASE \/ \E t \in Deals : Happen(t)
            \/ Resolve \/ UNCHANGED vars
            \/ FetchBalance \/ FetchPositions \/ InSync \/ DetectDrift \/ CorrectDrift
            \/ ReadFresh
  BY <1>1, <1>12
     DEF Happen, Resolve, vars, FetchBalance, FetchPositions, InSync, DetectDrift,
         CorrectDrift, ReadFresh, Reconciler
<1> QED
  BY <1>2, <1>3, <1>4, <1>5, <1>6, <1>7, <1>8, <1>9, <1>10, <1>11, <1>12
     DEF Next, Restart, BootStep, Cycle, Failure, Reconcile

LEMMA HistoryTypesStep ==
    ASSUME Types, [Next]_vars
    PROVE  HistoryTypes'
<1>0. HistoryTypes /\ qty \in Nat BY DEF Types, MarketTypes
<1>1. uncredited' \in Nat
  <2>1. CASE Mint \/ MintFails
    BY <1>0, <2>1 DEF Mint, MintFails, Minted, HistoryTypes
  <2>2. CASE CreditRedis BY <1>0, <2>2 DEF CreditRedis, Credited, HistoryTypes
  <2>3. CASE uncredited' \in {uncredited, 0} BY <1>0, <2>3 DEF HistoryTypes
  <2>4. Next => uncredited' \in {uncredited, 0} \/ Mint \/ MintFails \/ CreditRedis
    BY DEF Next, Happen, Resolve, Restart, Start, BootStep, BootBalance, BootPositions,
           BootMint, BootReread, BootSet, Boot, Cycle, Poll, HandleTrade, EmptyPage,
           ReadCache, Assign, MintRefused, Credit, SeeFinalStatus, SeeNoFinalStatus,
           Quote, CancelAll, Burn, BurnRefused, UndoWindingDown, Stop, Failure, BootFails,
           PollFails, CancelFails, BurnFails, Reconcile, FetchBalance, FetchPositions,
           InSync, DetectDrift, CorrectDrift, ReadFresh, AssignFresh, ReconcilerDies, Crash
  <2> QED BY <2>1, <2>2, <2>3, <2>4 DEF vars
<1>2. seen' \subseteq {"lost"} \cup Incidents
  <2>1. \A kind \in FaultKinds : Fault(kind) => seen' \subseteq {"lost"} \cup Incidents
    BY <1>0 DEF Fault, HistoryTypes
  <2>2. {"lost", "down", "reconcile", "crash"} \subseteq FaultKinds
    BY DEF FaultKinds
  <2>3. CASE BootFails \/ PollFails \/ MintFails \/ CancelFails \/ BurnFails
             \/ ReconcilerDies \/ Crash
    BY <1>0, <2>1, <2>2, <2>3
       DEF BootFails, NoFault, PollFails, MintFails, CancelFails, BurnFails,
           ReconcilerDies, Crash, HistoryTypes
  <2>4. CASE seen' \subseteq seen \cup Incidents BY <1>0, <2>4 DEF HistoryTypes
  <2>5. Next => \/ seen' \subseteq seen \cup Incidents
                \/ BootFails \/ PollFails \/ MintFails \/ CancelFails \/ BurnFails
                \/ ReconcilerDies \/ Crash
    BY DEF Incidents, Next, Happen, Resolve, Restart, Start, BootStep, BootBalance, BootPositions,
           BootMint, BootReread, BootSet, Boot, Cycle, Poll, HandleTrade, EmptyPage,
           ReadCache, Assign, Mint, MintRefused, Credit, CreditRedis, SeeFinalStatus,
           SeeNoFinalStatus, Quote, CancelAll, Burn, BurnRefused, Stop, Failure,
           Reconcile, FetchBalance, FetchPositions, InSync, DetectDrift, CorrectDrift,
           ReadFresh, AssignFresh
  <2> QED BY <2>3, <2>4, <2>5 DEF vars
<1> QED BY <1>1, <1>2 DEF HistoryTypes

\* Redis is there while the market runs; a reconciler runs only then.
LEMMA StoreTypesStep ==
    ASSUME Types, [Next]_vars
    PROVE  StoreTypes'
<1> USE DEF Running, Stopped, Booting
<1>0. /\ StoreTypes /\ truth \in Holdings /\ Nothing \in Inventory /\ pc \in Places
      /\ qty \in Nat /\ ctx \in Inventory
  BY Amounts DEF Types, ExchangeTypes, MarketTypes
<1>1. ASSUME UNCHANGED <<redis, rec, db, snap>>, Running' = Running PROVE StoreTypes'
  BY <1>0, <1>1 DEF StoreTypes
<1>2. ASSUME UNCHANGED <<rec, db, snap>>, Running, Running', redis' \in Cached
      PROVE  StoreTypes'
  BY <1>0, <1>2 DEF StoreTypes
<1>3. CASE \/ \E t \in Deals : Happen(t)
           \/ Resolve \/ Start \/ BootBalance \/ BootPositions \/ BootMint \/ BootReread
           \/ Poll \/ EmptyPage \/ ReadCache \/ Assign \/ Mint \/ MintFails \/ Credit
           \/ SeeFinalStatus \/ SeeNoFinalStatus \/ BurnRefused \/ CancelFails \/ BurnFails
           \/ UNCHANGED vars
  <2>1. UNCHANGED <<redis, rec, db, snap>> /\ Running' = Running
    BY <1>3
       DEF Happen, Resolve, Start, BootBalance, BootPositions, BootMint, BootReread, Boot,
           Poll, EmptyPage, ReadCache, Assign, Mint, MintFails, Credit, SeeFinalStatus,
           SeeNoFinalStatus, BurnRefused, CancelFails, BurnFails, UndoWindingDown, Go,
           reconciler, market, vars
  <2> QED BY <1>1, <2>1
<1>4. CASE BootSet
  <2>1. redis' \in Cached
    BY <1>0, <1>4, ChoicesAssumption DEF BootSet, Cached, Inventory
  <2> QED BY <1>0, <1>4, <2>1 DEF BootSet, Boot, StoreTypes
<1>5. CASE BootFails
  <2>1. pc \in Booting BY <1>5 DEF BootFails, BootMintRefused
  <2>2. redis' = NoKey /\ UNCHANGED <<rec, db, snap>> /\ ~Running' /\ ~Running
    BY <1>5, <2>1 DEF BootFails, reconciler
  <2> QED BY <1>0, <2>2 DEF StoreTypes
<1>6. CASE PollFails \/ MintRefused \/ Burn \/ Stop \/ Crash
  BY <1>0, <1>6 DEF PollFails, MintRefused, Burn, Stop, Crash, End, StoreTypes
<1>7. CASE HandleTrade
  <2>1. redis \in Cached BY <1>0, <1>7 DEF HandleTrade, StoreTypes
  <2>2. redis' \in Cached
    <3>1. page # <<>> BY <1>7 DEF HandleTrade
    <3>2. feed[Head(page)] \in Trade
      BY <3>1, FirstOfPage, ElementOfSeq DEF Types, ExchangeTypes
    <3>3. Plus(redis, Effect(feed[Head(page)])) \in Cached
      BY <2>1, <3>2, Amounts
    <3> QED
      BY <1>7, <2>1, <3>3 DEF HandleTrade, SkipTrade, IgnoreTrade, ApplyTrade
  <2> QED BY <1>2, <1>7, <2>2 DEF HandleTrade, reconciler
<1>8. CASE CreditRedis
  <2>1. redis \in Cached BY <1>0, <1>8 DEF CreditRedis, Go, StoreTypes
  <2>2. redis' \in Cached BY <1>0, <1>8, <2>1, Amounts DEF CreditRedis
  <2> QED BY <1>2, <1>8, <2>2 DEF CreditRedis, Go, reconciler
<1>9. CASE Quote
  <2>1. redis \in Cached BY <1>0, <1>9 DEF Quote, Go, StoreTypes
  <2>2. redis' \in Cached BY <1>9, <2>1 DEF Quote, Cached
  <2> QED BY <1>2, <1>9, <2>2 DEF Quote, Go, reconciler
<1>10. CASE CancelAll
  <2>1. redis \in Cached BY <1>0, <1>10 DEF CancelAll, StoreTypes
  <2>2. redis' \in Cached
    BY <1>10, <2>1, ChoicesAssumption DEF CancelAll, Cached
  <2> QED BY <1>0, <1>10, <2>2 DEF CancelAll, End, reconciler, StoreTypes
<1>11. CASE \/ FetchBalance \/ FetchPositions \/ InSync \/ DetectDrift \/ ReadFresh
            \/ AssignFresh
  <2>1. Running /\ Running' /\ redis \in Cached /\ UNCHANGED redis
    BY <1>0, <1>11
       DEF FetchBalance, FetchPositions, InSync, DetectDrift, ReadFresh, AssignFresh,
           Reconciler, StoreTypes
  <2>2. rec' \in {"balance", "positions", "cache", "set", "assign"}
    BY <1>11
       DEF FetchBalance, FetchPositions, InSync, DetectDrift, ReadFresh, AssignFresh,
           Reconciler
  <2>3. db' \in Inventory
    <3>1. /\ Delta(0, 0, truth.cash) \in Inventory
          /\ [db EXCEPT !.yes = truth.yes, !.no = truth.no] \in Inventory
      <4>1. /\ truth.yes \in Int /\ truth.no \in Int /\ truth.cash \in Int
            /\ db \in [yes : Int, no : Int, cash : Int]
        BY <1>0 DEF Holdings, Inventory, StoreTypes
      <4>2. Delta(0, 0, truth.cash) \in Inventory BY <4>1 DEF Delta, Inventory
      <4>3. [db EXCEPT !.yes = truth.yes, !.no = truth.no] \in Inventory
        BY <4>1 DEF Inventory
      <4> QED BY <4>2, <4>3
    <3> QED
      BY <1>0, <1>11, <3>1
         DEF FetchBalance, FetchPositions, InSync, DetectDrift, ReadFresh, AssignFresh,
             StoreTypes
  <2>4. (rec' = "set" => snap' \in Cached) /\ (rec' = "assign" => snap' \in Inventory)
    <3>1. Position(redis) \in Inventory BY <2>1, Amounts
    <3> QED
      BY <1>11, <2>1, <3>1
         DEF FetchBalance, FetchPositions, InSync, DetectDrift, ReadFresh, AssignFresh,
             Reconciler
  <2> QED BY <2>1, <2>2, <2>3, <2>4 DEF StoreTypes
<1>12. CASE CorrectDrift
  <2>1. redis' \in Cached
    BY <1>0, <1>12 DEF CorrectDrift, Reconciler, StoreTypes, Cached, Inventory
  <2> QED BY <1>0, <1>12, <2>1 DEF CorrectDrift, Reconciler, StoreTypes
<1>13. CASE ReconcilerDies
  BY <1>0, <1>13 DEF ReconcilerDies, StoreTypes
<1> QED
  BY <1>3, <1>4, <1>5, <1>6, <1>7, <1>8, <1>9, <1>10, <1>11, <1>12, <1>13
     DEF Next, Restart, BootStep, Cycle, Failure, Reconcile

LEMMA TypesStep == Types /\ [Next]_vars => Types'
BY FeedGrows, PollerTypesStep, MarketTypesStep, StoreTypesStep, HistoryTypesStep DEF Types

LEMMA TypesInit == Init => Types
<1> SUFFICES ASSUME Init PROVE Types
  OBVIOUS
<1>0. \A T : <<>> \in Seq(T) /\ Len(<<>>) = 0 BY EmptySeq
<1>1. ExchangeTypes
  <2>1. Delta(0, 0, InitialCash) \in Holdings BY CashAssumption DEF Delta, Holdings
  <2>2. feed \in Seq(Trade) /\ Len(feed) <= MaxTrades
    BY <1>0, FeedAssumption DEF Init
  <2> QED BY <2>1, <2>2 DEF Init, ExchangeTypes
<1>2. PollerTypes BY <1>0, FeedAssumption DEF Init, PollerTypes
<1>3. MarketTypes BY Amounts DEF Init, MarketTypes, Places
<1>4. StoreTypes
  BY Amounts DEF Init, StoreTypes, Running, Stopped
<1>5. HistoryTypes BY DEF Init, HistoryTypes
<1> QED BY <1>1, <1>2, <1>3, <1>4, <1>5 DEF Types

\* Whatever is traded, lost, failed or crashed, the exchange's holdings are
\* never negative, and the inventory and its copies stay what they are.
THEOREM TypeCorrect == Spec => []TypeOK
BY TypesInit, TypesStep, TypesAreTypes, PTL DEF Spec

-----------------------------------------------------------------------------
(***************************************************************************)
(* The poller applies each trade once.  The invariant: all trades up to    *)
(* some number have been handled, the AMM's own applied, the others not,   *)
(* and the window holds the last of them.  A page is a run of trades that  *)
(* repeats no more than the window remembers and leaves out none.          *)
(***************************************************************************)
Handled == IF page # <<>> /\ page[1] > cursor THEN page[1] - 1 ELSE cursor

PollerInv ==
    /\ page # <<>> =>
           /\ page[1] + Overlap > cursor
           /\ page[1] + Len(page) - 1 >= cursor
           /\ \A i \in DOMAIN page : page[i] = page[1] + i - 1
    /\ Len(window) = Lesser(Handled, Window)
    /\ \A i \in DOMAIN window : window[i] = Handled - Len(window) + i
    /\ \A n \in DOMAIN feed :
           times[n] = IF n <= Handled /\ IsAmmTrade(feed[n]) THEN 1 ELSE 0

Fresh == /\ cursor = 0 /\ window = <<>> /\ page = <<>>
         /\ times = [n \in 1 .. MaxTrades |-> 0]

\* A trade that has not happened has not been applied.
Ahead == \A n \in 1 .. MaxTrades : n > Len(feed) => times[n] = 0

Polling ==
    /\ pc \notin Stopped => PollerInv /\ Ahead
    /\ pc \in Booting => Fresh
    /\ pc # "apply" => page = <<>>

LEMMA PollerNumbers ==
    ASSUME Types
    PROVE  /\ cursor \in Nat /\ cursor <= Len(feed) /\ Len(feed) \in Nat
           /\ Handled \in Nat /\ Handled <= Len(feed)
           /\ Len(window) \in Nat /\ DOMAIN window = 1 .. Len(window)
           /\ DOMAIN feed = 1 .. Len(feed) /\ Len(feed) <= MaxTrades
           /\ Overlap \in Nat /\ Page \in Nat /\ Window \in Nat
<1>1. /\ Len(feed) \in Nat /\ DOMAIN feed = 1 .. Len(feed) /\ Len(feed) <= MaxTrades
      /\ Len(window) \in Nat /\ DOMAIN window = 1 .. Len(window)
  BY LenProperties DEF Types, ExchangeTypes, PollerTypes
<1>2. cursor \in Nat /\ cursor <= Len(feed) BY <1>1 DEF Types, PollerTypes
<1>3. page # <<>> => page[1] \in 1 .. Len(feed) BY FirstOfPage
<1> QED BY <1>1, <1>2, <1>3, FeedAssumption DEF Handled

\* After a start nothing has been handled.
LEMMA StartIsFresh ==
    ASSUME Types, Fresh
    PROVE  PollerInv /\ Ahead
<1>1. Handled = 0 BY DEF Fresh, Handled
<1>2. Len(window) = 0 /\ DOMAIN window = {} BY PollerNumbers DEF Fresh
<1>3. Lesser(0, Window) = 0 BY PollerNumbers DEF Lesser
<1>4. \A n \in 1 .. MaxTrades : times[n] = 0 BY DEF Fresh
<1>5. DOMAIN feed \subseteq 1 .. MaxTrades BY PollerNumbers, FeedAssumption
<1>6. \A n \in DOMAIN feed : ~(n <= Handled) BY <1>1, PollerNumbers
<1> QED BY <1>1, <1>2, <1>3, <1>4, <1>5, <1>6 DEF PollerInv, Ahead, Fresh

\* Trades that happen meanwhile are not handled yet.
LEMMA FeedKeeps ==
    ASSUME Types, [Next]_vars, UNCHANGED poller, PollerInv, Ahead
    PROVE  PollerInv' /\ Ahead'
<1>1. Handled' = Handled BY DEF Handled, poller
<1>2. /\ Len(feed') \in Nat /\ Len(feed) <= Len(feed') /\ Len(feed') <= MaxTrades
      /\ DOMAIN feed' = 1 .. Len(feed')
      /\ \A n \in DOMAIN feed : feed'[n] = feed[n]
  BY NumbersGrow
<1>3. \A n \in DOMAIN feed' :
          times'[n] = IF n <= Handled' /\ IsAmmTrade(feed'[n]) THEN 1 ELSE 0
  <2> TAKE n \in DOMAIN feed'
  <2>1. CASE n \in DOMAIN feed
    BY <1>1, <1>2, <2>1 DEF PollerInv, poller
  <2>2. CASE n \notin DOMAIN feed
    <3>1. n > Len(feed) /\ n \in 1 .. MaxTrades
      BY <1>2, <2>2, PollerNumbers, FeedAssumption
    <3>2. times'[n] = 0 /\ ~(n <= Handled')
      BY <1>1, <1>2, <3>1, PollerNumbers DEF Ahead, poller
    <3> QED BY <3>2
  <2> QED BY <2>1, <2>2
<1>4. Ahead'
  BY <1>2, PollerNumbers, FeedAssumption DEF Ahead, poller
<1>5. /\ page' # <<>> =>
             /\ page'[1] + Overlap > cursor'
             /\ page'[1] + Len(page') - 1 >= cursor'
             /\ \A i \in DOMAIN page' : page'[i] = page'[1] + i - 1
      /\ Len(window') = Lesser(Handled', Window)
      /\ \A i \in DOMAIN window' : window'[i] = Handled' - Len(window') + i
  BY <1>1 DEF PollerInv, poller
<1> QED BY <1>3, <1>4, <1>5 DEF PollerInv

\* A page begins where the window still remembers, and ends beyond the cursor.
LEMMA PollKeeps ==
    ASSUME Types, Poll, PollerInv, Ahead, page = <<>>
    PROVE  PollerInv' /\ Ahead'
<1>1. UNCHANGED <<feed, cursor, window, times>> BY DEF Poll, exchange
<1>2. PICK first \in 1 .. cursor + 1 :
          /\ first + Overlap > cursor
          /\ page' \in Seq(1 .. Len(feed))
          /\ LET last == Lesser(first + Page - 1, Len(feed))
             IN  Len(page') = IF first <= last THEN last - first + 1 ELSE 0
          /\ \A i \in 1 .. Len(page') : page'[i] = first + i - 1
  BY PollTypes
<1> DEFINE last == Lesser(first + Page - 1, Len(feed))
<1>3. first \in Nat /\ first >= 1 /\ first <= cursor + 1
  BY <1>2, PollerNumbers
<1>4. last \in Nat /\ last >= cursor
  BY <1>2, <1>3, PollerNumbers, FeedAssumption DEF Lesser
<1>5. Len(page') = IF first <= last THEN last - first + 1 ELSE 0
  BY <1>2
<1>6. DOMAIN page' = 1 .. Len(page') /\ (page' # <<>> => Len(page') \in Nat \ {0})
  BY <1>2, LenProperties, EmptySeq
<1> HIDE DEF last
<1>7. page' # <<>> => page'[1] = first /\ Len(page') = last - first + 1
  BY <1>2, <1>3, <1>4, <1>5, <1>6
<1>8. Handled = cursor /\ Handled' = Handled
  BY <1>1, <1>3, <1>7, PollerNumbers DEF Handled
<1>9. page' # <<>> =>
          /\ page'[1] + Overlap > cursor /\ page'[1] + Len(page') - 1 >= cursor
          /\ \A i \in DOMAIN page' : page'[i] = page'[1] + i - 1
  BY <1>2, <1>3, <1>4, <1>6, <1>7, PollerNumbers
<1> QED BY <1>1, <1>8, <1>9 DEF PollerInv, Ahead

\* A trade of the page is already handled, and in the window, or is the next.
LEMMA HandleKeeps ==
    ASSUME Types, HandleTrade, PollerInv, Ahead
    PROVE  PollerInv' /\ Ahead'
<1> DEFINE k == page[1]
           nothing == UNCHANGED <<window, times>>
           applied == times' = [times EXCEPT ![k] = @ + 1]
<1>1. page # <<>> /\ page' = Tail(page) /\ feed' = feed
  BY DEF HandleTrade, exchange
<1>2. /\ Head(page) = k /\ k \in Nat /\ k >= 1 /\ k <= Len(feed)
      /\ Len(page) \in Nat \ {0} /\ DOMAIN page = 1 .. Len(page)
      /\ page' \in Seq(1 .. Len(feed)) /\ Len(page') = Len(page) - 1
      /\ DOMAIN page' = 1 .. Len(page')
      /\ \A i \in 1 .. Len(page') : page'[i] = page[i + 1]
  BY <1>1, FirstOfPage, PollerNumbers, LenProperties
<1>3. /\ k + Overlap > cursor /\ k + Len(page) - 1 >= cursor
      /\ \A i \in 1 .. Len(page) : page[i] = k + i - 1
  BY <1>1, <1>2 DEF PollerInv
<1> HIDE DEF k
<1>4. /\ Len(page) = 1 => page' = <<>> /\ cursor' = k
      /\ Len(page) # 1 => /\ cursor' = cursor /\ page' # <<>>
                          /\ Len(page') \in Nat \ {0}
  <2>1. Len(page) = 1 => page' = <<>> BY <1>2, EmptySeq
  <2>2. Len(page) # 1 => Len(page') \in Nat \ {0} BY <1>2
  <2>3. Len(page) # 1 => page' # <<>> BY <2>2, EmptySeq
  <2>4. IF Len(page) = 1 THEN cursor' = k ELSE cursor' = cursor
    BY <1>2 DEF HandleTrade
  <2> QED BY <2>1, <2>2, <2>3, <2>4
<1>5. \A i \in 1 .. Len(page') : page'[i] = k + i
  <2> TAKE i \in 1 .. Len(page')
  <2>1. i + 1 \in 1 .. Len(page) BY <1>2
  <2> QED BY <1>2, <1>3, <2>1
<1>6. page' # <<>> =>
          /\ page'[1] = k + 1
          /\ page'[1] + Overlap > cursor' /\ page'[1] + Len(page') - 1 >= cursor'
          /\ \A i \in DOMAIN page' : page'[i] = page'[1] + i - 1
  <2> SUFFICES ASSUME page' # <<>>
               PROVE  /\ page'[1] = k + 1
                      /\ page'[1] + Overlap > cursor'
                      /\ page'[1] + Len(page') - 1 >= cursor'
                      /\ \A i \in DOMAIN page' : page'[i] = page'[1] + i - 1
    OBVIOUS
  <2>1. cursor' = cursor /\ Len(page') \in Nat \ {0} BY <1>2, <1>4
  <2>2. page'[1] = k + 1 BY <1>5, <2>1
  <2>3. page'[1] + Overlap > cursor' /\ page'[1] + Len(page') - 1 >= cursor'
    BY <1>2, <1>3, <2>1, <2>2, PollerNumbers
  <2>4. \A i \in 1 .. Len(page') : page'[i] = page'[1] + i - 1
    BY <1>2, <1>5, <2>1, <2>2
  <2> QED BY <1>2, <2>2, <2>3, <2>4
<1>7. /\ Len(window) = Lesser(Handled, Window)
      /\ \A i \in 1 .. Len(window) : window[i] = Handled - Len(window) + i
      /\ \A n \in DOMAIN feed :
             times[n] = IF n <= Handled /\ IsAmmTrade(feed[n]) THEN 1 ELSE 0
  BY PollerNumbers DEF PollerInv
<1>8. CASE k <= cursor
  <2>1. Handled = cursor BY <1>2, <1>8, PollerNumbers DEF Handled, k
  <2>2. Handled' = Handled
    <3>1. CASE Len(page) = 1
      <4>1. k >= cursor BY <1>2, <1>3, <3>1, PollerNumbers
      <4>2. page' = <<>> /\ cursor' = k BY <1>4, <3>1
      <4> QED BY <1>2, <1>8, <2>1, <4>1, <4>2, PollerNumbers DEF Handled
    <3>2. CASE Len(page) # 1
      <4>1. page' # <<>> /\ cursor' = cursor /\ page'[1] = k + 1 BY <1>4, <1>6, <3>2
      <4> QED BY <1>2, <1>8, <2>1, <4>1, PollerNumbers DEF Handled
    <3> QED BY <3>1, <3>2
  <2>3. IsProcessed(k)
    <3> DEFINE i == k - cursor + Len(window)
    <3>1. i \in 1 .. Len(window)
      BY <1>2, <1>3, <1>7, <1>8, <2>1, PollerNumbers, FeedAssumption DEF Lesser
    <3>2. window[i] = k BY <1>2, <1>7, <2>1, <3>1, PollerNumbers
    <3> QED BY <3>1, <3>2, PollerNumbers DEF IsProcessed
  <2>4. nothing
    BY <1>2, <2>3 DEF HandleTrade, SkipTrade, IgnoreTrade, ApplyTrade
  <2> QED BY <1>1, <1>6, <2>2, <2>4 DEF PollerInv, Ahead
<1>9. CASE k > cursor
  <2>1. Handled = k - 1 BY <1>1, <1>2, <1>9, PollerNumbers DEF Handled, k
  <2>2. Handled' = k
    <3>1. CASE Len(page) = 1 BY <1>4, <3>1 DEF Handled
    <3>2. CASE Len(page) # 1
      <4>1. page' # <<>> /\ cursor' = cursor /\ page'[1] = k + 1 BY <1>4, <1>6, <3>2
      <4> QED BY <1>2, <1>9, <4>1, PollerNumbers DEF Handled
    <3> QED BY <3>1, <3>2
  <2>3. ~IsProcessed(k)
    <3>1. \A i \in 1 .. Len(window) : window[i] # k
      BY <1>2, <1>7, <2>1, PollerNumbers
    <3> QED BY <3>1, PollerNumbers DEF IsProcessed
  <2>4. /\ Remember(k)
        /\ \/ ~IsAmmTrade(feed[k]) /\ times' = times
           \/ IsAmmTrade(feed[k]) /\ applied
    BY <1>2, <2>3 DEF HandleTrade, SkipTrade, IgnoreTrade, ApplyTrade
  <2>5. /\ Len(window') = IF Len(window) < Window THEN Len(window) + 1 ELSE Len(window)
        /\ \A i \in 1 .. Len(window') :
               window'[i] = LET j == IF Len(window) < Window THEN i ELSE i + 1
                            IN  IF j = Len(window) + 1 THEN k ELSE window[j]
        /\ DOMAIN window' = 1 .. Len(window') /\ Len(window') \in Nat
    <3>1. k \in 1 .. Len(feed) BY <1>2, PollerNumbers
    <3> QED BY <2>4, <3>1, Remembered, LenProperties
  <2>6. Len(window') = Lesser(Handled', Window)
    BY <1>2, <1>7, <2>1, <2>2, <2>5, PollerNumbers DEF Lesser
  <2>7. \A i \in DOMAIN window' : window'[i] = Handled' - Len(window') + i
    <3> TAKE i \in DOMAIN window'
    <3>1. ASSUME NEW j \in 1 .. Len(window) + 1,
                 window'[i] = IF j = Len(window) + 1 THEN k ELSE window[j]
          PROVE  window'[i] = k - 1 - Len(window) + j
      <4>1. CASE j = Len(window) + 1 BY <1>2, <3>1, <4>1, PollerNumbers
      <4>2. CASE j # Len(window) + 1
        <5>1. j \in 1 .. Len(window) BY <4>2, PollerNumbers
        <5>2. window[j] = k - 1 - Len(window) + j BY <1>7, <2>1, <5>1
        <5> QED BY <3>1, <4>2, <5>2
      <4> QED BY <4>1, <4>2
    <3>2. i \in 1 .. Len(window') BY <2>5
    <3>3. CASE Len(window) < Window
      <4>1. Len(window') = Len(window) + 1 BY <2>5, <3>3
      <4>2. i \in 1 .. Len(window) + 1 BY <3>2, <4>1
      <4>3. window'[i] = IF i = Len(window) + 1 THEN k ELSE window[i]
        BY <2>5, <3>2, <3>3
      <4>4. window'[i] = k - 1 - Len(window) + i BY <3>1, <4>2, <4>3
      <4> QED BY <1>2, <2>2, <4>1, <4>2, <4>4, PollerNumbers
    <3>4. CASE ~(Len(window) < Window)
      <4>1. Len(window') = Len(window) BY <2>5, <3>4
      <4>2. i + 1 \in 1 .. Len(window) + 1 BY <3>2, <4>1, PollerNumbers
      <4>3. window'[i] = IF i + 1 = Len(window) + 1 THEN k ELSE window[i + 1]
        BY <2>5, <3>2, <3>4
      <4>4. window'[i] = k - 1 - Len(window) + (i + 1) BY <3>1, <4>2, <4>3
      <4> QED BY <1>2, <2>2, <3>2, <4>1, <4>4, PollerNumbers
    <3> QED BY <3>3, <3>4
  <2>8. DOMAIN times = 1 .. MaxTrades /\ k \in DOMAIN times /\ k \in DOMAIN feed
    BY <1>2, PollerNumbers, FeedAssumption DEF Types, PollerTypes
  <2>9. times[k] = 0
    <3>1. ~(k <= Handled) BY <1>2, <2>1
    <3> QED BY <1>7, <2>8, <3>1
  <2>10. /\ \A n \in DOMAIN times : n # k => times'[n] = times[n]
         /\ times'[k] = IF IsAmmTrade(feed[k]) THEN 1 ELSE 0
    <3>1. CASE ~IsAmmTrade(feed[k]) /\ times' = times BY <2>9, <3>1
    <3>2. CASE IsAmmTrade(feed[k]) /\ applied
      <4>1. times' = [n \in DOMAIN times |-> IF n = k THEN times[k] + 1 ELSE times[n]]
        BY <3>2
      <4> QED BY <2>8, <2>9, <3>2, <4>1
    <3> QED BY <2>4, <3>1, <3>2
  <2>11. \A n \in DOMAIN feed' :
             times'[n] = IF n <= Handled' /\ IsAmmTrade(feed'[n]) THEN 1 ELSE 0
    <3> TAKE n \in DOMAIN feed'
    <3>1. n \in DOMAIN feed /\ n \in DOMAIN times /\ n \in Nat
      BY <1>1, <2>8, PollerNumbers, FeedAssumption
    <3>2. CASE n = k BY <1>1, <1>2, <2>2, <2>10, <3>2
    <3>3. CASE n # k
      <4>1. n <= k <=> n <= k - 1 BY <1>2, <3>1, <3>3
      <4> QED BY <1>1, <1>7, <2>1, <2>2, <2>10, <3>1, <3>3, <4>1
    <3> QED BY <3>2, <3>3
  <2>12. Ahead'
    <3>1. \A n \in 1 .. MaxTrades : n > Len(feed) => n # k BY <1>2, PollerNumbers
    <3> QED BY <1>1, <2>8, <2>10, <3>1 DEF Ahead
  <2> QED BY <1>6, <2>6, <2>7, <2>11, <2>12 DEF PollerInv
<1> QED BY <1>2, <1>8, <1>9, PollerNumbers

\* Where the market task goes while the poller rests.
LEMMA Flow ==
    ASSUME [Next]_vars, UNCHANGED poller, ~Start, ~Poll, ~HandleTrade
    PROVE  \/ pc' = pc
           \/ pc' \in Stopped /\ (pc = "apply" => page' = <<>>)
           \/ /\ pc \notin Stopped /\ pc' # "apply"
              /\ pc' \in Booting => pc \in Booting
              /\ pc = "apply" => page = <<>>
<1> USE DEF market, Stopped, Booting
<1>1. CASE \/ \E t \in Deals : Happen(t)
           \/ Resolve \/ Reconcile \/ ReconcilerDies \/ UNCHANGED vars
  BY <1>1
     DEF Happen, Resolve, Reconcile, FetchBalance, FetchPositions, InSync, DetectDrift,
         CorrectDrift, ReadFresh, AssignFresh, Reconciler, ReconcilerDies, vars
<1>2. CASE \/ PollFails \/ MintRefused \/ Burn \/ Stop \/ Crash \/ BootFails
  BY <1>2 DEF PollFails, MintRefused, Burn, Stop, Crash, BootFails, BootMintRefused, End
<1>3. CASE \/ BootBalance \/ BootPositions \/ BootMint \/ BootReread \/ BootSet
  BY <1>3 DEF BootBalance, BootPositions, BootMint, BootReread, BootSet, Boot
<1>4. CASE \/ EmptyPage \/ ReadCache \/ Assign \/ Mint \/ Credit \/ CreditRedis
           \/ SeeFinalStatus \/ SeeNoFinalStatus \/ Quote \/ CancelAll \/ BurnRefused
           \/ MintFails \/ CancelFails \/ BurnFails
  BY <1>4
     DEF EmptyPage, ReadCache, Assign, Mint, Credit, CreditRedis, SeeFinalStatus,
         SeeNoFinalStatus, Quote, CancelAll, End, BurnRefused, MintFails, CancelFails,
         BurnFails, UndoWindingDown, Go
<1> QED
  BY <1>1, <1>2, <1>3, <1>4 DEF Next, Restart, BootStep, Cycle, Failure

LEMMA PollingStep == Types /\ Types' /\ Polling /\ [Next]_vars => Polling'
<1> SUFFICES ASSUME Types, Types', Polling, [Next]_vars PROVE Polling'
  OBVIOUS
<1> USE DEF Stopped, Booting
<1>1. CASE Start
  <2>1. Fresh' /\ pc' = "balance" BY <1>1 DEF Start, Fresh
  <2>2. PollerInv' /\ Ahead'
    <3>1. Types' /\ Fresh' => PollerInv' /\ Ahead' BY StartIsFresh, PTL
    <3> QED BY <2>1, <3>1
  <2> QED BY <2>1, <2>2 DEF Polling, Fresh
<1>2. CASE Poll
  <2>1. pc = "idle" /\ pc' = "apply" BY <1>2 DEF Poll, Go
  <2> QED BY <1>2, <2>1, PollKeeps DEF Polling
<1>3. CASE HandleTrade
  <2>1. pc = "apply" /\ pc' \in {"apply", "locked"} BY <1>3 DEF HandleTrade
  <2>2. pc' = "locked" => page' = <<>>
    <3>1. pc' = "locked" => Len(page) = 1 BY <1>3, <2>1 DEF HandleTrade
    <3>2. page # <<>> /\ page' = Tail(page) BY <1>3 DEF HandleTrade
    <3>3. page' \in Seq(1 .. Len(feed)) /\ Len(page') = Len(page) - 1
      BY <3>2, FirstOfPage
    <3>4. pc' = "locked" => Len(page') = 0 BY <3>1, <3>3
    <3> QED BY <3>3, <3>4, EmptySeq
  <2> QED BY <1>3, <2>1, <2>2, HandleKeeps DEF Polling
<1>4. CASE page' = <<>> /\ pc' \in Stopped BY <1>4 DEF Polling
<1>5. CASE UNCHANGED poller /\ ~Start /\ ~Poll /\ ~HandleTrade
  <2>1. pc' \notin Stopped => PollerInv' /\ Ahead'
    BY <1>5, Flow, FeedKeeps DEF Polling
  <2>2. pc' \in Booting => Fresh'
    BY <1>5, Flow DEF Polling, Fresh, poller
  <2>3. pc' # "apply" => page' = <<>>
    BY <1>5, Flow DEF Polling, poller
  <2> QED BY <2>1, <2>2, <2>3 DEF Polling
<1> QED BY <1>1, <1>2, <1>3, <1>4, <1>5, PollerSteps

LEMMA PollingInit == Init => Polling
BY DEF Init, Polling, Stopped, Booting

LEMMA PollingIsExact == Types /\ Polling => PolledExactlyOnce
<1> SUFFICES ASSUME Types, Polling, Running, NEW n \in DOMAIN feed
             PROVE  /\ times[n] <= 1
                    /\ times[n] = 1 => IsAmmTrade(feed[n])
                    /\ n <= cursor /\ IsAmmTrade(feed[n]) => times[n] = 1
  BY DEF PolledExactlyOnce
<1>1. times[n] = IF n <= Handled /\ IsAmmTrade(feed[n]) THEN 1 ELSE 0
  BY DEF Polling, PollerInv, Running
<1>2. Handled >= cursor /\ n \in Nat
  <2>1. page # <<>> => page[1] \in Nat BY FirstOfPage, PollerNumbers
  <2> QED BY <2>1, PollerNumbers DEF Handled
<1> QED BY <1>1, <1>2, PollerNumbers

\* Whatever the pages repeat, up to what the window remembers, and whatever
\* trades while one is being handled, each trade of the AMM is applied once.
THEOREM EachTradeOnce == Spec => []PolledExactlyOnce
<1>1. Spec => [](Types /\ Polling)
  BY TypesInit, TypesStep, PollingInit, PollingStep, PTL DEF Spec
<1> QED BY <1>1, PollingIsExact, PTL

-----------------------------------------------------------------------------
(***************************************************************************)
(* A start mints from nothing.  Between the read that found no position    *)
(* and the mint, orders of an earlier life may trade: they only sell, as   *)
(* the ladders do (gradient.py) and the sanitizer demands (sanitizer.py).  *)
(***************************************************************************)
OnlySells == \A t \in Deals : TrueEffect(t).yes <= 0 /\ TrueEffect(t).no <= 0

AtMint == pc = "initMint" => truth.yes = 0 /\ truth.no = 0

LEMMA AtMintStep ==
    ASSUME OnlySells, Types, AtMint, [Next]_vars
    PROVE  AtMint'
<1> SUFFICES ASSUME pc' = "initMint" PROVE truth'.yes = 0 /\ truth'.no = 0
  BY DEF AtMint
<1> USE DEF exchange, market
<1>1. CASE BootPositions
  BY <1>1 DEF BootPositions, Boot
<1>2. CASE \E t \in Deals : Happen(t)
  <2>1. PICK t \in Deals : Happen(t) BY <1>2
  <2>2. truth.yes = 0 /\ truth.no = 0 BY <2>1 DEF Happen, AtMint
  <2>3. truth \in Inventory /\ TrueEffect(t) \in Inventory
    BY Amounts, DealsAssumption DEF Types, ExchangeTypes
  <2>4. /\ truth'.yes = truth.yes + TrueEffect(t).yes /\ truth'.yes >= 0
        /\ truth'.no = truth.no + TrueEffect(t).no /\ truth'.no >= 0
    BY <2>1, <2>3, Sums DEF Happen
  <2>5. /\ TrueEffect(t).yes \in Int /\ TrueEffect(t).yes <= 0
        /\ TrueEffect(t).no \in Int /\ TrueEffect(t).no <= 0
    BY <2>3 DEF OnlySells, Inventory
  <2> QED BY <2>2, <2>4, <2>5
<1>3. CASE Resolve \/ Reconcile \/ ReconcilerDies \/ UNCHANGED vars
  BY <1>3
     DEF AtMint, Resolve, Reconcile, FetchBalance, FetchPositions, InSync, DetectDrift,
         CorrectDrift, ReadFresh, AssignFresh, Reconciler, ReconcilerDies, vars
<1>4. ~ \/ Start \/ BootBalance \/ BootMint \/ BootReread \/ BootSet \/ BootFails
        \/ Poll \/ HandleTrade \/ EmptyPage \/ ReadCache \/ Assign \/ Mint \/ MintRefused
        \/ Credit \/ CreditRedis \/ SeeFinalStatus \/ SeeNoFinalStatus \/ Quote
        \/ CancelAll \/ Burn \/ BurnRefused \/ Stop \/ PollFails \/ MintFails
        \/ CancelFails \/ BurnFails \/ Crash
  BY DEF Start, BootBalance, BootMint, BootReread, BootSet, Boot, BootFails, Poll,
         HandleTrade, EmptyPage, ReadCache, Assign, Mint, MintRefused, Credit, CreditRedis,
         SeeFinalStatus, SeeNoFinalStatus, Quote, CancelAll, Burn, BurnRefused, Stop,
         PollFails, MintFails, CancelFails, BurnFails, UndoWindingDown, Crash, End, Go
<1> QED
  BY <1>1, <1>2, <1>3, <1>4 DEF Next, Restart, BootStep, Cycle, Failure

\* However the starts, failures and crashes follow each other, the initial mint
\* is never added to a position, as long as the bot's orders only sell.
THEOREM MintsFromNothing == OnlySells => (Spec => StartMintsFromNothing)
<1> SUFFICES ASSUME OnlySells PROVE Spec => StartMintsFromNothing
  OBVIOUS
<1>1. Init => AtMint BY DEF Init, AtMint
<1>2. Types /\ AtMint /\ [Next]_vars => AtMint'
  BY AtMintStep
<1>3. AtMint => [pc = "initMint" /\ truth'.yes > truth.yes
                    => truth.yes = 0 /\ truth.no = 0]_vars
  BY DEF AtMint
<1> QED
  BY <1>1, <1>2, <1>3, TypesInit, TypesStep, PTL DEF Spec, StartMintsFromNothing

-----------------------------------------------------------------------------
(***************************************************************************)
(* The books.  What the exchange did and Redis was not told of is, field   *)
(* by field, a sum over the trades that were not polled yet.               *)
(***************************************************************************)
LEMMA Fieldwise ==
    /\ DOMAIN Nothing = {"yes", "no", "cash"}
    /\ \A field \in DOMAIN Nothing :
           /\ Nothing[field] = 0
           /\ \A inv \in Inventory \cup Cached : inv[field] \in Int
           /\ \A inv \in Cached : Position(inv)[field] = inv[field]
           /\ \A inv \in Inventory \cup Cached, delta \in Inventory :
                  Plus(inv, delta)[field] = inv[field] + delta[field]
    /\ \A inv, other \in Inventory :
           (\A field \in DOMAIN Nothing : inv[field] = other[field]) => inv = other
<1>1. DOMAIN Nothing = {"yes", "no", "cash"} BY DEF Nothing
<1>2. \A field \in DOMAIN Nothing :
          /\ Nothing[field] = 0
          /\ \A inv \in Inventory \cup Cached : inv[field] \in Int
          /\ \A inv \in Cached : Position(inv)[field] = inv[field]
  BY <1>1 DEF Nothing, Inventory, Cached, Position, Delta
<1>3. ASSUME NEW field \in DOMAIN Nothing, NEW inv \in Inventory \cup Cached,
             NEW delta \in Inventory
      PROVE  Plus(inv, delta)[field] = inv[field] + delta[field]
  <2>1. /\ Plus(inv, delta).yes = inv.yes + delta.yes
        /\ Plus(inv, delta).no = inv.no + delta.no
        /\ Plus(inv, delta).cash = inv.cash + delta.cash
    BY Sums
  <2>2. CASE field = "yes" BY <2>1, <2>2
  <2>3. CASE field = "no" BY <2>1, <2>3
  <2>4. CASE field = "cash" BY <2>1, <2>4
  <2> QED BY <1>1, <2>2, <2>3, <2>4
<1>4. \A inv, other \in Inventory :
          (\A field \in DOMAIN Nothing : inv[field] = other[field]) => inv = other
  BY <1>1 DEF Inventory
<1> QED BY <1>1, <1>2, <1>3, <1>4

LEMMA PairsAdd ==
    ASSUME NEW m \in Int, NEW n \in Int, NEW field \in DOMAIN Nothing
    PROVE  /\ Pairs(m + n)[field] = Pairs(m)[field] + Pairs(n)[field]
           /\ Pairs(0)[field] = 0
           /\ Pairs(m)[field] \in Int
<1>1. /\ (m + n) * PairCost = m * PairCost + n * PairCost
      /\ m * PairCost \in Int /\ n * PairCost \in Int /\ 0 * PairCost = 0
  BY CashAssumption
<1>2. field \in {"yes", "no", "cash"} BY Fieldwise
<1>3. /\ Pairs(m).yes = m /\ Pairs(m).no = m /\ Pairs(m).cash = -(m * PairCost)
      /\ Pairs(n).yes = n /\ Pairs(n).no = n /\ Pairs(n).cash = -(n * PairCost)
      /\ Pairs(0).yes = 0 /\ Pairs(0).no = 0 /\ Pairs(0).cash = -(0 * PairCost)
      /\ Pairs(m + n).yes = m + n /\ Pairs(m + n).no = m + n
      /\ Pairs(m + n).cash = -((m + n) * PairCost)
  BY DEF Pairs, Delta
<1>4. CASE field = "yes" BY <1>3, <1>4
<1>5. CASE field = "no" BY <1>3, <1>5
<1>6. CASE field = "cash"
  <2>1. Pairs(m + n).cash = -(m * PairCost) + -(n * PairCost) BY <1>1, <1>3
  <2>2. Pairs(0).cash = 0 BY <1>1, <1>3
  <2> QED BY <1>1, <1>3, <1>6, <2>1, <2>2
<1> QED BY <1>2, <1>4, <1>5, <1>6

Effects(field) == [n \in DOMAIN feed |-> TrueEffect(feed[n])[field]]

LEMMA OwedIsSum == \A field : Owed(field) = SumFunctionOnSet(Effects(field), Unpolled)
BY DEF Owed, Effects

LEMMA EffectsAreInts ==
    ASSUME Types, NEW field \in DOMAIN Nothing
    PROVE  /\ \A n \in DOMAIN feed : feed[n] \in Trade /\ Effects(field)[n] \in Int
           /\ Unpolled \subseteq DOMAIN feed /\ IsFiniteSet(Unpolled)
           /\ Owed(field) \in Int
<1>1. /\ feed \in Seq(Trade) /\ DOMAIN feed = 1 .. Len(feed) /\ Len(feed) \in Nat
      /\ 1 \in Int /\ Len(feed) \in Int
  BY LenProperties DEF Types, ExchangeTypes
<1>2. \A n \in DOMAIN feed : feed[n] \in Trade BY <1>1, ElementOfSeq
<1>3. \A n \in DOMAIN feed : Effects(field)[n] \in Int
  BY <1>2, Amounts, Fieldwise DEF Effects
<1>4. IsFiniteSet(DOMAIN feed) BY <1>1, FS_Interval
<1>5. Unpolled \subseteq DOMAIN feed BY DEF Unpolled, Ours
<1>6. IsFiniteSet(Unpolled) BY <1>4, <1>5, FS_Subset
<1>7. Owed(field) \in Int BY <1>3, <1>5, <1>6, OwedIsSum, SumIsInt
<1> QED BY <1>2, <1>3, <1>5, <1>6, <1>7

OwedInts == \A field \in DOMAIN Nothing : Owed(field) \in Int

LEMMA OwedTypes == Types => OwedInts
BY EffectsAreInts DEF OwedInts

LEMMA BookTypes ==
    ASSUME Types, redis \in Cached, NEW field \in DOMAIN Nothing
    PROVE  /\ truth[field] \in Int /\ redis[field] \in Int /\ Owed(field) \in Int
           /\ Pairs(uncredited)[field] \in Int /\ Pairs(qty)[field] \in Int
           /\ Pairs(qty) \in Inventory
<1>1. uncredited \in Int /\ qty \in Int /\ truth \in Inventory
  BY Amounts DEF Types, HistoryTypes, MarketTypes, ExchangeTypes
<1>2. truth[field] \in Int /\ redis[field] \in Int BY <1>1, Fieldwise
<1>3. Pairs(uncredited)[field] \in Int /\ Pairs(qty)[field] \in Int
  BY <1>1, PairsAdd
<1>4. Owed(field) \in Int BY EffectsAreInts
<1>5. Pairs(qty) \in Inventory BY <1>1, Amounts
<1> QED BY <1>2, <1>3, <1>4, <1>5

Balanced == \A field \in DOMAIN Nothing :
                truth[field] = redis[field] + Pairs(uncredited)[field] + Owed(field)

LEMMA BalancedIsSettled == Types /\ Balanced => Settled = truth
<1> SUFFICES ASSUME Types, Balanced PROVE Settled = truth
  OBVIOUS
<1>1. DOMAIN truth = DOMAIN Nothing
  BY Fieldwise DEF Types, ExchangeTypes, Holdings
<1>2. truth = [field \in DOMAIN Nothing |-> truth[field]]
  BY <1>1 DEF Types, ExchangeTypes, Holdings
<1> QED BY <1>2 DEF Settled, Balanced

LEMMA BalancedStays ==
    ASSUME Balanced, UNCHANGED <<truth, feed, times, uncredited>>,
           \A field \in DOMAIN Nothing : redis'[field] = redis[field]
    PROVE  Balanced'
<1>1. Unpolled' = Unpolled BY DEF Unpolled, Ours
<1>2. \A field : Owed(field)' = Owed(field) BY <1>1 DEF Owed
<1> QED BY <1>2 DEF Balanced

\* A trade that happens is owed.
LEMMA HappenOwes ==
    ASSUME Types, Polling, pc \notin Stopped, NEW t \in Deals, Happen(t),
           NEW field \in DOMAIN Nothing
    PROVE  Owed(field)' = Owed(field) + TrueEffect(t)[field]
<1> DEFINE n == Len(feed')
           g == Effects(field)'
<1>1. /\ t \in Trade /\ TrueEffect(t)[field] \in Int
  BY DealsAssumption, Amounts, Fieldwise
<1>2. /\ Len(feed') = Len(feed) + 1 /\ feed'[n] = t /\ Len(feed) \in Nat
      /\ \A m \in DOMAIN feed : feed'[m] = feed[m]
      /\ DOMAIN feed = 1 .. Len(feed) /\ DOMAIN feed' = 1 .. Len(feed')
      /\ Len(feed') <= MaxTrades /\ times' = times
  <2>1. feed' \in Seq(Trade) BY HappenTypes DEF Types, ExchangeTypes
  <2>2. DOMAIN feed' = 1 .. Len(feed') BY <2>1, LenProperties
  <2>3. Len(feed') <= MaxTrades BY HappenTypes DEF Types, ExchangeTypes
  <2>4. times' = times BY DEF Happen, poller
  <2> QED BY <2>2, <2>3, <2>4, HappenTypes, PollerNumbers DEF Types
<1>3. /\ DOMAIN feed' = DOMAIN feed \cup {n} /\ n \notin DOMAIN feed
      /\ n \in 1 .. MaxTrades /\ n > Len(feed)
  BY <1>2, FeedAssumption
<1>4. times[n] = 0 BY <1>3 DEF Polling, Ahead
<1>5. /\ \A m \in DOMAIN feed : g[m] = Effects(field)[m]
      /\ g[n] = TrueEffect(t)[field]
  BY <1>2, <1>3 DEF Effects
<1>6. Owed(field)' = SumFunctionOnSet(g, Unpolled') BY DEF Owed, Effects
<1>7. SumFunctionOnSet(g, Unpolled) = Owed(field)
  <2> HIDE DEF g
  <2>1. \A m \in Unpolled : g[m] = Effects(field)[m] BY <1>5, EffectsAreInts
  <2>2. SumFunctionOnSet(g, Unpolled) = SumFunctionOnSet(Effects(field), Unpolled)
    BY <2>1, EffectsAreInts, SumAgrees
  <2> QED BY <2>2, OwedIsSum
<1>8. CASE IsAmmTrade(t)
  <2>1. Unpolled' = Unpolled \cup {n} /\ n \notin Unpolled
    BY <1>2, <1>3, <1>4, <1>8 DEF Unpolled, Ours
  <2>2. \A m \in Unpolled \cup {n} : g[m] \in Int
    BY <1>1, <1>5, EffectsAreInts
  <2> HIDE DEF g
  <2>3. SumFunctionOnSet(g, Unpolled \cup {n}) = g[n] + SumFunctionOnSet(g, Unpolled)
    BY <2>1, <2>2, EffectsAreInts, SumAdds
  <2> QED BY <1>1, <1>5, <1>6, <1>7, <2>1, <2>3, EffectsAreInts
<1>9. CASE ~IsAmmTrade(t)
  <2>1. Unpolled' = Unpolled
    BY <1>2, <1>3, <1>9 DEF Unpolled, Ours
  <2>2. TrueEffect(t)[field] = 0 BY <1>9, Fieldwise DEF TrueEffect
  <2> QED BY <1>6, <1>7, <2>1, <2>2, EffectsAreInts
<1> QED BY <1>8, <1>9

\* A trade that is applied is owed no longer.
LEMMA ApplyPays ==
    ASSUME Types, Types', Polling, Polling', HandleTrade, ApplyTrade(Head(page)),
           NEW field \in DOMAIN Nothing
    PROVE  Owed(field) = Owed(field)' + Effect(feed[Head(page)])[field]
<1> DEFINE k == Head(page)
<1>1. k \in DOMAIN feed /\ k \in 1 .. MaxTrades
  BY FirstOfPage, PollerNumbers, FeedAssumption DEF HandleTrade
<1>2. /\ feed' = feed /\ IsAmmTrade(feed[k]) /\ times' = [times EXCEPT ![k] = @ + 1]
      /\ DOMAIN times = 1 .. MaxTrades
  BY DEF HandleTrade, ApplyTrade, exchange, Types, PollerTypes
<1>3. times[k] = 0 /\ times'[k] = 1
  <2>1. Running /\ Running'
    BY DEF HandleTrade, Running, Stopped, Booting
  <2>2. times[k] \in {0, 1}
    BY <1>1, <2>1 DEF Polling, PollerInv, Running
  <2>3. times'[k] <= 1
    <3>1. Types' /\ Polling' => PolledExactlyOnce' BY PollingIsExact, PTL
    <3> QED BY <1>1, <1>2, <2>1, <3>1 DEF PolledExactlyOnce
  <2> QED BY <1>1, <1>2, <2>2, <2>3
<1>4. Unpolled' = Unpolled \ {k} /\ k \in Unpolled
  <2>1. Ours' = Ours /\ k \in Ours BY <1>1, <1>2 DEF Ours
  <2>2. \A n \in Ours : n # k => times'[n] = times[n] BY <1>2
  <2> QED BY <1>3, <2>1, <2>2 DEF Unpolled
<1> HIDE DEF k
<1>5. Effects(field)' = Effects(field) BY <1>2 DEF Effects
<1>6. Owed(field)' = SumFunctionOnSet(Effects(field), Unpolled \ {k})
  BY <1>4, <1>5 DEF Owed, Effects
<1>7. Owed(field) = Effects(field)[k] + SumFunctionOnSet(Effects(field), Unpolled \ {k})
  BY <1>4, EffectsAreInts, OwedIsSum, SumTakesOut
<1>8. Effects(field)[k] = Effect(feed[k])[field] /\ Effects(field)[k] \in Int
  BY <1>1, <1>2, EffectsAreInts DEF Effects, TrueEffect
<1>9. Owed(field)' \in Int
  <2>1. /\ IsFiniteSet(Unpolled \ {k})
        /\ \A n \in Unpolled \ {k} : Effects(field)[n] \in Int
    BY EffectsAreInts, FS_Subset
  <2> QED BY <1>6, <2>1, SumIsInt
<1> QED BY <1>6, <1>7, <1>8, <1>9 DEF k

-----------------------------------------------------------------------------
(***************************************************************************)
(* The parts of the invariant.  What was seen stays seen, and a final      *)
(* status is final.                                                        *)
(***************************************************************************)
LEMMA HistoryGrows ==
    ASSUME [Next]_vars
    PROVE  seen \subseteq seen' /\ (resolved => resolved')
BY DEF Next, vars, exchange, Happen, Resolve, ExchangeMint, ExchangeBurn, Fault, NoFault, Restart,
       Start, BootStep,
       BootBalance, BootPositions, BootMint, BootReread, BootSet, Boot, Cycle, Poll,
       HandleTrade, EmptyPage, ReadCache, Assign, Mint, MintRefused, Credit, CreditRedis,
       SeeFinalStatus, SeeNoFinalStatus, Quote, CancelAll, Burn, BurnRefused,
       UndoWindingDown, Stop, Failure, BootFails, PollFails, MintFails, CancelFails,
       BurnFails, Reconcile, FetchBalance, FetchPositions, InSync, DetectDrift,
       CorrectDrift, ReadFresh, AssignFresh, Reconciler, ReconcilerDies, Crash

\* The market winds down after the final status only.
Winding == pc \in {"cancel", "burn", "ended"} => resolved

\* A start that no trade has crossed writes what the exchange has.
Booked ==
    Unseen({"replay"}) /\ pc \in Booting =>
        /\ Ours = {}
        /\ pc = "positions" => ctx.cash = truth.cash
        /\ pc = "set" => ctx = truth

\* Unless the reconciler writes, what the market task computes with is Redis.
Copied ==
    Unseen({"corrected"}) =>
        /\ rec \notin {"fresh", "assign"}
        /\ pc \in {"assign", "mint"} => local = Position(redis)
        /\ pc = "mint" => qty = Surplus(local)
        /\ pc \in {"status", "quote", "cancel", "burn", "mint", "credit"} =>
               ctx = Position(redis)
        /\ pc = "adjust" => ctx = Plus(Position(redis), Pairs(qty))
        /\ pc = "burn" => qty = Burnable(ctx)

\* Minted pairs are credited by the cycle that minted them, unless its reply
\* was lost.
Crediting == pc \in {"credit", "adjust"}
Credits ==
    Unseen(Incidents) =>
        /\ Crediting => uncredited >= qty
        /\ Running /\ Unseen({"lost"}) =>
               uncredited = IF Crediting THEN qty ELSE 0

\* Only the deals there are happen.
Listed == \A n \in DOMAIN feed : feed[n] \in Deals

\* A burn whose reply is lost comes after the final status.
Books ==
    (Running /\ Unseen(Incidents) /\ (resolved => Unseen({"lost"}))) => Balanced

LEMMA ListedStep == Types /\ Listed /\ [Next]_vars => Listed'
<1> SUFFICES ASSUME Types, Listed, [Next]_vars PROVE Listed'
  OBVIOUS
<1>1. CASE feed' = feed BY <1>1 DEF Listed
<1>2. CASE \E t \in Deals : Happen(t)
  <2>1. PICK t \in Deals : Happen(t) BY <1>2
  <2>2. /\ Len(feed') = Len(feed) + 1 /\ feed'[Len(feed')] = t
        /\ \A n \in DOMAIN feed : feed'[n] = feed[n]
    BY <2>1, HappenTypes DEF Types
  <2>3. DOMAIN feed' = DOMAIN feed \cup {Len(feed')}
    BY <2>2, NumbersGrow
  <2> QED BY <2>2, <2>3 DEF Listed
<1> QED BY <1>1, <1>2, FeedGrows

LEMMA WindingStep == Winding /\ [Next]_vars => Winding'
<1> SUFFICES ASSUME Winding, [Next]_vars, pc' \in {"cancel", "burn", "ended"}
             PROVE  resolved'
  BY DEF Winding
<1>1. CASE SeeFinalStatus \/ CancelAll \/ Burn
  <2>1. resolved
    BY <1>1 DEF SeeFinalStatus, CancelAll, Burn, Winding
  <2> QED BY <2>1, HistoryGrows
<1>2. CASE pc' = pc BY <1>2, HistoryGrows DEF Winding
<1>3. Next => SeeFinalStatus \/ CancelAll \/ Burn \/ pc' = pc
  BY DEF Next, market, Booting, Happen, Resolve, Restart, Start, BootStep, BootBalance, BootPositions,
         BootMint, BootReread, BootSet, Boot, Cycle, Poll, HandleTrade, EmptyPage,
         ReadCache, Assign, Mint, MintRefused, Credit, CreditRedis, SeeNoFinalStatus,
         Quote, BurnRefused, UndoWindingDown, Stop, End, Go, Failure, BootFails,
         PollFails, MintFails, CancelFails, BurnFails, Reconcile, FetchBalance,
         FetchPositions, InSync, DetectDrift, CorrectDrift, ReadFresh, AssignFresh,
         Reconciler, ReconcilerDies, Crash
<1> QED BY <1>1, <1>2, <1>3 DEF vars, market

\* A trade between strangers is nothing to the account.
LEMMA StrangersTrade ==
    ASSUME Types, NEW t \in Deals, Happen(t), ~IsAmmTrade(t)
    PROVE  truth' = truth /\ Ours' = Ours
<1>1. TrueEffect(t) = Nothing BY DEF TrueEffect
<1>2. truth \in Inventory /\ Nothing \in Inventory BY Amounts DEF Types, ExchangeTypes
<1>3. Plus(truth, Nothing) \in Inventory BY <1>2, Amounts
<1>4. \A field \in DOMAIN Nothing : Plus(truth, Nothing)[field] = truth[field]
  BY <1>2, Fieldwise
<1>5. truth' = truth BY <1>1, <1>2, <1>3, <1>4, Fieldwise DEF Happen
<1>6. /\ Len(feed') = Len(feed) + 1 /\ feed'[Len(feed')] = t
      /\ \A n \in DOMAIN feed : feed'[n] = feed[n]
      /\ feed' \in Seq(Trade)
  BY HappenTypes DEF Types, ExchangeTypes
<1>7. /\ DOMAIN feed = 1 .. Len(feed) /\ DOMAIN feed' = 1 .. Len(feed')
      /\ Len(feed) \in Nat
  BY <1>6, PollerNumbers, LenProperties
<1>8. DOMAIN feed' = DOMAIN feed \cup {Len(feed')} BY <1>6, <1>7
<1>9. Ours' = Ours BY <1>6, <1>8 DEF Ours
<1> QED BY <1>5, <1>9

LEMMA BookedStep == Types /\ Booked /\ [Next]_vars => Booked'
<1> SUFFICES ASSUME Types, Booked, [Next]_vars, Unseen({"replay"})', pc' \in Booting
             PROVE  /\ Ours' = {}
                    /\ pc' = "positions" => ctx'.cash = truth'.cash
                    /\ pc' = "set" => ctx' = truth'
  BY DEF Booked, Unseen, Booting
<1> USE DEF Booting
<1>0. /\ Unseen({"replay"}) /\ truth \in Holdings /\ ctx \in Inventory
      /\ pc \in Booting => rec = "off"
  BY HistoryGrows DEF Unseen, Types, ExchangeTypes, MarketTypes, StoreTypes, Running
<1>1. CASE Start
  <2>1. Ours' = {} BY <1>1 DEF Start, exchange, Ours, Unseen
  <2>2. pc' = "balance" BY <1>1 DEF Start
  <2> QED BY <2>1, <2>2
<1>2. CASE BootBalance \/ BootPositions \/ BootMint \/ BootReread
  <2>1. pc \in Booting /\ feed' = feed
    BY <1>2 DEF BootBalance, BootPositions, BootMint, BootReread, Boot, exchange, ExchangeMint
  <2>2. Ours' = {} BY <1>0, <2>1 DEF Booked, Ours
  <2>3. CASE BootBalance
    <3>1. pc' = "positions" /\ ctx' = [ctx EXCEPT !.cash = truth.cash] /\ truth' = truth
      BY <2>3 DEF BootBalance, Boot, exchange
    <3> QED BY <1>0, <2>2, <3>1 DEF Inventory
  <2>4. CASE BootPositions
    <3>1. /\ pc = "positions" /\ truth' = truth /\ pc' \in {"initMint", "set"}
          /\ ctx' = [ctx EXCEPT !.yes = truth.yes, !.no = truth.no]
      BY <2>4 DEF BootPositions, Boot, exchange
    <3>2. ctx.cash = truth.cash BY <1>0, <2>1, <3>1 DEF Booked
    <3>3. ctx' = truth BY <1>0, <3>1, <3>2 DEF Inventory, Holdings
    <3> QED BY <2>2, <3>1, <3>3
  <2>5. CASE BootMint BY <2>2, <2>5 DEF BootMint, Boot
  <2>6. CASE BootReread BY <2>2, <2>6 DEF BootReread, Boot, exchange
  <2> QED BY <1>2, <2>3, <2>4, <2>5, <2>6
<1>3. CASE \E t \in Deals : Happen(t)
  <2>1. PICK t \in Deals : Happen(t) BY <1>3
  <2>2. pc' = pc /\ ctx' = ctx BY <2>1 DEF Happen, market
  <2>3. ~IsAmmTrade(t) BY <2>1, <2>2 DEF Happen, Unseen
  <2> QED BY <1>0, <2>1, <2>2, <2>3, StrangersTrade DEF Booked
<1>4. CASE Resolve \/ ReconcilerDies \/ UNCHANGED vars
  <2>1. UNCHANGED <<feed, truth, pc, ctx>>
    BY <1>4 DEF Resolve, ReconcilerDies, vars, exchange, market
  <2>2. Ours' = Ours BY <2>1 DEF Ours
  <2> QED BY <1>0, <2>1, <2>2 DEF Booked
<1>5. ~Reconcile
  <2>1. Reconcile => pc' = pc /\ rec # "off"
    BY DEF Reconcile, FetchBalance, FetchPositions, InSync, DetectDrift, CorrectDrift,
           ReadFresh, AssignFresh, Reconciler
  <2> QED BY <1>0, <2>1
<1>6. ~ \/ BootSet \/ BootFails
        \/ Poll \/ HandleTrade \/ EmptyPage \/ ReadCache \/ Assign \/ Mint \/ MintRefused
        \/ Credit \/ CreditRedis \/ SeeFinalStatus \/ SeeNoFinalStatus \/ Quote
        \/ CancelAll \/ Burn \/ BurnRefused \/ Stop \/ PollFails \/ MintFails
        \/ CancelFails \/ BurnFails \/ Crash
  BY DEF BootSet, Boot, BootFails, Poll,
         HandleTrade, EmptyPage, ReadCache, Assign, Mint, MintRefused, Credit, CreditRedis,
         SeeFinalStatus, SeeNoFinalStatus, Quote, CancelAll, Burn, BurnRefused, Stop,
         PollFails, MintFails, CancelFails, BurnFails, UndoWindingDown, Crash, End, Go
<1> QED
  BY <1>1, <1>2, <1>3, <1>4, <1>5, <1>6 DEF Next, Restart, BootStep, Cycle, Failure

LEMMA CopiedStep == Types /\ Copied /\ [Next]_vars => Copied'
<1> DEFINE C == /\ rec \notin {"fresh", "assign"}
                /\ pc \in {"assign", "mint"} => local = Position(redis)
                /\ pc = "mint" => qty = Surplus(local)
                /\ pc \in {"status", "quote", "cancel", "burn", "mint", "credit"} =>
                       ctx = Position(redis)
                /\ pc = "adjust" => ctx = Plus(Position(redis), Pairs(qty))
                /\ pc = "burn" => qty = Burnable(ctx)
<1> SUFFICES ASSUME Types, Copied, [Next]_vars, Unseen({"corrected"})' PROVE C'
  BY DEF Copied, Unseen
<1>0. C /\ (Running => redis \in Cached)
  BY HistoryGrows DEF Copied, Unseen, Types, StoreTypes
<1>p. \A inv \in Cached : \A n : Position([inv EXCEPT !.pending = n]) = Position(inv)
  BY DEF Cached, Position, Delta
<1> USE DEF Running, Stopped, Booting
<1>1. CASE \/ Start \/ BootBalance \/ BootPositions \/ BootMint \/ BootReread \/ BootSet
           \/ BootFails \/ PollFails \/ MintRefused \/ Burn \/ Stop \/ Crash \/ MintFails
           \/ Poll \/ HandleTrade \/ EmptyPage \/ BurnRefused \/ CancelFails \/ BurnFails
  <2>1. /\ pc' \notin {"assign", "mint", "credit", "adjust", "status", "quote", "cancel",
                       "burn"}
        /\ rec' \in {rec, "off", "balance"}
    BY <1>1
       DEF Start, BootBalance, BootPositions, BootMint, BootReread, BootSet, Boot,
           BootFails, PollFails, MintRefused, Burn, Stop, Crash, MintFails, Poll,
           HandleTrade, EmptyPage, BurnRefused, CancelFails, BurnFails, UndoWindingDown,
           End, Go, reconciler
  <2> QED BY <1>0, <2>1
<1>2. CASE \/ \E t \in Deals : Happen(t)
           \/ Resolve \/ FetchBalance \/ FetchPositions \/ InSync \/ DetectDrift
           \/ ReconcilerDies \/ UNCHANGED vars
  <2>1. /\ UNCHANGED <<redis, pc, ctx, local, qty>> /\ rec' \notin {"fresh", "assign"}
    BY <1>0, <1>2
       DEF Happen, Resolve, FetchBalance, FetchPositions, InSync, DetectDrift, Reconciler,
           ReconcilerDies, vars, market, reconciler
  <2> QED BY <1>0, <2>1
<1>3. CASE CorrectDrift \/ ReadFresh \/ AssignFresh
  BY <1>0, <1>3 DEF CorrectDrift, ReadFresh, AssignFresh, Reconciler, Unseen
<1>4. CASE ReadCache
  BY <1>0, <1>4 DEF ReadCache, Go, reconciler
<1>5. CASE Assign
  BY <1>0, <1>5 DEF Assign, reconciler
<1>6. CASE Mint \/ SeeFinalStatus \/ SeeNoFinalStatus
  <2>1. /\ UNCHANGED <<redis, ctx, rec>> /\ pc \in {"mint", "status"}
        /\ pc' \in {"credit", "cancel", "quote"}
    BY <1>6 DEF Mint, SeeFinalStatus, SeeNoFinalStatus, Go, reconciler
  <2> QED BY <1>0, <2>1
<1>7. CASE Credit
  BY <1>0, <1>7 DEF Credit, Go, reconciler
<1>8. CASE CreditRedis
  <2>1. /\ redis \in Cached /\ qty \in Nat /\ ctx = Plus(Position(redis), Pairs(qty))
        /\ redis' = Plus(redis, Pairs(qty)) /\ UNCHANGED <<ctx, rec>> /\ pc' = "status"
    BY <1>0, <1>8 DEF CreditRedis, Go, reconciler, Types, MarketTypes
  <2>2. Position(Plus(redis, Pairs(qty))) = Plus(Position(redis), Pairs(qty))
    <3>1. /\ Pairs(qty) \in Inventory /\ Position(redis) \in Inventory
          /\ Plus(redis, Pairs(qty)) \in Cached
          /\ Plus(Position(redis), Pairs(qty)) \in Inventory
      BY <2>1, Amounts
    <3>2. Position(Plus(redis, Pairs(qty))) \in Inventory BY <3>1, Amounts
    <3>3. ASSUME NEW field \in DOMAIN Nothing
          PROVE  Position(Plus(redis, Pairs(qty)))[field]
                     = Plus(Position(redis), Pairs(qty))[field]
      BY <2>1, <3>1, Fieldwise
    <3> QED BY <3>1, <3>2, <3>3, Fieldwise
  <2> QED BY <1>0, <2>1, <2>2
<1>9. CASE Quote
  BY <1>0, <1>9 DEF Quote, Go, reconciler
<1>10. CASE CancelAll
  <2>1. CASE Burnable(ctx) > 0
    <3>1. /\ redis' = [redis EXCEPT !.pending = 0] /\ redis \in Cached
          /\ pc = "cancel" /\ pc' = "burn" /\ qty' = Burnable(ctx) /\ UNCHANGED <<ctx, rec>>
      BY <1>0, <1>10, <2>1 DEF CancelAll, reconciler
    <3>2. Position(redis') = Position(redis) BY <1>p, <3>1
    <3> QED BY <1>0, <3>1, <3>2
  <2>2. CASE ~(Burnable(ctx) > 0)
    BY <1>10, <2>2 DEF CancelAll, End
  <2> QED BY <2>1, <2>2
<1> QED
  BY <1>1, <1>2, <1>3, <1>4, <1>5, <1>6, <1>7, <1>8, <1>9, <1>10
     DEF Next, Restart, BootStep, Cycle, Failure, Reconcile

LEMMA CreditsStep == Types /\ Credits /\ [Next]_vars => Credits'
<1> DEFINE Exactly == Running /\ Unseen({"lost"}) =>
                          uncredited = IF Crediting THEN qty ELSE 0
<1> SUFFICES ASSUME Types, Credits, [Next]_vars, Unseen(Incidents)'
             PROVE  (Crediting => uncredited >= qty)' /\ Exactly'
  BY DEF Credits, Unseen
<1>0. /\ Unseen(Incidents) /\ (Unseen({"lost"})' => Unseen({"lost"}))
      /\ Crediting => uncredited >= qty
      /\ Exactly
      /\ uncredited \in Nat /\ qty \in Nat
  BY HistoryGrows DEF Credits, Unseen, Types, HistoryTypes, MarketTypes
<1> USE DEF Running, Stopped, Booting, Crediting
<1>1. CASE \/ Start \/ BootBalance \/ BootPositions \/ BootMint \/ BootReread \/ BootFails
           \/ PollFails \/ MintRefused \/ Burn \/ Stop \/ Crash
  BY <1>1
     DEF Start, BootBalance, BootPositions, BootMint, BootReread, Boot, BootFails,
         PollFails, MintRefused, Burn, Stop, Crash, End
<1>2. CASE BootSet
  BY <1>2 DEF BootSet, Boot
<1>3. CASE \/ Poll \/ HandleTrade \/ EmptyPage \/ ReadCache \/ Assign \/ SeeFinalStatus
           \/ SeeNoFinalStatus \/ Quote \/ CancelAll \/ BurnRefused \/ CancelFails \/ BurnFails
  <2>1. /\ uncredited' = uncredited /\ ~Crediting /\ ~Crediting' /\ Running
    BY <1>3
       DEF Poll, HandleTrade, EmptyPage, ReadCache, Assign, SeeFinalStatus,
           SeeNoFinalStatus, Quote, CancelAll, End, BurnRefused, CancelFails, BurnFails,
           UndoWindingDown, Go
  <2> QED BY <1>0, <2>1
<1>4. CASE Mint
  <2>1. /\ pc = "mint" /\ pc' = "credit" /\ qty' = qty /\ keys' = keys \cup {ReinvestKey}
        /\ uncredited' = uncredited + Minted(qty)
        /\ ~(ReinvestKey \in keys /\ uncredited < qty)
    BY <1>4 DEF Mint, Go, ExchangeMint, Unseen, Incidents
  <2>2. CASE ReinvestKey \in keys
    <3>1. Minted(qty) = 0 /\ uncredited >= qty BY <1>0, <2>1, <2>2 DEF Minted
    <3> QED BY <1>0, <2>1, <3>1
  <2>3. CASE ReinvestKey \notin keys
    <3>1. Minted(qty) = qty BY <2>1, <2>3 DEF Minted
    <3> QED BY <1>0, <2>1, <3>1
  <2> QED BY <2>2, <2>3
<1>5. CASE MintFails
  BY <1>5 DEF MintFails, Fault, Unseen, Go
<1>6. CASE Credit
  BY <1>0, <1>6 DEF Credit, Go
<1>7. CASE CreditRedis
  BY <1>0, <1>7 DEF CreditRedis, Credited, Go
<1>8. CASE \/ \E t \in Deals : Happen(t)
           \/ Resolve \/ FetchBalance \/ FetchPositions \/ InSync \/ DetectDrift
           \/ ReadFresh \/ AssignFresh \/ ReconcilerDies \/ UNCHANGED vars
  <2>1. UNCHANGED <<pc, qty, uncredited>>
    BY <1>8
       DEF Happen, Resolve, FetchBalance, FetchPositions, InSync, DetectDrift, ReadFresh,
           AssignFresh, Reconciler, ReconcilerDies, vars, market
  <2> QED BY <1>0, <2>1
<1>9. CASE CorrectDrift
  BY <1>9 DEF CorrectDrift, Unseen, Incidents
<1> QED
  BY <1>1, <1>2, <1>3, <1>4, <1>5, <1>6, <1>7, <1>8, <1>9
     DEF Next, Restart, BootStep, Cycle, Failure, Reconcile

-----------------------------------------------------------------------------
(* The books, step by step. *)

LEMMA BooksOpen ==
    ASSUME Types, Types', Booked, BootSet, Unseen({"replay"})
    PROVE  Balanced'
<1>1. /\ pc = "set" /\ redis' = [yes |-> ctx.yes, no |-> ctx.no, cash |-> ctx.cash,
                                 pending |-> 0]
      /\ uncredited' = 0 /\ UNCHANGED <<truth, feed, times>>
  BY DEF BootSet, Boot, exchange, poller
<1>2. ctx = truth /\ Ours = {} BY <1>1 DEF Booked, Booting
<1>3. Unpolled' = {} BY <1>1, <1>2 DEF Unpolled, Ours
<1>4. \A field : Owed(field)' = 0 BY <1>3, SumOfNone DEF Owed
<1>5. ASSUME NEW field \in DOMAIN Nothing
      PROVE  /\ redis'[field] = truth'[field] /\ truth'[field] \in Int
             /\ Pairs(uncredited')[field] = 0
  <2>1. redis'[field] = truth[field]
    BY <1>1, <1>2, Fieldwise
  <2>2. truth[field] \in Int BY Fieldwise, Amounts DEF Types, ExchangeTypes
  <2>3. Pairs(0)[field] = 0 BY PairsAdd
  <2> QED BY <1>1, <2>1, <2>2, <2>3
<1> QED BY <1>4, <1>5 DEF Balanced

LEMMA BooksHappen ==
    ASSUME Types, Polling, Running, redis \in Cached, Balanced, NEW t \in Deals, Happen(t)
    PROVE  Balanced'
<1> SUFFICES ASSUME NEW field \in DOMAIN Nothing
             PROVE  truth'[field] = redis'[field] + Pairs(uncredited')[field] + Owed(field)'
  BY DEF Balanced
<1>1. truth' = Plus(truth, TrueEffect(t)) /\ UNCHANGED <<redis, uncredited>>
  BY DEF Happen
<1>2. TrueEffect(t) \in Inventory /\ truth \in Inventory
  BY DealsAssumption, Amounts DEF Types, ExchangeTypes
<1>3. truth'[field] = truth[field] + TrueEffect(t)[field]
  BY <1>1, <1>2, Fieldwise
<1>4. Owed(field)' = Owed(field) + TrueEffect(t)[field]
  BY HappenOwes DEF Running
<1>5. /\ redis[field] \in Int /\ Pairs(uncredited)[field] \in Int /\ Owed(field) \in Int
      /\ TrueEffect(t)[field] \in Int
  BY <1>2, Fieldwise, BookTypes
<1>6. truth[field] = redis[field] + Pairs(uncredited)[field] + Owed(field)
  BY DEF Balanced
<1> QED BY <1>1, <1>3, <1>4, <1>5, <1>6

LEMMA BooksApply ==
    ASSUME Types, Types', Polling, Polling', redis \in Cached, Balanced, HandleTrade,
           ApplyTrade(Head(page))
    PROVE  Balanced'
<1> SUFFICES ASSUME NEW field \in DOMAIN Nothing
             PROVE  truth'[field] = redis'[field] + Pairs(uncredited')[field] + Owed(field)'
  BY DEF Balanced
<1> DEFINE effect == Effect(feed[Head(page)])
<1>1. redis' = Plus(redis, effect) /\ UNCHANGED <<truth, feed, uncredited>>
  BY DEF HandleTrade, ApplyTrade, exchange
<1>2. effect \in Inventory
  BY FirstOfPage, PollerNumbers, EffectsAreInts, Amounts DEF HandleTrade
<1>3. redis'[field] = redis[field] + effect[field]
  BY <1>1, <1>2, Fieldwise
<1>4. Owed(field) = Owed(field)' + effect[field]
  BY ApplyPays
<1>5. truth[field] = redis[field] + Pairs(uncredited)[field] + Owed(field)
  BY DEF Balanced
<1>6. /\ redis[field] \in Int /\ Pairs(uncredited)[field] \in Int /\ Owed(field) \in Int
      /\ effect[field] \in Int
  BY <1>2, Fieldwise, BookTypes
<1>7. Owed(field)' \in Int
  <2>1. Types' => OwedInts' BY OwedTypes, PTL
  <2> QED BY <2>1 DEF OwedInts
<1> HIDE DEF effect
<1> QED BY <1>1, <1>3, <1>4, <1>5, <1>6, <1>7

\* Minted pairs are in the account and uncredited; a key used before does nothing.
LEMMA BooksMint ==
    ASSUME Types, redis \in Cached, Balanced, ExchangeMint(qty, ReinvestKey),
           uncredited' = uncredited + Minted(qty), UNCHANGED <<redis, poller>>
    PROVE  Balanced'
<1>1. UNCHANGED <<feed, times>> /\ keys' = keys \cup {ReinvestKey}
  BY DEF ExchangeMint, poller
<1>0. qty \in Nat /\ uncredited \in Nat /\ truth \in Inventory
  BY Amounts DEF Types, MarketTypes, HistoryTypes, ExchangeTypes
<1>2. CASE ReinvestKey \in keys
  <2>1. truth' = truth /\ Minted(qty) = 0 BY <1>1, <1>2 DEF ExchangeMint, Minted
  <2>2. uncredited' = uncredited BY <1>0, <2>1
  <2> QED BY <1>1, <2>1, <2>2, BalancedStays
<1>3. CASE ReinvestKey \notin keys
  <2>1. truth' = Plus(truth, Pairs(qty)) /\ Minted(qty) = qty
    BY <1>1, <1>3 DEF ExchangeMint, Minted
  <2>2. Pairs(qty) \in Inventory BY <1>0, Amounts
  <2>3. Unpolled' = Unpolled BY <1>1 DEF Unpolled, Ours
  <2> SUFFICES ASSUME NEW field \in DOMAIN Nothing
               PROVE  truth'[field] = redis'[field] + Pairs(uncredited')[field] + Owed(field)'
    BY DEF Balanced
  <2>4. Owed(field)' = Owed(field) BY <1>1, <2>3 DEF Owed
  <2>5. truth'[field] = truth[field] + Pairs(qty)[field]
    BY <1>0, <2>1, <2>2, Fieldwise
  <2>6. Pairs(uncredited')[field] = Pairs(uncredited)[field] + Pairs(qty)[field]
    BY <1>0, <2>1, PairsAdd
  <2>7. truth[field] = redis[field] + Pairs(uncredited)[field] + Owed(field)
    BY DEF Balanced
  <2>8. /\ redis[field] \in Int /\ Pairs(uncredited)[field] \in Int /\ Owed(field) \in Int
        /\ Pairs(qty)[field] \in Int
    BY BookTypes
  <2> QED BY <2>4, <2>5, <2>6, <2>7, <2>8
<1> QED BY <1>2, <1>3

LEMMA BooksCredit ==
    ASSUME Types, redis \in Cached, Balanced, CreditRedis, uncredited >= qty
    PROVE  Balanced'
<1>0. qty \in Nat /\ uncredited \in Nat BY DEF Types, MarketTypes, HistoryTypes
<1>1. /\ UNCHANGED <<truth, feed, times>> /\ redis' = Plus(redis, Pairs(qty))
      /\ uncredited' = uncredited - qty
  BY <1>0 DEF CreditRedis, Credited, exchange, poller
<1>2. Unpolled' = Unpolled BY <1>1 DEF Unpolled, Ours
<1> SUFFICES ASSUME NEW field \in DOMAIN Nothing
             PROVE  truth'[field] = redis'[field] + Pairs(uncredited')[field] + Owed(field)'
  BY DEF Balanced
<1>3. Owed(field)' = Owed(field) BY <1>1, <1>2 DEF Owed
<1>4. redis'[field] = redis[field] + Pairs(qty)[field]
  BY <1>1, BookTypes, Fieldwise
<1>5. Pairs(uncredited)[field] = Pairs(uncredited')[field] + Pairs(qty)[field]
  <2> DEFINE rest == uncredited'
  <2>1. rest \in Int /\ rest + qty = uncredited /\ qty \in Int BY <1>0, <1>1
  <2> HIDE DEF rest
  <2>2. Pairs(rest + qty)[field] = Pairs(rest)[field] + Pairs(qty)[field]
    BY <2>1, PairsAdd
  <2> QED BY <2>1, <2>2 DEF rest
<1>6. truth[field] = redis[field] + Pairs(uncredited)[field] + Owed(field)
  BY DEF Balanced
<1>7. /\ redis[field] \in Int /\ Owed(field) \in Int /\ Pairs(qty)[field] \in Int
      /\ Pairs(uncredited')[field] \in Int
  <2>1. uncredited' \in Int BY <1>0, <1>1
  <2> QED BY <2>1, BookTypes, PairsAdd
<1> QED BY <1>1, <1>3, <1>4, <1>5, <1>6, <1>7

LEMMA BooksStep ==
    ASSUME Types, Types', Polling, Polling', Winding, Booked, Credits, Books, [Next]_vars
    PROVE  Books'
<1> SUFFICES ASSUME Running', Unseen(Incidents)', resolved' => Unseen({"lost"})'
             PROVE  Balanced'
  BY DEF Books
<1>0. /\ Unseen(Incidents) /\ Unseen({"replay"}) /\ (resolved => Unseen({"lost"}))
      /\ Running => Balanced /\ redis \in Cached
  BY HistoryGrows DEF Unseen, Incidents, Books, Types, StoreTypes
<1> USE DEF Running, Stopped, Booting
<1>1. CASE \E t \in Deals : Happen(t)
  <2>1. PICK t \in Deals : Happen(t) BY <1>1
  <2>2. Running BY <2>1 DEF Happen, market
  <2> HIDE DEF Running, Stopped, Booting
  <2> QED BY <1>0, <2>1, <2>2, BooksHappen
<1>2. CASE BootSet
  BY <1>0, <1>2, BooksOpen
<1>3. CASE HandleTrade
  <2>1. Balanced /\ redis \in Cached BY <1>0, <1>3 DEF HandleTrade
  <2>2. CASE ApplyTrade(Head(page)) BY <1>3, <2>1, <2>2, BooksApply
  <2>3. CASE SkipTrade(Head(page)) \/ IgnoreTrade(Head(page))
    <3>1. UNCHANGED <<truth, feed, times, uncredited, redis>>
      BY <1>3, <2>3 DEF HandleTrade, SkipTrade, IgnoreTrade, exchange
    <3> QED BY <2>1, <3>1, BalancedStays
  <2> QED BY <1>3, <2>2, <2>3 DEF HandleTrade
<1>4. CASE Mint
  <2>1. Balanced /\ redis \in Cached BY <1>0, <1>4 DEF Mint, Go
  <2> QED BY <1>4, <2>1, BooksMint DEF Mint
<1>5. CASE MintFails
  <2>1. Balanced /\ redis \in Cached /\ UNCHANGED <<redis, poller>>
    BY <1>0, <1>5 DEF MintFails, Go
  <2>2. CASE ExchangeMint(qty, ReinvestKey) /\ uncredited' = uncredited + Minted(qty)
    BY <2>1, <2>2, BooksMint
  <2>3. CASE UNCHANGED <<exchange, uncredited>>
    BY <2>1, <2>3, BalancedStays DEF exchange, poller
  <2> QED BY <1>5, <2>2, <2>3 DEF MintFails
<1>6. CASE CreditRedis
  <2>1. Balanced /\ redis \in Cached /\ uncredited >= qty
    BY <1>0, <1>6 DEF CreditRedis, Go, Credits, Crediting
  <2> QED BY <1>6, <2>1, BooksCredit
<1>7. CASE Quote \/ CancelAll
  <2>1. /\ Balanced /\ redis \in Cached /\ UNCHANGED <<truth, feed, times, uncredited>>
        /\ \E n : redis' = [redis EXCEPT !.pending = n]
    BY <1>0, <1>7 DEF Quote, CancelAll, Go, End, exchange, poller
  <2>2. \A field \in DOMAIN Nothing : redis'[field] = redis[field]
    BY <2>1, Fieldwise DEF Cached
  <2> QED BY <2>1, <2>2, BalancedStays
<1>8. CASE CorrectDrift
  BY <1>8 DEF CorrectDrift, Unseen, Incidents
<1>9. CASE BurnFails
  <2>1. resolved /\ "lost" \in seen' BY <1>9 DEF BurnFails, Winding, Fault
  <2> QED BY <2>1, HistoryGrows DEF Unseen
<1>10. CASE \/ Resolve \/ Poll \/ EmptyPage \/ ReadCache \/ Assign \/ Credit
            \/ SeeFinalStatus \/ SeeNoFinalStatus \/ CancelFails \/ BurnRefused
            \/ FetchBalance \/ FetchPositions \/ InSync \/ DetectDrift \/ ReadFresh
            \/ AssignFresh \/ ReconcilerDies \/ UNCHANGED vars
  <2>1. Running /\ UNCHANGED <<truth, feed, times, uncredited, redis>>
    BY <1>10
       DEF Resolve, Poll, EmptyPage, ReadCache, Assign, Credit, SeeFinalStatus,
           SeeNoFinalStatus, CancelFails, BurnRefused, UndoWindingDown, FetchBalance,
           FetchPositions, InSync, DetectDrift, ReadFresh, AssignFresh, Reconciler,
           ReconcilerDies, Go, vars, exchange, poller, market
  <2> QED BY <1>0, <2>1, BalancedStays
<1>11. ~ \/ Start \/ BootBalance \/ BootPositions \/ BootMint \/ BootReread \/ BootFails
         \/ PollFails \/ MintRefused \/ Burn \/ Stop \/ Crash
  BY DEF Start, BootBalance, BootPositions, BootMint, BootReread, Boot, BootFails,
         PollFails, MintRefused, Burn, Stop, Crash, End
<1> QED
  BY <1>1, <1>2, <1>3, <1>4, <1>5, <1>6, <1>7, <1>8, <1>9, <1>10, <1>11
     DEF Next, Restart, BootStep, Cycle, Failure, Reconcile

SyncInv ==
    /\ Types /\ Listed /\ Polling /\ Winding /\ Booked /\ Copied /\ Credits /\ Books

LEMMA SyncInit == Init => SyncInv
<1>1. Init => Listed /\ Winding /\ Booked /\ Copied /\ Credits /\ Books
  BY DEF Init, Listed, Winding, Booked, Copied, Credits, Books, Crediting, Running, Stopped,
         Booting
<1> QED BY <1>1, TypesInit, PollingInit DEF SyncInv

LEMMA SyncStep == SyncInv /\ [Next]_vars => SyncInv'
<1> SUFFICES ASSUME SyncInv, [Next]_vars PROVE SyncInv'
  OBVIOUS
<1>1. Types' BY TypesStep DEF SyncInv
<1>2. Polling' BY <1>1, PollingStep DEF SyncInv
<1>3. Listed' /\ Winding' /\ Booked' /\ Copied' /\ Credits'
  BY ListedStep, WindingStep, BookedStep, CopiedStep, CreditsStep DEF SyncInv
<1>4. Books' BY <1>1, <1>2, BooksStep DEF SyncInv
<1> QED BY <1>1, <1>2, <1>3, <1>4 DEF SyncInv

\* Until the reconciler writes, Redis differs from the exchange by exactly the
\* trades not yet polled and the mints not yet credited, whatever replies were
\* lost and however the trades interleave with the market task.
THEOREM RedisLags == Spec => []RedisLagsByTheUnpolled
<1>1. SyncInv => RedisLagsByTheUnpolled
  BY BalancedIsSettled DEF SyncInv, Books, RedisLagsByTheUnpolled
<1> QED BY SyncInit, SyncStep, <1>1, PTL DEF Spec

-----------------------------------------------------------------------------
(***************************************************************************)
(* The reserve.  The bot's orders sell, and the fee of a sale is a share   *)
(* of its value, rounded up (utils/integer_math.py calculate_fee), so it   *)
(* never exceeds what the sale brings: the trades that the cash in ctx     *)
(* does not know of yet can only have added to the account.                *)
(***************************************************************************)
SalesAddCash == \A t \in Deals : TrueEffect(t).cash >= 0

Harmed == Incidents \cup {"lost"}

\* While nothing is being credited, Redis lacks the unpolled trades only.
LEMMA OnlyTradesAreOwed ==
    ASSUME SyncInv, Running, Unseen(Harmed), ~Crediting, NEW field \in DOMAIN Nothing
    PROVE  /\ truth[field] = redis[field] + Owed(field)
           /\ truth[field] \in Int /\ redis[field] \in Int /\ Owed(field) \in Int
<1>1. Balanced /\ uncredited = 0 /\ Types
  BY DEF SyncInv, Books, Credits, Unseen, Harmed
<1>2. redis \in Cached BY <1>1 DEF Types, StoreTypes
<1>3. Pairs(0)[field] = 0 BY PairsAdd
<1>4. truth[field] \in Int /\ redis[field] \in Int /\ Owed(field) \in Int
  BY <1>1, <1>2, BookTypes
<1>5. truth[field] = redis[field] + Pairs(uncredited)[field] + Owed(field)
  BY <1>1 DEF Balanced
<1> QED BY <1>1, <1>3, <1>4, <1>5

LEMMA OwedCash ==
    ASSUME SalesAddCash, Types, Listed
    PROVE  Owed("cash") >= 0
<1>0. "cash" \in DOMAIN Nothing BY Fieldwise
<1>1. \A n \in Unpolled : Effects("cash")[n] \in Nat
  <2> TAKE n \in Unpolled
  <2>1. n \in DOMAIN feed /\ Effects("cash")[n] \in Int BY <1>0, EffectsAreInts
  <2>2. TrueEffect(feed[n]).cash >= 0 BY <2>1 DEF Listed, SalesAddCash
  <2> QED BY <2>1, <2>2 DEF Effects
<1>2. IsFiniteSet(Unpolled) BY <1>0, EffectsAreInts
<1>3. SumFunctionOnSet(Effects("cash"), Unpolled) \in Nat
  <2>1. {} \in SUBSET Unpolled OBVIOUS
  <2> QED BY <1>1, <1>2, <2>1, SumGrows
<1> QED BY <1>3, OwedIsSum

LEMMA SurplusFits ==
    ASSUME NEW inv \in Inventory
    PROVE  /\ Surplus(inv) * PairCost <= inv.cash - Threshold
           /\ Surplus(inv) * PairCost \in Int
<1>1. inv.cash - Threshold \in Int /\ PairCost \in Nat \ {0}
  BY CashAssumption DEF Inventory
<1>2. \A a \in Int, b \in Nat \ {0} : (a \div b) * b \in Int /\ (a \div b) * b <= a
  OBVIOUS
<1> QED BY <1>1, <1>2 DEF Surplus

LEMMA MintLeavesReserve ==
    ASSUME SalesAddCash, SyncInv, [Next]_vars, pc = "mint", truth'.cash < truth.cash,
           Unseen(Harmed)
    PROVE  truth'.cash >= Threshold
<1>1. /\ Types /\ Listed /\ truth \in Inventory /\ redis \in Cached
      /\ Running /\ ~Crediting
  BY Amounts
     DEF SyncInv, Types, ExchangeTypes, StoreTypes, Running, Stopped, Booting, Crediting
<1>2. local = Position(redis) /\ qty = Surplus(local)
  BY DEF SyncInv, Copied, Unseen, Harmed, Incidents
<1>0. "cash" \in DOMAIN Nothing BY Fieldwise
<1>3. truth.cash >= local.cash /\ truth.cash \in Int /\ local.cash \in Int
  <2>1. /\ truth["cash"] = redis["cash"] + Owed("cash")
        /\ truth["cash"] \in Int /\ redis["cash"] \in Int /\ Owed("cash") \in Int
    BY <1>0, <1>1, OnlyTradesAreOwed
  <2>2. Owed("cash") >= 0 BY <1>1, OwedCash
  <2>3. local["cash"] = redis["cash"] BY <1>0, <1>1, <1>2, Fieldwise
  <2> QED BY <2>1, <2>2, <2>3
<1>4. CASE \E t \in Deals : Happen(t)
  <2>1. PICK t \in Deals : Happen(t) BY <1>4
  <2>2. TrueEffect(t) \in Inventory BY DealsAssumption, Amounts
  <2>3. truth'.cash = truth.cash + TrueEffect(t).cash BY <1>1, <2>1, <2>2, Sums DEF Happen
  <2>4. TrueEffect(t).cash \in Int /\ TrueEffect(t).cash >= 0
    BY <2>2 DEF SalesAddCash, Inventory
  <2> QED BY <1>3, <2>3, <2>4
<1>5. CASE Mint \/ MintFails
  <2>1. truth' = truth \/ truth' = Plus(truth, Pairs(qty))
    BY <1>5 DEF Mint, MintFails, ExchangeMint, exchange
  <2>2. truth' = Plus(truth, Pairs(qty)) BY <1>3, <2>1
  <2>3. Pairs(qty) \in Inventory /\ Pairs(qty).cash = -(qty * PairCost)
    BY <1>1, BookTypes, <1>0 DEF Pairs, Delta
  <2>4. truth'.cash = truth.cash + -(qty * PairCost) BY <1>1, <2>2, <2>3, Sums
  <2>5. qty * PairCost <= local.cash - Threshold /\ qty * PairCost \in Int
    <3>1. local \in Inventory BY <1>1 DEF Types, MarketTypes
    <3> QED BY <1>2, <3>1, SurplusFits
  <2> QED BY <1>3, <2>4, <2>5, CashAssumption
<1>6. Next => \/ \E t \in Deals : Happen(t)
              \/ Mint \/ MintFails \/ truth' = truth
  BY DEF Next, Booting, exchange, Resolve, Restart, Start, BootStep, BootBalance, BootPositions,
         BootMint, BootReread, BootSet, Boot, Cycle, Poll, HandleTrade, EmptyPage,
         ReadCache, Assign, MintRefused, Credit, CreditRedis, SeeFinalStatus,
         SeeNoFinalStatus, Quote, CancelAll, Burn, BurnRefused, Stop, Go, Failure,
         BootFails, BootMintRefused, PollFails, CancelFails, BurnFails, Reconcile, FetchBalance,
         FetchPositions, InSync, DetectDrift, CorrectDrift, ReadFresh, AssignFresh,
         Reconciler, ReconcilerDies, Crash
<1> QED BY <1>3, <1>4, <1>5, <1>6 DEF vars, exchange

\* A reinvestment decides on a copy of the cash that trades have overtaken,
\* and still never takes the account below the threshold.
THEOREM ReserveKept ==
    ASSUME SalesAddCash
    PROVE  Spec => ReserveIsKept
<1>1. SyncInv /\ [Next]_vars =>
          [pc = "mint" /\ truth'.cash < truth.cash /\ Unseen(Incidents \cup {"lost"})
               => truth'.cash >= Threshold]_vars
  BY MintLeavesReserve DEF Harmed
<1> QED BY SyncInit, SyncStep, <1>1, PTL DEF Spec, ReserveIsKept

-----------------------------------------------------------------------------
(***************************************************************************)
(* Winding down burns every pair.  Sales that the inventory does not know  *)
(* of only lower the account's volumes: the burn asks for at least what    *)
(* there is, is refused if for more, and burns the rest if not.            *)
(***************************************************************************)
LEMMA OwedVolumes ==
    ASSUME OnlySells, Types, Listed, NEW field \in {"yes", "no"}
    PROVE  Owed(field) <= 0
<1>0. field \in DOMAIN Nothing BY Fieldwise
<1>1. \A n \in Unpolled : Effects(field)[n] \in Int /\ Effects(field)[n] <= 0
  <2> TAKE n \in Unpolled
  <2>1. n \in DOMAIN feed /\ Effects(field)[n] \in Int BY <1>0, EffectsAreInts
  <2>2. TrueEffect(feed[n]).yes <= 0 /\ TrueEffect(feed[n]).no <= 0
    BY <2>1 DEF Listed, OnlySells
  <2>3. TrueEffect(feed[n])[field] <= 0 BY <2>2
  <2> QED BY <2>1, <2>3 DEF Effects
<1>2. IsFiniteSet(Unpolled) BY <1>0, EffectsAreInts
<1>3. SumFunctionOnSet(Effects(field), Unpolled) <= 0 BY <1>1, <1>2, SumIsNotPositive
<1> QED BY <1>3, OwedIsSum

\* What winding down knows of covers what there is.
LEMMA KnownPairsCover ==
    ASSUME OnlySells, SyncInv, Unseen(Harmed), pc \in {"cancel", "burn"}
    PROVE  /\ Burnable(truth) <= Burnable(ctx)
           /\ truth.yes \in Nat /\ truth.no \in Nat
           /\ Burnable(truth) \in Nat /\ Burnable(ctx) \in Int
<1>1. /\ Types /\ Listed /\ truth \in Holdings /\ redis \in Cached
      /\ Running /\ ~Crediting
  BY DEF SyncInv, Types, ExchangeTypes, StoreTypes, Running, Stopped, Booting, Crediting
<1>2. ctx = Position(redis)
  BY DEF SyncInv, Copied, Unseen, Harmed, Incidents
<1>3. ASSUME NEW field \in {"yes", "no"}
      PROVE  /\ truth[field] <= ctx[field]
             /\ truth[field] \in Int /\ ctx[field] \in Int
  <2>1. field \in DOMAIN Nothing BY Fieldwise
  <2>2. /\ truth[field] = redis[field] + Owed(field)
        /\ truth[field] \in Int /\ redis[field] \in Int /\ Owed(field) \in Int
    BY <1>1, <2>1, OnlyTradesAreOwed
  <2>3. Owed(field) <= 0 BY <1>1, OwedVolumes
  <2>4. ctx[field] = redis[field] BY <1>1, <1>2, <2>1, Fieldwise
  <2> QED BY <2>2, <2>3, <2>4
<1>4. /\ truth.yes <= ctx.yes /\ truth.no <= ctx.no
      /\ ctx.yes \in Int /\ ctx.no \in Int
  BY <1>3
<1>5. truth.yes \in Nat /\ truth.no \in Nat BY <1>1 DEF Holdings
<1> QED BY <1>4, <1>5 DEF Burnable, Lesser

\* No burn was made before the one that ends the market, and none is left.
Burnt ==
    Unseen(Harmed) =>
        /\ pc # "ended" => \A n \in Nat : <<"winding_down", n>> \notin keys
        /\ pc = "ended" => Burnable(truth) = 0

LEMMA LastBurn ==
    ASSUME OnlySells, SyncInv, Burnt, Burn, Unseen(Harmed)
    PROVE  Burnable(truth') = 0
<1>1. /\ pc = "burn" /\ qty \in Nat /\ truth \in Holdings /\ qty = Burnable(ctx)
      /\ qty <= Burnable(truth)
  BY DEF Burn, ExchangeBurn, SyncInv, Types, MarketTypes, ExchangeTypes, Copied, Unseen,
         Harmed, Incidents
<1>2. qty = Burnable(truth) BY <1>1, KnownPairsCover
<1>3. truth' = Plus(truth, Pairs(-qty))
  BY <1>1 DEF Burn, ExchangeBurn, Burnt, BurnKey
<1>4. /\ Pairs(-qty) \in Inventory /\ truth \in Inventory
      /\ Pairs(-qty).yes = -qty /\ Pairs(-qty).no = -qty
  BY <1>1, Amounts DEF Pairs, Delta
<1>5. truth'.yes = truth.yes + -qty /\ truth'.no = truth.no + -qty
  BY <1>3, <1>4, Sums
<1>6. truth.yes \in Nat /\ truth.no \in Nat BY <1>1 DEF Holdings
<1> QED BY <1>1, <1>2, <1>5, <1>6 DEF Burnable, Lesser

LEMMA BurntStep ==
    ASSUME OnlySells, SyncInv, Burnt, [Next]_vars
    PROVE  Burnt'
<1> DEFINE Unused == \A n \in Nat : <<"winding_down", n>> \notin keys
<1> SUFFICES ASSUME Unseen(Harmed)'
             PROVE  /\ pc' # "ended" => Unused'
                    /\ pc' = "ended" => Burnable(truth') = 0
  BY DEF Burnt
<1>0. /\ Unseen(Harmed) /\ Types /\ (pc = "ended" => resolved /\ rec = "off")
      /\ pc # "ended" => Unused
      /\ pc = "ended" => Burnable(truth) = 0
  BY HistoryGrows
     DEF Burnt, SyncInv, Winding, Unseen, Types, StoreTypes, Running, Stopped
<1>1. CASE Burn
  BY <1>0, <1>1, LastBurn DEF Burn, End
<1>2. CASE CancelAll
  <2>1. pc = "cancel" /\ UNCHANGED <<truth, keys>> BY <1>2 DEF CancelAll, exchange
  <2>2. pc' = "ended" => ~(Burnable(ctx) > 0) BY <1>2, <2>1 DEF CancelAll
  <2>3. pc' = "ended" => Burnable(truth) = 0 BY <1>0, <2>1, <2>2, KnownPairsCover
  <2> QED BY <1>0, <2>1, <2>3
<1>3. CASE MintFails \/ CancelFails \/ BurnFails
  BY <1>3 DEF MintFails, CancelFails, BurnFails, Fault, Unseen, Harmed
<1>4. CASE BootMint \/ BootFails \/ Mint
  <2>1. /\ pc # "ended" /\ pc' # "ended"
        /\ \/ keys' = keys
           \/ keys' = keys \cup {<<"init", Cardinality(keys)>>}
           \/ keys' = keys \cup {<<"reinvest", local.cash>>}
    BY <1>4
       DEF BootMint, Boot, BootFails, BootMintRefused, Booting, Mint, Go, ReinvestKey,
           ExchangeMint, exchange
  <2> QED BY <1>0, <2>1
<1>5. CASE \E t \in Deals : Happen(t)
  BY <1>0, <1>5 DEF Happen, market
<1>6. CASE \/ Resolve \/ Start \/ BootBalance \/ BootPositions \/ BootReread \/ BootSet
           \/ Poll \/ HandleTrade \/ EmptyPage \/ ReadCache \/ Assign \/ MintRefused
           \/ Credit \/ CreditRedis \/ SeeFinalStatus \/ SeeNoFinalStatus \/ Quote
           \/ BurnRefused \/ Stop \/ PollFails \/ Reconcile \/ ReconcilerDies \/ Crash
           \/ UNCHANGED vars
  <2>1. /\ UNCHANGED <<truth, keys>>
        /\ \/ pc' = pc
           \/ pc # "ended" /\ pc' # "ended"
    BY <1>6
       DEF Resolve, Start, BootBalance, BootPositions, BootReread, BootSet, Boot, Poll,
           HandleTrade, EmptyPage, ReadCache, Assign, MintRefused, Credit, CreditRedis,
           SeeFinalStatus, SeeNoFinalStatus, Quote, BurnRefused, UndoWindingDown, Stop,
           PollFails, Reconcile, FetchBalance, FetchPositions, InSync, DetectDrift,
           CorrectDrift, ReadFresh, AssignFresh, Reconciler, ReconcilerDies, Crash, End,
           Go, Booting, Stopped, vars, exchange, market
  <2> QED BY <1>0, <2>1
<1> QED
  BY <1>1, <1>2, <1>3, <1>4, <1>5, <1>6 DEF Next, Restart, BootStep, Cycle, Failure

\* A resolved market ends without a pair, although the inventory its burn was
\* computed from was overtaken by trades, if the bot's orders only sell.
THEOREM NoPairIsLeft ==
    ASSUME OnlySells
    PROVE  Spec => []BurnsAllPairs
<1>1. Init => SyncInv /\ Burnt
  BY SyncInit DEF Init, Burnt
<1>2. SyncInv /\ Burnt /\ [Next]_vars => (SyncInv /\ Burnt)'
  BY SyncStep, BurntStep
<1>3. SyncInv /\ Burnt => BurnsAllPairs
  BY DEF Burnt, BurnsAllPairs, Harmed
<1> QED BY <1>1, <1>2, <1>3, PTL DEF Spec
=============================================================================
