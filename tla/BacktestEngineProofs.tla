------------------------- MODULE BacktestEngineProofs -------------------------
(***************************************************************************)
(* Theorems about the session loop, for any scenario, any number of        *)
(* sessions, tickers and keys, any rates and any selection of the strategy:*)
(*   EveryOrderIsFilled  : no order of a list is refused or unaffordable;  *)
(*   FillsAreNextOpen    : orders fill at the open after their rebalance;  *)
(*   TerminationsAreExits, ExitsAreTaken : what is sold as a termination,  *)
(*                         and that no known exit is passed over;          *)
(*   DroppedAreSold      : what the target drops is sold whole;            *)
(*   ValuationFollowsTape: what the equity of a session counts;            *)
(*   RunIsLedger         : the account of a run is a TradeLedger.          *)
(***************************************************************************)
EXTENDS BacktestEngine, Sums

------------------------------------------------------------------------------
(* Arithmetic.                                                              *)

LEMMA Numbers ==
    /\ BpsDivisor \in Nat \ {0} /\ RateDivisor \in Nat \ {0}
    /\ SlippageBps \in Nat /\ SlippageBps <= BpsDivisor
    /\ CommissionRate \in Nat /\ CommissionRate <= RateDivisor
    /\ BpsDivisor + SlippageBps \in Nat \ {0} /\ BpsDivisor - SlippageBps \in Nat
    /\ RateDivisor + CommissionRate \in Nat \ {0} /\ RateDivisor - CommissionRate \in Nat
  BY ExecutionAssumption DEF ExecutionAssumption

LEMMA Products ==
    ASSUME NEW m \in Nat, NEW n \in Nat
    PROVE  m * n \in Nat /\ (m > 0 /\ n > 0 => m * n > 0)
  OBVIOUS

LEMMA Division ==
    ASSUME NEW a \in Nat, NEW d \in Nat \ {0}
    PROVE  a \div d \in Nat /\ (a \div d) * d <= a
  OBVIOUS

LEMMA ProductGrows ==
    ASSUME NEW x \in Nat, NEW y \in Nat, NEW z \in Nat, x <= y
    PROVE  x * z <= y * z
  OBVIOUS

\* The broker and the order service compute with the same formulas.
LEMMA SameFormulas ==
    ASSUME NEW side, NEW n, NEW t
    PROVE  /\ Broker!Quoted(n) = Quoted(n)
           /\ Broker!ApplySlippage(side, n) = ApplySlippage(side, n)
           /\ Broker!BuyCost(n, t) = BuyCost(n, t)
           /\ Broker!SellProceeds(n, t) = SellProceeds(n, t)
           /\ Orders!ApplySlippage(side, n) = ApplySlippage(side, n)
           /\ Orders!BuyCost(n, t) = BuyCost(n, t)
           /\ Orders!SellProceeds(n, t) = SellProceeds(n, t)
           /\ Orders!TradeValue(n, t) = TradeValue(n, t)
  BY DEF Broker!Quoted, Broker!ApplySlippage, Broker!BuyCost, Broker!SellProceeds,
         Orders!ApplySlippage, Orders!BuyCost, Orders!SellProceeds, Orders!TradeValue,
         Quoted, ApplySlippage, BuyCost, SellProceeds, TradeValue

LEMMA Amounts ==
    ASSUME NEW quantity \in Nat, NEW ticks \in Nat
    PROVE  /\ TradeValue(quantity, ticks) \in Nat
           /\ BuyCost(quantity, ticks) \in Nat
           /\ SellProceeds(quantity, ticks) \in Nat
  <1> DEFINE worth == quantity * ticks
  <1>1. worth \in Nat
    BY Products
  <1> HIDE DEF worth
  <1>2. /\ worth * RateDivisor \in Nat
        /\ worth * (RateDivisor + CommissionRate) \in Nat
        /\ worth * (RateDivisor - CommissionRate) \in Nat
    BY <1>1, Numbers, Products
  <1> QED
    BY <1>2 DEF worth, TradeValue, BuyCost, SellProceeds

LEMMA Prices ==
    ASSUME NEW price \in Nat, NEW side
    PROVE  /\ Quoted(price) \in Nat
           /\ ApplySlippage(side, price) \in Nat
           /\ price > 0 => ApplySlippage("BUY", price) > 0 /\ Quoted(price) > 0
  <1>1. /\ price * BpsDivisor \in Nat
        /\ price * (BpsDivisor + SlippageBps) \in Nat
        /\ price * (BpsDivisor - SlippageBps) \in Nat
        /\ price > 0 => price * (BpsDivisor + SlippageBps) > 0 /\ price * BpsDivisor > 0
    BY Numbers, Products
  <1> QED
    BY <1>1 DEF Quoted, ApplySlippage

------------------------------------------------------------------------------
(* The market.                                                              *)

World == world \in Scenarios /\ session \in Sessions

\* What the loop reads of a scenario: prices are naturals, and a tape has ended when
\* it has no bar from this session on.
LEMMA Market ==
    ASSUME World
    PROVE  /\ Tradable \subseteq Symbols /\ DOMAIN Opens = Tradable /\ DOMAIN Closes = Tradable
           /\ \A s \in Tradable : Opens[s] \in Nat /\ Closes[s] \in Nat
           /\ \A s \in Tradable : ~Stopped(s)
           /\ \A s \in Symbols : Ended(s) <=> Stopped(s)
           /\ \A s \in Symbols : BarSessions(s) # {} =>
                 /\ LastBar(s) \in Sessions /\ world.tape[s][LastBar(s)] # NoBar
                 /\ LastClose(s) \in Nat
                 /\ \A t \in Sessions : t > LastBar(s) => world.tape[s][t] = NoBar
  <1>1. /\ session \in 1 .. LastSession /\ LastSession \in Nat
        /\ \A s \in Symbols, t \in Sessions :
              world.tape[s][t] = NoBar \/ (world.tape[s][t].open \in Nat /\ world.tape[s][t].close \in Nat)
    BY EngineAssumption DEF EngineAssumption, World, Sessions
  <1>2. /\ Tradable \subseteq Symbols /\ DOMAIN Opens = Tradable /\ DOMAIN Closes = Tradable
        /\ \A s \in Tradable : Opens[s] \in Nat /\ Closes[s] \in Nat
    BY <1>1 DEF Tradable, HasBar, Opens, Closes, Sessions
  <1>3. ASSUME NEW s \in Symbols
        PROVE  /\ s \in Tradable => ~Stopped(s)
               /\ Ended(s) <=> Stopped(s)
               /\ BarSessions(s) # {} =>
                    /\ LastBar(s) \in Sessions /\ world.tape[s][LastBar(s)] # NoBar
                    /\ LastClose(s) \in Nat
                    /\ \A t \in Sessions : t > LastBar(s) => world.tape[s][t] = NoBar
    <2>1. s \in Tradable => ~Stopped(s)
      BY <1>1 DEF Tradable, HasBar, Stopped
    <2>2. CASE BarSessions(s) = {}
      <3>1. LastBar(s) = 0 /\ \A t \in Sessions : world.tape[s][t] = NoBar
        BY <2>2 DEF LastBar, BarSessions
      <3> QED
        BY <1>1, <2>1, <2>2, <3>1 DEF Ended, Stopped, Sessions
    <2>3. CASE BarSessions(s) # {}
      <3> DEFINE bars == BarSessions(s)
      <3>1. bars \subseteq 1 .. LastSession /\ bars \in SUBSET Int
        BY <1>1 DEF BarSessions, Sessions
      <3>2. IsFiniteSet(bars)
        <4>1. IsFiniteSet(1 .. LastSession)
          BY <1>1, FS_Interval
        <4> QED
          BY <3>1, <4>1, FS_Subset
      <3>3. Max(bars) \in bars /\ \A y \in bars : y <= Max(bars)
        <4> HIDE DEF bars
        <4> QED
          BY <2>3, <3>1, <3>2, GreatestExists DEF bars
      <3>4. LastBar(s) \in bars /\ \A y \in bars : y <= LastBar(s)
        BY <2>3, <3>3 DEF LastBar
      <3>5. LastBar(s) \in Sessions /\ world.tape[s][LastBar(s)] # NoBar /\ LastBar(s) \in Nat
        BY <3>4, <1>1 DEF BarSessions, Sessions
      <3>6. \A t \in Sessions : t > LastBar(s) => world.tape[s][t] = NoBar
        BY <3>4, <3>5, <1>1 DEF BarSessions, Sessions
      <3>7. LastClose(s) \in Nat
        BY <1>1, <3>5 DEF LastClose
      <3>8. Ended(s) <=> Stopped(s)
        BY <1>1, <3>5, <3>6 DEF Ended, Stopped, Sessions
      <3> QED
        BY <2>1, <3>5, <3>6, <3>7, <3>8
    <2> QED
      BY <2>2, <2>3
  <1> QED
    BY <1>2, <1>3

------------------------------------------------------------------------------
(* The account, and what a fill makes of it.                                *)

Holding(A) == [symbol : Symbols, quantity : Nat \ {0}, average : A, price : Nat, valued : BOOLEAN]

\* The averages are of no concern to the loop, and the logs are sequences of whatever.
Account ==
    /\ cash \in Nat
    /\ DOMAIN positions \subseteq Keys /\ IsFiniteSet(DOMAIN positions)
    /\ \E A : positions \in [DOMAIN positions -> Holding(A)]
    /\ \E S : orders \in Seq(S)
    /\ \E S : fills \in Seq(S)

Shares(k) == IF k \in DOMAIN positions THEN positions[k].quantity ELSE 0

\* An order the broker can fill at the opens it was given.
Ready(order) ==
    /\ order.key \in Keys /\ order.symbol \in Tradable /\ Opens[order.symbol] > 0
    /\ order.side \in Sides /\ order.quantity \in Nat \ {0}
    /\ order.side = "SELL" => order.quantity <= Shares(order.key)

Price(order) == ApplySlippage(order.side, Opens[order.symbol])
Money(order) ==
    IF order.side = "BUY" THEN -BuyCost(order.quantity, Price(order))
                          ELSE SellProceeds(order.quantity, Price(order))

\* The account after a fill: the cash it moved, the position of its key, its records.
\* `whole' is whether the sale was of everything held.
Filled(order, ticks, shares, money) ==
    /\ cash' = cash + money
    /\ DOMAIN positions' \cup {order.key} = DOMAIN positions \cup {order.key}
    /\ \A k \in DOMAIN positions \ {order.key} : positions'[k] = positions[k]
    /\ IF Shares(order.key) + shares = 0
       THEN order.key \notin DOMAIN positions'
       ELSE /\ order.key \in DOMAIN positions'
            /\ positions'[order.key].quantity = Shares(order.key) + shares
            /\ positions'[order.key].symbol = order.symbol
    /\ \E f : /\ fills' = Append(fills, f)
              /\ f.key = order.key /\ f.symbol = order.symbol /\ f.quantity = order.quantity
              /\ f.price = ticks /\ f.time = sessionTime' /\ f.cash = cash'
    /\ orders' = Append(orders, [order |-> order, status |-> "FILLED"])
    /\ UNCHANGED <<connected, marketPrices>>

LEMMA Appends ==
    ASSUME NEW S, NEW s \in Seq(S), NEW x
    PROVE  /\ Append(s, x) \in Seq(S \cup {x})
           /\ Len(s) \in Nat /\ Len(Append(s, x)) = Len(s) + 1
           /\ DOMAIN s = 1 .. Len(s) /\ DOMAIN Append(s, x) = 1 .. Len(s) + 1
           /\ \A i \in DOMAIN s : Append(s, x)[i] = s[i]
           /\ Append(s, x)[Len(s) + 1] = x
  <1>1. s \in Seq(S \cup {x}) /\ x \in S \cup {x}
    OBVIOUS
  <1> QED
    BY <1>1

LEMMA LogGrows ==
    ASSUME NEW s, \E S : s \in Seq(S), NEW x
    PROVE  /\ \E S : Append(s, x) \in Seq(S)
           /\ Len(s) \in Nat /\ Len(Append(s, x)) = Len(s) + 1
           /\ DOMAIN s = 1 .. Len(s) /\ DOMAIN Append(s, x) = 1 .. Len(s) + 1
           /\ \A i \in DOMAIN s : Append(s, x)[i] = s[i]
           /\ Append(s, x)[Len(s) + 1] = x
           /\ Append(s, x)[Len(Append(s, x))] = x
  <1>1. PICK S : s \in Seq(S)
    OBVIOUS
  <1> DEFINE grown == Append(s, x)
  <1>2. /\ grown \in Seq(S \cup {x})
        /\ Len(s) \in Nat /\ Len(grown) = Len(s) + 1
        /\ DOMAIN s = 1 .. Len(s) /\ DOMAIN grown = 1 .. Len(s) + 1
        /\ \A i \in DOMAIN s : grown[i] = s[i]
        /\ grown[Len(s) + 1] = x
    BY <1>1, Appends
  <1> HIDE DEF grown
  <1>3. grown[Len(grown)] = x /\ \E T : grown \in Seq(T)
    BY <1>2
  <1> QED
    BY <1>2, <1>3 DEF grown

\* Buying keeps the account in range.
LEMMA BuyFills ==
    ASSUME Account, NEW order, NEW ticks \in Nat, NEW market,
           order.key \in Keys, order.symbol \in Symbols, order.quantity \in Nat \ {0},
           BuyCost(order.quantity, ticks) <= cash, Broker!FillBuy(order, ticks, market)
    PROVE  /\ Account'
           /\ Filled(order, ticks, order.quantity, -BuyCost(order.quantity, ticks))
           /\ orders'[Len(orders')].status = "FILLED"
  <1> DEFINE cost == BuyCost(order.quantity, ticks)
             bought == Broker!Bought(order, ticks)
             new == [k \in DOMAIN positions \cup {order.key} |->
                        IF k = order.key THEN bought ELSE positions[k]]
             log == [order |-> order, status |-> "FILLED"]
  <1>1. cost \in Nat /\ cash \in Nat /\ cost <= cash /\ Broker!BuyCost(order.quantity, ticks) = cost
    BY Amounts, SameFormulas DEF Account
  <1>2. /\ orders' = Append(orders, log)
        /\ Broker!RecordFill(order, ticks, market, -cost, new)
        /\ UNCHANGED <<connected, marketPrices>>
    <2>1. ~ (Broker!BuyCost(order.quantity, ticks) > cash)
      BY <1>1
    <2> HIDE DEF cost
    <2> QED
      BY <1>1, <2>1 DEF Broker!FillBuy, Broker!LogOrder
  <1>3. /\ cash' = cash + (-cost) /\ positions' = new
        /\ \E f : /\ fills' = Append(fills, f)
                  /\ f.key = order.key /\ f.symbol = order.symbol /\ f.quantity = order.quantity
                  /\ f.price = ticks /\ f.time = sessionTime' /\ f.cash = cash'
    <2> HIDE DEF cost, new
    <2> QED
      BY <1>2 DEF Broker!RecordFill
  <1>4. /\ bought.quantity = Shares(order.key) + order.quantity /\ bought.symbol = order.symbol
        /\ Shares(order.key) \in Nat
        /\ \A A : positions \in [DOMAIN positions -> Holding(A)] =>
              bought \in Holding(A \cup {bought.average})
    <2>1. Shares(order.key) \in Nat
      BY DEF Account, Shares, Holding
    <2>2. bought.quantity = Shares(order.key) + order.quantity /\ bought.symbol = order.symbol
          /\ bought.price = ticks /\ bought.valued = TRUE
      BY DEF Broker!Bought, Broker!Held, Shares
    <2>3. DOMAIN bought = {"symbol", "price", "valued", "quantity", "average"}
          /\ bought = [symbol |-> bought.symbol, quantity |-> bought.quantity,
                       average |-> bought.average, price |-> bought.price, valued |-> bought.valued]
      BY DEF Broker!Bought
    <2> HIDE DEF bought
    <2>4. bought.quantity \in Nat \ {0}
      BY <2>1, <2>2
    <2> QED
      BY <2>1, <2>2, <2>3, <2>4 DEF Holding
  <1> HIDE DEF bought
  <1>5. DOMAIN new = DOMAIN positions \cup {order.key} /\ new[order.key] = bought
        /\ \A k \in DOMAIN positions \ {order.key} : new[k] = positions[k]
    OBVIOUS
  <1>6. PICK A : positions \in [DOMAIN positions -> Holding(A)]
    BY DEF Account
  <1>7. new \in [DOMAIN new -> Holding(A \cup {bought.average})]
    BY <1>4, <1>6 DEF Holding
  <1>8. IsFiniteSet(DOMAIN new) /\ DOMAIN new \subseteq Keys
    BY <1>5, FS_AddElement DEF Account
  <1>9. /\ \E S : orders' \in Seq(S)
        /\ \E S : fills' \in Seq(S)
        /\ orders'[Len(orders')] = log
    <2>1. (\E S : orders \in Seq(S)) /\ (\E S : fills \in Seq(S))
      BY DEF Account
    <2>2. PICK f : fills' = Append(fills, f)
      BY <1>3
    <2>3. orders' = Append(orders, log)
      BY <1>2
    <2> HIDE DEF log
    <2>4. (\E S : orders' \in Seq(S)) /\ orders'[Len(orders')] = log
      BY <2>1, <2>3, LogGrows
    <2>5. \E S : fills' \in Seq(S)
      BY <2>1, <2>2, LogGrows
    <2> QED
      BY <2>4, <2>5
  <1> HIDE DEF new, cost
  <1>10. Account'
    BY <1>1, <1>3, <1>7, <1>8, <1>9 DEF Account
  <1>11. Filled(order, ticks, order.quantity, -cost)
    <2>1. Shares(order.key) + order.quantity # 0
      BY <1>4
    <2> QED
      BY <1>2, <1>3, <1>4, <1>5, <2>1 DEF Filled
  <1> QED
    BY <1>9, <1>10, <1>11 DEF cost

\* Selling what is held, or a part of it, keeps the account in range.
LEMMA SaleFills ==
    ASSUME Account, NEW order, NEW ticks \in Nat, NEW market,
           order.key \in Keys, order.symbol \in Symbols, order.quantity \in Nat \ {0},
           order.quantity <= Shares(order.key), Broker!FillSell(order, ticks, market)
    PROVE  /\ Account'
           /\ Filled(order, ticks, -order.quantity, SellProceeds(order.quantity, ticks))
           /\ orders'[Len(orders')].status = "FILLED"
           /\ ticks = market => \E f : fills' = Append(fills, f) /\ f.slippage = 0
  <1> DEFINE proceeds == SellProceeds(order.quantity, ticks)
             new == Broker!AfterSale(order, ticks)
             held == positions[order.key]
             log == [order |-> order, status |-> "FILLED"]
  <1>1. proceeds \in Nat /\ cash \in Nat /\ Broker!SellProceeds(order.quantity, ticks) = proceeds
    BY Amounts, SameFormulas DEF Account
  <1>2. /\ orders' = Append(orders, log)
        /\ Broker!RecordFill(order, ticks, market, proceeds, new)
        /\ UNCHANGED <<connected, marketPrices>>
    <2>1. ~ (order.quantity > Broker!Held(order.key))
      BY DEF Broker!Held, Shares, Account, Holding
    <2> HIDE DEF proceeds, new
    <2> QED
      BY <1>1, <2>1 DEF Broker!FillSell, Broker!LogOrder, new
  <1>3. /\ cash' = cash + proceeds /\ positions' = new
        /\ \E f : /\ fills' = Append(fills, f)
                  /\ f.key = order.key /\ f.symbol = order.symbol /\ f.quantity = order.quantity
                  /\ f.price = ticks /\ f.time = sessionTime' /\ f.cash = cash'
    <2> HIDE DEF proceeds, new
    <2> QED
      BY <1>2 DEF Broker!RecordFill
  <1>4. PICK A : positions \in [DOMAIN positions -> Holding(A)]
    BY DEF Account
  <1>5. /\ order.key \in DOMAIN positions /\ held \in Holding(A)
        /\ Shares(order.key) = held.quantity /\ order.quantity <= held.quantity
    BY <1>4 DEF Shares
  <1>6. /\ new \in [DOMAIN new -> Holding(A)]
        /\ DOMAIN new \cup {order.key} = DOMAIN positions \cup {order.key}
        /\ \A k \in DOMAIN positions \ {order.key} : new[k] = positions[k]
        /\ IF order.quantity = held.quantity
           THEN order.key \notin DOMAIN new
           ELSE /\ order.key \in DOMAIN new
                /\ new[order.key].quantity = held.quantity - order.quantity
                /\ new[order.key].symbol = order.symbol
    <2>1. CASE order.quantity = held.quantity
      <3>1. new = [k \in DOMAIN positions \ {order.key} |-> positions[k]]
        BY <2>1 DEF Broker!AfterSale
      <3> QED
        BY <1>4, <1>5, <2>1, <3>1
    <2>2. CASE order.quantity # held.quantity
      <3> DEFINE left == [held EXCEPT !.symbol = order.symbol, !.price = ticks,
                                      !.quantity = held.quantity - order.quantity]
      <3>1. held.quantity - order.quantity \in Nat \ {0}
        BY <1>5, <2>2 DEF Holding
      <3>2. /\ left \in Holding(A) /\ left.quantity = held.quantity - order.quantity
            /\ left.symbol = order.symbol
        BY <1>5, <3>1 DEF Holding
      <3>3. new = [positions EXCEPT ![order.key] = left]
        BY <2>2 DEF Broker!AfterSale
      <3> HIDE DEF left, new, held
      <3> QED
        BY <1>4, <1>5, <2>2, <3>2, <3>3
    <2> QED
      BY <2>1, <2>2
  <1>7. IsFiniteSet(DOMAIN new) /\ DOMAIN new \subseteq Keys
    <2>1. DOMAIN new \subseteq DOMAIN positions
      BY <1>5, <1>6
    <2> QED
      BY <2>1, FS_Subset DEF Account
  <1>8. /\ \E S : orders' \in Seq(S)
        /\ \E S : fills' \in Seq(S)
        /\ orders'[Len(orders')] = log
    <2>1. (\E S : orders \in Seq(S)) /\ (\E S : fills \in Seq(S))
      BY DEF Account
    <2>2. PICK f : fills' = Append(fills, f)
      BY <1>3
    <2>3. orders' = Append(orders, log)
      BY <1>2
    <2> HIDE DEF log
    <2>4. (\E S : orders' \in Seq(S)) /\ orders'[Len(orders')] = log
      BY <2>1, <2>3, LogGrows
    <2>5. \E S : fills' \in Seq(S)
      BY <2>1, <2>2, LogGrows
    <2> QED
      BY <2>4, <2>5
  <1> HIDE DEF new, proceeds
  <1>9. Account'
    BY <1>1, <1>3, <1>6, <1>7, <1>8 DEF Account
  <1>10. Filled(order, ticks, -order.quantity, proceeds)
    <2>1. held.quantity \in Nat /\ order.quantity \in Nat
      BY <1>5 DEF Holding
    <2> HIDE DEF held
    <2>2. /\ Shares(order.key) + (-order.quantity) = held.quantity - order.quantity
          /\ Shares(order.key) + (-order.quantity) = 0 <=> order.quantity = held.quantity
      BY <1>5, <2>1
    <2> QED
      BY <1>2, <1>3, <1>6, <2>2 DEF Filled
  <1>11. ticks = market => \E f : fills' = Append(fills, f) /\ f.slippage = 0
    <2> SUFFICES ASSUME ticks = market
                 PROVE  \E f : fills' = Append(fills, f) /\ f.slippage = 0
      OBVIOUS
    <2>1. ~ (ticks > market) /\ market - ticks = 0
      OBVIOUS
    <2>2. 0 * order.quantity = 0 /\ 0 * RateDivisor = 0
      BY Numbers
    <2> QED
      BY <1>2, <2>1, <2>2 DEF Broker!RecordFill
  <1> QED
    BY <1>8, <1>9, <1>10, <1>11 DEF proceeds

\* What the broker makes of an order that is ready and that the cash can pay.
LEMMA SubmitFills ==
    ASSUME World, Account, connected = TRUE, marketPrices = Opens, sessionTime = session,
           NEW order, Ready(order), cash + Money(order) >= 0, Broker!SubmitOrder(order)
    PROVE  /\ Account' /\ sessionTime' = session
           /\ Filled(order, Price(order),
                     IF order.side = "BUY" THEN order.quantity ELSE -order.quantity, Money(order))
           /\ orders'[Len(orders')].status = "FILLED"
  <1> DEFINE quote == Opens[order.symbol]
             ticks == Price(order)
  <1>1. /\ quote \in Nat /\ quote > 0 /\ order.symbol \in Symbols
        /\ order.key \in Keys /\ order.quantity \in Nat \ {0}
        /\ order.side = "BUY" \/ order.side = "SELL"
    BY Market DEF Ready, Sides
  <1>2. ~Broker!NotTradable(order)
    BY <1>1, Market DEF Broker!NotTradable, Ready
  <1>3. /\ Broker!ApplySlippage(order.side, marketPrices[order.symbol]) = ticks
        /\ ticks \in Nat
    BY <1>1, SameFormulas, Prices DEF Price
  <1>4. /\ sessionTime' = session
        /\ IF order.side = "BUY" THEN Broker!FillBuy(order, ticks, Broker!Quoted(quote))
                                 ELSE Broker!FillSell(order, ticks, Broker!Quoted(quote))
    BY <1>2, <1>3 DEF Broker!SubmitOrder
  <1>5. CASE order.side = "BUY"
    <2>1. Money(order) = -BuyCost(order.quantity, ticks) /\ BuyCost(order.quantity, ticks) \in Nat
          /\ cash \in Nat
      BY <1>1, <1>3, <1>5, Amounts DEF Money, Account
    <2>2. BuyCost(order.quantity, ticks) <= cash
      BY <2>1
    <2> HIDE DEF ticks, quote
    <2> QED
      BY <1>1, <1>3, <1>4, <1>5, <2>1, <2>2, BuyFills DEF ticks
  <1>6. CASE order.side # "BUY"
    <2>1. Money(order) = SellProceeds(order.quantity, ticks) /\ order.side = "SELL"
      BY <1>1, <1>6 DEF Money
    <2>2. order.quantity <= Shares(order.key)
      BY <2>1 DEF Ready
    <2> HIDE DEF ticks, quote
    <2> QED
      BY <1>1, <1>3, <1>4, <1>6, <2>1, <2>2, SaleFills DEF ticks
  <1> QED
    BY <1>5, <1>6

\* What a termination makes of the position it ends.
LEMMA TerminationFills ==
    ASSUME World, Account, NEW k \in DOMAIN positions, Terminate(k)
    PROVE  LET s == positions[k].symbol
               order == [id |-> TerminationId(s), key |-> k, symbol |-> s, side |-> "SELL",
                         quantity |-> positions[k].quantity]
           IN  /\ s \in Symbols /\ KnownTermination(s) /\ LastClose(s) > 0
               /\ Account' /\ sessionTime' = session
               /\ Filled(order, Quoted(LastClose(s)), -order.quantity,
                         SellProceeds(order.quantity, Quoted(LastClose(s))))
               /\ \E f : fills' = Append(fills, f) /\ f.slippage = 0
               /\ orders'[Len(orders')].status = "FILLED"
  <1> DEFINE s == positions[k].symbol
             order == [id |-> TerminationId(s), key |-> k, symbol |-> s, side |-> "SELL",
                       quantity |-> positions[k].quantity]
             ticks == Quoted(LastClose(s))
  <1>1. /\ s \in Symbols /\ k \in Keys /\ k # NoKey
        /\ order.quantity \in Nat \ {0} /\ order.quantity = Shares(k)
    BY EngineAssumption DEF Account, Holding, Shares, EngineAssumption
  <1>2. KnownTermination(s) /\ LastClose(s) > 0
    BY DEF Terminate, Terminable
  <1>3. LastClose(s) \in Nat /\ ticks \in Nat /\ Broker!Quoted(LastClose(s)) = ticks
    BY <1>1, <1>2, Market, Prices, SameFormulas DEF KnownTermination
  <1>4. Broker!Booked(s, k) = {k}
    BY <1>1 DEF Broker!Booked
  <1>5. /\ sessionTime' = session
        /\ Broker!FillSell(order, ticks, ticks)
    BY <1>3, <1>4 DEF Terminate, Broker!LiquidateAt
  <1>6. order.key = k /\ order.symbol = s
    OBVIOUS
  <1> HIDE DEF order, ticks
  <1>7. /\ Account' /\ orders'[Len(orders')].status = "FILLED"
        /\ Filled(order, ticks, -order.quantity, SellProceeds(order.quantity, ticks))
        /\ \E f : fills' = Append(fills, f) /\ f.slippage = 0
    <2>1. /\ order.key \in Keys /\ order.symbol \in Symbols /\ order.quantity \in Nat \ {0}
          /\ order.quantity <= Shares(order.key)
      BY <1>1, <1>6
    <2> QED
      BY <1>3, <1>5, <2>1, SaleFills
  <1> QED
    BY <1>1, <1>2, <1>5, <1>7 DEF order, ticks

------------------------------------------------------------------------------
(* Valuation and listing changes.                                           *)

\* The same positions under other tickers, or at other prices.
Relisted(new) ==
    /\ positions' = new /\ DOMAIN new = DOMAIN positions
    /\ \A k \in DOMAIN positions : new[k].quantity = positions[k].quantity
    /\ Account'
    /\ UNCHANGED <<connected, cash, orders, fills, marketPrices, sessionTime>>

LEMMA RetargetMoves ==
    ASSUME Account, NEW listings, listings \in [DOMAIN listings -> Symbols],
           Broker!RetargetListings(listings)
    PROVE  /\ Relisted(positions')
           /\ \A k \in DOMAIN positions :
                 /\ positions'[k].symbol = IF k \in DOMAIN listings THEN listings[k]
                                           ELSE positions[k].symbol
                 /\ k \notin DOMAIN listings => positions'[k] = positions[k]
  <1> DEFINE new == [k \in DOMAIN positions |->
                        IF k \in DOMAIN listings THEN [positions[k] EXCEPT !.symbol = listings[k]]
                                                 ELSE positions[k]]
  <1>1. positions' = new /\ UNCHANGED <<connected, cash, orders, fills, marketPrices, sessionTime>>
    BY DEF Broker!RetargetListings, Broker!MovePositions
  <1>2. PICK A : positions \in [DOMAIN positions -> Holding(A)]
    BY DEF Account
  <1>3. /\ new \in [DOMAIN positions -> Holding(A)]
        /\ \A k \in DOMAIN positions :
              /\ new[k].quantity = positions[k].quantity
              /\ new[k].symbol = IF k \in DOMAIN listings THEN listings[k] ELSE positions[k].symbol
              /\ k \notin DOMAIN listings => new[k] = positions[k]
    BY <1>2 DEF Holding
  <1>4. DOMAIN new = DOMAIN positions
    OBVIOUS
  <1> HIDE DEF new
  <1>5. Account'
    BY <1>1, <1>3, <1>4 DEF Account
  <1> QED
    BY <1>1, <1>3, <1>4, <1>5 DEF Relisted

LEMMA MarkMoves ==
    ASSUME Account, NEW prices, prices \in [DOMAIN prices -> Nat], NEW unvalued,
           Broker!MarkToMarket(prices, unvalued)
    PROVE  /\ Relisted(positions')
           /\ \A k \in DOMAIN positions :
                 /\ positions'[k].symbol = positions[k].symbol
                 /\ positions'[k].valued <=> positions[k].symbol \notin unvalued
                 /\ positions[k].symbol \in DOMAIN prices \ unvalued =>
                        positions'[k].price = prices[positions[k].symbol]
  <1> DEFINE new == [k \in DOMAIN positions |-> Broker!Marked(positions[k], prices, unvalued)]
  <1>1. positions' = new /\ UNCHANGED <<connected, cash, orders, fills, marketPrices, sessionTime>>
    BY DEF Broker!MarkToMarket, Broker!MovePositions
  <1>2. PICK A : positions \in [DOMAIN positions -> Holding(A)]
    BY DEF Account
  <1>3. ASSUME NEW k \in DOMAIN positions
        PROVE  /\ new[k] \in Holding(A)
               /\ new[k].quantity = positions[k].quantity
               /\ new[k].symbol = positions[k].symbol
               /\ new[k].valued <=> positions[k].symbol \notin unvalued
               /\ positions[k].symbol \in DOMAIN prices \ unvalued =>
                      new[k].price = prices[positions[k].symbol]
    <2> DEFINE held == positions[k]
    <2>1. held \in Holding(A)
      BY <1>2
    <2>2. CASE held.symbol \in unvalued
      <3>1. new[k] = [held EXCEPT !.valued = FALSE]
        BY <2>2 DEF Broker!Marked
      <3> HIDE DEF new, held
      <3> QED
        BY <2>1, <2>2, <3>1 DEF Holding, held
    <2>3. CASE held.symbol \notin unvalued
      <3>1. new[k] = [held EXCEPT !.valued = TRUE,
                                  !.price = IF held.symbol \in DOMAIN prices
                                            THEN prices[held.symbol] ELSE @]
        BY <2>3 DEF Broker!Marked
      <3> HIDE DEF new, held
      <3> QED
        BY <2>1, <2>3, <3>1 DEF Holding, held
    <2> QED
      BY <2>2, <2>3
  <1>4. DOMAIN new = DOMAIN positions /\ new \in [DOMAIN positions -> Holding(A)]
    BY <1>3
  <1> HIDE DEF new
  <1>5. Account'
    BY <1>1, <1>4 DEF Account
  <1> QED
    BY <1>1, <1>3, <1>4, <1>5 DEF Relisted

------------------------------------------------------------------------------
(* The invariant.                                                           *)

\* The phases in which a target is being executed.
Executing == {"retarget", "quote", "markOpen", "order", "grant", "submit"}

\* A target is queued from the rebalance that chose it to the end of the next session's
\* submissions, and names known tickers under known keys.
TargetInv ==
    /\ phase \in Executing => target # NoTarget
    /\ phase \in {"close", "record", "signal"} => target = NoTarget
    /\ target # NoTarget =>
          /\ DOMAIN target.listing \subseteq Keys
          /\ target.listing \in [DOMAIN target.listing -> Symbols]
          /\ DOMAIN target.listing # {} => target.count \in Nat \ {0}
          /\ phase = "next" => session \in world.rebalance
          /\ phase \notin {"next", "done"} => session - 1 \in world.rebalance
    /\ phase = "signal" => session \in world.rebalance

\* The account is priced and listed as the order service assumes it to be.
QuoteInv ==
    /\ phase # "connect" => connected = TRUE
    /\ phase \in {"markOpen", "order", "grant", "submit"} =>
          marketPrices = Opens /\ sessionTime = session
    /\ phase \in {"quote", "markOpen", "order", "grant"} =>
          \A k \in DOMAIN positions \cap DOMAIN target.listing :
              positions[k].symbol = target.listing[k]
    /\ phase \in {"order", "grant"} =>
          \A k \in DOMAIN positions : positions[k].symbol \in Tradable =>
              positions[k].valued /\ positions[k].price = Quoted(Opens[positions[k].symbol])

\* The cash that the fills of the list will move.
Moneys == [i \in DOMAIN queue |-> Money(queue[i])]

\* Every queued order can be filled, whatever the ones before it do: each sells what is
\* held under its own key, and no beginning of the list overdraws the account.
QueueInv ==
    phase \in {"grant", "submit"} =>
        /\ \E S : queue \in Seq(S)
        /\ \A i \in DOMAIN queue : Ready(queue[i])
        /\ \A i, j \in DOMAIN queue : i # j => queue[i].key # queue[j].key
        /\ \A i \in 0 .. Len(queue) : cash + Total(Moneys, 1 .. i) >= 0

DeltaInv ==
    phase = "grant" =>
        /\ DOMAIN delta \subseteq Orders!BookedKeys
        /\ \A k \in DOMAIN delta : delta[k] = Orders!Delta(Orders!Slot(k))
        /\ \A i \in DOMAIN queue : queue[i].key \notin DOMAIN delta
        /\ projected = cash + Total(Moneys, 1 .. Len(queue))

\* A position that the target does not want is too small to trade, has no open today,
\* or is still to be sold whole.
Kept(k) ==
    LET s == positions[k].symbol IN
    \/ s \notin Tradable \/ Opens[s] = 0
    \/ TradeValue(positions[k].quantity, Quoted(Opens[s])) < MinTradeValue
ToSell(k) ==
    \/ phase = "grant" /\ k \in DOMAIN delta /\ delta[k] + positions[k].quantity = 0
    \/ \E i \in DOMAIN queue : /\ queue[i].key = k /\ queue[i].side = "SELL"
                               /\ queue[i].quantity = positions[k].quantity
\* An order for a key the target does not want sells all of it.
Disposes(order) ==
    order.key \notin DOMAIN target.listing =>
        order.side = "SELL" /\ order.quantity = Shares(order.key)
DroppedInv ==
    phase \in {"grant", "submit"} =>
        /\ \A i \in DOMAIN queue : Disposes(queue[i])
        /\ SlippageBps < BpsDivisor =>
              \A k \in DOMAIN positions \ DOMAIN target.listing : Kept(k) \/ ToSell(k)

ResultInv == (\E S : submitted \in Seq(S)) /\ EveryOrderFills

EngineInv ==
    /\ World /\ phase \in Phases
    /\ Account /\ TargetInv /\ QuoteInv
    /\ QueueInv /\ DeltaInv /\ DroppedInv
    /\ ResultInv /\ TerminationsRealized

------------------------------------------------------------------------------
(* Sizing.                                                                  *)

\* What an account is worth is what its positions add up to.
LEMMA EquityIsNat ==
    ASSUME Account
    PROVE  Orders!Equity(cash, positions) \in Nat
  <1> DEFINE value == [k \in DOMAIN positions |-> Orders!MarketValue(positions[k])]
             S == DOMAIN positions
             it == CHOOSE it : it = [s \in SUBSET S |->
                        IF s = {} THEN 0
                        ELSE Orders!MarketValue(positions[Pick(s)]) + it[s \ {Pick(s)}]]
  <1>1. cash \in Nat /\ IsFiniteSet(S) /\ \A k \in S : value[k] \in Nat
    <2>1. ASSUME NEW k \in S PROVE Orders!MarketValue(positions[k]) \in Nat
      <3>1. /\ positions[k].quantity \in Nat /\ positions[k].price \in Nat
            /\ positions[k].valued \in BOOLEAN
        BY DEF Account, Holding
      <3>2. TradeValue(positions[k].quantity, positions[k].price) \in Nat
        BY <3>1, Amounts
      <3> QED
        BY <3>1, <3>2, SameFormulas DEF Orders!MarketValue
    <2> QED
      BY <2>1 DEF Account
  <1>2. Orders!Equity(cash, positions) = cash + it[S]
    BY DEF Orders!Equity, MapThenSumSet, MapThenFoldSet, Orders!MapThenSumSet, Orders!MapThenFoldSet, Pick
  <1>3. Adds(it, value, S)
    <2>1. \A jt : Adds(jt, value, S) <=> jt = [s \in SUBSET S |->
                        IF s = {} THEN 0
                        ELSE Orders!MarketValue(positions[Pick(s)]) + jt[s \ {Pick(s)}]]
      BY DEF Adds, Pick
    <2>2. \E jt : Adds(jt, value, S)
      <3> HIDE DEF value, S
      <3>1. \A k \in S : value[k] \in Int
        BY <1>1
      <3> QED
        BY <1>1, <3>1, AddsExists
    <2> QED
      BY <2>1, <2>2
  <1> HIDE DEF it, value, S
  <1>4. Total(value, S) = it[S] /\ Total(value, S) \in Nat
    BY <1>1, <1>3, TotalIs, TotalIsNat
  <1> QED
    BY <1>1, <1>2, <1>4

LEMMA SlotOf ==
    ASSUME World, Account, TargetInv, phase \in Executing, NEW k \in Orders!BookedKeys
    PROVE  LET slot == Orders!Slot(k) IN
           /\ k \in Keys /\ k \in Nat
           /\ slot.symbol \in Symbols
           /\ slot.symbol = IF k \in DOMAIN target.listing THEN target.listing[k]
                                                           ELSE positions[k].symbol
           /\ slot.quantity = Shares(k) /\ Shares(k) \in Nat
           /\ Orders!Aim(slot) \in Nat /\ Orders!Parts(slot) \in Nat \ {0}
           /\ k \notin DOMAIN target.listing =>
                 /\ Orders!Aim(slot) = 0 /\ Orders!Parts(slot) = 1
                 /\ k \in DOMAIN positions /\ slot.value = Orders!MarketValue(positions[k])
  <1> DEFINE slot == Orders!Slot(k)
  <1>1. /\ target # NoTarget /\ DOMAIN target.listing \subseteq Keys
        /\ target.listing \in [DOMAIN target.listing -> Symbols]
        /\ DOMAIN target.listing # {} => target.count \in Nat \ {0}
    BY DEF TargetInv
  <1>2. /\ DOMAIN positions \subseteq Keys /\ Keys \subseteq Nat
        /\ \A j \in DOMAIN positions : positions[j].symbol \in Symbols /\ positions[j].quantity \in Nat
    BY EngineAssumption DEF Account, Holding, EngineAssumption
  <1>3. k \in DOMAIN positions \/ k \in DOMAIN target.listing
    BY DEF Orders!BookedKeys
  <1>4. /\ slot.symbol = IF k \in DOMAIN target.listing THEN target.listing[k] ELSE positions[k].symbol
        /\ slot.quantity = Shares(k)
        /\ slot.wanted <=> k \in DOMAIN target.listing
        /\ slot.value = IF k \in DOMAIN positions THEN Orders!MarketValue(positions[k]) ELSE 0
    BY DEF Orders!Slot, Shares
  <1> HIDE DEF slot
  <1>5. k \in Keys /\ k \in Nat /\ Shares(k) \in Nat /\ slot.symbol \in Symbols
    BY <1>1, <1>2, <1>3, <1>4 DEF Shares
  <1>6. Orders!Aim(slot) \in Nat /\ Orders!Parts(slot) \in Nat \ {0}
    BY <1>1, <1>4, EquityIsNat DEF Orders!Aim, Orders!Parts
  <1>7. k \notin DOMAIN target.listing => Orders!Aim(slot) = 0 /\ Orders!Parts(slot) = 1
    BY <1>4 DEF Orders!Aim, Orders!Parts
  <1> QED
    BY <1>3, <1>4, <1>5, <1>6, <1>7 DEF slot

\* A slot that is traded has an open, and an unwanted one is sold whole if at all.
LEMMA DeltaOf ==
    ASSUME World, Account, TargetInv, phase \in Executing, NEW k \in Orders!BookedKeys
    PROVE  LET slot == Orders!Slot(k)
               d == Orders!Delta(slot)
           IN  /\ d \in Int
               /\ d # 0 => slot.symbol \in Tradable /\ Opens[slot.symbol] \in Nat \ {0}
               /\ k \notin DOMAIN target.listing => d = 0 \/ d + Shares(k) = 0
  <1> DEFINE slot == Orders!Slot(k)
             d == Orders!Delta(slot)
             parts == Orders!Parts(slot)
             aim == Orders!Aim(slot)
             side == IF aim >= parts * slot.value THEN "BUY" ELSE "SELL"
             ticks == ApplySlippage(side, Opens[slot.symbol])
  <1>1. d = IF Orders!LeftAlone(slot) \/ ticks <= 0 THEN 0
            ELSE aim \div (parts * ticks * RateDivisor) - slot.quantity
    BY SameFormulas DEF Orders!Delta
  <1>2. /\ aim \in Nat /\ parts \in Nat \ {0} /\ slot.quantity \in Nat
        /\ slot.quantity = Shares(k)
        /\ k \notin DOMAIN target.listing => aim = 0 /\ parts = 1
    BY SlotOf
  <1>3. CASE Orders!LeftAlone(slot) \/ ticks <= 0
    BY <1>1, <1>3
  <1>4. CASE ~ (Orders!LeftAlone(slot) \/ ticks <= 0)
    <2>1. slot.symbol \in Tradable /\ Opens[slot.symbol] \in Nat \ {0}
      BY <1>4, Market DEF Orders!LeftAlone
    <2>2. ticks \in Nat \ {0}
      <3>1. ticks \in Nat
        BY <2>1, Prices
      <3> QED
        BY <1>4, <3>1
    <2> HIDE DEF ticks, parts, aim, d, slot
    <2>3. parts * ticks * RateDivisor \in Nat \ {0}
      <3>1. parts * ticks \in Nat \ {0}
        BY <1>2, <2>2, Products
      <3> QED
        BY <3>1, Numbers, Products
    <2>4. aim \div (parts * ticks * RateDivisor) \in Nat
      BY <1>2, <2>3, Division
    <2>5. aim = 0 => aim \div (parts * ticks * RateDivisor) = 0
      BY <2>3
    <2>6. d = aim \div (parts * ticks * RateDivisor) - slot.quantity
      BY <1>1, <1>4
    <2> QED
      BY <1>2, <2>1, <2>4, <2>5, <2>6 DEF slot, d
  <1> QED
    BY <1>3, <1>4

\* An unwanted slot is sized to nothing at all, unless it is kept.
LEMMA DroppedDelta ==
    ASSUME World, Account, TargetInv, QuoteInv, phase = "order", SlippageBps < BpsDivisor,
           NEW k \in DOMAIN positions \ DOMAIN target.listing, ~Kept(k)
    PROVE  Orders!Delta(Orders!Slot(k)) + positions[k].quantity = 0
  <1> DEFINE slot == Orders!Slot(k)
             open == Opens[positions[k].symbol]
             value == slot.value
             side == IF 0 >= value THEN "BUY" ELSE "SELL"
             ticks == ApplySlippage(side, open)
             quantity == positions[k].quantity
  <1>1. k \in Orders!BookedKeys /\ phase \in Executing
    BY DEF Orders!BookedKeys, Executing
  <1>2. /\ slot.symbol = positions[k].symbol /\ slot.quantity = Shares(k)
        /\ Orders!Aim(slot) = 0 /\ Orders!Parts(slot) = 1
        /\ value = Orders!MarketValue(positions[k])
    BY <1>1, SlotOf
  <1>3. /\ positions[k].symbol \in Tradable /\ open # 0
        /\ ~ (TradeValue(quantity, Quoted(open)) < MinTradeValue)
    BY DEF Kept
  <1>4. open \in Nat \ {0} /\ quantity \in Nat /\ Shares(k) = quantity
        /\ MinTradeValue \in Nat
    BY <1>3, Market, EngineAssumption DEF Account, Holding, Shares, EngineAssumption
  <1>5. value = TradeValue(quantity, Quoted(open)) /\ value \in Nat
    <2>1. positions[k].valued /\ positions[k].price = Quoted(open)
      BY <1>3 DEF QuoteInv
    <2>2. TradeValue(quantity, Quoted(open)) \in Nat
      BY <1>4, Prices, Amounts
    <2> QED
      BY <1>2, <2>1, <2>2, SameFormulas DEF Orders!MarketValue
  <1>6. ticks \in Nat \ {0}
    <2>1. open * (BpsDivisor + SlippageBps) \in Nat \ {0} /\ open * (BpsDivisor - SlippageBps) \in Nat \ {0}
      <3>1. BpsDivisor + SlippageBps \in Nat \ {0} /\ BpsDivisor - SlippageBps \in Nat \ {0}
        BY Numbers
      <3> HIDE DEF open
      <3> QED
        BY <1>4, <3>1, Products
    <2> HIDE DEF open
    <2> QED
      BY <2>1 DEF ApplySlippage
  <1> HIDE DEF value
  <1>7. ~Orders!LeftAlone(slot)
    <2>1. 1 * value = value /\ 1 * MinTradeValue = MinTradeValue
      BY <1>4, <1>5
    <2>2. ~ (Orders!Distance(0, value) < MinTradeValue)
      BY <1>3, <1>4, <1>5 DEF Orders!Distance
    <2> HIDE DEF slot
    <2>3. DOMAIN Opens = Tradable
      BY Market
    <2> QED
      BY <1>2, <1>3, <1>4, <2>1, <2>2, <2>3 DEF Orders!LeftAlone, value
  <1>8. Orders!Delta(slot) = 0 \div (1 * ticks * RateDivisor) - quantity
    <2>1. 1 * value = value
      BY <1>5
    <2> HIDE DEF slot, quantity
    <2>2. Orders!Delta(slot) = IF Orders!LeftAlone(slot) \/ ticks <= 0 THEN 0
                               ELSE 0 \div (1 * ticks * RateDivisor) - slot.quantity
      BY <1>2, <2>1, SameFormulas DEF Orders!Delta, value
    <2> QED
      BY <1>2, <1>4, <1>6, <1>7, <2>2
  <1>9. 0 \div (1 * ticks * RateDivisor) = 0
    <2> HIDE DEF ticks
    <2>1. 1 * ticks * RateDivisor \in Nat \ {0}
      BY <1>6, Numbers, Products
    <2> QED
      BY <2>1
  <1> QED
    BY <1>4, <1>8, <1>9

------------------------------------------------------------------------------
(* The steps of the loop, one lemma each.                                   *)

LEMMA SameMarket ==
    ASSUME UNCHANGED <<world, session>>
    PROVE  /\ Tradable' = Tradable /\ Opens' = Opens /\ Closes' = Closes
           /\ World => World'
           /\ \A s : (Stopped(s)' <=> Stopped(s)) /\ (Exited(s)' <=> Exited(s))
  <1>1. Tradable' = Tradable
    BY DEF Tradable, HasBar
  <1> QED
    BY <1>1 DEF Opens, Closes, World, Stopped, Exited

\* Whatever is held under a known exit can be terminated.
LEMMA ExitIsTerminable ==
    ASSUME World, Account, NEW k \in DOMAIN positions, Exited(positions[k].symbol)
    PROVE  Terminable(k)
  <1> DEFINE s == positions[k].symbol
  <1>1. s \in Symbols /\ k \in Keys /\ k # NoKey
    BY EngineAssumption DEF Account, Holding, EngineAssumption
  <1> HIDE DEF s
  <1>2. session \in 1 .. LastSession /\ LastSession \in Nat
    BY EngineAssumption DEF EngineAssumption, World, Sessions
  <1>3. Stopped(s) /\ Ended(s)
    BY <1>1, Market DEF Exited, s
  <1>4. PICK t \in 1 .. session - 1 :
            /\ world.tape[s][t] # NoBar /\ world.tape[s][t].close > 0
            /\ world.keyOf[s][t] \in world.delisted
            /\ \A u \in t + 1 .. session : world.tape[s][u] = NoBar
    BY DEF Exited, s
  <1>5. t \in BarSessions(s)
    BY <1>2, <1>4 DEF BarSessions, Sessions
  <1>6. LastBar(s) = t
    <2>1. /\ LastBar(s) \in 1 .. LastSession /\ world.tape[s][LastBar(s)] # NoBar
          /\ \A u \in Sessions : u > LastBar(s) => world.tape[s][u] = NoBar
      BY <1>1, <1>5, Market DEF Sessions
    <2>2. ~ (t > LastBar(s))
      BY <1>2, <1>4, <2>1 DEF Sessions
    <2>3. ~ (LastBar(s) > t)
      BY <1>2, <1>3, <1>4, <2>1 DEF Stopped
    <2> QED
      BY <1>2, <2>1, <2>2, <2>3
  <1>7. KnownTermination(s) /\ LastClose(s) > 0
    BY <1>3, <1>4, <1>5, <1>6 DEF KnownTermination, LastClose
  <1>8. Broker!Booked(s, k) # {}
    BY <1>1 DEF Broker!Booked
  <1> QED
    BY <1>7, <1>8 DEF Terminable, s

LEMMA InitKeeps == Init => EngineInv
  <1> SUFFICES ASSUME Init PROVE EngineInv
    OBVIOUS
  <1>1. /\ world \in Scenarios /\ session = 1 /\ phase = "connect" /\ target = NoTarget
        /\ submitted = << >> /\ queue = << >>
        /\ cash = InitialCapital /\ positions = << >> /\ orders = << >> /\ fills = << >>
    BY DEF Init, Broker!Init
  <1>2. World
    BY <1>1, EngineAssumption DEF World, Sessions, EngineAssumption
  <1>3. Account
    <2>1. DOMAIN positions = {} /\ positions \in [DOMAIN positions -> Holding({})]
      BY <1>1
    <2>2. orders \in Seq({}) /\ fills \in Seq({}) /\ IsFiniteSet({})
      BY <1>1, FS_EmptySet
    <2> QED
      BY <1>1, <2>1, <2>2, EngineAssumption DEF Account, EngineAssumption
  <1>4. ResultInv
    <2>1. submitted \in Seq({}) /\ DOMAIN submitted = {}
      BY <1>1
    <2> QED
      BY <2>1 DEF ResultInv, EveryOrderFills
  <1> QED
    BY <1>1, <1>2, <1>3, <1>4
       DEF EngineInv, Phases, TargetInv, QuoteInv, QueueInv, DeltaInv, DroppedInv, Executing,
           TerminationsRealized

\* Outside the turns of the order service and the submissions, the queue does not matter.
NoQueue == phase \notin {"grant", "submit"}
LEMMA NothingQueued ==
    ASSUME NoQueue' PROVE QueueInv' /\ DeltaInv' /\ DroppedInv'
  BY DEF NoQueue, QueueInv, DeltaInv, DroppedInv

LEMMA ConnectKeeps == ASSUME EngineInv, Connect PROVE EngineInv'
  <1>1. /\ phase = "connect" /\ phase' = "terminate" /\ connected' = TRUE
        /\ UNCHANGED <<world, session, target, submitted>>
        /\ UNCHANGED <<cash, positions, orders, fills, marketPrices, sessionTime>>
    BY DEF Connect, Go, Broker!Connect, Broker!accountVars, results
  <1>2. World' /\ Account' /\ ResultInv' /\ TerminationsRealized'
    BY <1>1, SameMarket DEF EngineInv, Account, ResultInv, EveryOrderFills, TerminationsRealized
  <1>3. TargetInv' /\ QuoteInv' /\ phase' \in Phases
    BY <1>1 DEF EngineInv, TargetInv, QuoteInv, Executing, Phases
  <1>4. QueueInv' /\ DeltaInv' /\ DroppedInv'
    BY <1>1, NothingQueued DEF NoQueue
  <1> QED
    BY <1>2, <1>3, <1>4 DEF EngineInv

LEMMA TerminateKeeps ==
    ASSUME EngineInv, NEW k \in DOMAIN positions, Terminate(k) PROVE EngineInv'
  <1>1. /\ phase = "terminate" /\ phase' = "terminate" /\ UNCHANGED <<world, session, target>>
        /\ submitted' = Append(submitted, orders'[Len(orders')])
    BY DEF Terminate
  <1>2. Account' /\ orders'[Len(orders')].status = "FILLED" /\ UNCHANGED connected
    BY TerminationFills DEF EngineInv, Filled
  <1>3. World' /\ TerminationsRealized'
    BY <1>1, SameMarket DEF EngineInv, TerminationsRealized
  <1>4. TargetInv' /\ QuoteInv' /\ phase' \in Phases
    BY <1>1, <1>2 DEF EngineInv, TargetInv, QuoteInv, Executing, Phases
  <1>5. ResultInv'
    <2> DEFINE order == orders'[Len(orders')]
    <2>1. order.status = "FILLED" /\ submitted' = Append(submitted, order)
          /\ \E S : submitted \in Seq(S)
      BY <1>1, <1>2 DEF EngineInv, ResultInv
    <2> HIDE DEF order
    <2>2. /\ \E S : submitted' \in Seq(S)
          /\ Len(submitted) \in Nat
          /\ DOMAIN submitted = 1 .. Len(submitted) /\ DOMAIN submitted' = 1 .. Len(submitted) + 1
          /\ \A i \in DOMAIN submitted : submitted'[i] = submitted[i]
          /\ submitted'[Len(submitted) + 1] = order
      BY <2>1, LogGrows
    <2> QED
      BY <2>1, <2>2 DEF EngineInv, ResultInv, EveryOrderFills
  <1>6. QueueInv' /\ DeltaInv' /\ DroppedInv'
    BY <1>1, NothingQueued DEF NoQueue
  <1> QED
    BY <1>2, <1>3, <1>4, <1>5, <1>6 DEF EngineInv

LEMMA TerminationsDoneKeeps == ASSUME EngineInv, TerminationsDone PROVE EngineInv'
  <1>1. /\ phase = "terminate"
        /\ phase' = IF target = NoTarget THEN "close" ELSE "retarget"
        /\ \A k \in DOMAIN positions : ~Terminable(k)
        /\ UNCHANGED <<world, session, target, submitted, connected, cash, positions, orders, fills,
                       marketPrices, sessionTime>>
    BY DEF TerminationsDone, Go, results, brokerVars
  <1>2. World' /\ Account' /\ ResultInv'
    BY <1>1, SameMarket DEF EngineInv, Account, ResultInv, EveryOrderFills
  <1>3. TerminationsRealized'
    <2>1. \A k \in DOMAIN positions : ~Exited(positions[k].symbol)
      BY <1>1, ExitIsTerminable DEF EngineInv
    <2>2. \A k : Exited(positions[k].symbol)' <=> Exited(positions[k].symbol)
      BY <1>1 DEF Exited, Stopped
    <2> QED
      BY <1>1, <2>1, <2>2 DEF TerminationsRealized
  <1>4. TargetInv' /\ QuoteInv' /\ phase' \in Phases
    BY <1>1 DEF EngineInv, TargetInv, QuoteInv, Executing, Phases
  <1>5. QueueInv' /\ DeltaInv' /\ DroppedInv'
    BY <1>1, NothingQueued DEF NoQueue
  <1> QED
    BY <1>2, <1>3, <1>4, <1>5 DEF EngineInv

\* Retargeting is the one step after the terminations that can list a known exit.
LEMMA RetargetKeeps == ASSUME EngineInv, Retarget PROVE EngineInv'
  <1>1. /\ phase = "retarget" /\ phase' = "quote"
        /\ Broker!RetargetListings(target.listing)
        /\ UNCHANGED <<world, session, target, submitted>>
    BY DEF Retarget, Go, results
  <1>2. /\ target # NoTarget /\ target.listing \in [DOMAIN target.listing -> Symbols]
        /\ session - 1 \in world.rebalance
    BY <1>1 DEF EngineInv, TargetInv, Executing
  <1>3. /\ Relisted(positions') /\ DOMAIN positions' = DOMAIN positions
        /\ \A k \in DOMAIN positions :
              positions'[k].symbol = IF k \in DOMAIN target.listing THEN target.listing[k]
                                     ELSE positions[k].symbol
    BY <1>1, <1>2, RetargetMoves DEF EngineInv, Relisted
  <1>4. World' /\ Account' /\ ResultInv'
    BY <1>1, <1>3, SameMarket DEF EngineInv, ResultInv, EveryOrderFills, Relisted
  <1>5. TerminationsRealized'
    <2>1. \A k \in DOMAIN positions : ~Exited(positions[k].symbol)
      BY <1>1 DEF EngineInv, TerminationsRealized
    <2>2. \A k : Exited(positions[k].symbol)' <=> Exited(positions'[k].symbol)
      BY <1>1 DEF Exited, Stopped
    <2>3. ASSUME NEW k \in DOMAIN positions', Exited(positions[k].symbol)'
          PROVE  /\ session - 1 \in world.rebalance
                 /\ k \in DOMAIN target.listing /\ target.listing[k] = positions'[k].symbol
      BY <1>2, <1>3, <2>1, <2>2, <2>3
    <2> QED
      BY <1>1, <2>3 DEF TerminationsRealized
  <1>6. TargetInv' /\ phase' \in Phases
    BY <1>1 DEF EngineInv, TargetInv, Executing, Phases
  <1>7. QuoteInv'
    BY <1>1, <1>3 DEF EngineInv, QuoteInv, Relisted
  <1>8. QueueInv' /\ DeltaInv' /\ DroppedInv'
    BY <1>1, NothingQueued DEF NoQueue
  <1> QED
    BY <1>4, <1>5, <1>6, <1>7, <1>8 DEF EngineInv

LEMMA QuoteOpensKeeps == ASSUME EngineInv, QuoteOpens PROVE EngineInv'
  <1>1. /\ phase = "quote" /\ phase' = "markOpen"
        /\ marketPrices' = Opens /\ sessionTime' = session
        /\ UNCHANGED <<world, session, target, submitted, connected, cash, positions, orders, fills>>
    BY DEF QuoteOpens, Go, Broker!SetMarketPrices, Broker!accountVars, results
  <1>2. World' /\ Account' /\ ResultInv'
    BY <1>1, SameMarket DEF EngineInv, Account, ResultInv, EveryOrderFills
  <1>3. TerminationsRealized'
    BY <1>1 DEF EngineInv, TerminationsRealized, Exited, Stopped
  <1>4. TargetInv' /\ phase' \in Phases
    BY <1>1 DEF EngineInv, TargetInv, Executing, Phases
  <1>5. QuoteInv'
    BY <1>1, SameMarket DEF EngineInv, QuoteInv
  <1>6. QueueInv' /\ DeltaInv' /\ DroppedInv'
    BY <1>1, NothingQueued DEF NoQueue
  <1> QED
    BY <1>2, <1>3, <1>4, <1>5, <1>6 DEF EngineInv

\* A ticker that trades today has not ended, so marking at the open values what it lists.
LEMMA MarkAtOpenKeeps == ASSUME EngineInv, MarkAtOpen PROVE EngineInv'
  <1> DEFINE quoted == [s \in Tradable |-> Quoted(Opens[s])]
  <1>1. /\ phase = "markOpen" /\ phase' = "order"
        /\ Broker!MarkToMarket(quoted, EndedSymbols)
        /\ UNCHANGED <<world, session, target, submitted>>
    BY DEF MarkAtOpen, Go, results
  <1>2. /\ quoted \in [DOMAIN quoted -> Nat] /\ DOMAIN quoted = Tradable
        /\ \A s \in Tradable : s \notin EndedSymbols
    BY Market, Prices DEF EngineInv, EndedSymbols
  <1>3. \A s \in Tradable : quoted[s] = Quoted(Opens[s])
    OBVIOUS
  <1> HIDE DEF quoted
  <1>4. /\ Relisted(positions') /\ DOMAIN positions' = DOMAIN positions
        /\ \A k \in DOMAIN positions :
              /\ positions'[k].symbol = positions[k].symbol
              /\ positions[k].symbol \in Tradable =>
                    positions'[k].valued /\ positions'[k].price = Quoted(Opens[positions[k].symbol])
    BY <1>1, <1>2, <1>3, MarkMoves DEF EngineInv, Relisted
  <1>5. World' /\ Account' /\ ResultInv'
    BY <1>1, <1>4, SameMarket DEF EngineInv, ResultInv, EveryOrderFills, Relisted
  <1>6. TerminationsRealized'
    BY <1>1, <1>4 DEF EngineInv, TerminationsRealized, Exited, Stopped
  <1>7. TargetInv' /\ phase' \in Phases
    BY <1>1 DEF EngineInv, TargetInv, Executing, Phases
  <1>8. QuoteInv'
    BY <1>1, <1>4, SameMarket DEF EngineInv, QuoteInv, Relisted
  <1>9. QueueInv' /\ DeltaInv' /\ DroppedInv'
    BY <1>1, NothingQueued DEF NoQueue
  <1> QED
    BY <1>5, <1>6, <1>7, <1>8, <1>9 DEF EngineInv

------------------------------------------------------------------------------
(* The steps of the order service.                                          *)

LEMMA ArgumentsStay ==
    ASSUME UNCHANGED <<world, session, cash, positions, target>>
    PROVE  /\ Opens' = Opens /\ Tradable' = Tradable
           /\ Orders!BookedKeys' = Orders!BookedKeys
           /\ \A k : /\ Orders!Slot(k)' = Orders!Slot(k)
                     /\ Orders!Delta(Orders!Slot(k))' = Orders!Delta(Orders!Slot(k))
                     /\ Shares(k)' = Shares(k) /\ (Kept(k)' <=> Kept(k))
           /\ \A order : /\ Ready(order)' <=> Ready(order)
                         /\ Money(order)' = Money(order)
                         /\ Disposes(order)' <=> Disposes(order)
  <1>1. Opens' = Opens /\ Tradable' = Tradable
    BY SameMarket
  <1>2. Orders!BookedKeys' = Orders!BookedKeys
    BY DEF Orders!BookedKeys
  <1>3. \A k : Orders!Slot(k)' = Orders!Slot(k)
    BY DEF Orders!Slot
  <1>4. \A k : Orders!Delta(Orders!Slot(k))' = Orders!Delta(Orders!Slot(k))
    BY <1>1 DEF Orders!Slot, Orders!Delta, Orders!LeftAlone, Orders!Aim, Orders!Parts
  <1>5. \A k : Shares(k)' = Shares(k) /\ (Kept(k)' <=> Kept(k))
    BY <1>1 DEF Shares, Kept
  <1>6. \A order : /\ Ready(order)' <=> Ready(order)
                   /\ Money(order)' = Money(order)
                   /\ Disposes(order)' <=> Disposes(order)
    BY <1>1, <1>5 DEF Ready, Money, Price, Disposes
  <1> QED
    BY <1>1, <1>2, <1>3, <1>4, <1>5, <1>6

LEMMA MoneyIsInt ==
    ASSUME World, NEW order, Ready(order)
    PROVE  Money(order) \in Int
  <1> DEFINE ticks == Price(order)
  <1>1. order.quantity \in Nat /\ ticks \in Nat
    BY Market, Prices DEF Ready, Price
  <1>2. BuyCost(order.quantity, ticks) \in Nat /\ SellProceeds(order.quantity, ticks) \in Nat
    BY <1>1, Amounts
  <1> HIDE DEF ticks
  <1>3. -BuyCost(order.quantity, ticks) \in Int
    BY <1>2
  <1> QED
    BY <1>2, <1>3 DEF Money, ticks

LEMMA MoneysOf ==
    ASSUME EngineInv, phase \in {"grant", "submit"}
    PROVE  /\ Len(queue) \in Nat /\ DOMAIN queue = 1 .. Len(queue)
           /\ \A i \in 1 .. Len(queue) : Moneys[i] = Money(queue[i]) /\ Moneys[i] \in Int
           /\ \A i \in 0 .. Len(queue) : /\ IsFiniteSet(1 .. i) /\ 1 .. i \subseteq 1 .. Len(queue)
                                         /\ Total(Moneys, 1 .. i) \in Int
  <1>1. /\ World /\ \A i \in DOMAIN queue : Ready(queue[i])
        /\ \E S : queue \in Seq(S)
    BY DEF EngineInv, QueueInv
  <1>2. Len(queue) \in Nat /\ DOMAIN queue = 1 .. Len(queue)
    BY <1>1, LogGrows
  <1>3. \A i \in 1 .. Len(queue) : Moneys[i] = Money(queue[i]) /\ Moneys[i] \in Int
    BY <1>1, <1>2, MoneyIsInt DEF Moneys
  <1>4. ASSUME NEW i \in 0 .. Len(queue)
        PROVE  IsFiniteSet(1 .. i) /\ 1 .. i \subseteq 1 .. Len(queue) /\ Total(Moneys, 1 .. i) \in Int
    <2>1. i \in Nat /\ 1 .. i \subseteq 1 .. Len(queue)
      BY <1>2
    <2>2. IsFiniteSet(1 .. i)
      BY <2>1, Initial
    <2>3. \A j \in 1 .. i : Moneys[j] \in Int
      BY <1>3, <2>1
    <2> QED
      BY <2>1, <2>2, <2>3, TotalIsInt
  <1> QED
    BY <1>2, <1>3, <1>4

\* A turn takes a key off the deltas and queues at most one order, for that key.
LEMMA TurnKeeps ==
    ASSUME EngineInv, phase = "grant", phase' = "grant",
           UNCHANGED <<world, session, cash, positions, target>>,
           NEW k \in DOMAIN delta, delta' = [j \in DOMAIN delta \ {k} |-> delta[j]],
           NEW money \in Int, projected' = projected + money, projected' >= 0,
           \/ queue' = queue /\ money = 0
           \/ \E order : /\ queue' = Append(queue, order) /\ order.key = k
                         /\ Ready(order) /\ Money(order) = money
    PROVE  QueueInv' /\ DeltaInv'
  <1> DEFINE n == Len(queue)
             f == Moneys
             g == Moneys'
  <1>1. /\ \E S : queue \in Seq(S)
        /\ \A i \in DOMAIN queue : Ready(queue[i]) /\ queue[i].key \notin DOMAIN delta
        /\ \A i, j \in DOMAIN queue : i # j => queue[i].key # queue[j].key
        /\ \A i \in 0 .. n : cash + Total(f, 1 .. i) >= 0
        /\ DOMAIN delta \subseteq Orders!BookedKeys
        /\ \A j \in DOMAIN delta : delta[j] = Orders!Delta(Orders!Slot(j))
        /\ projected = cash + Total(f, 1 .. n)
        /\ cash \in Nat
    BY DEF EngineInv, QueueInv, DeltaInv, Account
  <1>2. /\ n \in Nat /\ DOMAIN queue = 1 .. n
        /\ \A i \in 1 .. n : f[i] = Money(queue[i]) /\ f[i] \in Int
        /\ \A i \in 0 .. n : IsFiniteSet(1 .. i) /\ 1 .. i \subseteq 1 .. n /\ Total(f, 1 .. i) \in Int
    BY MoneysOf
  <1>3. /\ Orders!BookedKeys' = Orders!BookedKeys
        /\ \A j : Orders!Delta(Orders!Slot(j))' = Orders!Delta(Orders!Slot(j))
        /\ \A order : (Ready(order)' <=> Ready(order)) /\ Money(order)' = Money(order)
    BY ArgumentsStay
  <1>4. /\ DOMAIN delta' \subseteq Orders!BookedKeys'
        /\ \A j \in DOMAIN delta' : delta'[j] = Orders!Delta(Orders!Slot(j))'
        /\ DOMAIN delta' = DOMAIN delta \ {k}
    BY <1>1, <1>3
  <1>5. CASE queue' = queue /\ money = 0
    <2>1. Moneys' = Moneys
      BY <1>3, <1>5 DEF Moneys
    <2>2. QueueInv'
      BY <1>1, <1>3, <1>5, <2>1 DEF QueueInv
    <2>3. projected' = cash' + Total(Moneys', 1 .. Len(queue'))
      BY <1>1, <1>2, <1>5, <2>1
    <2> QED
      BY <1>1, <1>4, <1>5, <2>2, <2>3 DEF DeltaInv
  <1>6. CASE \E order : /\ queue' = Append(queue, order) /\ order.key = k
                        /\ Ready(order) /\ Money(order) = money
    <2>1. PICK order : /\ queue' = Append(queue, order) /\ order.key = k
                       /\ Ready(order) /\ Money(order) = money
      BY <1>6
    <2>2. /\ \E S : queue' \in Seq(S)
          /\ Len(queue') = n + 1 /\ DOMAIN queue' = 1 .. n + 1
          /\ \A i \in 1 .. n : queue'[i] = queue[i]
          /\ queue'[n + 1] = order
      <3>1. (\E S : queue \in Seq(S)) /\ queue' = Append(queue, order)
        BY <1>1, <2>1
      <3>2. \E S : queue' \in Seq(S)
        BY <3>1, LogGrows
      <3>3. /\ Len(queue') = Len(queue) + 1 /\ DOMAIN queue' = 1 .. Len(queue) + 1
            /\ \A i \in DOMAIN queue : queue'[i] = queue[i]
            /\ queue'[Len(queue) + 1] = order
        BY <3>1, LogGrows
      <3> QED
        BY <1>2, <3>2, <3>3
    <2>3. g[n + 1] = money /\ \A i \in 1 .. n : f[i] \in Int /\ g[i] = f[i]
      <3>1. g = [i \in 1 .. n + 1 |-> Money(queue'[i])]
        BY <1>3, <2>2 DEF Moneys
      <3>2. n + 1 \in 1 .. n + 1 /\ \A i \in 1 .. n : i \in 1 .. n + 1
        BY <1>2
      <3> HIDE DEF g, f, n
      <3> QED
        BY <1>2, <2>1, <2>2, <3>1, <3>2
    <2> HIDE DEF n, f, g
    <2>4. Total(g, 1 .. (n + 1)) = Total(f, 1 .. n) + money
      BY <1>2, <2>3, TotalGrows
    <2>5. \A i \in 0 .. n : Total(g, 1 .. i) = Total(f, 1 .. i)
      <3> SUFFICES ASSUME NEW i \in 0 .. n PROVE Total(g, 1 .. i) = Total(f, 1 .. i)
        OBVIOUS
      <3>1. IsFiniteSet(1 .. i) /\ \A j \in 1 .. i : f[j] \in Int /\ f[j] = g[j]
        BY <1>2, <2>3
      <3> QED
        BY <3>1, TotalOfSame
    <2>6. projected' = cash + Total(g, 1 .. (n + 1))
      <3>1. Total(f, 1 .. n) \in Int
        BY <1>2
      <3> QED
        BY <1>1, <2>4, <3>1
    <2>7. \A i \in 0 .. (n + 1) : cash + Total(g, 1 .. i) >= 0
      <3> SUFFICES ASSUME NEW i \in 0 .. (n + 1) PROVE cash + Total(g, 1 .. i) >= 0
        OBVIOUS
      <3>1. CASE i = n + 1
        BY <2>6, <3>1
      <3>2. CASE i # n + 1
        <4>1. i \in 0 .. n
          BY <1>2, <3>2
        <4> QED
          BY <1>1, <2>5, <4>1
      <3> QED
        BY <3>1, <3>2
    <2>8. \A i \in DOMAIN queue' : Ready(queue[i])' /\ queue'[i].key \notin DOMAIN delta'
      <3> SUFFICES ASSUME NEW i \in DOMAIN queue'
                   PROVE  Ready(queue'[i]) /\ queue'[i].key \notin DOMAIN delta'
        BY <1>3
      <3>1. CASE i = n + 1
        BY <1>4, <2>1, <2>2, <3>1
      <3>2. CASE i # n + 1
        <4>1. i \in 1 .. n
          BY <1>2, <2>2, <3>2
        <4> QED
          BY <1>1, <1>2, <1>4, <2>2, <4>1
      <3> QED
        BY <3>1, <3>2
    <2>9. \A i, j \in DOMAIN queue' : i # j => queue'[i].key # queue'[j].key
      <3>1. \A i \in 1 .. n : queue'[i].key = queue[i].key /\ queue[i].key # k
        BY <1>1, <1>2, <2>2
      <3>2. \A i \in 1 .. (n + 1) : i = n + 1 \/ i \in 1 .. n
        BY <1>2
      <3> SUFFICES ASSUME NEW i \in 1 .. (n + 1), NEW j \in 1 .. (n + 1), i # j
                   PROVE  queue'[i].key # queue'[j].key
        BY <2>2
      <3>3. queue'[n + 1].key = k
        BY <2>1, <2>2
      <3>4. CASE i = n + 1 \/ j = n + 1
        BY <3>1, <3>2, <3>3, <3>4
      <3>5. CASE i \in 1 .. n /\ j \in 1 .. n
        <4>1. queue[i].key # queue[j].key
          BY <1>1, <1>2, <3>5
        <4> QED
          BY <3>1, <3>5, <4>1
      <3> QED
        BY <3>2, <3>4, <3>5
    <2>10. QueueInv'
      BY <2>2, <2>7, <2>8, <2>9 DEF QueueInv, n, f, g
    <2>11. DeltaInv'
      BY <1>4, <2>2, <2>6, <2>8 DEF DeltaInv, g
    <2> QED
      BY <2>10, <2>11
  <1> QED
    BY <1>5, <1>6

\* While orders are listed and submitted the rest of the loop's state stands still.
LEMMA ListingKeeps ==
    ASSUME EngineInv, phase \in Executing, phase' \in Executing, phase' # "retarget",
           phase \notin {"retarget", "quote", "markOpen"}, phase' \notin {"quote", "markOpen"},
           phase' = "order" => phase = "order", phase = "submit" => phase' = "submit",
           UNCHANGED <<world, session, target, results, brokerVars>>
    PROVE  /\ World' /\ phase' \in Phases /\ Account' /\ TargetInv' /\ QuoteInv'
           /\ ResultInv' /\ TerminationsRealized'
  <1>1. /\ UNCHANGED <<world, session, target, submitted, connected, cash, positions, orders, fills,
                       marketPrices, sessionTime>>
        /\ Tradable' = Tradable /\ Opens' = Opens /\ World'
    BY SameMarket DEF results, brokerVars, EngineInv
  <1>2. Account' /\ ResultInv'
    BY <1>1 DEF EngineInv, Account, ResultInv, EveryOrderFills
  <1>3. TargetInv' /\ phase' \in Phases
    BY <1>1 DEF EngineInv, TargetInv, Executing, Phases
  <1>4. QuoteInv'
    BY <1>1 DEF EngineInv, QuoteInv, Executing
  <1>5. TerminationsRealized'
    <2>1. \A k : Exited(positions[k].symbol)' <=> Exited(positions[k].symbol)
      BY <1>1 DEF Exited, Stopped
    <2> QED
      BY <1>1, <2>1 DEF EngineInv, TerminationsRealized, Executing
  <1> QED
    BY <1>1, <1>2, <1>3, <1>4, <1>5

LEMMA SizeKeeps == ASSUME EngineInv, OrderStep(Orders!Size) PROVE EngineInv'
  <1>1. /\ phase = "order" /\ phase' = "grant" /\ queue' = << >> /\ projected' = cash
        /\ delta' = [k \in Orders!BookedKeys |-> Orders!Delta(Orders!Slot(k))]
        /\ UNCHANGED <<world, session, target, results, brokerVars, cash, positions>>
    BY DEF OrderStep, Orders!Size, Orders!arguments
  <1>2. /\ World' /\ phase' \in Phases /\ Account' /\ TargetInv' /\ QuoteInv'
        /\ ResultInv' /\ TerminationsRealized'
    BY <1>1, ListingKeeps DEF Executing
  <1>3. /\ Orders!BookedKeys' = Orders!BookedKeys
        /\ \A k : /\ Orders!Delta(Orders!Slot(k))' = Orders!Delta(Orders!Slot(k))
                  /\ Kept(k)' <=> Kept(k)
    BY <1>1, ArgumentsStay
  <1>4. /\ Len(queue') = 0 /\ DOMAIN queue' = {} /\ queue' \in Seq({})
        /\ 1 .. 0 = {} /\ cash \in Nat /\ cash' = cash
    BY <1>1, Initial DEF EngineInv, Account
  <1>5. \A i \in 0 .. 0 : Total(Moneys', 1 .. i) = 0
    <2>1. Total(Moneys', {}) = 0
      BY TotalOfNone
    <2> QED
      BY <1>4, <2>1
  <1>6. QueueInv'
    BY <1>4, <1>5 DEF QueueInv
  <1>7. DeltaInv'
    <2>1. projected' = cash' + Total(Moneys', 1 .. Len(queue'))
      BY <1>1, <1>4, <1>5
    <2> QED
      BY <1>1, <1>3, <1>4, <2>1 DEF DeltaInv
  <1>8. DroppedInv'
    <2> SUFFICES ASSUME SlippageBps < BpsDivisor,
                        NEW k \in DOMAIN positions \ DOMAIN target.listing, ~Kept(k)
                 PROVE  k \in DOMAIN delta' /\ delta'[k] + positions[k].quantity = 0
      BY <1>1, <1>3, <1>4 DEF DroppedInv, ToSell
    <2>1. k \in Orders!BookedKeys
      BY DEF Orders!BookedKeys
    <2>2. Orders!Delta(Orders!Slot(k)) + positions[k].quantity = 0
      BY <1>1, DroppedDelta DEF EngineInv, Executing
    <2> QED
      BY <1>1, <2>1, <2>2
  <1> QED
    BY <1>2, <1>6, <1>7, <1>8 DEF EngineInv

\* The key a turn is for is one whose delta calls for it.
LEMMA TurnsOf ==
    ASSUME EngineInv, phase = "grant"
    PROVE  /\ Orders!TooMany # {} => Orders!Min(Orders!TooMany) \in Orders!TooMany
           /\ Orders!TooFew # {} => Orders!Min(Orders!TooFew) \in Orders!TooFew
           /\ \A k \in DOMAIN delta :
                 LET slot == Orders!Slot(k) IN
                 /\ k \in Orders!BookedKeys /\ k \in Keys /\ delta[k] \in Int
                 /\ slot.quantity = Shares(k) /\ Shares(k) \in Nat
                 /\ delta[k] # 0 => slot.symbol \in Tradable /\ Opens[slot.symbol] \in Nat \ {0}
                 /\ k \notin DOMAIN target.listing => delta[k] = 0 \/ delta[k] + Shares(k) = 0
  <1>1. /\ DOMAIN delta \subseteq Orders!BookedKeys /\ phase \in Executing
        /\ \A k \in DOMAIN delta : delta[k] = Orders!Delta(Orders!Slot(k))
    BY DEF EngineInv, DeltaInv, Executing
  <1>2. \A k \in DOMAIN delta : k \in Nat
    BY <1>1, SlotOf DEF EngineInv
  <1>3. Orders!TooMany \in SUBSET Nat /\ Orders!TooFew \in SUBSET Nat
    BY <1>2 DEF Orders!TooMany, Orders!TooFew
  <1>4. ASSUME NEW S \in SUBSET Nat, S # {} PROVE Orders!Min(S) \in S
    <2>1. Min(S) \in S
      BY <1>4, LeastExists
    <2>2. Orders!Min(S) = Min(S)
      BY DEF Orders!Min, Min
    <2> QED
      BY <2>1, <2>2
  <1>5. /\ Orders!TooMany # {} => Orders!Min(Orders!TooMany) \in Orders!TooMany
        /\ Orders!TooFew # {} => Orders!Min(Orders!TooFew) \in Orders!TooFew
    BY <1>3, <1>4
  <1> QED
    BY <1>1, <1>5, SlotOf, DeltaOf DEF EngineInv

LEMMA TakeSaleKeeps == ASSUME EngineInv, OrderStep(Orders!TakeSale) PROVE EngineInv'
  <1>1. /\ phase = "grant" /\ phase' = "grant" /\ Orders!TooMany # {}
        /\ UNCHANGED <<world, session, target, results, brokerVars, cash, positions>>
    BY DEF OrderStep, Orders!TakeSale, Orders!arguments
  <1> DEFINE k == Orders!Min(Orders!TooMany)
             slot == Orders!Slot(k)
             quantity == Orders!SaleSize(k)
             ticks == ApplySlippage("SELL", Opens[slot.symbol])
             money == SellProceeds(quantity, ticks)
             order == Orders!MarketOrder(k, "SELL", quantity)
  <1>2. /\ delta' = [j \in DOMAIN delta \ {k} |-> delta[j]]
        /\ queue' = IF quantity > 0 THEN Append(queue, order) ELSE queue
        /\ projected' = projected + money
    BY SameFormulas DEF OrderStep, Orders!TakeSale, Orders!Listed
  <1>3. /\ k \in DOMAIN delta /\ delta[k] \in Int /\ delta[k] < 0
        /\ k \in Keys /\ slot.quantity = Shares(k) /\ Shares(k) \in Nat
        /\ slot.symbol \in Tradable /\ Opens[slot.symbol] \in Nat \ {0}
        /\ k \notin DOMAIN target.listing => delta[k] + Shares(k) = 0
    BY <1>1, TurnsOf DEF Orders!TooMany
  <1>4. /\ quantity \in Nat /\ quantity <= Shares(k)
        /\ delta[k] + Shares(k) = 0 => quantity = Shares(k)
    BY <1>3 DEF Orders!SaleSize, Orders!Least
  <1>5. ticks \in Nat /\ money \in Nat /\ (quantity = 0 => money = 0)
    <2>1. ticks \in Nat
      BY <1>3, Prices
    <2>2. money \in Nat
      BY <1>4, <2>1, Amounts
    <2>3. quantity = 0 => money = 0
      <3> SUFFICES ASSUME quantity = 0 PROVE money = 0
        OBVIOUS
      <3>1. 0 * ticks = 0 /\ 0 * (RateDivisor - CommissionRate) = 0
        BY <2>1, Numbers
      <3> QED
        BY <3>1 DEF SellProceeds
    <2> QED
      BY <2>1, <2>2, <2>3
  <1>6. /\ order.key = k /\ order.symbol = slot.symbol /\ order.side = "SELL"
        /\ order.quantity = quantity
    BY DEF Orders!MarketOrder
  <1> HIDE DEF order, quantity, ticks, k
  <1>7. quantity > 0 => Ready(order) /\ Money(order) = money
    BY <1>3, <1>4, <1>6 DEF Ready, Money, Price, Sides, ticks
  <1>8. projected \in Nat
    <2>1. Len(queue) \in 0 .. Len(queue)
      BY <1>1, MoneysOf
    <2>2. Total(Moneys, 1 .. Len(queue)) \in Int /\ cash \in Nat
      BY <1>1, <2>1, MoneysOf DEF EngineInv, Account
    <2> QED
      BY <1>1, <2>1, <2>2 DEF EngineInv, QueueInv, DeltaInv
  <1> HIDE DEF money
  <1>9. QueueInv' /\ DeltaInv'
    <2>1. money \in Int /\ projected' >= 0
      BY <1>2, <1>5, <1>8
    <2>2. \/ queue' = queue /\ money = 0
          \/ \E o : /\ queue' = Append(queue, o) /\ o.key = k
                    /\ Ready(o) /\ Money(o) = money
      BY <1>2, <1>4, <1>5, <1>6, <1>7
    <2> QED
      BY <1>1, <1>2, <1>3, <2>1, <2>2, TurnKeeps
  <1>10. DroppedInv'
    <2>1. /\ \A j : Kept(j)' <=> Kept(j)
          /\ \A o : Disposes(o)' <=> Disposes(o)
          /\ positions' = positions /\ target' = target
      BY <1>1, ArgumentsStay
    <2>2. /\ \E S : queue \in Seq(S)
          /\ \A i \in DOMAIN queue : Disposes(queue[i])
          /\ SlippageBps < BpsDivisor =>
              \A j \in DOMAIN positions \ DOMAIN target.listing : Kept(j) \/ ToSell(j)
      BY <1>1 DEF EngineInv, QueueInv, DroppedInv
    <2>3. /\ DOMAIN queue \subseteq DOMAIN queue'
          /\ \A i \in DOMAIN queue : queue'[i] = queue[i]
          /\ \A i \in DOMAIN queue' \ DOMAIN queue : queue'[i] = order
          /\ quantity > 0 => \E i \in DOMAIN queue' : queue'[i] = order
      <3>1. CASE quantity > 0
        <4>1. (\E S : queue \in Seq(S)) /\ queue' = Append(queue, order)
          BY <1>2, <2>2, <3>1
        <4>2. /\ Len(queue) \in Nat
              /\ DOMAIN queue = 1 .. Len(queue) /\ DOMAIN queue' = 1 .. Len(queue) + 1
              /\ \A i \in DOMAIN queue : queue'[i] = queue[i]
              /\ queue'[Len(queue) + 1] = order
          BY <4>1, LogGrows
        <4> QED
          BY <4>2
      <3>2. CASE ~ (quantity > 0)
        BY <1>2, <3>2
      <3> QED
        BY <3>1, <3>2
    <2>4. \A i \in DOMAIN queue' : Disposes(queue'[i])
      <3>1. Disposes(order)
        BY <1>3, <1>4, <1>6 DEF Disposes
      <3> QED
        BY <2>2, <2>3, <3>1
    <2>5. ASSUME SlippageBps < BpsDivisor,
                 NEW j \in DOMAIN positions \ DOMAIN target.listing, ~Kept(j)
          PROVE  ToSell(j)'
      <3>1. ToSell(j)
        BY <2>2, <2>5
      <3>2. CASE \E i \in DOMAIN queue : /\ queue[i].key = j /\ queue[i].side = "SELL"
                                         /\ queue[i].quantity = positions[j].quantity
        BY <2>1, <2>3, <3>2 DEF ToSell
      <3>3. CASE j \in DOMAIN delta /\ delta[j] + positions[j].quantity = 0
        <4>1. CASE j # k
          <5>1. j \in DOMAIN delta' /\ delta'[j] = delta[j]
            BY <1>2, <3>3, <4>1
          <5> QED
            BY <1>1, <2>1, <3>3, <5>1 DEF ToSell
        <4>2. CASE j = k
          <5>1. Shares(k) = positions[j].quantity
            BY <4>2 DEF Shares
          <5>2. quantity = positions[j].quantity /\ quantity > 0
            BY <1>3, <1>4, <3>3, <4>2, <5>1
          <5> QED
            BY <1>6, <2>1, <2>3, <4>2, <5>2 DEF ToSell
        <4> QED
          BY <4>1, <4>2
      <3> QED
        BY <3>1, <3>2, <3>3 DEF ToSell
    <2> QED
      BY <1>1, <2>1, <2>4, <2>5 DEF DroppedInv
  <1> QED
    BY <1>1, <1>9, <1>10, ListingKeeps DEF EngineInv, Executing

\* The cash is never cut to more shares than it can pay for.
LEMMA SharesPaid ==
    ASSUME NEW money \in Nat, NEW ticks \in Nat \ {0}, NEW quantity \in Nat,
           quantity <= Orders!MaxSharesForCash(money, ticks)
    PROVE  BuyCost(quantity, ticks) <= money
  <1> DEFINE each == ticks * (RateDivisor + CommissionRate)
             most == Orders!MaxSharesForCash(money, ticks)
  <1>1. each \in Nat \ {0}
    BY Numbers, Products
  <1>2. BuyCost(quantity, ticks) = quantity * each
    <2>1. RateDivisor + CommissionRate \in Nat
      BY Numbers
    <2> QED
      BY <2>1 DEF BuyCost
  <1>3. most = IF money <= 0 THEN 0 ELSE money \div each
    BY DEF Orders!MaxSharesForCash
  <1> HIDE DEF each, most
  <1>4. most \in Nat /\ most * each <= money
    <2>1. CASE money = 0
      BY <1>1, <1>3, <2>1
    <2>2. CASE money # 0
      BY <1>1, <1>3, <2>2, Division
    <2> QED
      BY <2>1, <2>2
  <1>5. quantity * each <= most * each /\ quantity * each \in Nat /\ most * each \in Nat
    BY <1>1, <1>4, ProductGrows, Products DEF most
  <1> QED
    BY <1>2, <1>4, <1>5

LEMMA MaxSharesIsNat ==
    ASSUME NEW money \in Nat, NEW ticks \in Nat \ {0}
    PROVE  Orders!MaxSharesForCash(money, ticks) \in Nat
  <1> DEFINE each == ticks * (RateDivisor + CommissionRate)
  <1>1. each \in Nat \ {0}
    BY Numbers, Products
  <1>2. Orders!MaxSharesForCash(money, ticks) = IF money <= 0 THEN 0 ELSE money \div each
    BY DEF Orders!MaxSharesForCash
  <1> HIDE DEF each
  <1> QED
    BY <1>1, <1>2, Division

LEMMA GrantBuyKeeps == ASSUME EngineInv, OrderStep(Orders!GrantBuy) PROVE EngineInv'
  <1>1. /\ phase = "grant" /\ phase' = "grant" /\ Orders!TooFew # {}
        /\ UNCHANGED <<world, session, target, results, brokerVars, cash, positions>>
    BY DEF OrderStep, Orders!GrantBuy, Orders!arguments
  <1> DEFINE k == Orders!Min(Orders!TooFew)
             slot == Orders!Slot(k)
             quantity == Orders!Granted(k)
             ticks == ApplySlippage("BUY", Opens[slot.symbol])
             cost == BuyCost(quantity, ticks)
             order == Orders!MarketOrder(k, "BUY", quantity)
  <1>2. /\ delta' = [j \in DOMAIN delta \ {k} |-> delta[j]]
        /\ queue' = IF quantity > 0 THEN Append(queue, order) ELSE queue
        /\ projected' = projected - cost
    BY SameFormulas DEF OrderStep, Orders!GrantBuy, Orders!Listed
  <1>3. /\ k \in DOMAIN delta /\ delta[k] \in Int /\ delta[k] > 0
        /\ k \in Keys /\ k \in DOMAIN target.listing
        /\ slot.symbol \in Tradable /\ Opens[slot.symbol] \in Nat \ {0}
    <2>1. k \in Orders!TooFew
      BY <1>1, TurnsOf
    <2>2. k \in DOMAIN delta /\ delta[k] > 0
      BY <2>1 DEF Orders!TooFew
    <2> HIDE DEF k
    <2>3. /\ delta[k] \in Int /\ Shares(k) \in Nat
          /\ k \notin DOMAIN target.listing => delta[k] = 0 \/ delta[k] + Shares(k) = 0
      BY <1>1, <2>2, TurnsOf
    <2> QED
      BY <1>1, <2>2, <2>3, TurnsOf
  <1>4. projected \in Nat
    <2>1. Len(queue) \in 0 .. Len(queue)
      BY <1>1, MoneysOf
    <2>2. Total(Moneys, 1 .. Len(queue)) \in Int /\ cash \in Nat
      BY <1>1, <2>1, MoneysOf DEF EngineInv, Account
    <2> QED
      BY <1>1, <2>1, <2>2 DEF EngineInv, QueueInv, DeltaInv
  <1>5. ticks \in Nat \ {0}
    <2>1. ticks \in Nat /\ ticks > 0
      BY <1>3, Prices
    <2> QED
      BY <2>1
  <1>6. quantity \in Nat /\ quantity <= Orders!MaxSharesForCash(projected, ticks)
    <2> DEFINE most == Orders!MaxSharesForCash(projected, ticks)
               least == Orders!Least(delta[k], most)
    <2>1. most \in Nat
      BY <1>4, <1>5, MaxSharesIsNat
    <2>2. quantity = IF Orders!TradeValue(least, ticks) < MinTradeValue THEN 0 ELSE least
      BY SameFormulas DEF Orders!Granted
    <2>3. least \in Nat /\ least <= most
      BY <1>3, <2>1 DEF Orders!Least
    <2> HIDE DEF least, most, quantity
    <2>4. quantity \in Nat /\ quantity <= most
      BY <2>1, <2>2, <2>3
    <2> QED
      BY <2>4 DEF most
  <1>7. /\ order.key = k /\ order.symbol = slot.symbol /\ order.side = "BUY"
        /\ order.quantity = quantity
    BY DEF Orders!MarketOrder
  <1> HIDE DEF order, quantity, ticks, k
  <1>8. cost \in Nat /\ cost <= projected
    BY <1>4, <1>5, <1>6, SharesPaid, Amounts
  <1>9. quantity = 0 => cost = 0
    <2> SUFFICES ASSUME quantity = 0 PROVE cost = 0
      OBVIOUS
    <2>1. 0 * ticks = 0 /\ 0 * (RateDivisor + CommissionRate) = 0
      BY <1>5, Numbers
    <2> QED
      BY <2>1 DEF BuyCost
  <1>10. quantity > 0 => Ready(order) /\ Money(order) = -cost
    BY <1>3, <1>6, <1>7 DEF Ready, Money, Price, Sides, ticks
  <1> HIDE DEF cost
  <1>11. QueueInv' /\ DeltaInv'
    <2> DEFINE money == -cost
    <2>1. money \in Int /\ projected' = projected + money /\ projected' >= 0 /\ (cost = 0 => money = 0)
      BY <1>2, <1>4, <1>8
    <2>2. quantity > 0 => Money(order) = money
      BY <1>10
    <2> HIDE DEF money
    <2>3. \/ queue' = queue /\ money = 0
          \/ \E o : /\ queue' = Append(queue, o) /\ o.key = k
                    /\ Ready(o) /\ Money(o) = money
      BY <1>2, <1>6, <1>7, <1>9, <1>10, <2>1, <2>2
    <2> QED
      BY <1>1, <1>2, <1>3, <2>1, <2>3, TurnKeeps
  <1>12. DroppedInv'
    <2>1. /\ \A j : Kept(j)' <=> Kept(j)
          /\ \A o : Disposes(o)' <=> Disposes(o)
          /\ positions' = positions /\ target' = target
      BY <1>1, ArgumentsStay
    <2>2. /\ \E S : queue \in Seq(S)
          /\ \A i \in DOMAIN queue : Disposes(queue[i])
          /\ SlippageBps < BpsDivisor =>
              \A j \in DOMAIN positions \ DOMAIN target.listing : Kept(j) \/ ToSell(j)
      BY <1>1 DEF EngineInv, QueueInv, DroppedInv
    <2>3. /\ DOMAIN queue \subseteq DOMAIN queue'
          /\ \A i \in DOMAIN queue : queue'[i] = queue[i]
          /\ \A i \in DOMAIN queue' \ DOMAIN queue : queue'[i] = order
      <3>1. CASE quantity > 0
        <4>1. (\E S : queue \in Seq(S)) /\ queue' = Append(queue, order)
          BY <1>2, <2>2, <3>1
        <4>2. /\ Len(queue) \in Nat
              /\ DOMAIN queue = 1 .. Len(queue) /\ DOMAIN queue' = 1 .. Len(queue) + 1
              /\ \A i \in DOMAIN queue : queue'[i] = queue[i]
              /\ queue'[Len(queue) + 1] = order
          BY <4>1, LogGrows
        <4> QED
          BY <4>2
      <3>2. CASE ~ (quantity > 0)
        BY <1>2, <3>2
      <3> QED
        BY <3>1, <3>2
    <2>4. \A i \in DOMAIN queue' : Disposes(queue'[i])
      <3>1. Disposes(order)
        BY <1>3, <1>7 DEF Disposes
      <3> QED
        BY <2>2, <2>3, <3>1
    <2>5. ASSUME SlippageBps < BpsDivisor,
                 NEW j \in DOMAIN positions \ DOMAIN target.listing, ~Kept(j)
          PROVE  ToSell(j)'
      <3>1. ToSell(j) /\ j # k
        BY <1>3, <2>2, <2>5
      <3>2. CASE \E i \in DOMAIN queue : /\ queue[i].key = j /\ queue[i].side = "SELL"
                                         /\ queue[i].quantity = positions[j].quantity
        BY <2>1, <2>3, <3>2 DEF ToSell
      <3>3. CASE j \in DOMAIN delta /\ delta[j] + positions[j].quantity = 0
        <4>1. j \in DOMAIN delta' /\ delta'[j] = delta[j]
          BY <1>2, <3>1, <3>3
        <4> QED
          BY <1>1, <2>1, <3>3, <4>1 DEF ToSell
      <3> QED
        BY <3>1, <3>2, <3>3 DEF ToSell
    <2> QED
      BY <1>1, <2>1, <2>4, <2>5 DEF DroppedInv
  <1> QED
    BY <1>1, <1>11, <1>12, ListingKeeps DEF EngineInv, Executing

\* When the list is returned every unwanted position is kept or in it.
LEMMA ReturnKeeps == ASSUME EngineInv, OrderStep(Orders!Return) PROVE EngineInv'
  <1>1. /\ phase = "grant" /\ phase' = "submit" /\ Orders!TooMany = {}
        /\ UNCHANGED <<world, session, target, results, brokerVars, cash, positions, queue>>
    BY DEF OrderStep, Orders!Return, Orders!arguments
  <1>2. /\ \A order : (Ready(order)' <=> Ready(order)) /\ Money(order)' = Money(order)
        /\ \A k : Kept(k)' <=> Kept(k)
        /\ \A order : Disposes(order)' <=> Disposes(order)
    BY <1>1, ArgumentsStay
  <1>3. QueueInv'
    <2>1. Moneys' = Moneys
      BY <1>1, <1>2 DEF Moneys
    <2> QED
      BY <1>1, <1>2, <2>1 DEF EngineInv, QueueInv
  <1>4. DeltaInv'
    BY <1>1 DEF DeltaInv
  <1>5. DroppedInv'
    <2>1. ASSUME NEW k \in DOMAIN positions \ DOMAIN target.listing, ToSell(k)
          PROVE  ToSell(k)'
      <3>1. CASE k \in DOMAIN delta /\ delta[k] + positions[k].quantity = 0
        <4>1. positions[k].quantity \in Nat \ {0} /\ delta[k] \in Int
          BY <1>1, <3>1, TurnsOf DEF EngineInv, Account, Holding
        <4>2. delta[k] < 0
          BY <3>1, <4>1
        <4> QED
          BY <1>1, <3>1, <4>2 DEF Orders!TooMany
      <3> QED
        BY <1>1, <2>1, <3>1 DEF ToSell
    <2> QED
      BY <1>1, <1>2, <2>1 DEF EngineInv, DroppedInv
  <1> QED
    BY <1>1, <1>3, <1>4, <1>5, ListingKeeps DEF EngineInv, Executing

------------------------------------------------------------------------------
(* Submission and the close.                                                *)

\* The next order of a list is one the risk manager allows and the cash can pay.
LEMMA NextIsReady ==
    ASSUME EngineInv, phase = "submit", queue # << >>
    PROVE  LET order == Head(queue) IN
           /\ order = queue[1] /\ 1 \in DOMAIN queue
           /\ Ready(order) /\ RiskAllows(order)
           /\ Money(order) = Moneys[1] /\ cash + Money(order) >= 0
  <1>1. /\ \E S : queue \in Seq(S)
        /\ \A i \in DOMAIN queue : Ready(queue[i])
        /\ \A i \in 0 .. Len(queue) : cash + Total(Moneys, 1 .. i) >= 0
    BY DEF EngineInv, QueueInv
  <1>2. /\ Len(queue) \in Nat /\ DOMAIN queue = 1 .. Len(queue)
        /\ \A i \in 1 .. Len(queue) : Moneys[i] = Money(queue[i]) /\ Moneys[i] \in Int
    BY MoneysOf
  <1>3. Len(queue) # 0 /\ Head(queue) = queue[1]
    <2>1. PICK S : queue \in Seq(S)
      BY <1>1
    <2> QED
      BY <2>1
  <1>4. 1 \in 1 .. Len(queue)
    BY <1>2, <1>3
  <1>5. Total(Moneys, 1 .. 1) = Moneys[1]
    <2>1. Total(Moneys, 1 .. (0 + 1)) = Total(Moneys, 1 .. 0) + Moneys[0 + 1]
      <3>1. 0 \in Nat /\ \A i \in 1 .. (0 + 1) : Moneys[i] \in Int
        BY <1>2, <1>4
      <3> QED
        BY <3>1, TotalUpto
    <2>2. Total(Moneys, 1 .. 0) = 0
      BY TotalOfNone, Initial
    <2> QED
      BY <1>2, <1>4, <2>1, <2>2
  <1>6. cash + Money(queue[1]) >= 0 /\ Money(queue[1]) = Moneys[1]
    <2>1. 1 \in 0 .. Len(queue) /\ Moneys[1] = Money(queue[1])
      BY <1>2, <1>4
    <2>2. cash + Total(Moneys, 1 .. 1) >= 0
      BY <1>1, <2>1
    <2> QED
      BY <1>5, <2>1, <2>2
  <1>7. Ready(queue[1]) /\ RiskAllows(queue[1])
    BY <1>1, <1>2, <1>4 DEF Ready, RiskAllows, Shares
  <1> QED
    BY <1>2, <1>3, <1>4, <1>6, <1>7

\* What submitting it makes of the account.
LEMMA NextFills ==
    ASSUME EngineInv, SubmitNext
    PROVE  LET order == Head(queue) IN
           /\ phase = "submit" /\ phase' = "submit" /\ queue # << >>
           /\ UNCHANGED <<world, session, target>>
           /\ Account' /\ sessionTime' = session
           /\ Filled(order, Price(order),
                     IF order.side = "BUY" THEN order.quantity ELSE -order.quantity, Money(order))
           /\ orders'[Len(orders')].status = "FILLED"
           /\ submitted' = Append(submitted, orders'[Len(orders')])
           /\ queue' = Tail(queue)
  <1>1. /\ phase = "submit" /\ phase' = "submit" /\ queue # << >>
        /\ UNCHANGED <<world, session, target>> /\ queue' = Tail(queue)
    BY DEF SubmitNext
  <1> DEFINE order == Head(queue)
  <1>2. Ready(order) /\ RiskAllows(order) /\ cash + Money(order) >= 0
    BY <1>1, NextIsReady
  <1>3. /\ Broker!SubmitOrder(order)
        /\ submitted' = Append(submitted, orders'[Len(orders')])
    BY <1>1, <1>2 DEF SubmitNext
  <1> HIDE DEF order
  <1>4. World /\ Account /\ connected = TRUE /\ marketPrices = Opens /\ sessionTime = session
    BY <1>1 DEF EngineInv, QuoteInv
  <1> QED
    BY <1>1, <1>2, <1>3, <1>4, SubmitFills DEF order

\* Every other key is left as it was, and what the filled key holds is its order's ticker.
LEMMA OthersStay ==
    ASSUME NEW order, NEW ticks, NEW shares, NEW money, Filled(order, ticks, shares, money)
    PROVE  \A k : /\ k # order.key =>
                        /\ k \in DOMAIN positions' <=> k \in DOMAIN positions
                        /\ k \in DOMAIN positions' => positions'[k] = positions[k]
                        /\ Shares(k)' = Shares(k)
                  /\ k = order.key /\ k \in DOMAIN positions' =>
                        positions'[k].symbol = order.symbol
  <1>1. /\ DOMAIN positions' \cup {order.key} = DOMAIN positions \cup {order.key}
        /\ \A k \in DOMAIN positions \ {order.key} : positions'[k] = positions[k]
        /\ order.key \in DOMAIN positions' => positions'[order.key].symbol = order.symbol
    BY DEF Filled
  <1> QED
    BY <1>1 DEF Shares

LEMMA SubmitNextKeeps == ASSUME EngineInv, SubmitNext PROVE EngineInv'
  <1> DEFINE order == Head(queue)
             shares == IF order.side = "BUY" THEN order.quantity ELSE -order.quantity
             n == Len(queue) - 1
             f == Moneys
             g == Moneys'
  <1>1. /\ phase = "submit" /\ phase' = "submit" /\ queue # << >>
        /\ UNCHANGED <<world, session, target>>
        /\ Account' /\ sessionTime' = session
        /\ Filled(order, Price(order), shares, Money(order))
        /\ orders'[Len(orders')].status = "FILLED"
        /\ submitted' = Append(submitted, orders'[Len(orders')])
        /\ queue' = Tail(queue)
    BY NextFills
  <1>2. /\ order = queue[1] /\ 1 \in DOMAIN queue /\ Ready(order)
        /\ Money(order) = f[1]
    BY <1>1, NextIsReady
  <1>3. /\ \E S : queue \in Seq(S)
        /\ \A i \in DOMAIN queue : Ready(queue[i]) /\ Disposes(queue[i])
        /\ \A i, j \in DOMAIN queue : i # j => queue[i].key # queue[j].key
        /\ \A i \in 0 .. Len(queue) : cash + Total(f, 1 .. i) >= 0
        /\ SlippageBps < BpsDivisor =>
              \A k \in DOMAIN positions \ DOMAIN target.listing : Kept(k) \/ ToSell(k)
    BY <1>1 DEF EngineInv, QueueInv, DroppedInv
  <1>4. /\ n \in Nat /\ Len(queue) = n + 1 /\ DOMAIN queue = 1 .. (n + 1)
        /\ \A i \in 1 .. (n + 1) : f[i] = Money(queue[i]) /\ f[i] \in Int
        /\ \A i \in 0 .. (n + 1) : Total(f, 1 .. i) \in Int
    BY <1>1, <1>2, MoneysOf
  <1>5. /\ \E S : queue' \in Seq(S)
        /\ Len(queue') = n /\ DOMAIN queue' = 1 .. n
        /\ \A i \in 1 .. n : queue'[i] = queue[i + 1]
    <2>1. PICK S : queue \in Seq(S)
      BY <1>3
    <2>2. queue' \in Seq(S) /\ Len(queue') = Len(queue) - 1
          /\ \A i \in 1 .. Len(queue) - 1 : queue'[i] = queue[i + 1]
      BY <1>1, <2>1
    <2> QED
      BY <1>4, <2>2
  <1>6. /\ Tradable' = Tradable /\ Opens' = Opens /\ World'
        /\ \A s : Exited(s)' <=> Exited(s)
    BY <1>1, SameMarket DEF EngineInv
  <1>7. \A k : /\ k # order.key =>
                     /\ k \in DOMAIN positions' <=> k \in DOMAIN positions
                     /\ k \in DOMAIN positions' => positions'[k] = positions[k]
                     /\ Shares(k)' = Shares(k)
               /\ k = order.key /\ k \in DOMAIN positions' =>
                     positions'[k].symbol = order.symbol
    BY <1>1, OthersStay
  <1>8. cash' = cash + f[1] /\ UNCHANGED <<connected, marketPrices>> /\ cash \in Nat
    BY <1>1, <1>2 DEF Filled, EngineInv, Account
  <1>9. \A i \in 1 .. n : i + 1 \in DOMAIN queue /\ queue[i + 1].key # order.key
    BY <1>2, <1>3, <1>4
  <1> HIDE DEF order, shares, n, f, g
  <1>10. \A o : /\ Money(o)' = Money(o)
                /\ o.key # order.key => (Ready(o)' <=> Ready(o)) /\ (Disposes(o)' <=> Disposes(o))
    BY <1>1, <1>6, <1>7 DEF Money, Price, Ready, Disposes
  <1>11. QueueInv'
    <2>1. \A i \in DOMAIN queue' : Ready(queue[i])'
      <3>1. \A i \in 1 .. n : Ready(queue'[i]) /\ queue'[i].key # order.key
        BY <1>3, <1>5, <1>9
      <3> QED
        BY <1>5, <1>10, <3>1
    <2>2. \A i, j \in DOMAIN queue' : i # j => queue'[i].key # queue'[j].key
      <3> SUFFICES ASSUME NEW i \in 1 .. n, NEW j \in 1 .. n, i # j
                   PROVE  queue'[i].key # queue'[j].key
        BY <1>5
      <3>1. i + 1 \in DOMAIN queue /\ j + 1 \in DOMAIN queue /\ i + 1 # j + 1
        BY <1>4
      <3>2. queue'[i] = queue[i + 1] /\ queue'[j] = queue[j + 1]
        BY <1>5
      <3> QED
        BY <1>3, <3>1, <3>2
    <2>3. \A i \in 1 .. n : g[i] = f[i + 1]
      <3>1. g = [i \in 1 .. n |-> Money(queue'[i])]
        BY <1>5, <1>10 DEF Moneys, g
      <3> SUFFICES ASSUME NEW i \in 1 .. n PROVE g[i] = f[i + 1]
        OBVIOUS
      <3>2. i + 1 \in 1 .. (n + 1) /\ queue'[i] = queue[i + 1]
        BY <1>4, <1>5
      <3>3. f[i + 1] = Money(queue[i + 1])
        BY <1>4, <3>2
      <3> QED
        BY <3>1, <3>2, <3>3
    <2>4. ASSUME NEW i \in 0 .. n PROVE cash' + Total(g, 1 .. i) >= 0
      <3>1. i \in Nat /\ i + 1 \in 0 .. (n + 1)
        BY <1>4
      <3>2. /\ \A j \in 1 .. (i + 1) : f[j] \in Int
            /\ \A j \in 1 .. i : g[j] = f[j + 1] /\ g[j] \in Int
        BY <1>4, <2>3, <3>1
      <3>3. Total(f, 1 .. (i + 1)) = f[1] + Total(g, 1 .. i)
        BY <3>1, <3>2, TotalOfTail
      <3>4. cash + Total(f, 1 .. (i + 1)) >= 0 /\ f[1] \in Int
        BY <1>3, <1>4, <3>1, <3>2
      <3>5. Total(g, 1 .. i) \in Int
        BY <3>1, <3>2, Initial, TotalIsInt
      <3> QED
        BY <1>8, <3>3, <3>4, <3>5
    <2> QED
      BY <1>5, <2>1, <2>2, <2>4 DEF QueueInv, g
  <1>12. DroppedInv'
    <2>1. \A i \in DOMAIN queue' : Disposes(queue[i])'
      <3>1. \A i \in 1 .. n : Disposes(queue'[i]) /\ queue'[i].key # order.key
        BY <1>3, <1>5, <1>9
      <3> QED
        BY <1>5, <1>10, <3>1
    <2>2. ASSUME SlippageBps < BpsDivisor, NEW k \in DOMAIN positions' \ DOMAIN target.listing
          PROVE  Kept(k)' \/ ToSell(k)'
      <3>1. k # order.key
        <4> SUFFICES ASSUME k = order.key PROVE FALSE
          OBVIOUS
        <4>1. order.side = "SELL" /\ order.quantity = Shares(order.key) /\ order.quantity \in Nat
          BY <1>2, <1>3 DEF Disposes, Ready
        <4>2. shares = -order.quantity
          BY <4>1 DEF shares
        <4>3. Shares(order.key) + shares = 0
          BY <4>1, <4>2
        <4> QED
          BY <1>1, <4>3 DEF Filled
      <3>2. k \in DOMAIN positions /\ positions'[k] = positions[k]
        BY <1>7, <3>1
      <3>3. Kept(k) \/ ToSell(k)
        BY <1>3, <2>2, <3>2
      <3>4. Kept(k)' <=> Kept(k)
        BY <1>6, <3>2 DEF Kept
      <3>5. ToSell(k) => ToSell(k)'
        <4> SUFFICES ASSUME ToSell(k) PROVE ToSell(k)'
          OBVIOUS
        <4>1. PICK i \in DOMAIN queue : /\ queue[i].key = k /\ queue[i].side = "SELL"
                                        /\ queue[i].quantity = positions[k].quantity
          BY <1>1 DEF ToSell
        <4>2. i # 1
          BY <1>2, <3>1, <4>1
        <4>3. i - 1 \in DOMAIN queue' /\ queue'[i - 1] = queue[i]
          BY <1>4, <1>5, <4>2
        <4> QED
          BY <3>2, <4>1, <4>3 DEF ToSell
      <3> QED
        BY <3>3, <3>4, <3>5
    <2> QED
      BY <1>1, <2>1, <2>2 DEF DroppedInv
  <1>13. DeltaInv'
    BY <1>1 DEF DeltaInv
  <1>14. ResultInv'
    <2> DEFINE log == orders'[Len(orders')]
    <2>1. log.status = "FILLED" /\ submitted' = Append(submitted, log)
          /\ \E S : submitted \in Seq(S)
      BY <1>1 DEF EngineInv, ResultInv
    <2> HIDE DEF log
    <2>2. /\ Len(submitted) \in Nat
          /\ DOMAIN submitted = 1 .. Len(submitted) /\ DOMAIN submitted' = 1 .. Len(submitted) + 1
          /\ \A i \in DOMAIN submitted : submitted'[i] = submitted[i]
          /\ submitted'[Len(submitted) + 1] = log
      BY <2>1, LogGrows
    <2>3. \E S : submitted' \in Seq(S)
      BY <2>1, LogGrows
    <2> QED
      BY <2>1, <2>2, <2>3 DEF EngineInv, ResultInv, EveryOrderFills
  <1>15. TerminationsRealized'
    <2>1. ~Exited(order.symbol)
      BY <1>2, Market DEF EngineInv, Ready, Exited
    <2>2. \A k \in DOMAIN positions' : Exited(positions[k].symbol)' =>
                k # order.key /\ k \in DOMAIN positions /\ positions'[k] = positions[k]
                /\ Exited(positions[k].symbol)
      <3> SUFFICES ASSUME NEW k \in DOMAIN positions', Exited(positions'[k].symbol)
                   PROVE  k # order.key /\ k \in DOMAIN positions /\ positions'[k] = positions[k]
                          /\ Exited(positions[k].symbol)
        BY <1>6
      <3> QED
        BY <1>7, <2>1
    <2> QED
      BY <1>1, <2>2 DEF EngineInv, TerminationsRealized
  <1>16. TargetInv' /\ phase' \in Phases
    BY <1>1 DEF EngineInv, TargetInv, Executing
  <1>17. QuoteInv'
    BY <1>1, <1>6, <1>8 DEF EngineInv, QuoteInv
  <1> QED
    BY <1>1, <1>6, <1>11, <1>12, <1>13, <1>14, <1>15, <1>16, <1>17 DEF EngineInv

\* The loop's steps that move neither the account nor the result.
LEMMA LoopKeeps ==
    ASSUME EngineInv, UNCHANGED <<world, session, results, brokerVars>>,
           phase \in {"submit", "record", "signal"}, phase' \in {"close", "signal", "next"}
    PROVE  /\ World' /\ phase' \in Phases /\ Account' /\ QuoteInv' /\ ResultInv'
           /\ QueueInv' /\ DeltaInv' /\ DroppedInv'
           /\ \A k : Exited(positions[k].symbol)' <=> Exited(positions[k].symbol)
  <1>1. UNCHANGED <<world, session, submitted, connected, cash, positions, orders, fills,
                    marketPrices, sessionTime>>
    BY DEF results, brokerVars
  <1>2. World' /\ Account' /\ ResultInv'
    BY <1>1, SameMarket DEF EngineInv, Account, ResultInv, EveryOrderFills
  <1>3. phase' \in Phases /\ QuoteInv'
    BY <1>1 DEF EngineInv, QuoteInv, Phases
  <1>4. QueueInv' /\ DeltaInv' /\ DroppedInv'
    BY NothingQueued DEF NoQueue
  <1>5. \A k : Exited(positions[k].symbol)' <=> Exited(positions[k].symbol)
    BY <1>1 DEF Exited, Stopped
  <1> QED
    BY <1>2, <1>3, <1>4, <1>5

LEMMA SubmissionsDoneKeeps == ASSUME EngineInv, SubmissionsDone PROVE EngineInv'
  <1>1. /\ phase = "submit" /\ phase' = "close" /\ target' = NoTarget
        /\ UNCHANGED <<world, session, results, brokerVars>> /\ positions' = positions
    BY DEF SubmissionsDone, Go, brokerVars
  <1>2. TargetInv'
    BY <1>1 DEF TargetInv, Executing
  <1>3. TerminationsRealized'
    BY <1>1, LoopKeeps DEF EngineInv, TerminationsRealized
  <1> QED
    BY <1>1, <1>2, <1>3, LoopKeeps DEF EngineInv

\* Marking at the close: by today's closes, and the silent tickers at what one of their
\* positions was last worth.
LEMMA CloseMarks ==
    ASSUME EngineInv, ApplyCloseMarks
    PROVE  LET silent == {positions[k].symbol : k \in DOMAIN positions} \ Tradable
               ended == {s \in silent : Ended(s)}
           IN  /\ Relisted(positions') /\ DOMAIN positions' = DOMAIN positions
               /\ unvaluedSymbols' = unvaluedSymbols \cup ended
               /\ \A k \in DOMAIN positions :
                     /\ positions'[k].symbol = positions[k].symbol
                     /\ positions'[k].valued <=> positions[k].symbol \notin ended
                     /\ positions[k].symbol \in Tradable =>
                            positions'[k].price = Quoted(Closes[positions[k].symbol])
  <1> DEFINE silent == {positions[k].symbol : k \in DOMAIN positions} \ Tradable
             ended == {s \in silent : Ended(s)}
             carried == silent \ ended
             marks(carry) == [s \in Tradable \cup carried |->
                                 IF s \in Tradable THEN Quoted(Closes[s]) ELSE positions[carry[s]].price]
  <1>1. World /\ Account
    BY DEF EngineInv
  <1>2. unvaluedSymbols' = unvaluedSymbols \cup ended
    BY DEF ApplyCloseMarks
  <1>3. PICK carry \in [carried -> DOMAIN positions] : Broker!MarkToMarket(marks(carry), ended)
    BY DEF ApplyCloseMarks
  <1> DEFINE prices == marks(carry)
  <1>4. /\ DOMAIN prices = Tradable \cup carried
        /\ \A s \in Tradable : prices[s] = Quoted(Closes[s])
        /\ prices \in [DOMAIN prices -> Nat]
    <2>1. \A s \in Tradable : Quoted(Closes[s]) \in Nat
      BY <1>1, Market, Prices
    <2>2. \A k \in DOMAIN positions : positions[k].price \in Nat
      BY <1>1 DEF Account, Holding
    <2>3. \A s \in carried : positions[carry[s]].price \in Nat
      BY <1>3, <2>2
    <2> QED
      BY <2>1, <2>3
  <1>5. Tradable \cap ended = {}
    OBVIOUS
  <1> HIDE DEF prices, ended
  <1>6. /\ Relisted(positions')
        /\ \A k \in DOMAIN positions :
              /\ positions'[k].symbol = positions[k].symbol
              /\ positions'[k].valued <=> positions[k].symbol \notin ended
              /\ positions[k].symbol \in DOMAIN prices \ ended =>
                     positions'[k].price = prices[positions[k].symbol]
    <2>1. Broker!MarkToMarket(prices, ended)
      BY <1>3 DEF prices, ended
    <2> QED
      BY <1>1, <1>4, <2>1, MarkMoves
  <1>7. DOMAIN positions' = DOMAIN positions
    BY <1>6 DEF Relisted
  <1> QED
    BY <1>2, <1>4, <1>5, <1>6, <1>7 DEF ended

LEMMA ApplyCloseMarksKeeps == ASSUME EngineInv, ApplyCloseMarks PROVE EngineInv'
  <1>1. /\ phase = "close" /\ phase' = "record"
        /\ UNCHANGED <<world, session, target, submitted>>
    BY DEF ApplyCloseMarks, Go
  <1>2. /\ Relisted(positions') /\ DOMAIN positions' = DOMAIN positions
        /\ \A k \in DOMAIN positions : positions'[k].symbol = positions[k].symbol
    BY CloseMarks
  <1>3. World' /\ Account' /\ ResultInv'
    BY <1>1, <1>2, SameMarket DEF EngineInv, ResultInv, EveryOrderFills, Relisted
  <1>4. TerminationsRealized'
    BY <1>1, <1>2 DEF EngineInv, TerminationsRealized, Exited, Stopped
  <1>5. TargetInv' /\ phase' \in Phases /\ QuoteInv'
    BY <1>1, <1>2 DEF EngineInv, TargetInv, QuoteInv, Executing, Phases, Relisted
  <1>6. QueueInv' /\ DeltaInv' /\ DroppedInv'
    BY <1>1, NothingQueued DEF NoQueue
  <1> QED
    BY <1>3, <1>4, <1>5, <1>6 DEF EngineInv

LEMMA RecordEquityKeeps == ASSUME EngineInv, RecordEquity PROVE EngineInv'
  <1>1. /\ phase = "record" /\ phase' = IF session \in world.rebalance THEN "signal" ELSE "next"
        /\ UNCHANGED <<world, session, target, submitted, brokerVars>>
        /\ UNCHANGED <<connected, cash, positions, orders, fills, marketPrices, sessionTime>>
    BY DEF RecordEquity, Go, brokerVars
  <1>2. World' /\ Account' /\ ResultInv'
    BY <1>1, SameMarket DEF EngineInv, Account, ResultInv, EveryOrderFills
  <1>3. TargetInv' /\ phase' \in Phases /\ QuoteInv'
    BY <1>1 DEF EngineInv, TargetInv, QuoteInv, Executing, Phases
  <1>4. TerminationsRealized'
    BY <1>1 DEF EngineInv, TerminationsRealized, Exited, Stopped
  <1>5. QueueInv' /\ DeltaInv' /\ DroppedInv'
    BY <1>1, NothingQueued DEF NoQueue
  <1> QED
    BY <1>2, <1>3, <1>4, <1>5 DEF EngineInv

LEMMA SignalKeeps == ASSUME EngineInv, Signal PROVE EngineInv'
  <1>1. /\ phase = "signal" /\ phase' = "next"
        /\ UNCHANGED <<world, session, results, brokerVars>>
    BY DEF Signal, Go
  <1>2. PICK picks \in SUBSET Eligible :
             \E listing \in [{world.keyOf[s][session] : s \in picks} -> picks] :
                target' = [count |-> Cardinality(picks), listing |-> listing]
    BY DEF Signal
  <1> DEFINE keys == {world.keyOf[s][session] : s \in picks}
  <1>3. PICK listing \in [keys -> picks] : target' = [count |-> Cardinality(picks), listing |-> listing]
    BY <1>2
  <1>4. picks \subseteq Symbols /\ IsFiniteSet(picks) /\ Cardinality(picks) \in Nat
    <2>1. picks \subseteq Symbols /\ IsFiniteSet(Symbols)
      BY EngineAssumption DEF Eligible, EngineAssumption
    <2> QED
      BY <2>1, FS_Subset, FS_CardinalityType
  <1>5. keys \subseteq Keys
    BY <1>4, EngineAssumption DEF EngineInv, World, EngineAssumption
  <1>6. keys # {} => Cardinality(picks) # 0
    BY <1>4, FS_EmptySet
  <1>7. TargetInv'
    <2>1. target'.listing = listing /\ target'.count = Cardinality(picks) /\ DOMAIN listing = keys
      BY <1>3
    <2>2. session \in world.rebalance
      BY <1>1 DEF EngineInv, TargetInv
    <2> HIDE DEF keys
    <2> QED
      BY <1>1, <1>3, <1>4, <1>5, <1>6, <2>1, <2>2 DEF TargetInv, Executing
  <1>8. TerminationsRealized'
    BY <1>1 DEF TerminationsRealized
  <1> QED
    BY <1>1, <1>7, <1>8, LoopKeeps DEF EngineInv

LEMMA NextSessionKeeps == ASSUME EngineInv, NextSession PROVE EngineInv'
  <1>1. /\ phase = "next" /\ UNCHANGED <<world, target, submitted>>
        /\ UNCHANGED <<connected, cash, positions, orders, fills, marketPrices, sessionTime>>
        /\ \/ session = LastSession /\ phase' = "done" /\ session' = session
           \/ session # LastSession /\ phase' = "terminate" /\ session' = session + 1
    BY DEF NextSession, Go, results, brokerVars
  <1>2. session \in 1 .. LastSession /\ LastSession \in Nat
    BY EngineAssumption DEF EngineInv, World, Sessions, EngineAssumption
  <1>3. World' /\ Account' /\ ResultInv'
    BY <1>1, <1>2 DEF EngineInv, World, Sessions, Account, ResultInv, EveryOrderFills
  <1>4. TargetInv' /\ phase' \in Phases /\ QuoteInv'
    BY <1>1, <1>2 DEF EngineInv, TargetInv, QuoteInv, Executing, Phases
  <1>5. TerminationsRealized'
    BY <1>1 DEF TerminationsRealized
  <1>6. QueueInv' /\ DeltaInv' /\ DroppedInv'
    BY <1>1, NothingQueued DEF NoQueue
  <1> QED
    BY <1>3, <1>4, <1>5, <1>6 DEF EngineInv

------------------------------------------------------------------------------
(* The run.                                                                 *)

LEMMA StutterKeeps == ASSUME EngineInv, UNCHANGED vars PROVE EngineInv'
  <1>1. /\ UNCHANGED <<world, phase, session, target, delta, projected, queue, submitted>>
        /\ UNCHANGED <<connected, cash, positions, orders, fills, marketPrices, sessionTime>>
    BY DEF vars, sizing, results, brokerVars
  <1>2. /\ Tradable' = Tradable /\ Opens' = Opens /\ World'
        /\ \A s : Exited(s)' <=> Exited(s)
    BY <1>1, SameMarket DEF EngineInv
  <1>3. /\ Orders!BookedKeys' = Orders!BookedKeys
        /\ \A k : /\ Orders!Delta(Orders!Slot(k))' = Orders!Delta(Orders!Slot(k))
                  /\ Kept(k)' <=> Kept(k)
        /\ \A order : /\ Ready(order)' <=> Ready(order)
                      /\ Money(order)' = Money(order)
                      /\ Disposes(order)' <=> Disposes(order)
    BY <1>1, ArgumentsStay
  <1>4. Moneys' = Moneys
    BY <1>1, <1>3 DEF Moneys
  <1>5. Account' /\ ResultInv'
    BY <1>1 DEF EngineInv, Account, ResultInv, EveryOrderFills
  <1>6. TargetInv' /\ QuoteInv' /\ phase' \in Phases
    BY <1>1, <1>2 DEF EngineInv, TargetInv, QuoteInv
  <1>7. TerminationsRealized'
    BY <1>1, <1>2 DEF EngineInv, TerminationsRealized
  <1>8. QueueInv'
    BY <1>1, <1>3, <1>4 DEF EngineInv, QueueInv
  <1>9. DeltaInv'
    BY <1>1, <1>3, <1>4 DEF EngineInv, DeltaInv
  <1>10. DroppedInv'
    BY <1>1, <1>3 DEF EngineInv, DroppedInv, ToSell
  <1> QED
    BY <1>2, <1>5, <1>6, <1>7, <1>8, <1>9, <1>10 DEF EngineInv

LEMMA EngineStep == EngineInv /\ [Next]_vars => EngineInv'
  <1> SUFFICES ASSUME EngineInv, [Next]_vars PROVE EngineInv'
    OBVIOUS
  <1>1. CASE Connect
    BY <1>1, ConnectKeeps
  <1>2. CASE \E k \in DOMAIN positions : Terminate(k)
    BY <1>2, TerminateKeeps
  <1>3. CASE TerminationsDone
    BY <1>3, TerminationsDoneKeeps
  <1>4. CASE Retarget
    BY <1>4, RetargetKeeps
  <1>5. CASE QuoteOpens
    BY <1>5, QuoteOpensKeeps
  <1>6. CASE MarkAtOpen
    BY <1>6, MarkAtOpenKeeps
  <1>7. CASE OrderStep(Orders!Size)
    BY <1>7, SizeKeeps
  <1>8. CASE OrderStep(Orders!TakeSale)
    BY <1>8, TakeSaleKeeps
  <1>9. CASE OrderStep(Orders!GrantBuy)
    BY <1>9, GrantBuyKeeps
  <1>10. CASE OrderStep(Orders!Return)
    BY <1>10, ReturnKeeps
  <1>11. CASE SubmitNext
    BY <1>11, SubmitNextKeeps
  <1>12. CASE SubmissionsDone
    BY <1>12, SubmissionsDoneKeeps
  <1>13. CASE ApplyCloseMarks
    BY <1>13, ApplyCloseMarksKeeps
  <1>14. CASE RecordEquity
    BY <1>14, RecordEquityKeeps
  <1>15. CASE Signal
    BY <1>15, SignalKeeps
  <1>16. CASE NextSession
    BY <1>16, NextSessionKeeps
  <1>17. CASE UNCHANGED vars
    BY <1>17, StutterKeeps
  <1> QED
    BY <1>1, <1>2, <1>3, <1>4, <1>5, <1>6, <1>7, <1>8, <1>9, <1>10, <1>11, <1>12, <1>13, <1>14,
       <1>15, <1>16, <1>17 DEF Next

LEMMA EngineHolds == Spec => []EngineInv
  <1>1. Init => EngineInv
    BY InitKeeps
  <1>2. EngineInv /\ [Next]_vars => EngineInv'
    BY EngineStep
  <1> QED
    BY <1>1, <1>2, PTL DEF Spec

\* No order of a list is stranded by the ones before it: each is filled when it is
\* submitted (OrderService.create_orders_from_targets, RiskManager.validate and
\* SimulatedBroker.submit_order, engine.py:189).
THEOREM EveryOrderIsFilled == Spec => []EveryOrderFills
  <1>1. EngineInv => EveryOrderFills
    BY DEF EngineInv, ResultInv
  <1> QED
    BY <1>1, EngineHolds, PTL

\* Once a session's known terminations are realized a known exit is held only where the
\* target has just retargeted a position onto it (engine.py:151 and 163).
THEOREM ExitsAreTaken == Spec => []TerminationsRealized
  <1>1. EngineInv => TerminationsRealized
    BY DEF EngineInv
  <1> QED
    BY <1>1, EngineHolds, PTL

\* Fills happen in two phases of the loop only.
LEMMA FillingSteps ==
    ASSUME [Next]_vars, fills' # fills
    PROVE  \/ phase = "terminate" /\ \E k \in DOMAIN positions : Terminate(k)
           \/ phase = "submit" /\ SubmitNext
  <1>1. CASE \E k \in DOMAIN positions : Terminate(k)
    BY <1>1 DEF Terminate
  <1>2. CASE SubmitNext
    BY <1>2 DEF SubmitNext
  <1>3. CASE Connect \/ Retarget \/ QuoteOpens \/ MarkAtOpen \/ ApplyCloseMarks
    BY <1>3 DEF Connect, Retarget, QuoteOpens, MarkAtOpen, ApplyCloseMarks, Broker!Connect,
         Broker!RetargetListings, Broker!SetMarketPrices, Broker!MarkToMarket,
         Broker!MovePositions, Broker!accountVars
  <1>4. CASE TerminationsDone \/ SubmissionsDone \/ RecordEquity \/ Signal \/ NextSession
    BY <1>4 DEF TerminationsDone, SubmissionsDone, RecordEquity, Signal, NextSession, brokerVars
  <1>5. CASE UNCHANGED brokerVars
    BY <1>5 DEF brokerVars
  <1>6. CASE UNCHANGED vars
    BY <1>6 DEF vars, brokerVars
  <1> QED
    BY <1>1, <1>2, <1>3, <1>4, <1>5, <1>6 DEF Next, OrderStep

\* A market order fills at the slipped open of a usable bar of the session right after
\* the rebalance that chose it (engine.py:163 to 201).
THEOREM FillsAreNextOpen == Spec => FillsAtNextOpen
  <1> DEFINE AtNextOpen ==
          (fills' # fills /\ phase = "submit") =>
              LET fill == fills'[Len(fills')] IN
              /\ session - 1 \in world.rebalance
              /\ fill.time = session
              /\ fill.symbol \in Tradable
              /\ fill.price \in {ApplySlippage(side, world.tape[fill.symbol][session].open) : side \in Sides}
  <1>1. EngineInv /\ [Next]_vars => [AtNextOpen]_vars
    <2> SUFFICES ASSUME EngineInv, [Next]_vars, fills' # fills, phase = "submit" PROVE AtNextOpen
      OBVIOUS
    <2> DEFINE order == Head(queue)
    <2>1. SubmitNext
      BY FillingSteps
    <2>2. session - 1 \in world.rebalance
      BY DEF EngineInv, TargetInv, Executing
    <2>3. \E f : fills' = Append(fills, f) /\ f.symbol = order.symbol /\ f.price = Price(order)
                 /\ f.time = session
      <3>1. sessionTime' = session
            /\ Filled(order, Price(order),
                      IF order.side = "BUY" THEN order.quantity ELSE -order.quantity, Money(order))
        BY <2>1, NextFills
      <3> HIDE DEF order
      <3> QED
        BY <3>1 DEF Filled
    <2>4. Ready(order)
      BY <2>1, NextIsReady DEF SubmitNext
    <2> HIDE DEF order
    <2>5. PICK f : fills' = Append(fills, f) /\ f.symbol = order.symbol /\ f.price = Price(order)
                   /\ f.time = session
      BY <2>3
    <2>6. fills'[Len(fills')] = f
      <3>1. \E S : fills \in Seq(S)
        BY DEF EngineInv, Account
      <3> QED
        BY <2>5, <3>1, LogGrows
    <2>7. /\ order.symbol \in Tradable /\ order.side \in Sides
          /\ Opens[order.symbol] = world.tape[order.symbol][session].open
      BY <2>4 DEF Ready, Opens
    <2> QED
      BY <2>2, <2>5, <2>6, <2>7 DEF Price
  <1>2. Spec => [][AtNextOpen]_vars
    BY <1>1, EngineHolds, PTL DEF Spec
  <1> QED
    BY <1>2, PTL DEF FillsAtNextOpen

\* A termination sells the whole of a position once its tape has stopped, at the last
\* close and without slippage; and where the ticker's bars are all of the security sold,
\* that security is itself delisted (termination.py:3, engine.py:573).
THEOREM TerminationsAreExits == Spec => TerminalExits
  <1> DEFINE IsExit ==
          (fills' # fills /\ phase = "terminate") =>
              LET fill == fills'[Len(fills')] IN
              /\ Stopped(fill.symbol)
              /\ fill.price = Quoted(LastClose(fill.symbol)) /\ fill.slippage = 0
              /\ OneSecurity(fill.symbol, fill.key) => fill.key \in world.delisted
              /\ fill.key \notin DOMAIN positions'
  <1>1. EngineInv /\ [Next]_vars => [IsExit]_vars
    <2> SUFFICES ASSUME EngineInv, [Next]_vars, fills' # fills, phase = "terminate" PROVE IsExit
      OBVIOUS
    <2>1. PICK k \in DOMAIN positions : Terminate(k)
      BY FillingSteps
    <2> DEFINE s == positions[k].symbol
               order == [id |-> TerminationId(s), key |-> k, symbol |-> s, side |-> "SELL",
                         quantity |-> positions[k].quantity]
    <2>2. /\ s \in Symbols /\ KnownTermination(s)
          /\ Filled(order, Quoted(LastClose(s)), -order.quantity,
                    SellProceeds(order.quantity, Quoted(LastClose(s))))
          /\ \E f : fills' = Append(fills, f) /\ f.slippage = 0
      BY <2>1, TerminationFills DEF EngineInv
    <2>3. order.key = k /\ order.symbol = s /\ order.quantity = Shares(k) /\ Shares(k) \in Nat
      BY DEF EngineInv, Account, Holding, Shares
    <2> HIDE DEF order
    <2>4. /\ \E f : fills' = Append(fills, f) /\ f.symbol = s /\ f.key = k
                    /\ f.price = Quoted(LastClose(s))
          /\ k \notin DOMAIN positions'
      <3>1. Shares(order.key) + (-order.quantity) = 0
        BY <2>3
      <3> QED
        BY <2>2, <2>3, <3>1 DEF Filled
    <2>5. PICK f : fills' = Append(fills, f) /\ f.symbol = s /\ f.key = k
                   /\ f.price = Quoted(LastClose(s))
      BY <2>4
    <2>6. PICK g : fills' = Append(fills, g) /\ g.slippage = 0
      BY <2>2
    <2>7. fills'[Len(fills')] = f /\ fills'[Len(fills')] = g
      <3>1. \E S : fills \in Seq(S)
        BY DEF EngineInv, Account
      <3>2. fills'[Len(fills')] = f
        BY <2>5, <3>1, LogGrows
      <3>3. fills'[Len(fills')] = g
        BY <2>6, <3>1, LogGrows
      <3> QED
        BY <3>2, <3>3
    <2>8. Stopped(s) /\ LastBar(s) \in BarSessions(s) /\ world.keyOf[s][LastBar(s)] \in world.delisted
      BY <2>2, Market DEF EngineInv, KnownTermination, BarSessions
    <2>9. OneSecurity(s, k) => k \in world.delisted
      BY <2>8 DEF OneSecurity
    <2> QED
      BY <2>4, <2>5, <2>6, <2>7, <2>8, <2>9
  <1>2. Spec => [][IsExit]_vars
    BY <1>1, EngineHolds, PTL DEF Spec
  <1> QED
    BY <1>2, PTL DEF TerminalExits

\* After a target's orders are submitted, what it does not want is held only where it
\* cannot be traded today or is worth less than a minimum trade.  At the whole price of
\* slippage a sale would bring nothing and the order service places none.
THEOREM DroppedAreSold ==
    ASSUME SlippageBps < BpsDivisor
    PROVE  Spec => DroppedPositionsSold
  <1> DEFINE Sold ==
          (phase = "submit" /\ phase' = "close") =>
              \A k \in DOMAIN positions \ DOMAIN target.listing :
                  LET s == positions[k].symbol IN
                  \/ s \notin Tradable \/ Opens[s] = 0
                  \/ TradeValue(positions[k].quantity, Quoted(Opens[s])) < MinTradeValue
  <1>1. EngineInv /\ [Next]_vars => [Sold]_vars
    <2> SUFFICES ASSUME EngineInv, [Next]_vars, phase = "submit", phase' = "close",
                        NEW k \in DOMAIN positions \ DOMAIN target.listing
                 PROVE  Kept(k)
      BY DEF Kept
    <2>1. queue = << >>
      BY DEF Next, vars, Connect, Terminate, TerminationsDone, Retarget, QuoteOpens, MarkAtOpen,
         OrderStep, Orders!Size, Orders!TakeSale, Orders!GrantBuy, Orders!Return, SubmitNext,
         SubmissionsDone, ApplyCloseMarks, RecordEquity, Signal, NextSession
    <2>2. DOMAIN queue = {}
      BY <2>1
    <2> QED
      BY <2>2 DEF EngineInv, DroppedInv, ToSell
  <1>2. Spec => [][Sold]_vars
    BY <1>1, EngineHolds, PTL DEF Spec
  <1> QED
    BY <1>2, PTL DEF DroppedPositionsSold

------------------------------------------------------------------------------
(* Valuation.                                                               *)

\* Marking at the close makes the equity count what the tape says.
LEMMA CloseIsValued == ASSUME EngineInv, ApplyCloseMarks PROVE ValuationMatchesTape'
  <1> DEFINE silent == {positions[k].symbol : k \in DOMAIN positions} \ Tradable
             ended == {s \in silent : Ended(s)}
  <1>1. /\ DOMAIN positions' = DOMAIN positions
        /\ unvaluedSymbols' = unvaluedSymbols \cup ended
        /\ \A k \in DOMAIN positions :
              /\ positions'[k].symbol = positions[k].symbol
              /\ positions'[k].valued <=> positions[k].symbol \notin ended
              /\ positions[k].symbol \in Tradable =>
                     positions'[k].price = Quoted(Closes[positions[k].symbol])
    BY CloseMarks
  <1>2. /\ Tradable' = Tradable /\ Closes' = Closes /\ \A s : Stopped(s)' <=> Stopped(s)
    BY SameMarket DEF ApplyCloseMarks
  <1>3. \A k \in DOMAIN positions :
            positions[k].symbol \in ended <=>
                positions[k].symbol \notin Tradable /\ Stopped(positions[k].symbol)
    <2>1. \A k \in DOMAIN positions : positions[k].symbol \in Symbols
      BY DEF EngineInv, Account, Holding
    <2> QED
      BY <2>1, Market DEF EngineInv
  <1> HIDE DEF ended
  <1> QED
    BY <1>1, <1>2, <1>3 DEF ValuationMatchesTape

\* The equity of a session counts the positions whose tape goes on, at today's close
\* where there is one, and names the rest (engine.py:201 to 239, simulated.py:139).
THEOREM ValuationFollowsTape == Spec => []ValuationMatchesTape
  <1>1. Init => ValuationMatchesTape
    BY DEF Init, ValuationMatchesTape
  <1>2. EngineInv /\ ValuationMatchesTape /\ [Next]_vars => ValuationMatchesTape'
    <2> SUFFICES ASSUME EngineInv, ValuationMatchesTape, [Next]_vars, phase' = "record"
                 PROVE  ValuationMatchesTape'
      BY DEF ValuationMatchesTape
    <2>1. ApplyCloseMarks \/ UNCHANGED vars
      BY DEF Next, Connect, Terminate, TerminationsDone, Retarget, QuoteOpens, MarkAtOpen, Go,
         OrderStep, Orders!Size, Orders!TakeSale, Orders!GrantBuy, Orders!Return, SubmitNext,
         SubmissionsDone, RecordEquity, Signal, NextSession
    <2>2. CASE ApplyCloseMarks
      BY <2>2, CloseIsValued
    <2>3. CASE UNCHANGED vars
      <3>1. UNCHANGED <<world, session, phase, positions, unvaluedSymbols>>
        BY <2>3 DEF vars, results, brokerVars
      <3>2. Tradable' = Tradable /\ Closes' = Closes /\ \A s : Stopped(s)' <=> Stopped(s)
        BY <3>1, SameMarket
      <3> QED
        BY <3>1, <3>2 DEF ValuationMatchesTape
    <2> QED
      BY <2>1, <2>2, <2>3
  <1> QED
    BY <1>1, <1>2, EngineHolds, PTL DEF Spec

------------------------------------------------------------------------------
(* The account is a TradeLedger.                                            *)

\* The fills name known keys and whole shares, and the last cash balance is the account's.
Statement ==
    /\ \E S : fills \in Seq(S)
    /\ \A i \in DOMAIN fills :
          fills[i].key \in Keys /\ fills[i].quantity \in Nat \ {0} /\ fills[i].cash \in Nat
    /\ cash = Broker!CashBefore(Len(fills) + 1)

\* The entry a fill makes in the journal, given the cash it found.
EntryOf(fill, before) ==
    [key |-> fill.key,
     shares |-> IF fill.cash < before THEN fill.quantity ELSE -fill.quantity,
     money |-> fill.cash - before]

\* One more fill is one more journal entry, and the earlier entries stand.
LEMMA JournalGrows ==
    ASSUME Statement, cash \in Nat, InitialCapital \in Nat,
           NEW f, fills' = Append(fills, f), cash' = f.cash,
           f.key \in Keys, f.quantity \in Nat \ {0}, f.cash \in Nat
    PROVE  /\ Statement'
           /\ Len(Broker!Journal') = Len(Broker!Journal) + 1
           /\ Broker!Journal' = Append(Broker!Journal, EntryOf(f, cash))
           /\ Broker!Journal'[Len(Broker!Journal')] = EntryOf(f, cash)
  <1>1. PICK S : fills \in Seq(S)
    BY DEF Statement
  <1>2. /\ fills' \in Seq(S \cup {f})
        /\ Len(fills) \in Nat /\ Len(fills') = Len(fills) + 1
        /\ DOMAIN fills = 1 .. Len(fills) /\ DOMAIN fills' = 1 .. Len(fills) + 1
        /\ \A i \in DOMAIN fills : fills'[i] = fills[i]
        /\ fills'[Len(fills) + 1] = f
    BY <1>1, Appends
  <1>3. \A i \in DOMAIN fills' :
           fills'[i].key \in Keys /\ fills'[i].quantity \in Nat \ {0} /\ fills'[i].cash \in Nat
    BY <1>2 DEF Statement
  <1>4. Broker!CashBefore(Len(fills) + 1)' = f.cash
    BY <1>2 DEF Broker!CashBefore
  <1>5. Statement'
    BY <1>2, <1>3, <1>4 DEF Statement, Broker!CashBefore
  <1>6. \A i \in 1 .. Len(fills) + 1 : Broker!CashBefore(i)' = Broker!CashBefore(i) /\ Broker!CashBefore(i) \in Nat
    BY <1>2 DEF Broker!CashBefore, Statement
  <1>7. Broker!CashBefore(Len(fills) + 1) = cash
    BY DEF Statement
  <1>8. Broker!Journal = [i \in 1 .. Len(fills) |-> EntryOf(fills[i], Broker!CashBefore(i))]
    BY <1>2 DEF Broker!Journal, EntryOf, Broker!CashBefore
  <1>9. Broker!Journal' = [i \in 1 .. Len(fills) + 1 |-> EntryOf(fills'[i], Broker!CashBefore(i))]
    <2>1. \A i \in 1 .. Len(fills) + 1 : i # 1 => fills'[i - 1] = fills[i - 1]
      BY <1>2
    <2> QED
      BY <1>2, <2>1 DEF Broker!Journal, EntryOf, Broker!CashBefore
  <1> DEFINE entries == [key : Keys, shares : Int, money : Int]
  <1>10. \A i \in 1 .. Len(fills) : EntryOf(fills[i], Broker!CashBefore(i)) \in entries
    BY <1>2, <1>6 DEF Statement, EntryOf
  <1>11. Broker!Journal \in Seq(entries) /\ Len(Broker!Journal) = Len(fills)
    BY <1>2, <1>8, <1>10
  <1>12. EntryOf(f, cash) \in entries
    BY DEF EntryOf
  <1> HIDE DEF entries
  <1>13. \A i \in 1 .. Len(fills) + 1 :
            EntryOf(fills'[i], Broker!CashBefore(i)) =
                IF i = Len(fills) + 1 THEN EntryOf(f, cash) ELSE Broker!Journal[i]
    <2>1. \A i \in 1 .. Len(fills) : EntryOf(fills'[i], Broker!CashBefore(i)) = Broker!Journal[i]
      BY <1>2, <1>8
    <2>2. EntryOf(fills'[Len(fills) + 1], Broker!CashBefore(Len(fills) + 1)) = EntryOf(f, cash)
      BY <1>2, <1>7
    <2>3. \A i \in 1 .. Len(fills) + 1 : i # Len(fills) + 1 => i \in 1 .. Len(fills)
      BY <1>2
    <2> QED
      BY <2>1, <2>2, <2>3
  <1>14. Broker!Journal' = Append(Broker!Journal, EntryOf(f, cash))
    <2> DEFINE grown == Append(Broker!Journal, EntryOf(f, cash))
    <2>1. /\ grown \in Seq(entries \cup {EntryOf(f, cash)}) /\ Len(grown) = Len(fills) + 1
          /\ \A i \in 1 .. Len(fills) : grown[i] = Broker!Journal[i]
          /\ grown[Len(fills) + 1] = EntryOf(f, cash)
      BY <1>2, <1>8, <1>11, Appends
    <2> HIDE DEF grown
    <2>2. \A i \in 1 .. Len(fills) + 1 : EntryOf(fills'[i], Broker!CashBefore(i)) = grown[i]
      BY <1>2, <1>13, <2>1
    <2>3. Broker!Journal' = [i \in 1 .. Len(fills) + 1 |-> grown[i]]
      BY <1>9, <2>2
    <2>4. grown = [i \in 1 .. Len(fills) + 1 |-> grown[i]]
      BY <1>2, <2>1
    <2> QED
      BY <2>3, <2>4 DEF grown
  <1>15. Len(Broker!Journal') = Len(Broker!Journal) + 1 /\ Broker!Journal'[Len(Broker!Journal')] = EntryOf(f, cash)
    BY <1>2, <1>11, <1>12, <1>14
  <1> QED
    BY <1>5, <1>14, <1>15

\* A fill posts the shares of its order, and the cash they cost or brought.
LEMMA FillPosts ==
    ASSUME Account, Account', Statement, NEW order, NEW ticks, NEW shares \in Int, NEW money \in Int,
           order.key \in Keys, order.quantity \in Nat \ {0},
           Filled(order, ticks, shares, money),
           \/ shares = order.quantity /\ money < 0
           \/ shares = -order.quantity /\ money >= 0 /\ order.quantity <= Shares(order.key)
    PROVE  Statement' /\ Broker!Ledger!Next
  <1>1. cash \in Nat /\ cash' \in Nat /\ InitialCapital \in Nat /\ cash' = cash + money
    BY EngineAssumption DEF Account, Filled, EngineAssumption
  <1>2. PICK f : /\ fills' = Append(fills, f)
                 /\ f.key = order.key /\ f.quantity = order.quantity /\ f.cash = cash'
    BY DEF Filled
  <1> DEFINE entry == Broker!Journal'[Len(Broker!Journal')]
  <1>3. Statement' /\ Len(Broker!Journal') = Len(Broker!Journal) + 1
        /\ entry = EntryOf(f, cash) /\ Broker!Journal' = Append(Broker!Journal, EntryOf(f, cash))
    BY <1>1, <1>2, JournalGrows
  <1>4. /\ EntryOf(f, cash).key = order.key
        /\ EntryOf(f, cash).shares = shares
        /\ EntryOf(f, cash).money = money
    BY <1>1, <1>2 DEF EntryOf
  <1>5. /\ Shares(order.key) \in Nat /\ Shares(order.key) + shares >= 0
        /\ Shares(order.key)' = Shares(order.key) + shares
        /\ \A k \in Keys : k # order.key => Shares(k)' = Shares(k)
    <2>1. Shares(order.key) \in Nat
      BY DEF Account, Holding, Shares
    <2>2. Shares(order.key)' = Shares(order.key) + shares
      BY DEF Filled, Shares
    <2>3. \A k \in Keys : k # order.key => Shares(k)' = Shares(k)
      BY OthersStay
    <2> QED
      BY <2>1, <2>2, <2>3
  <1>6. \A k : Broker!Held(k) = Shares(k) /\ Broker!Held(k)' = Shares(k)'
    BY DEF Broker!Held, Shares
  <1> DEFINE holdings == [k \in Keys |-> Broker!Held(k)]
  <1>7. holdings' = [holdings EXCEPT ![order.key] = @ + shares] /\ holdings[order.key] + shares >= 0
    BY <1>5, <1>6
  <1> HIDE DEF entry
  <1>8. Broker!Ledger!Post(order.key, entry)
    <2>1. /\ entry.key = order.key /\ entry.shares = shares /\ entry.money = money
          /\ Broker!Journal' = Append(Broker!Journal, entry)
      BY <1>3, <1>4
    <2>2. Broker!Ledger!Sound(entry)
      BY <1>1, <2>1 DEF Broker!Ledger!Sound
    <2>3. cash + entry.money >= 0 /\ cash' = cash + entry.money
      BY <1>1, <2>1
    <2> QED
      BY <1>7, <2>1, <2>2, <2>3 DEF Broker!Ledger!Post
  <1> QED
    BY <1>3, <1>8 DEF Broker!Ledger!Next, entry

LEMMA PurchasesCost ==
    ASSUME NEW quantity \in Nat \ {0}, NEW ticks \in Nat \ {0}
    PROVE  BuyCost(quantity, ticks) \in Nat \ {0}
  <1> DEFINE worth == quantity * ticks
  <1>1. worth \in Nat \ {0}
    BY Products
  <1> HIDE DEF worth
  <1>2. worth * (RateDivisor + CommissionRate) \in Nat \ {0}
    BY <1>1, Numbers, Products
  <1> QED
    BY <1>2 DEF worth, BuyCost

LEMMA SubmissionPosts ==
    ASSUME EngineInv, Statement, SubmitNext PROVE Statement' /\ Broker!Ledger!Next
  <1> DEFINE order == Head(queue)
             shares == IF order.side = "BUY" THEN order.quantity ELSE -order.quantity
  <1>1. Account' /\ Filled(order, Price(order), shares, Money(order))
    BY NextFills
  <1>2. World /\ Account /\ Ready(order)
    BY NextIsReady DEF EngineInv, SubmitNext
  <1> HIDE DEF order
  <1>3. /\ order.key \in Keys /\ order.quantity \in Nat \ {0} /\ order.side \in Sides
        /\ order.side = "SELL" => order.quantity <= Shares(order.key)
        /\ Opens[order.symbol] \in Nat \ {0}
    BY <1>2, Market DEF Ready
  <1>4. CASE order.side = "BUY"
    <2> DEFINE cost == BuyCost(order.quantity, Price(order))
    <2>1. Price(order) \in Nat \ {0}
      <3>1. Price(order) \in Nat /\ Price(order) > 0
        BY <1>3, <1>4, Prices DEF Price
      <3> QED
        BY <3>1
    <2>2. cost \in Nat \ {0} /\ Money(order) = -cost
      BY <1>3, <1>4, <2>1, PurchasesCost DEF Money
    <2> HIDE DEF cost
    <2>3. Money(order) \in Int /\ Money(order) < 0
      BY <2>2
    <2>4. shares = order.quantity /\ shares \in Int
      BY <1>3, <1>4
    <2> HIDE DEF shares
    <2> QED
      BY <1>1, <1>2, <1>3, <2>3, <2>4, FillPosts
  <1>5. CASE order.side # "BUY"
    <2>1. order.side = "SELL"
      BY <1>3, <1>5 DEF Sides
    <2>2. Price(order) \in Nat
      BY <1>3, Prices DEF Price
    <2>3. Money(order) \in Nat
      BY <1>3, <1>5, <2>2, Amounts DEF Money
    <2>4. Money(order) \in Int /\ Money(order) >= 0
      BY <2>3
    <2>5. shares = -order.quantity /\ shares \in Int
      BY <1>3, <1>5
    <2> HIDE DEF shares
    <2> QED
      BY <1>1, <1>2, <1>3, <2>1, <2>4, <2>5, FillPosts
  <1> QED
    BY <1>4, <1>5

LEMMA TerminationPosts ==
    ASSUME EngineInv, Statement, NEW k \in DOMAIN positions, Terminate(k)
    PROVE  Statement' /\ Broker!Ledger!Next
  <1> DEFINE s == positions[k].symbol
             order == [id |-> TerminationId(s), key |-> k, symbol |-> s, side |-> "SELL",
                       quantity |-> positions[k].quantity]
             ticks == Quoted(LastClose(s))
             proceeds == SellProceeds(order.quantity, ticks)
  <1>1. /\ s \in Symbols /\ KnownTermination(s) /\ Account'
        /\ Filled(order, ticks, -order.quantity, proceeds)
    BY TerminationFills DEF EngineInv
  <1>2. /\ World /\ Account /\ k \in Keys /\ order.key = k
        /\ order.quantity = Shares(k) /\ order.quantity \in Nat \ {0}
    BY DEF EngineInv, Account, Holding, Shares
  <1>3. ticks \in Nat
    BY <1>1, <1>2, Market, Prices DEF KnownTermination
  <1> HIDE DEF order, ticks
  <1>4. proceeds \in Nat
    BY <1>2, <1>3, Amounts
  <1> HIDE DEF proceeds
  <1>5. proceeds \in Int /\ proceeds >= 0 /\ -order.quantity \in Int /\ order.quantity <= Shares(order.key)
    BY <1>2, <1>4
  <1> QED
    BY <1>1, <1>2, <1>5, FillPosts

\* Everything else in the loop moves neither money nor shares.
LEMMA LedgerStep ==
    ASSUME EngineInv, Statement, [Next]_vars
    PROVE  Statement' /\ [Broker!Ledger!Next]_(Broker!Ledger!vars)
  <1>1. ASSUME UNCHANGED <<cash, fills>>, \A k \in Keys : Shares(k)' = Shares(k)
        PROVE  Statement' /\ UNCHANGED Broker!Ledger!vars
    <2>1. Broker!Journal' = Broker!Journal
      BY <1>1 DEF Broker!Journal, Broker!CashBefore
    <2>2. Statement'
      BY <1>1 DEF Statement, Broker!CashBefore
    <2>3. [k \in Keys |-> Broker!Held(k)]' = [k \in Keys |-> Broker!Held(k)]
      BY <1>1 DEF Broker!Held, Shares
    <2> QED
      BY <1>1, <2>1, <2>2, <2>3 DEF Broker!Ledger!vars
  <1>2. CASE \E k \in DOMAIN positions : Terminate(k)
    BY <1>2, TerminationPosts
  <1>3. CASE SubmitNext
    BY <1>3, SubmissionPosts
  <1>4. CASE Retarget
    <2>1. Account /\ target.listing \in [DOMAIN target.listing -> Symbols]
          /\ Broker!RetargetListings(target.listing)
      BY <1>4 DEF EngineInv, TargetInv, Executing, Retarget
    <2>2. Relisted(positions')
      BY <2>1, RetargetMoves
    <2> QED
      BY <1>1, <2>2 DEF Relisted, Shares
  <1>5. CASE MarkAtOpen
    <2> DEFINE quoted == [s \in Tradable |-> Quoted(Opens[s])]
    <2>1. quoted \in [DOMAIN quoted -> Nat] /\ Account /\ Broker!MarkToMarket(quoted, EndedSymbols)
      BY <1>5, Market, Prices DEF EngineInv, MarkAtOpen
    <2> HIDE DEF quoted
    <2>2. Relisted(positions')
      BY <2>1, MarkMoves
    <2> QED
      BY <1>1, <2>2 DEF Relisted, Shares
  <1>6. CASE ApplyCloseMarks
    <2>1. Relisted(positions')
      BY <1>6, CloseMarks
    <2> QED
      BY <1>1, <2>1 DEF Relisted, Shares
  <1>7. CASE Connect \/ QuoteOpens
    <2>1. UNCHANGED <<cash, positions, fills>>
      BY <1>7 DEF Connect, QuoteOpens, Broker!Connect, Broker!SetMarketPrices, Broker!accountVars
    <2> QED
      BY <1>1, <2>1 DEF Shares
  <1>8. CASE UNCHANGED brokerVars \/ UNCHANGED vars
    <2>1. UNCHANGED <<cash, positions, fills>>
      BY <1>8 DEF vars, brokerVars
    <2> QED
      BY <1>1, <2>1 DEF Shares
  <1>9. CASE TerminationsDone \/ SubmissionsDone \/ RecordEquity \/ Signal \/ NextSession
    BY <1>8, <1>9 DEF TerminationsDone, SubmissionsDone, RecordEquity, Signal, NextSession
  <1> QED
    BY <1>2, <1>3, <1>4, <1>5, <1>6, <1>7, <1>8, <1>9 DEF Next, OrderStep

\* Through the whole run the account is a double-entry ledger: retargeting, marks and
\* the loop move nothing, and orders and terminations post one sound entry at a time.
THEOREM RunIsLedger == Spec => AccountIsLedger
  <1>1. Init => Broker!Ledger!Init /\ Statement
    <2> SUFFICES ASSUME Init PROVE Broker!Ledger!Init /\ Statement
      OBVIOUS
    <2>1. fills = << >> /\ positions = << >> /\ cash = InitialCapital
      BY DEF Init, Broker!Init
    <2>2. Broker!Journal = << >>
      BY <2>1 DEF Broker!Journal, Broker!CashBefore
    <2>3. \A k \in Keys : Broker!Held(k) = 0
      BY <2>1 DEF Broker!Held
    <2>4. fills \in Seq({}) /\ DOMAIN fills = {} /\ Len(fills) = 0
      BY <2>1
    <2> QED
      BY <2>1, <2>2, <2>3, <2>4 DEF Broker!Ledger!Init, Statement, Broker!CashBefore
  <1>2. EngineInv /\ Statement /\ [Next]_vars => Statement' /\ [Broker!Ledger!Next]_(Broker!Ledger!vars)
    BY LedgerStep
  <1> QED
    BY <1>1, <1>2, EngineHolds, PTL DEF Spec, AccountIsLedger, Broker!LedgerSpec, Broker!Ledger!Spec

=============================================================================
