------------------------ MODULE SimulatedBrokerProofs ------------------------
(***************************************************************************)
(* Theorems about the simulated broker, for any keys, tickers, prices,     *)
(* quantities, rates and any caller:                                       *)
(*   TypeCorrect    : the account never overdraws and every variable stays *)
(*                    in its range;                                        *)
(*   ImplementsLedger : the broker is a TradeLedger;                       *)
(*   TotalsAreSums  : the report's totals are the sums over the fills;     *)
(*   AveragesStayWithin : an average price lies between the prices paid.   *)
(***************************************************************************)
EXTENDS SimulatedBroker, SequenceTheorems, Sums

------------------------------------------------------------------------------
(* Arithmetic.                                                              *)

\* Products of naturals are naturals, and positive if both factors are.
LEMMA Products ==
    ASSUME NEW m \in Nat, NEW n \in Nat
    PROVE  m * n \in Nat /\ (m > 0 /\ n > 0 => m * n > 0)
  OBVIOUS

\* What a trade is worth and costs, for a price that is not negative.
LEMMA MoneyIsNatural ==
    ASSUME NEW quantity \in Nat \ {0}, NEW ticks \in Nat
    PROVE  /\ TradeValue(quantity, ticks) \in Nat
           /\ CommissionOn(quantity, ticks) \in Nat
           /\ BuyCost(quantity, ticks) \in Nat
           /\ SellProceeds(quantity, ticks) \in Nat
           /\ ticks > 0 => BuyCost(quantity, ticks) > 0
  <1> DEFINE worth == quantity * ticks
  <1>1. worth \in Nat /\ (ticks > 0 => worth > 0)
    BY Products
  <1>2. /\ RateDivisor \in Nat /\ CommissionRate \in Nat
        /\ RateDivisor + CommissionRate \in Nat /\ RateDivisor + CommissionRate > 0
        /\ RateDivisor - CommissionRate \in Nat
    BY ExecutionAssumption DEF ExecutionAssumption
  <1> HIDE DEF worth
  <1>3. /\ worth * RateDivisor \in Nat /\ worth * CommissionRate \in Nat
        /\ worth * (RateDivisor + CommissionRate) \in Nat
        /\ worth * (RateDivisor - CommissionRate) \in Nat
        /\ worth > 0 => worth * (RateDivisor + CommissionRate) > 0
    BY <1>1, <1>2, Products
  <1> USE DEF worth
  <1> QED
    BY <1>1, <1>3 DEF TradeValue, CommissionOn, BuyCost, SellProceeds

\* A slipped price is never negative, and a buy of something quoted is never free.
LEMMA PricesAreNatural ==
    ASSUME NEW price \in Nat, NEW side \in Sides
    PROVE  /\ Quoted(price) \in Nat
           /\ ApplySlippage(side, price) \in Nat
           /\ price > 0 => ApplySlippage("BUY", price) > 0
  <1>1. /\ BpsDivisor \in Nat
        /\ BpsDivisor + SlippageBps \in Nat /\ BpsDivisor + SlippageBps > 0
        /\ BpsDivisor - SlippageBps \in Nat
    BY ExecutionAssumption DEF ExecutionAssumption
  <1>2. /\ price * BpsDivisor \in Nat
        /\ price * (BpsDivisor + SlippageBps) \in Nat
        /\ price * (BpsDivisor - SlippageBps) \in Nat
        /\ price > 0 => price * (BpsDivisor + SlippageBps) > 0
    BY <1>1, Products
  <1> QED
    BY <1>1, <1>2 DEF Quoted, ApplySlippage

------------------------------------------------------------------------------
(* Sequences.                                                               *)

\* What an append leaves: the same entries, and the new one at the end.
LEMMA AppendFacts ==
    ASSUME NEW S, NEW s \in Seq(S), NEW x
    PROVE  /\ Append(s, x) \in Seq(S \cup {x})
           /\ Len(Append(s, x)) = Len(s) + 1 /\ Len(s) \in Nat
           /\ DOMAIN s = 1 .. Len(s) /\ DOMAIN Append(s, x) = 1 .. Len(s) + 1
           /\ \A i \in DOMAIN s : Append(s, x)[i] = s[i]
           /\ Append(s, x)[Len(s) + 1] = x
  <1>1. s \in Seq(S \cup {x}) /\ x \in S \cup {x}
    OBVIOUS
  <1> QED
    BY <1>1

------------------------------------------------------------------------------
(* The invariant.                                                           *)

\* The fills are a sequence, of whatever records; cash and quantity of each are
\* typed, and the last cash balance is the account's.
Statement ==
    /\ \E S : fills \in Seq(S)
    /\ \A i \in DOMAIN fills :
          fills[i].key \in Keys /\ fills[i].quantity \in Nat \ {0} /\ fills[i].cash \in Nat
    /\ cash = CashBefore(Len(fills) + 1)

BrokerInv == TypeOK /\ Statement

\* An order that reaches the market: a fill at a price above zero if it buys.
Buys(order, ticks, market) ==
    /\ BuyCost(order.quantity, ticks) <= cash
    /\ LogOrder(order, "FILLED")
    /\ RecordFill(order, ticks, market, -BuyCost(order.quantity, ticks),
          [k \in DOMAIN positions \cup {order.key} |->
              IF k = order.key THEN Bought(order, ticks) ELSE positions[k]])
    /\ UNCHANGED <<connected, marketPrices, winningTrades, losingTrades>>

Sells(order, ticks, market) ==
    /\ order.quantity <= Held(order.key)
    /\ LogOrder(order, "FILLED")
    /\ winningTrades' \in Nat /\ losingTrades' \in Nat
    /\ winningTrades' + losingTrades' <= winningTrades + losingTrades + 1
    /\ RecordFill(order, ticks, market, SellProceeds(order.quantity, ticks),
                  AfterSale(order, ticks))
    /\ UNCHANGED <<connected, marketPrices>>

\* What a call of the broker can come to: a refusal, a purchase, a sale, a change of
\* how positions are listed or valued, or a step that touches no account at all.
Refused == \E order \in Order : Reject(order)
Bookkept ==
    \/ \E order \in Order, ticks \in Nat \ {0}, market \in Nat :
          Buys(order, ticks, market) /\ sessionTime' \in Times
    \/ \E order \in Order, ticks \in Nat, market \in Nat :
          Sells(order, ticks, market) /\ sessionTime' \in Times
Relisted ==
    \E new \in [DOMAIN positions -> Position] :
        /\ MovePositions(new)
        /\ \A k \in DOMAIN positions :
              /\ new[k].quantity = positions[k].quantity
              /\ new[k].average = positions[k].average
Quiet ==
    /\ UNCHANGED accountVars
    /\ connected' \in BOOLEAN
    /\ DOMAIN marketPrices' \subseteq Symbols /\ marketPrices' \in [DOMAIN marketPrices' -> Quotes]
    /\ sessionTime' \in Times
    /\ \/ UNCHANGED orders
       \/ \E id \in OrderIds : CancelOrder(id)

\* The price of a usable quote, and so of what trades at it, is a natural above zero.
LEMMA FillsAtQuote ==
    ASSUME TypeOK, NEW order \in Order, ~NotTradable(order)
    PROVE  /\ marketPrices[order.symbol] \in Nat \ {0}
           /\ order.side \in Sides
  BY BrokerAssumption DEF TypeOK, NotTradable, BrokerAssumption, Order, Sides

LEMMA FillBuyCases ==
    ASSUME NEW order \in Order, NEW ticks \in Nat \ {0}, NEW market \in Nat,
           FillBuy(order, ticks, market), sessionTime' \in Times, TypeOK
    PROVE  Refused \/ Bookkept
  <1>1. CASE BuyCost(order.quantity, ticks) > cash
    BY <1>1 DEF FillBuy, Refused
  <1>2. CASE ~(BuyCost(order.quantity, ticks) > cash)
    <2>1. order.quantity \in Nat \ {0}
      BY DEF Order
    <2>2. BuyCost(order.quantity, ticks) \in Nat /\ cash \in Nat
      BY <2>1, MoneyIsNatural DEF TypeOK
    <2>3. BuyCost(order.quantity, ticks) <= cash
      BY <1>2, <2>2
    <2>4. Buys(order, ticks, market)
      BY <1>2, <2>3 DEF FillBuy, Buys
    <2> QED
      BY <2>4 DEF Bookkept
  <1> QED
    BY <1>1, <1>2

LEMMA FillSellCases ==
    ASSUME NEW order \in Order, NEW ticks \in Nat, NEW market \in Nat,
           FillSell(order, ticks, market), sessionTime' \in Times, TypeOK
    PROVE  Refused \/ Bookkept
  <1>1. CASE order.quantity > Held(order.key)
    BY <1>1 DEF FillSell, Refused
  <1>2. CASE ~(order.quantity > Held(order.key))
    <2>1. order.quantity \in Nat \ {0} /\ Held(order.key) \in Nat
      BY DEF Order, Held, TypeOK, Position
    <2>2. order.quantity <= Held(order.key)
      BY <1>2, <2>1
    <2>3. /\ winningTrades' \in Nat /\ losingTrades' \in Nat
          /\ winningTrades' + losingTrades' <= winningTrades + losingTrades + 1
      <3> DEFINE average == positions[order.key].average
      <3>1. /\ winningTrades' = winningTrades + (IF ticks * average.den > average.num THEN 1 ELSE 0)
            /\ losingTrades' = losingTrades + (IF ticks * average.den < average.num THEN 1 ELSE 0)
        BY <1>2 DEF FillSell
      <3>2. order.key \in DOMAIN positions
        BY <2>1, <2>2 DEF Held
      <3>3. average.num \in Nat /\ average.den \in Nat
        BY <3>2 DEF TypeOK, Position, Average
      <3> DEFINE cost == average.num
                 price == ticks * average.den
      <3>4. cost \in Nat /\ price \in Nat
        <4> HIDE DEF average
        <4> QED
          BY <3>3, Products
      <3>5. /\ winningTrades' = winningTrades + (IF price > cost THEN 1 ELSE 0)
            /\ losingTrades' = losingTrades + (IF price < cost THEN 1 ELSE 0)
        BY <3>1
      <3> HIDE DEF cost, price
      <3> QED
        BY <3>4, <3>5 DEF TypeOK
    <2>4. Sells(order, ticks, market)
      BY <1>2, <2>2, <2>3 DEF FillSell, Sells
    <2> QED
      BY <2>4 DEF Bookkept
  <1> QED
    BY <1>1, <1>2

LEMMA SubmitCases ==
    ASSUME TypeOK, NEW order \in Order, SubmitOrder(order)
    PROVE  Refused \/ Bookkept
  <1>1. CASE NotTradable(order)
    BY <1>1 DEF SubmitOrder, Refused
  <1>2. CASE ~NotTradable(order)
    <2> DEFINE quote == marketPrices[order.symbol]
    <2>1. quote \in Nat /\ quote > 0 /\ order.side \in Sides
      BY <1>2, FillsAtQuote
    <2>2. sessionTime' \in Times
      BY DEF SubmitOrder, TypeOK
    <2>3. CASE order.side = "BUY"
      <3>1. /\ ApplySlippage("BUY", quote) \in Nat \ {0} /\ Quoted(quote) \in Nat
        <4> HIDE DEF quote
        <4> QED BY <2>1, PricesAreNatural DEF Sides
      <3>2. FillBuy(order, ApplySlippage("BUY", quote), Quoted(quote))
        BY <1>2, <2>3 DEF SubmitOrder
      <3> QED
        BY <2>2, <3>1, <3>2, FillBuyCases
    <2>4. CASE order.side # "BUY"
      <3>1. /\ ApplySlippage(order.side, quote) \in Nat /\ Quoted(quote) \in Nat
        <4> HIDE DEF quote
        <4> QED BY <2>1, PricesAreNatural
      <3>2. FillSell(order, ApplySlippage(order.side, quote), Quoted(quote))
        BY <1>2, <2>4 DEF SubmitOrder
      <3> QED
        BY <2>2, <3>1, <3>2, FillSellCases
    <2> QED
      BY <2>3, <2>4
  <1> QED
    BY <1>1, <1>2

LEMMA LiquidateCases ==
    ASSUME TypeOK, NEW symbol \in Symbols, NEW price \in Nat, NEW time \in Times,
           NEW id \in OrderIds, NEW key, LiquidateAt(symbol, price, time, id, key)
    PROVE  Refused \/ Bookkept
  <1>1. PICK k \in Booked(symbol, key) :
            /\ sessionTime' = time
            /\ FillSell([id |-> id, key |-> k, symbol |-> positions[k].symbol,
                         side |-> "SELL", quantity |-> positions[k].quantity],
                        Quoted(price), Quoted(price))
    BY DEF LiquidateAt
  <1>2. k \in DOMAIN positions
    BY DEF Booked
  <1>3. [id |-> id, key |-> k, symbol |-> positions[k].symbol,
         side |-> "SELL", quantity |-> positions[k].quantity] \in Order
    BY <1>2 DEF TypeOK, Order, Position, Sides
  <1>4. Quoted(price) \in Nat
    BY PricesAreNatural DEF Sides
  <1> QED
    BY <1>1, <1>3, <1>4, FillSellCases

LEMMA NextCases ==
    ASSUME TypeOK, Next
    PROVE  Refused \/ Bookkept \/ Relisted \/ Quiet
  <1>1. CASE Connect \/ Disconnect
    BY <1>1 DEF Connect, Disconnect, Quiet, TypeOK
  <1>2. CASE \E prices \in PartialFunctions(Symbols, Quotes), time \in Times :
                SetMarketPrices(prices, time)
    <2>1. PICK prices \in PartialFunctions(Symbols, Quotes), time \in Times :
              SetMarketPrices(prices, time)
      BY <1>2
    <2>2. DOMAIN prices \subseteq Symbols /\ prices \in [DOMAIN prices -> Quotes]
      BY DEF PartialFunctions
    <2> QED
      BY <2>1, <2>2 DEF SetMarketPrices, Quiet, TypeOK
  <1>3. CASE \E listings \in PartialFunctions(Keys, Symbols) : RetargetListings(listings)
    <2>1. PICK listings \in PartialFunctions(Keys, Symbols) : RetargetListings(listings)
      BY <1>3
    <2>2. listings \in [DOMAIN listings -> Symbols]
      BY DEF PartialFunctions
    <2> DEFINE new == [k \in DOMAIN positions |->
                          IF k \in DOMAIN listings THEN [positions[k] EXCEPT !.symbol = listings[k]]
                                                   ELSE positions[k]]
    <2>3. /\ new \in [DOMAIN positions -> Position]
          /\ \A k \in DOMAIN positions : /\ new[k].quantity = positions[k].quantity
                                         /\ new[k].average = positions[k].average
      BY <2>2 DEF TypeOK, Position
    <2>4. MovePositions(new)
      BY <2>1 DEF RetargetListings
    <2> QED
      BY <2>3, <2>4 DEF Relisted
  <1>4. CASE \E prices \in PartialFunctions(Symbols, Marks), unvalued \in SUBSET Symbols :
                MarkToMarket(prices, unvalued)
    <2>1. PICK prices \in PartialFunctions(Symbols, Marks), unvalued \in SUBSET Symbols :
              MarkToMarket(prices, unvalued)
      BY <1>4
    <2>2. prices \in [DOMAIN prices -> Nat]
      BY BrokerAssumption DEF PartialFunctions, BrokerAssumption
    <2> DEFINE new == [k \in DOMAIN positions |-> Marked(positions[k], prices, unvalued)]
    <2>3. /\ new \in [DOMAIN positions -> Position]
          /\ \A k \in DOMAIN positions : /\ new[k].quantity = positions[k].quantity
                                         /\ new[k].average = positions[k].average
      BY <2>2 DEF TypeOK, Position, Marked
    <2>4. MovePositions(new)
      BY <2>1 DEF MarkToMarket
    <2> QED
      BY <2>3, <2>4 DEF Relisted
  <1>5. CASE \E order \in [id : OrderIds, key : Keys, symbol : Symbols, side : Sides,
                            quantity : Quantities] : SubmitOrder(order)
    BY <1>5, SubmitCases, BrokerAssumption DEF Order, BrokerAssumption
  <1>6. CASE \E symbol \in Symbols, price \in Quotes, time \in Times, id \in OrderIds,
                key \in Keys \cup {NoKey} : LiquidateAt(symbol, price, time, id, key)
    BY <1>6, LiquidateCases, BrokerAssumption DEF BrokerAssumption
  <1>7. CASE \E id \in OrderIds : CancelOrder(id)
    BY <1>7 DEF CancelOrder, Quiet, TypeOK
  <1> QED
    BY <1>1, <1>2, <1>3, <1>4, <1>5, <1>6, <1>7 DEF Next

------------------------------------------------------------------------------
(* Type correctness.                                                        *)

\* The order log grows by one entry, with the status it was given.
LEMMA LogGrows ==
    ASSUME TypeOK, NEW order \in Order, NEW status \in Status, LogOrder(order, status)
    PROVE  /\ orders' \in Seq([order : Order, status : Status])
           /\ Len(orders) \in Nat /\ Len(orders') = Len(orders) + 1
           /\ orders'[Len(orders')] = [order |-> order, status |-> status]
  BY DEF TypeOK, LogOrder

LEMMA BoughtIsPosition ==
    ASSUME TypeOK, NEW order \in Order, NEW ticks \in Nat
    PROVE  /\ Bought(order, ticks) \in Position
           /\ Bought(order, ticks).quantity = Held(order.key) + order.quantity
           /\ Held(order.key) \in Nat
  <1>1. /\ order.quantity \in Nat \ {0} /\ order.symbol \in Symbols
        /\ Held(order.key) \in Nat
    BY DEF TypeOK, Order, Position, Held
  <1>2. CASE order.key \notin DOMAIN positions
    BY <1>1, <1>2 DEF Bought, Position, Average
  <1>3. CASE order.key \in DOMAIN positions
    <2> DEFINE held == positions[order.key]
    <2>1. /\ held.quantity \in Nat \ {0}
          /\ held.average.num \in Nat /\ held.average.den \in Nat \ {0}
      BY <1>3 DEF TypeOK, Position, Average
    <2>2. /\ held.quantity * held.average.num \in Nat
          /\ order.quantity * ticks \in Nat
          /\ held.quantity + order.quantity \in Nat /\ held.quantity + order.quantity > 0
      BY <1>1, <2>1, Products
    <2>3. /\ (order.quantity * ticks) * held.average.den \in Nat
          /\ held.average.den * (held.quantity + order.quantity) \in Nat \ {0}
      BY <2>1, <2>2, Products
    <2>4. [num |-> held.quantity * held.average.num + order.quantity * ticks * held.average.den,
           den |-> held.average.den * (held.quantity + order.quantity)] \in Average
      BY <2>2, <2>3 DEF Average
    <2> QED
      BY <1>1, <1>3, <2>4 DEF Bought, Position
  <1> QED
    BY <1>2, <1>3

\* What a fill books keeps the totals in range, whatever the order was.
LEMMA FillTotals ==
    ASSUME TypeOK, NEW order \in Order, NEW ticks \in Nat, NEW market \in Nat,
           NEW money, NEW new, RecordFill(order, ticks, market, money, new)
    PROVE  totalCommission' \in Nat /\ totalSlippage' \in Nat
  <1>1. order.quantity \in Nat \ {0}
    BY DEF Order
  <1> DEFINE gap == IF ticks > market THEN ticks - market ELSE market - ticks
  <1>2. gap \in Nat /\ RateDivisor \in Nat
    BY ExecutionAssumption DEF ExecutionAssumption
  <1>3. CommissionOn(order.quantity, ticks) \in Nat
    BY <1>1, MoneyIsNatural
  <1> HIDE DEF gap
  <1>4. gap * order.quantity \in Nat
    BY <1>1, <1>2, Products
  <1>5. (gap * order.quantity) * RateDivisor \in Nat
    BY <1>2, <1>4, Products
  <1> USE DEF gap
  <1>6. /\ totalCommission' = totalCommission + CommissionOn(order.quantity, ticks)
        /\ totalSlippage' = totalSlippage + (gap * order.quantity) * RateDivisor
    BY DEF RecordFill
  <1> HIDE DEF gap
  <1> QED
    BY <1>3, <1>5, <1>6 DEF TypeOK

LEMMA BuysType ==
    ASSUME TypeOK, NEW order \in Order, NEW ticks \in Nat \ {0}, NEW market \in Nat,
           Buys(order, ticks, market), sessionTime' \in Times
    PROVE  TypeOK'
  <1>1. orders' \in Seq([order : Order, status : Status])
    BY LogGrows DEF Buys, Status, Settled
  <1>2. BuyCost(order.quantity, ticks) \in Nat
    BY MoneyIsNatural DEF Order
  <1>3. cash' \in Nat
    BY <1>2 DEF Buys, RecordFill, TypeOK
  <1>4. order.key \in Keys
    BY DEF Order
  <1>5. positions' = [k \in DOMAIN positions \cup {order.key} |->
                         IF k = order.key THEN Bought(order, ticks) ELSE positions[k]]
    BY DEF Buys, RecordFill
  <1>6. DOMAIN positions' \subseteq Keys /\ positions' \in [DOMAIN positions' -> Position]
    BY <1>4, <1>5, BoughtIsPosition DEF TypeOK
  <1>7. totalCommission' \in Nat /\ totalSlippage' \in Nat
    BY FillTotals DEF Buys
  <1> QED
    BY <1>1, <1>3, <1>6, <1>7 DEF TypeOK, Buys

\* A sale leaves the other keys alone, and its own with what is left, if anything.
LEMMA AfterSaleIsPositions ==
    ASSUME TypeOK, NEW order \in Order, NEW ticks \in Nat, order.quantity <= Held(order.key)
    PROVE  /\ order.key \in DOMAIN positions
           /\ DOMAIN AfterSale(order, ticks) \subseteq DOMAIN positions
           /\ AfterSale(order, ticks) \in [DOMAIN AfterSale(order, ticks) -> Position]
           /\ \A k \in DOMAIN positions \ {order.key} :
                 /\ k \in DOMAIN AfterSale(order, ticks)
                 /\ AfterSale(order, ticks)[k] = positions[k]
           /\ IF order.quantity = positions[order.key].quantity
              THEN order.key \notin DOMAIN AfterSale(order, ticks)
              ELSE /\ order.key \in DOMAIN AfterSale(order, ticks)
                   /\ AfterSale(order, ticks)[order.key].quantity
                          = positions[order.key].quantity - order.quantity
  <1>1. order.quantity \in Nat \ {0} /\ order.symbol \in Symbols
    BY DEF Order
  <1>2. order.key \in DOMAIN positions /\ order.quantity <= positions[order.key].quantity
    BY <1>1 DEF Held
  <1>3. positions[order.key] \in Position
    BY <1>2 DEF TypeOK
  <1>4. CASE order.quantity = positions[order.key].quantity
    BY <1>2, <1>4 DEF AfterSale, TypeOK
  <1>5. CASE order.quantity # positions[order.key].quantity
    <2> DEFINE held == positions[order.key]
               left == [held EXCEPT !.symbol = order.symbol, !.price = ticks,
                                    !.quantity = held.quantity - order.quantity]
    <2>1. left \in Position /\ left.quantity = held.quantity - order.quantity
      <3>1. held.quantity - order.quantity \in Nat \ {0}
        BY <1>1, <1>2, <1>3, <1>5 DEF Position
      <3> QED
        BY <1>1, <1>3, <3>1 DEF Position
    <2>2. AfterSale(order, ticks) = [positions EXCEPT ![order.key] = left]
      BY <1>5 DEF AfterSale
    <2> HIDE DEF left
    <2> QED
      BY <1>2, <1>5, <2>1, <2>2 DEF TypeOK
  <1> QED
    BY <1>4, <1>5

LEMMA SellsType ==
    ASSUME TypeOK, NEW order \in Order, NEW ticks \in Nat, NEW market \in Nat,
           Sells(order, ticks, market), sessionTime' \in Times
    PROVE  TypeOK'
  <1>1. orders' \in Seq([order : Order, status : Status])
    BY LogGrows DEF Sells, Status, Settled
  <1>2. SellProceeds(order.quantity, ticks) \in Nat
    BY MoneyIsNatural DEF Order
  <1>3. cash' \in Nat
    BY <1>2 DEF Sells, RecordFill, TypeOK
  <1>4. positions' = AfterSale(order, ticks) /\ order.quantity <= Held(order.key)
    BY DEF Sells, RecordFill
  <1>5. DOMAIN positions' \subseteq Keys /\ positions' \in [DOMAIN positions' -> Position]
    BY <1>4, AfterSaleIsPositions DEF TypeOK
  <1>6. totalCommission' \in Nat /\ totalSlippage' \in Nat
    BY FillTotals DEF Sells
  <1> QED
    BY <1>1, <1>3, <1>5, <1>6 DEF TypeOK, Sells

\* Cancelling leaves the log as long as it was, with the same orders in it.
LEMMA CancelKeepsLog ==
    ASSUME TypeOK, NEW id \in OrderIds, CancelOrder(id)
    PROVE  orders' \in Seq([order : Order, status : Status]) /\ Len(orders') = Len(orders)
  <1> DEFINE entries == [order : Order, status : Status]
  <1>1. orders \in Seq(entries) /\ Len(orders) \in Nat /\ DOMAIN orders = 1 .. Len(orders)
    BY DEF TypeOK
  <1>2. \A entry \in entries : [entry EXCEPT !.status = "CANCELLED"] \in entries
    <2>1. "CANCELLED" \in Status
      BY DEF Status
    <2> QED
      BY <2>1
  <1>3. orders' = [i \in 1 .. Len(orders) |->
                      IF orders[i].order.id = id /\ orders[i].status \in Open
                      THEN [orders[i] EXCEPT !.status = "CANCELLED"] ELSE orders[i]]
    BY <1>1 DEF CancelOrder
  <1> HIDE DEF entries
  <1>4. \A i \in 1 .. Len(orders) : orders[i] \in entries
    BY <1>1
  <1>5. orders' \in [1 .. Len(orders) -> entries]
    BY <1>2, <1>3, <1>4
  <1>6. orders' \in Seq(entries) /\ Len(orders') = Len(orders)
    BY <1>1, <1>5
  <1> QED
    BY <1>6 DEF entries

LEMMA TypeStep ==
    ASSUME TypeOK, [Next]_vars
    PROVE  TypeOK'
  <1>1. CASE Refused
    <2>1. PICK order \in Order : Reject(order)
      BY <1>1 DEF Refused
    <2>2. orders' \in Seq([order : Order, status : Status])
      BY <2>1, LogGrows DEF Reject, Status, Settled
    <2> QED
      BY <2>1, <2>2 DEF Reject, TypeOK, accountVars
  <1>2. CASE Bookkept
    BY <1>2, BuysType, SellsType DEF Bookkept
  <1>3. CASE Relisted
    BY <1>3 DEF Relisted, MovePositions, TypeOK
  <1>4. CASE Quiet
    BY <1>4, CancelKeepsLog DEF Quiet, TypeOK, accountVars
  <1>5. CASE UNCHANGED vars
    BY <1>5 DEF vars, accountVars, TypeOK
  <1> QED
    BY <1>1, <1>2, <1>3, <1>4, <1>5, NextCases

LEMMA TypeInit ==
    Init => TypeOK
  <1> SUFFICES ASSUME Init PROVE TypeOK
    OBVIOUS
  <1>1. << >> \in [DOMAIN << >> -> Position] /\ << >> \in [DOMAIN << >> -> Quotes]
        /\ DOMAIN << >> = {}
    OBVIOUS
  <1>2. << >> \in Seq([order : Order, status : Status])
    OBVIOUS
  <1> QED
    BY <1>1, <1>2, BrokerAssumption DEF Init, TypeOK, BrokerAssumption

\* The broker keeps every variable in its range: the cash of an account never goes
\* below zero (Portfolio raises otherwise) and a key is booked only with shares in it.
THEOREM TypeCorrect == Spec => []TypeOK
  <1>1. TypeOK /\ [Next]_vars => TypeOK'
    BY TypeStep
  <1> QED
    BY TypeInit, <1>1, PTL DEF Spec

------------------------------------------------------------------------------
(* The broker implements TradeLedger.                                       *)

\* The entry a fill makes in the journal, given the cash it found.
EntryOf(fill, before) ==
    [key |-> fill.key,
     shares |-> IF fill.cash < before THEN fill.quantity ELSE -fill.quantity,
     money |-> fill.cash - before]

\* One more fill is one more journal entry, and the earlier entries stand.
LEMMA JournalGrows ==
    ASSUME Statement, cash \in Nat, InitialCapital \in Nat,
           NEW f, fills' = Append(fills, f), cash' = f.cash,
           f.key \in Keys, f.quantity \in Nat \ {0}, f.cash \in Nat
    PROVE  /\ Statement'
           /\ Len(Journal') = Len(Journal) + 1
           /\ Journal' = Append(Journal, EntryOf(f, cash))
           /\ Journal'[Len(Journal')] = EntryOf(f, cash)
  <1>1. PICK S : fills \in Seq(S)
    BY DEF Statement
  <1>2. /\ fills' \in Seq(S \cup {f})
        /\ Len(fills) \in Nat /\ Len(fills') = Len(fills) + 1
        /\ DOMAIN fills = 1 .. Len(fills) /\ DOMAIN fills' = 1 .. Len(fills) + 1
        /\ \A i \in DOMAIN fills : fills'[i] = fills[i]
        /\ fills'[Len(fills) + 1] = f
    BY <1>1, AppendFacts
  <1>3. \A i \in DOMAIN fills' :
           fills'[i].key \in Keys /\ fills'[i].quantity \in Nat \ {0} /\ fills'[i].cash \in Nat
    BY <1>2 DEF Statement
  <1>4. CashBefore(Len(fills) + 1)' = f.cash
    BY <1>2 DEF CashBefore
  <1>5. Statement'
    BY <1>2, <1>3, <1>4 DEF Statement, CashBefore
  <1>6. \A i \in 1 .. Len(fills) + 1 : CashBefore(i)' = CashBefore(i) /\ CashBefore(i) \in Nat
    BY <1>2 DEF CashBefore, Statement
  <1>7. CashBefore(Len(fills) + 1) = cash
    BY DEF Statement
  <1>8. Journal = [i \in 1 .. Len(fills) |-> EntryOf(fills[i], CashBefore(i))]
    BY <1>2 DEF Journal, EntryOf, CashBefore
  <1>9. Journal' = [i \in 1 .. Len(fills) + 1 |-> EntryOf(fills'[i], CashBefore(i))]
    <2>1. \A i \in 1 .. Len(fills) + 1 : i # 1 => fills'[i - 1] = fills[i - 1]
      BY <1>2
    <2> QED
      BY <1>2, <2>1 DEF Journal, EntryOf, CashBefore
  <1> DEFINE entries == [key : Keys, shares : Int, money : Int]
  <1>10. \A i \in 1 .. Len(fills) : EntryOf(fills[i], CashBefore(i)) \in entries
    BY <1>2, <1>6 DEF Statement, EntryOf
  <1>11. Journal \in Seq(entries) /\ Len(Journal) = Len(fills)
    BY <1>2, <1>8, <1>10
  <1>12. EntryOf(f, cash) \in entries
    BY DEF EntryOf
  <1> HIDE DEF entries
  <1>13. \A i \in 1 .. Len(fills) + 1 :
            EntryOf(fills'[i], CashBefore(i)) =
                IF i = Len(fills) + 1 THEN EntryOf(f, cash) ELSE Journal[i]
    <2>1. \A i \in 1 .. Len(fills) : EntryOf(fills'[i], CashBefore(i)) = Journal[i]
      BY <1>2, <1>8
    <2>2. EntryOf(fills'[Len(fills) + 1], CashBefore(Len(fills) + 1)) = EntryOf(f, cash)
      BY <1>2, <1>7
    <2>3. \A i \in 1 .. Len(fills) + 1 : i # Len(fills) + 1 => i \in 1 .. Len(fills)
      BY <1>2
    <2> QED
      BY <2>1, <2>2, <2>3
  <1>14. Journal' = Append(Journal, EntryOf(f, cash))
    <2> DEFINE grown == Append(Journal, EntryOf(f, cash))
    <2>1. /\ grown \in Seq(entries) /\ Len(grown) = Len(fills) + 1
          /\ \A i \in 1 .. Len(fills) : grown[i] = Journal[i]
          /\ grown[Len(fills) + 1] = EntryOf(f, cash)
      BY <1>11, <1>12, AppendProperties
    <2> HIDE DEF grown
    <2>2. \A i \in 1 .. Len(fills) + 1 : EntryOf(fills'[i], CashBefore(i)) = grown[i]
      BY <1>2, <1>13, <2>1
    <2>3. Journal' = [i \in 1 .. Len(fills) + 1 |-> grown[i]]
      BY <1>9, <2>2
    <2>4. grown = [i \in 1 .. Len(fills) + 1 |-> grown[i]]
      BY <1>2, <2>1
    <2> QED
      BY <2>3, <2>4 DEF grown
  <1>15. Len(Journal') = Len(Journal) + 1 /\ Journal'[Len(Journal')] = EntryOf(f, cash)
    BY <1>2, <1>11, <1>12, <1>14
  <1> QED
    BY <1>5, <1>14, <1>15

\* The fill of an order names its key, its shares and the cash after it.
LEMMA FillNames ==
    ASSUME NEW order, NEW ticks, NEW market, NEW money, NEW new,
           RecordFill(order, ticks, market, money, new)
    PROVE  /\ cash' = cash + money /\ positions' = new
           /\ \E f : /\ fills' = Append(fills, f)
                     /\ f.key = order.key /\ f.quantity = order.quantity /\ f.cash = cash'
  BY DEF RecordFill

LEMMA InvInit ==
    Init => BrokerInv
  <1> SUFFICES ASSUME Init PROVE BrokerInv
    OBVIOUS
  <1>1. fills \in Seq({}) /\ DOMAIN fills = {} /\ Len(fills) = 0
    BY DEF Init
  <1>2. Statement
    BY <1>1 DEF Statement, CashBefore, Init
  <1> QED
    BY <1>2, TypeInit DEF BrokerInv

\* A purchase posts the shares it brings and the cash it takes.
LEMMA BuysPost ==
    ASSUME BrokerInv, NEW order \in Order, NEW ticks \in Nat \ {0}, NEW market \in Nat,
           Buys(order, ticks, market), TypeOK'
    PROVE  Statement' /\ Ledger!Next
  <1> DEFINE cost == BuyCost(order.quantity, ticks)
  <1>1. /\ order.key \in Keys /\ order.quantity \in Nat \ {0}
        /\ cost \in Nat /\ cost > 0 /\ cost <= cash
        /\ cash \in Nat /\ cash' \in Nat /\ InitialCapital \in Nat
    BY MoneyIsNatural, BrokerAssumption DEF Order, Buys, BrokerInv, TypeOK, BrokerAssumption
  <1>2. /\ cash' = cash - cost
        /\ positions' = [k \in DOMAIN positions \cup {order.key} |->
                            IF k = order.key THEN Bought(order, ticks) ELSE positions[k]]
        /\ \E f : /\ fills' = Append(fills, f)
                  /\ f.key = order.key /\ f.quantity = order.quantity /\ f.cash = cash'
    <2> HIDE DEF cost
    <2> QED
      BY <1>1, FillNames DEF Buys, cost
  <1>3. PICK f : /\ fills' = Append(fills, f)
                 /\ f.key = order.key /\ f.quantity = order.quantity /\ f.cash = cash'
    BY <1>2
  <1> DEFINE entry == Journal'[Len(Journal')]
  <1>4. Statement' /\ Len(Journal') = Len(Journal) + 1
        /\ entry = EntryOf(f, cash) /\ Journal' = Append(Journal, EntryOf(f, cash))
    BY <1>1, <1>3, JournalGrows DEF BrokerInv
  <1> HIDE DEF cost
  <1>5. /\ EntryOf(f, cash).key = order.key
        /\ EntryOf(f, cash).shares = order.quantity
        /\ EntryOf(f, cash).money = -cost
    BY <1>1, <1>2, <1>3 DEF EntryOf
  <1>6. /\ Held(order.key) \in Nat
        /\ Held(order.key)' = Held(order.key) + order.quantity
        /\ \A k \in Keys : k # order.key => Held(k)' = Held(k)
    BY <1>2, BoughtIsPosition DEF Held, BrokerInv
  <1>7. [k \in Keys |-> Held(k)]' =
           [[k \in Keys |-> Held(k)] EXCEPT ![order.key] = @ + order.quantity]
    BY <1>1, <1>6
  <1> HIDE DEF entry
  <1>8. Ledger!Post(order.key, entry)
    <2>1. /\ entry.key = order.key /\ entry.shares = order.quantity /\ entry.money = -cost
          /\ Journal' = Append(Journal, entry)
      BY <1>4, <1>5
    <2>2. Ledger!Sound(entry)
      BY <1>1, <2>1 DEF Ledger!Sound
    <2>3. cash + entry.money >= 0 /\ cash' = cash + entry.money
      BY <1>1, <1>2, <2>1
    <2>4. [k \in Keys |-> Held(k)][order.key] + entry.shares >= 0
      BY <1>1, <1>6, <2>1
    <2> QED
      BY <1>7, <2>1, <2>2, <2>3, <2>4 DEF Ledger!Post
  <1> QED
    BY <1>1, <1>4, <1>8 DEF Ledger!Next, entry

\* A sale posts the shares it takes and the cash it brings.
LEMMA SellsPost ==
    ASSUME BrokerInv, NEW order \in Order, NEW ticks \in Nat, NEW market \in Nat,
           Sells(order, ticks, market), TypeOK'
    PROVE  Statement' /\ Ledger!Next
  <1> DEFINE proceeds == SellProceeds(order.quantity, ticks)
  <1>1. /\ order.key \in Keys /\ order.quantity \in Nat \ {0}
        /\ proceeds \in Nat /\ TypeOK
        /\ cash \in Nat /\ cash' \in Nat /\ InitialCapital \in Nat
    BY MoneyIsNatural, BrokerAssumption DEF Order, BrokerInv, TypeOK, BrokerAssumption
  <1>2. /\ cash' = cash + proceeds
        /\ positions' = AfterSale(order, ticks)
        /\ \E f : /\ fills' = Append(fills, f)
                  /\ f.key = order.key /\ f.quantity = order.quantity /\ f.cash = cash'
    BY FillNames DEF Sells
  <1>3. PICK f : /\ fills' = Append(fills, f)
                 /\ f.key = order.key /\ f.quantity = order.quantity /\ f.cash = cash'
    BY <1>2
  <1> DEFINE entry == Journal'[Len(Journal')]
  <1>4. Statement' /\ Len(Journal') = Len(Journal) + 1
        /\ entry = EntryOf(f, cash) /\ Journal' = Append(Journal, EntryOf(f, cash))
    BY <1>1, <1>3, JournalGrows DEF BrokerInv
  <1> HIDE DEF proceeds
  <1>5. /\ EntryOf(f, cash).key = order.key
        /\ EntryOf(f, cash).shares = -order.quantity
        /\ EntryOf(f, cash).money = proceeds
    BY <1>1, <1>2, <1>3 DEF EntryOf
  <1>6. /\ order.quantity <= Held(order.key) /\ Held(order.key) \in Nat
        /\ Held(order.key)' = Held(order.key) - order.quantity
        /\ \A k \in Keys : k # order.key => Held(k)' = Held(k)
    <2>1. order.quantity <= Held(order.key)
      BY DEF Sells
    <2>2. /\ order.key \in DOMAIN positions
          /\ positions[order.key].quantity \in Nat
      BY <1>1, <2>1, AfterSaleIsPositions DEF TypeOK, Position
    <2> QED
      BY <1>1, <1>2, <2>1, <2>2, AfterSaleIsPositions DEF Held
  <1>7. [k \in Keys |-> Held(k)]' =
           [[k \in Keys |-> Held(k)] EXCEPT ![order.key] = @ + (-order.quantity)]
    BY <1>1, <1>6
  <1> HIDE DEF entry
  <1>8. Ledger!Post(order.key, entry)
    <2>1. /\ entry.key = order.key /\ entry.shares = -order.quantity /\ entry.money = proceeds
          /\ Journal' = Append(Journal, entry)
      BY <1>4, <1>5
    <2>2. Ledger!Sound(entry)
      BY <1>1, <2>1 DEF Ledger!Sound
    <2>3. cash + entry.money >= 0 /\ cash' = cash + entry.money
      BY <1>1, <1>2, <2>1
    <2>4. [k \in Keys |-> Held(k)][order.key] + entry.shares >= 0
      BY <1>1, <1>6, <2>1
    <2> QED
      BY <1>7, <2>1, <2>2, <2>3, <2>4 DEF Ledger!Post
  <1> QED
    BY <1>1, <1>4, <1>8 DEF Ledger!Next, entry

\* Every step keeps the invariant and is a posting, or moves no money and no share.
LEMMA LedgerStep ==
    ASSUME BrokerInv, [Next]_vars
    PROVE  BrokerInv' /\ [Ledger!Next]_(Ledger!vars)
  <1>1. TypeOK /\ TypeOK'
    BY TypeStep DEF BrokerInv
  <1>2. ASSUME UNCHANGED <<cash, fills>>,
               \A k \in Keys : Held(k)' = Held(k)
        PROVE  Statement' /\ UNCHANGED Ledger!vars
    <2>1. Journal' = Journal
      BY <1>2 DEF Journal, CashBefore
    <2>2. Statement'
      BY <1>2 DEF BrokerInv, Statement, CashBefore
    <2> QED
      BY <1>2, <2>1, <2>2 DEF Ledger!vars
  <1>3. CASE Refused \/ Quiet \/ UNCHANGED vars
    <2>1. UNCHANGED accountVars
      BY <1>3 DEF Refused, Reject, Quiet, vars
    <2>2. UNCHANGED <<cash, fills>> /\ \A k \in Keys : Held(k)' = Held(k)
      BY <2>1 DEF accountVars, Held
    <2> QED
      BY <1>1, <1>2, <2>2 DEF BrokerInv
  <1>4. CASE Relisted
    <2>1. UNCHANGED <<cash, fills>> /\ \A k \in Keys : Held(k)' = Held(k)
      BY <1>4 DEF Relisted, MovePositions, Held
    <2> QED
      BY <1>1, <1>2, <2>1 DEF BrokerInv
  <1>5. CASE Bookkept
    BY <1>1, <1>5, BuysPost, SellsPost DEF Bookkept, BrokerInv
  <1> QED
    BY <1>1, <1>3, <1>4, <1>5, NextCases

\* The broker is a double-entry account: whatever its caller does, cash and holdings
\* change only by one sound posting at a time, and the fills are its journal.
THEOREM ImplementsLedger == Spec => LedgerSpec
  <1>1. Init => Ledger!Init
    <2> SUFFICES ASSUME Init PROVE Ledger!Init
      OBVIOUS
    <2>1. fills = << >> /\ positions = << >> /\ cash = InitialCapital
      BY DEF Init
    <2>2. Journal = << >>
      BY <2>1 DEF Journal, CashBefore
    <2>3. \A k \in Keys : Held(k) = 0
      BY <2>1 DEF Held
    <2> QED
      BY <2>1, <2>2, <2>3 DEF Ledger!Init
  <1>2. BrokerInv /\ [Next]_vars => BrokerInv' /\ [Ledger!Next]_(Ledger!vars)
    BY LedgerStep
  <1> QED
    BY <1>1, <1>2, InvInit, PTL DEF Spec, LedgerSpec, Ledger!Spec
------------------------------------------------------------------------------
(* The totals of the report.                                                *)

Commissions == [i \in DOMAIN fills |-> fills[i].commission]
Slippages == [i \in DOMAIN fills |-> fills[i].slippage]
Sales == {i \in DOMAIN fills : fills[i].cash >= CashBefore(i)}

\* The sums over the fills, over the indexes that they have.
TotalsInv ==
    /\ \A i \in DOMAIN fills : fills[i].commission \in Nat /\ fills[i].slippage \in Nat
    /\ totalCommission = Total(Commissions, 1 .. Len(fills))
    /\ totalSlippage = Total(Slippages, 1 .. Len(fills))
    /\ winningTrades + losingTrades <= Cardinality(Sales)

\* What a fill adds to the log and to the totals.
Posted(f) ==
    /\ fills' = Append(fills, f) /\ f.cash = cash'
    /\ f.commission \in Nat /\ f.slippage \in Nat
    /\ totalCommission' = totalCommission + f.commission
    /\ totalSlippage' = totalSlippage + f.slippage
    /\ winningTrades' + losingTrades' <= winningTrades + losingTrades + (IF cash' >= cash THEN 1 ELSE 0)

LEMMA FillAdds ==
    ASSUME TypeOK, NEW order \in Order, NEW ticks \in Nat, NEW market \in Nat,
           NEW money, NEW new, RecordFill(order, ticks, market, money, new)
    PROVE  \E f : /\ fills' = Append(fills, f) /\ f.cash = cash'
                  /\ f.key = order.key /\ f.price = ticks
                  /\ f.positionQuantity = IF order.key \in DOMAIN new THEN new[order.key].quantity ELSE 0
                  /\ f.commission \in Nat /\ f.slippage \in Nat
                  /\ totalCommission' = totalCommission + f.commission
                  /\ totalSlippage' = totalSlippage + f.slippage
  <1> DEFINE gap == IF ticks > market THEN ticks - market ELSE market - ticks
             slippage == gap * order.quantity * RateDivisor
             commission == CommissionOn(order.quantity, ticks)
  <1>1. order.quantity \in Nat \ {0} /\ gap \in Nat /\ RateDivisor \in Nat
    BY ExecutionAssumption DEF ExecutionAssumption, Order
  <1>2. commission \in Nat
    BY <1>1, MoneyIsNatural
  <1>3. slippage \in Nat
    <2> HIDE DEF gap
    <2>1. gap * order.quantity \in Nat
      BY <1>1, Products
    <2> QED
      BY <1>1, <2>1, Products
  <1>4. PICK f : /\ fills' = Append(fills, f) /\ f.cash = cash'
                 /\ f.key = order.key /\ f.price = ticks
                 /\ f.positionQuantity = IF order.key \in DOMAIN new THEN new[order.key].quantity ELSE 0
                 /\ f.commission = commission /\ f.slippage = slippage
                 /\ totalCommission' = totalCommission + commission
                 /\ totalSlippage' = totalSlippage + slippage
    BY DEF RecordFill
  <1> QED
    BY <1>2, <1>3, <1>4

LEMMA BookkeptPosts ==
    ASSUME TypeOK, TypeOK', Bookkept
    PROVE  \E f : Posted(f)
  <1>1. CASE \E order \in Order, ticks \in Nat \ {0}, market \in Nat : Buys(order, ticks, market)
    <2>1. PICK order \in Order, ticks \in Nat \ {0}, market \in Nat : Buys(order, ticks, market)
      BY <1>1
    <2>2. winningTrades' = winningTrades /\ losingTrades' = losingTrades
      BY <2>1 DEF Buys
    <2>3. winningTrades' + losingTrades' <= winningTrades + losingTrades + (IF cash' >= cash THEN 1 ELSE 0)
      BY <2>2 DEF TypeOK
    <2>4. \E f : /\ fills' = Append(fills, f) /\ f.cash = cash'
                 /\ f.commission \in Nat /\ f.slippage \in Nat
                 /\ totalCommission' = totalCommission + f.commission
                 /\ totalSlippage' = totalSlippage + f.slippage
      BY <2>1, FillAdds DEF Buys
    <2> QED
      BY <2>3, <2>4 DEF Posted
  <1>2. CASE \E order \in Order, ticks \in Nat, market \in Nat : Sells(order, ticks, market)
    <2>1. PICK order \in Order, ticks \in Nat, market \in Nat : Sells(order, ticks, market)
      BY <1>2
    <2>2. cash' >= cash
      <3>1. SellProceeds(order.quantity, ticks) \in Nat
        BY MoneyIsNatural DEF Order
      <3> QED
        BY <2>1, <3>1, FillNames DEF Sells, TypeOK
    <2>3. winningTrades' + losingTrades' <= winningTrades + losingTrades + (IF cash' >= cash THEN 1 ELSE 0)
      BY <2>1, <2>2 DEF Sells
    <2>4. \E f : /\ fills' = Append(fills, f) /\ f.cash = cash'
                 /\ f.commission \in Nat /\ f.slippage \in Nat
                 /\ totalCommission' = totalCommission + f.commission
                 /\ totalSlippage' = totalSlippage + f.slippage
      BY <2>1, FillAdds DEF Sells
    <2> QED
      BY <2>3, <2>4 DEF Posted
  <1> QED
    BY <1>1, <1>2 DEF Bookkept

LEMMA TotalsStep ==
    ASSUME BrokerInv, TotalsInv, [Next]_vars
    PROVE  TotalsInv'
  <1>1. TypeOK /\ TypeOK' /\ Statement
    BY TypeStep DEF BrokerInv
  <1>2. CASE UNCHANGED <<fills, totalCommission, totalSlippage, winningTrades, losingTrades>>
    <2>1. Commissions' = Commissions /\ Slippages' = Slippages /\ Sales' = Sales
      BY <1>2 DEF Commissions, Slippages, Sales, CashBefore
    <2> QED
      BY <1>2, <2>1 DEF TotalsInv
  <1>3. CASE Bookkept
    <2>1. PICK f : Posted(f)
      BY <1>1, <1>3, BookkeptPosts
    <2> DEFINE n == Len(fills)
               kept == Commissions
               paid == Commissions'
               lost == Slippages
               left == Slippages'
    <2>2. PICK S : fills \in Seq(S)
      BY <1>1 DEF Statement
    <2>3. /\ n \in Nat /\ Len(fills') = n + 1
          /\ DOMAIN fills = 1 .. n /\ DOMAIN fills' = 1 .. (n + 1)
          /\ \A i \in 1 .. n : fills'[i] = fills[i]
          /\ fills'[n + 1] = f
      BY <2>1, <2>2, AppendFacts DEF Posted
    <2>4. f.commission \in Nat /\ f.slippage \in Nat
      BY <2>1 DEF Posted
    <2>5. /\ \A i \in 1 .. n : kept[i] = fills[i].commission /\ kept[i] \in Int /\ paid[i] = kept[i]
          /\ \A i \in 1 .. n : lost[i] = fills[i].slippage /\ lost[i] \in Int /\ left[i] = lost[i]
          /\ paid[n + 1] = f.commission /\ left[n + 1] = f.slippage
      <3>1. /\ kept = [i \in 1 .. n |-> fills[i].commission]
            /\ lost = [i \in 1 .. n |-> fills[i].slippage]
            /\ paid = [i \in 1 .. (n + 1) |-> fills'[i].commission]
            /\ left = [i \in 1 .. (n + 1) |-> fills'[i].slippage]
        BY <2>3 DEF Commissions, Slippages
      <3>2. \A i \in 1 .. n : fills[i].commission \in Nat /\ fills[i].slippage \in Nat
        BY <2>3 DEF TotalsInv
      <3>3. n + 1 \in 1 .. (n + 1) /\ \A i \in 1 .. n : i \in 1 .. (n + 1)
        BY <2>3
      <3> HIDE DEF n, kept, lost, paid, left
      <3> QED
        BY <2>3, <3>1, <3>2, <3>3
    <2>6. \A i \in DOMAIN fills' : fills'[i].commission \in Nat /\ fills'[i].slippage \in Nat
      BY <2>3, <2>4 DEF TotalsInv
    <2>7. CashBefore(n + 1) = cash /\ \A i \in 1 .. (n + 1) : CashBefore(i)' = CashBefore(i)
      BY <1>1, <2>3 DEF Statement, CashBefore
    <2>8. /\ totalCommission = Total(kept, 1 .. n) /\ totalSlippage = Total(lost, 1 .. n)
          /\ winningTrades + losingTrades <= Cardinality(Sales)
      BY DEF TotalsInv
    <2> HIDE DEF n, kept, paid, lost, left
    <2>9. /\ Total(paid, 1 .. (n + 1)) = Total(kept, 1 .. n) + f.commission
          /\ Total(left, 1 .. (n + 1)) = Total(lost, 1 .. n) + f.slippage
      <3>1. n \in Nat /\ paid[n + 1] \in Int /\ left[n + 1] \in Int
        BY <2>3, <2>4, <2>5
      <3>2. Total(paid, 1 .. (n + 1)) = Total(kept, 1 .. n) + paid[n + 1]
        BY <2>5, <3>1, TotalGrows
      <3>3. Total(left, 1 .. (n + 1)) = Total(lost, 1 .. n) + left[n + 1]
        BY <2>5, <3>1, TotalGrows
      <3> QED
        BY <2>5, <3>2, <3>3
    <2>10. /\ totalCommission' = Total(paid, 1 .. (n + 1))
           /\ totalSlippage' = Total(left, 1 .. (n + 1))
      BY <2>1, <2>8, <2>9 DEF Posted
    <2>11. Sales' = IF cash' >= cash THEN Sales \cup {n + 1} ELSE Sales
      BY <2>1, <2>3, <2>7 DEF Sales, Posted
    <2>12. IsFiniteSet(Sales) /\ n + 1 \notin Sales /\ Cardinality(Sales) \in Nat
      <3>1. IsFiniteSet(1 .. n) /\ Sales \in SUBSET (1 .. n) /\ n + 1 \notin 1 .. n
        BY <2>3, Initial DEF Sales
      <3> QED
        BY <3>1, FS_Subset, FS_CardinalityType
    <2>13. Cardinality(Sales') = Cardinality(Sales) + (IF cash' >= cash THEN 1 ELSE 0)
      BY <2>11, <2>12, FS_AddElement
    <2>14. winningTrades' + losingTrades' <= Cardinality(Sales')
      BY <1>1, <2>1, <2>8, <2>12, <2>13 DEF Posted, TypeOK
    <2> QED
      BY <2>3, <2>6, <2>10, <2>14 DEF TotalsInv, paid, left
  <1>4. CASE Refused \/ Relisted \/ Quiet \/ UNCHANGED vars
    BY <1>2, <1>4 DEF Refused, Reject, Relisted, MovePositions, Quiet, vars, accountVars
  <1> QED
    BY <1>1, <1>3, <1>4, NextCases

LEMMA SumsOfFills ==
    ASSUME Statement, TotalsInv
    PROVE  /\ MapThenSumSet(LAMBDA i : fills[i].commission, DOMAIN fills) = Total(Commissions, 1 .. Len(fills))
           /\ MapThenSumSet(LAMBDA i : fills[i].slippage, DOMAIN fills) = Total(Slippages, 1 .. Len(fills))
  <1> DEFINE S == DOMAIN fills
             it == CHOOSE it : it = [s \in SUBSET S |->
                        IF s = {} THEN 0 ELSE fills[Pick(s)].commission + it[s \ {Pick(s)}]]
             jt == CHOOSE jt : jt = [s \in SUBSET S |->
                        IF s = {} THEN 0 ELSE fills[Pick(s)].slippage + jt[s \ {Pick(s)}]]
  <1>1. S = 1 .. Len(fills) /\ IsFiniteSet(S)
    <2>1. \E T : fills \in Seq(T)
      BY DEF Statement
    <2> QED
      BY <2>1, Initial
  <1>2. /\ \A i \in S : Commissions[i] = fills[i].commission /\ Commissions[i] \in Int
        /\ \A i \in S : Slippages[i] = fills[i].slippage /\ Slippages[i] \in Int
    BY DEF Commissions, Slippages, TotalsInv
  <1>3. /\ MapThenSumSet(LAMBDA i : fills[i].commission, S) = it[S]
        /\ MapThenSumSet(LAMBDA i : fills[i].slippage, S) = jt[S]
    BY DEF MapThenSumSet, MapThenFoldSet, Pick
  <1>4. Adds(it, Commissions, S) /\ Adds(jt, Slippages, S)
    <2> HIDE DEF S
    <2>1. \A s \in SUBSET S : s # {} => Pick(s) \in S
      BY DEF Pick
    <2>2. \A ht : Adds(ht, Commissions, S) <=> ht = [s \in SUBSET S |->
                        IF s = {} THEN 0 ELSE fills[Pick(s)].commission + ht[s \ {Pick(s)}]]
      BY <1>2, <2>1 DEF Adds
    <2>3. \A ht : Adds(ht, Slippages, S) <=> ht = [s \in SUBSET S |->
                        IF s = {} THEN 0 ELSE fills[Pick(s)].slippage + ht[s \ {Pick(s)}]]
      BY <1>2, <2>1 DEF Adds
    <2>4. (\E ht : Adds(ht, Commissions, S)) /\ (\E ht : Adds(ht, Slippages, S))
      BY <1>1, <1>2, AddsExists
    <2> QED
      BY <2>2, <2>3, <2>4
  <1> HIDE DEF it, jt, S
  <1>5. Total(Commissions, S) = it[S] /\ Total(Slippages, S) = jt[S]
    BY <1>1, <1>2, <1>4, TotalIsOwn
  <1> QED
    BY <1>1, <1>3, <1>5 DEF S

\* The commission and the slippage a run reports are the sums over its fills, and no
\* purchase is counted as a trade won or lost: refusals and marks add to neither.
THEOREM TotalsAreSums == Spec => []TotalsMatchFills
  <1>1. Init => TotalsInv
    <2> SUFFICES ASSUME Init PROVE TotalsInv
      OBVIOUS
    <2>1. /\ fills = << >> /\ totalCommission = 0 /\ totalSlippage = 0
          /\ winningTrades = 0 /\ losingTrades = 0
      BY DEF Init
    <2>2. DOMAIN fills = {} /\ Len(fills) = 0 /\ 1 .. 0 = {}
      BY <2>1
    <2>3. Total(Commissions, {}) = 0 /\ Total(Slippages, {}) = 0
      BY TotalOfNone
    <2>4. Sales = {} /\ Cardinality(Sales) = 0
      BY <2>2, FS_EmptySet DEF Sales
    <2> QED
      BY <2>1, <2>2, <2>3, <2>4 DEF TotalsInv
  <1>2. BrokerInv /\ TotalsInv /\ [Next]_vars => BrokerInv' /\ TotalsInv'
    BY LedgerStep, TotalsStep
  <1>3. BrokerInv /\ TotalsInv => TotalsMatchFills
    BY SumsOfFills DEF BrokerInv, TotalsInv, TotalsMatchFills, Sales
  <1> QED
    BY InvInit, <1>1, <1>2, <1>3, PTL DEF Spec
------------------------------------------------------------------------------
(* The cost basis.                                                          *)

Own(k) == {i \in DOMAIN fills : fills[i].key = k}
Closed(k) == {i \in Own(k) : fills[i].positionQuantity = 0}
Opened(k) == IF Closed(k) = {} THEN Own(k) ELSE {i \in Own(k) : i > Max(Closed(k))}
Paid(k) == {fills[i].price : i \in {j \in Opened(k) : fills[j].cash < CashBefore(j)}}

Within(average, prices) ==
    \E low \in prices, high \in prices :
        low * average.den <= average.num /\ average.num <= high * average.den

\* The average of what is held lies between two of the prices paid for it.
AverageInv ==
    /\ \A i \in DOMAIN fills : fills[i].price \in Nat
    /\ \A k \in DOMAIN positions : Within(positions[k].average, Paid(k))

\* A fill that leaves shares behind adds its price if it was a purchase, and the
\* fills of other keys add nothing.
LEMMA PaidGrows ==
    ASSUME Statement, NEW f, fills' = Append(fills, f), NEW k
    PROVE  /\ f.key # k => Paid(k)' = Paid(k)
           /\ f.key = k /\ f.positionQuantity # 0 =>
                 Paid(k)' = Paid(k) \cup (IF f.cash < cash THEN {f.price} ELSE {})
           /\ (\A i \in DOMAIN fills : fills[i].price \in Nat) /\ f.price \in Nat =>
                 \A i \in DOMAIN fills' : fills'[i].price \in Nat
  <1> DEFINE n == Len(fills)
  <1>1. PICK S : fills \in Seq(S)
    BY DEF Statement
  <1>2. /\ n \in Nat /\ Len(fills') = n + 1
        /\ DOMAIN fills = 1 .. n /\ DOMAIN fills' = 1 .. (n + 1)
        /\ \A i \in 1 .. n : fills'[i] = fills[i]
        /\ fills'[n + 1] = f
    BY <1>1, AppendFacts
  <1>3. CashBefore(n + 1) = cash /\ \A i \in 1 .. (n + 1) : CashBefore(i)' = CashBefore(i)
    BY <1>2 DEF Statement, CashBefore
  <1> HIDE DEF n
  <1>4. Own(k)' = IF f.key = k THEN Own(k) \cup {n + 1} ELSE Own(k)
    BY <1>2 DEF Own
  <1>5. Own(k) \subseteq 1 .. n /\ Closed(k) \subseteq Own(k) /\ Opened(k) \subseteq Own(k)
    BY <1>2 DEF Own, Closed, Opened
  <1>6. n + 1 \notin 1 .. n
    BY <1>2
  <1>7. \A i \in Own(k) : fills'[i] = fills[i] /\ CashBefore(i)' = CashBefore(i)
    BY <1>2, <1>3, <1>5
  <1>8. f.key # k \/ f.positionQuantity # 0 => Closed(k)' = Closed(k)
    BY <1>2, <1>4, <1>5, <1>7 DEF Closed
  <1>9. Closed(k) # {} => Max(Closed(k)) < n + 1
    <2>1. Closed(k) \in SUBSET (1 .. n) /\ IsFiniteSet(1 .. n)
      BY <1>2, <1>5, Initial
    <2>2. IsFiniteSet(Closed(k)) /\ Closed(k) \in SUBSET Int
      BY <1>2, <2>1, FS_Subset
    <2>3. Closed(k) # {} => Max(Closed(k)) \in Closed(k)
      BY <2>2, GreatestExists
    <2> QED
      BY <1>2, <2>1, <2>3
  <1>10. CASE f.key # k
    <2>1. Opened(k)' = Opened(k)
      BY <1>4, <1>8, <1>10 DEF Opened
    <2> QED
      BY <1>2, <1>5, <1>7, <1>10, <2>1 DEF Paid
  <1>11. CASE f.key = k /\ f.positionQuantity # 0
    <2>1. Opened(k)' = Opened(k) \cup {n + 1}
      BY <1>4, <1>8, <1>9, <1>11 DEF Opened
    <2> DEFINE buys == {j \in Opened(k) : fills[j].cash < CashBefore(j)}
    <2>2. {j \in Opened(k)' : fills'[j].cash < CashBefore(j)'}
              = buys \cup (IF f.cash < cash THEN {n + 1} ELSE {})
      BY <1>2, <1>3, <1>5, <1>7, <2>1
    <2>3. \A j \in buys : fills'[j] = fills[j]
      BY <1>5, <1>7
    <2>4. Paid(k) = {fills[i].price : i \in buys}
      BY DEF Paid
    <2>5. Paid(k)' = {fills'[i].price : i \in buys \cup (IF f.cash < cash THEN {n + 1} ELSE {})}
      BY <2>2 DEF Paid
    <2> HIDE DEF buys
    <2>6. Paid(k)' = Paid(k) \cup (IF f.cash < cash THEN {f.price} ELSE {})
      <3>1. CASE f.cash < cash
        BY <1>2, <2>3, <2>4, <2>5, <3>1
      <3>2. CASE ~ (f.cash < cash)
        BY <2>3, <2>4, <2>5, <3>2
      <3> QED
        BY <3>1, <3>2
    <2> QED
      BY <1>2, <1>11, <2>6
  <1>12. CASE f.key = k /\ f.positionQuantity = 0
    BY <1>2, <1>12
  <1> QED
    BY <1>2, <1>10, <1>11, <1>12

LEMMA PaidIsFinite == ASSUME Statement, NEW k PROVE IsFiniteSet(Paid(k))
  <1> DEFINE buys == {j \in Opened(k) : fills[j].cash < CashBefore(j)}
             price == [j \in buys |-> fills[j].price]
  <1>1. PICK S : fills \in Seq(S)
    BY DEF Statement
  <1>2. buys \in SUBSET (1 .. Len(fills)) /\ IsFiniteSet(1 .. Len(fills))
    BY <1>1, Initial DEF Opened, Own
  <1>3. IsFiniteSet(buys)
    BY <1>2, FS_Subset
  <1>4. Paid(k) = {price[j] : j \in buys}
    BY DEF Paid
  <1>5. price \in Surjection(buys, Paid(k))
    BY <1>4 DEF Surjection
  <1> HIDE DEF price, buys
  <1> QED
    BY <1>3, <1>5, FS_Surjection

\* Averaging in a purchase keeps the average between the prices paid.
LEMMA AveragedIn ==
    ASSUME NEW held \in Nat, NEW more \in Nat, NEW num \in Nat, NEW den \in Nat,
           NEW p \in Nat, NEW ticks \in Nat
    PROVE  /\ p * den <= num /\ p <= ticks =>
                 p * (den * (held + more)) <= held * num + more * ticks * den
           /\ num <= p * den /\ ticks <= p =>
                 held * num + more * ticks * den <= p * (den * (held + more))
  <1>1. p * (den * (held + more)) = held * (p * den) + more * (p * den)
    OBVIOUS
  <1>2. more * ticks * den = more * (ticks * den)
    OBVIOUS
  <1>3. /\ p * den \in Nat /\ ticks * den \in Nat /\ held * num \in Nat
        /\ held * (p * den) \in Nat /\ more * (p * den) \in Nat /\ more * (ticks * den) \in Nat
    OBVIOUS
  <1>4. p <= ticks => p * den <= ticks * den
    OBVIOUS
  <1>5. ticks <= p => ticks * den <= p * den
    OBVIOUS
  <1>6. \A x, y \in Nat : x <= y => held * x <= held * y /\ more * x <= more * y
    OBVIOUS
  <1>7. ASSUME p * den <= num, p <= ticks
        PROVE  p * (den * (held + more)) <= held * num + more * ticks * den
    <2>1. held * (p * den) <= held * num /\ more * (p * den) <= more * (ticks * den)
      BY <1>3, <1>4, <1>6, <1>7
    <2> QED
      BY <1>1, <1>2, <1>3, <2>1
  <1>8. ASSUME num <= p * den, ticks <= p
        PROVE  held * num + more * ticks * den <= p * (den * (held + more))
    <2>1. held * num <= held * (p * den) /\ more * (ticks * den) <= more * (p * den)
      BY <1>3, <1>5, <1>6, <1>8
    <2> QED
      BY <1>1, <1>2, <1>3, <2>1
  <1> QED
    BY <1>7, <1>8

LEMMA BoughtIsWithin ==
    ASSUME TypeOK, NEW order \in Order, NEW ticks \in Nat,
           \A i \in DOMAIN fills : fills[i].price \in Nat,
           order.key \in DOMAIN positions =>
               Within(positions[order.key].average, Paid(order.key))
    PROVE  Within(Bought(order, ticks).average, Paid(order.key) \cup {ticks})
  <1> DEFINE prices == Paid(order.key) \cup {ticks}
  <1>1. CASE order.key \notin DOMAIN positions
    <2>1. Bought(order, ticks).average = [num |-> ticks, den |-> 1]
      BY <1>1 DEF Bought
    <2> QED
      BY <2>1 DEF Within
  <1>2. CASE order.key \in DOMAIN positions
    <2> DEFINE held == positions[order.key].quantity
               num == positions[order.key].average.num
               den == positions[order.key].average.den
               more == order.quantity
    <2>1. held \in Nat /\ num \in Nat /\ den \in Nat /\ more \in Nat
      BY <1>2 DEF TypeOK, Position, Average, Order
    <2>2. PICK low \in Paid(order.key), high \in Paid(order.key) :
              low * den <= num /\ num <= high * den
      BY <1>2 DEF Within
    <2>3. low \in Nat /\ high \in Nat
      BY DEF Paid, Opened, Own
    <2>4. /\ Bought(order, ticks).average.num = held * num + more * ticks * den
          /\ Bought(order, ticks).average.den = den * (held + more)
      BY <1>2 DEF Bought
    <2> HIDE DEF held, num, den, more
    <2>5. PICK l \in prices : l \in Nat /\ l * den <= num /\ l <= ticks
      <3>1. CASE low <= ticks
        BY <2>2, <2>3, <3>1
      <3>2. CASE ~ (low <= ticks)
        <4>1. ticks * den <= low * den /\ low * den \in Nat /\ ticks * den \in Nat
          BY <2>1, <2>3, <3>2
        <4>2. ticks * den <= num
          BY <2>1, <2>2, <4>1
        <4> QED
          BY <4>2
      <3> QED
        BY <3>1, <3>2
    <2>6. PICK h \in prices : h \in Nat /\ num <= h * den /\ ticks <= h
      <3>1. CASE ticks <= high
        BY <2>2, <2>3, <3>1
      <3>2. CASE ~ (ticks <= high)
        <4>1. high * den <= ticks * den /\ high * den \in Nat /\ ticks * den \in Nat
          BY <2>1, <2>3, <3>2
        <4>2. num <= ticks * den
          BY <2>1, <2>2, <4>1
        <4> QED
          BY <4>2
      <3> QED
        BY <3>1, <3>2
    <2>7. /\ l * (den * (held + more)) <= held * num + more * ticks * den
          /\ held * num + more * ticks * den <= h * (den * (held + more))
      BY <2>1, <2>5, <2>6, AveragedIn
    <2> QED
      BY <2>4, <2>7 DEF Within
  <1> QED
    BY <1>1, <1>2

\* A partial sale leaves the average of its key alone.
LEMMA SaleKeepsAverage ==
    ASSUME TypeOK, NEW order \in Order, NEW ticks \in Nat, order.quantity <= Held(order.key),
           order.key \in DOMAIN AfterSale(order, ticks)
    PROVE  AfterSale(order, ticks)[order.key].average = positions[order.key].average
  <1>1. order.key \in DOMAIN positions
    BY AfterSaleIsPositions
  <1>2. order.quantity # positions[order.key].quantity
    BY <1>1 DEF AfterSale
  <1> DEFINE held == positions[order.key]
             left == [held EXCEPT !.symbol = order.symbol, !.price = ticks,
                                  !.quantity = held.quantity - order.quantity]
  <1>3. left.average = held.average
    <2>1. held \in Position
      BY <1>1 DEF TypeOK
    <2> QED
      BY <2>1 DEF Position
  <1>4. AfterSale(order, ticks) = [positions EXCEPT ![order.key] = left]
    BY <1>2 DEF AfterSale
  <1> HIDE DEF left
  <1> QED
    BY <1>1, <1>3, <1>4

LEMMA AverageStep ==
    ASSUME BrokerInv, AverageInv, [Next]_vars
    PROVE  AverageInv'
  <1>1. TypeOK /\ TypeOK' /\ Statement
    BY TypeStep DEF BrokerInv
  <1>2. CASE Refused \/ Quiet \/ UNCHANGED vars
    <2>1. UNCHANGED <<positions, fills>>
      BY <1>2 DEF Refused, Reject, Quiet, vars, accountVars
    <2>2. \A k : Paid(k)' = Paid(k)
      BY <2>1 DEF Paid, Opened, Closed, Own, CashBefore
    <2> QED
      BY <2>1, <2>2 DEF AverageInv, Within
  <1>3. CASE Relisted
    <2>1. /\ fills' = fills /\ DOMAIN positions' = DOMAIN positions
          /\ \A k \in DOMAIN positions : positions'[k].average = positions[k].average
      BY <1>3 DEF Relisted, MovePositions
    <2>2. \A k : Paid(k)' = Paid(k)
      BY <2>1 DEF Paid, Opened, Closed, Own, CashBefore
    <2> QED
      BY <2>1, <2>2 DEF AverageInv, Within
  <1>4. CASE \E order \in Order, ticks \in Nat \ {0}, market \in Nat : Buys(order, ticks, market)
    <2>1. PICK order \in Order, ticks \in Nat \ {0}, market \in Nat : Buys(order, ticks, market)
      BY <1>4
    <2> DEFINE key == order.key
               new == [k \in DOMAIN positions \cup {key} |->
                          IF k = key THEN Bought(order, ticks) ELSE positions[k]]
               cost == -BuyCost(order.quantity, ticks)
    <2>20. RecordFill(order, ticks, market, cost, new) /\ ticks \in Nat
      BY <2>1 DEF Buys
    <2>21. positions' = new
      BY <2>20 DEF RecordFill
    <2>22. DOMAIN new = DOMAIN positions \cup {key} /\ new[key] = Bought(order, ticks)
      OBVIOUS
    <2>23. \E f : /\ fills' = Append(fills, f) /\ f.cash = cash' /\ f.key = order.key /\ f.price = ticks
                 /\ f.positionQuantity = IF order.key \in DOMAIN new THEN new[order.key].quantity ELSE 0
      <3> HIDE DEF new, cost, key
      <3> QED
        BY <1>1, <2>20, FillAdds
    <2>2. /\ positions' = [k \in DOMAIN positions \cup {key} |->
                              IF k = key THEN Bought(order, ticks) ELSE positions[k]]
          /\ \E f : /\ fills' = Append(fills, f) /\ f.cash = cash' /\ f.key = key /\ f.price = ticks
                    /\ f.positionQuantity = IF key \in DOMAIN positions' THEN positions'[key].quantity ELSE 0
      BY <2>21, <2>23
    <2> HIDE DEF new, cost
    <2>3. PICK f : /\ fills' = Append(fills, f) /\ f.cash = cash' /\ f.key = key /\ f.price = ticks
                   /\ f.positionQuantity = IF key \in DOMAIN positions' THEN positions'[key].quantity ELSE 0
      BY <2>2
    <2>4. f.positionQuantity # 0
      <3>1. /\ Bought(order, ticks).quantity = Held(key) + order.quantity
            /\ Held(key) \in Nat /\ order.quantity \in Nat \ {0}
        BY <1>1, BoughtIsPosition DEF Order
      <3>2. f.positionQuantity = Bought(order, ticks).quantity
        BY <2>2, <2>3
      <3> QED
        BY <3>1, <3>2
    <2>5. f.cash < cash
      <3>1. BuyCost(order.quantity, ticks) \in Nat /\ BuyCost(order.quantity, ticks) > 0 /\ cash \in Nat
        BY <1>1, MoneyIsNatural DEF Order, TypeOK
      <3>2. cash' = cash + (-BuyCost(order.quantity, ticks))
        BY <2>1, FillNames DEF Buys
      <3> QED
        BY <2>3, <3>1, <3>2
    <2>6. /\ Paid(key)' = Paid(key) \cup {ticks} /\ \A k : k # key => Paid(k)' = Paid(k)
          /\ \A i \in DOMAIN fills' : fills'[i].price \in Nat
      BY <1>1, <2>3, <2>4, <2>5, PaidGrows DEF AverageInv
    <2>7. Within(Bought(order, ticks).average, Paid(key) \cup {ticks})
      BY <1>1, BoughtIsWithin DEF AverageInv
    <2> HIDE DEF key
    <2>8. ASSUME NEW k \in DOMAIN positions'
          PROVE  Within(positions'[k].average, Paid(k)')
      <3>1. CASE k = key
        BY <2>2, <2>6, <2>7, <3>1
      <3>2. CASE k # key
        <4>1. k \in DOMAIN positions /\ positions'[k] = positions[k] /\ Paid(k)' = Paid(k)
          BY <2>2, <2>6, <3>2
        <4> QED
          BY <4>1 DEF AverageInv
      <3> QED
        BY <3>1, <3>2
    <2>9. \A k \in DOMAIN positions' : Within(positions[k].average, Paid(k))'
      BY <2>8 DEF Within
    <2> QED
      BY <2>6, <2>9 DEF AverageInv
  <1>5. CASE \E order \in Order, ticks \in Nat, market \in Nat : Sells(order, ticks, market)
    <2>1. PICK order \in Order, ticks \in Nat, market \in Nat : Sells(order, ticks, market)
      BY <1>5
    <2> DEFINE key == order.key
               sold == AfterSale(order, ticks)
    <2>2. positions' = sold /\ order.quantity <= Held(key)
      BY <2>1 DEF Sells, RecordFill
    <2>3. PICK f : /\ fills' = Append(fills, f) /\ f.cash = cash' /\ f.key = key /\ f.price = ticks
                   /\ f.positionQuantity = IF key \in DOMAIN sold THEN sold[key].quantity ELSE 0
      BY <1>1, <2>1, FillAdds DEF Sells
    <2>4. ~ (f.cash < cash)
      <3>1. SellProceeds(order.quantity, ticks) \in Nat /\ cash \in Nat
        BY <1>1, MoneyIsNatural DEF Order, TypeOK
      <3>2. cash' = cash + SellProceeds(order.quantity, ticks)
        BY <2>1, FillNames DEF Sells
      <3> QED
        BY <2>3, <3>1, <3>2
    <2>5. /\ DOMAIN sold \subseteq DOMAIN positions
          /\ \A k \in DOMAIN sold : k # key => sold[k] = positions[k]
          /\ key \in DOMAIN sold => sold[key] \in Position /\ sold[key].average = positions[key].average
      BY <1>1, <2>2, AfterSaleIsPositions, SaleKeepsAverage
    <2>6. key \in DOMAIN sold => f.positionQuantity # 0
      BY <2>3, <2>5 DEF Position
    <2> HIDE DEF sold, key
    <2>7. /\ \A k : k # key => Paid(k)' = Paid(k)
          /\ key \in DOMAIN sold => Paid(key)' = Paid(key)
          /\ \A i \in DOMAIN fills' : fills'[i].price \in Nat
      BY <1>1, <2>3, <2>4, <2>6, PaidGrows DEF AverageInv
    <2>8. ASSUME NEW k \in DOMAIN positions'
          PROVE  Within(positions'[k].average, Paid(k)')
      <3>1. /\ k \in DOMAIN positions /\ positions'[k].average = positions[k].average
            /\ Paid(k)' = Paid(k)
        BY <2>2, <2>5, <2>7
      <3> QED
        BY <3>1 DEF AverageInv
    <2>9. \A k \in DOMAIN positions' : Within(positions[k].average, Paid(k))'
      BY <2>8 DEF Within
    <2> QED
      BY <2>7, <2>9 DEF AverageInv
  <1> QED
    BY <1>1, <1>2, <1>3, <1>4, <1>5, NextCases DEF Bookkept

\* While a position is open its average cost is between the lowest and the highest
\* price paid since it was opened, whatever was sold, marked or relisted meanwhile.
THEOREM AveragesStayWithin == Spec => []AverageWithinBuys
  <1>1. Init => AverageInv
    BY DEF Init, AverageInv
  <1>2. BrokerInv /\ AverageInv /\ [Next]_vars => BrokerInv' /\ AverageInv'
    BY LedgerStep, AverageStep
  <1>3. BrokerInv /\ AverageInv => AverageWithinBuys
    <2> SUFFICES ASSUME BrokerInv, AverageInv, NEW k \in DOMAIN positions
                 PROVE  LET average == positions[k].average IN
                        /\ Min(Paid(k)) * average.den <= average.num
                        /\ average.num <= Max(Paid(k)) * average.den
      BY DEF AverageWithinBuys, Paid, Opened, Closed, Own
    <2> DEFINE num == positions[k].average.num
               den == positions[k].average.den
               prices == Paid(k)
    <2>1. num \in Nat /\ den \in Nat
      BY DEF BrokerInv, TypeOK, Position, Average
    <2>2. PICK low \in prices, high \in prices : low * den <= num /\ num <= high * den
      BY DEF AverageInv, Within
    <2>3. prices \in SUBSET Nat
      BY DEF AverageInv, Paid, Opened, Own
    <2>4. IsFiniteSet(prices)
      BY PaidIsFinite DEF BrokerInv
    <2> HIDE DEF num, den, prices
    <2>5. Min(prices) \in Nat /\ Min(prices) <= low
      BY <2>3, LeastExists
    <2>6. Max(prices) \in Nat /\ high <= Max(prices)
      <3>1. prices \in SUBSET Int /\ prices # {}
        BY <2>3
      <3>2. Max(prices) \in prices /\ \A y \in prices : y <= Max(prices)
        BY <2>4, <3>1, GreatestExists
      <3> QED
        BY <2>3, <3>2
    <2>7. /\ Min(prices) * den <= low * den /\ high * den <= Max(prices) * den
          /\ Min(prices) * den \in Nat /\ low * den \in Nat
          /\ high * den \in Nat /\ Max(prices) * den \in Nat
      <3>1. low \in Nat /\ high \in Nat
        BY <2>3
      <3> QED
        BY <2>1, <2>5, <2>6, <3>1
    <2>8. Min(prices) * den <= num /\ num <= Max(prices) * den
      BY <2>1, <2>2, <2>7
    <2> QED
      BY <2>8 DEF num, den, prices
  <1> QED
    BY InvInit, <1>1, <1>2, <1>3, PTL DEF Spec
=============================================================================
