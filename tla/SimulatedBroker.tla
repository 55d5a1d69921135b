--------------------------- MODULE SimulatedBroker ---------------------------
(***************************************************************************)
(* app/broker/simulated.py: the in-memory broker of a backtest.  It books  *)
(* positions under a position key (a security or a listing occupancy),     *)
(* never under a ticker: the ticker a position trades under may change,    *)
(* and two keys may trade under one ticker.  An order settles inside       *)
(* submit_order: it is filled at the slipped market price, or rejected.    *)
(*                                                                         *)
(* One action per method that changes state.  The key of an order stands   *)
(* for its identity (position_key_for); arguments come from the constant   *)
(* sets, so the caller of the broker is unconstrained here.                *)
(***************************************************************************)
EXTENDS Execution, Sequences, FiniteSets

CONSTANTS
    Keys,             \* position keys
    Symbols,          \* tickers
    InitialCapital,   \* opening cash, in money units
    Quotes,           \* quoted prices a caller may pass
    Marks,            \* prices in ticks a caller may mark at
    Quantities,       \* share quantities of orders
    OrderIds,         \* client order ids
    Times,            \* session times
    MaxOrders,        \* bound on the length of the order log
    NoKey             \* the booking_key argument left out

ASSUME BrokerAssumption ==
    /\ InitialCapital \in Nat /\ MaxOrders \in Nat
    /\ Quotes \subseteq Nat /\ Marks \subseteq Nat
    /\ Quantities \subseteq Nat \ {0}
    /\ NoKey \notin Keys

VARIABLES
    connected,
    cash,
    positions,         \* a function from the keys held to positions
    orders,            \* every order ever submitted, with its final status
    fills,
    marketPrices,      \* quotes of the session, a function from tickers
    sessionTime,
    totalCommission,
    totalSlippage,
    winningTrades,
    losingTrades

accountVars == <<cash, positions, fills, totalCommission, totalSlippage, winningTrades, losingTrades>>
vars == <<connected, orders, marketPrices, sessionTime, accountVars>>

\* Statuses submit_order and liquidate_at can leave, and those still open.
Settled == {"FILLED", "REJECTED"}
Open == {"CREATED", "VALIDATED", "SUBMITTED"}
Status == Settled \cup Open \cup {"CANCELLED"}

Order == [id : OrderIds, key : Keys, symbol : Symbols, side : Sides, quantity : Nat \ {0}]

\* average is the average price in ticks, as the fraction num / den.
Average == [num : Nat, den : Nat \ {0}]
Position == [symbol : Symbols, quantity : Nat \ {0}, average : Average, price : Nat, valued : BOOLEAN]

Held(key) == IF key \in DOMAIN positions THEN positions[key].quantity ELSE 0

Init ==
    /\ connected = FALSE
    /\ cash = InitialCapital
    /\ positions = << >>
    /\ orders = << >>
    /\ fills = << >>
    /\ marketPrices = << >>
    /\ sessionTime \in Times
    /\ totalCommission = 0 /\ totalSlippage = 0
    /\ winningTrades = 0 /\ losingTrades = 0

Connect == connected' = TRUE /\ UNCHANGED <<orders, marketPrices, sessionTime, accountVars>>
Disconnect == connected' = FALSE /\ UNCHANGED <<orders, marketPrices, sessionTime, accountVars>>

SetMarketPrices(prices, time) ==
    /\ marketPrices' = prices
    /\ sessionTime' = time
    /\ UNCHANGED <<connected, orders, accountVars>>

------------------------------------------------------------------------------
(* Valuation and listing changes: no cash, no shares.                       *)

MovePositions(new) ==
    /\ positions' = new
    /\ UNCHANGED <<connected, cash, orders, fills, marketPrices, sessionTime,
                   totalCommission, totalSlippage, winningTrades, losingTrades>>

\* listings: the ticker each key trades under from now on, for some of the keys.
RetargetListings(listings) ==
    MovePositions([k \in DOMAIN positions |->
        IF k \in DOMAIN listings THEN [positions[k] EXCEPT !.symbol = listings[k]]
                                 ELSE positions[k]])

\* Marked prices are looked up by ticker; a ticker without one keeps its last
\* price.  An unvalued ticker keeps its last price too but counts for nothing.
Marked(position, prices, unvalued) ==
    IF position.symbol \in unvalued THEN [position EXCEPT !.valued = FALSE]
    ELSE [position EXCEPT !.valued = TRUE,
                          !.price = IF position.symbol \in DOMAIN prices
                                    THEN prices[position.symbol] ELSE @]

MarkToMarket(prices, unvalued) ==
    MovePositions([k \in DOMAIN positions |-> Marked(positions[k], prices, unvalued)])

------------------------------------------------------------------------------
(* Orders.                                                                  *)

LogOrder(order, status) ==
    /\ Len(orders) < MaxOrders
    /\ orders' = Append(orders, [order |-> order, status |-> status])

\* Mutations: a refused order stays open; its commission is added up anyway.
RejectCharged(order) ==
    /\ LogOrder(order, "REJECTED")
    /\ totalCommission' = totalCommission + CommissionOn(order.quantity, Quoted(1))
    /\ UNCHANGED <<connected, marketPrices, sessionTime, cash, positions, fills,
                   totalSlippage, winningTrades, losingTrades>>

Reject(order) ==
    /\ LogOrder(order, "REJECTED")
    /\ UNCHANGED <<connected, marketPrices, sessionTime, accountVars>>

\* The account value a fill reports.
ValueAfter(money, newPositions) == Equity(cash + money, newPositions)

\* Everything a fill books: cash, the position, the fill with the account as it
\* is after the trade, and the running totals.  newPositions already holds it.
RecordFill(order, ticks, market, money, newPositions) ==
    LET slippage == (IF ticks > market THEN ticks - market ELSE market - ticks)
                        * order.quantity * RateDivisor
        commission == CommissionOn(order.quantity, ticks)
    IN  /\ cash' = cash + money
        /\ positions' = newPositions
        /\ fills' = Append(fills,
               [id |-> order.id, key |-> order.key, symbol |-> order.symbol,
                quantity |-> order.quantity, price |-> ticks,
                commission |-> commission, slippage |-> slippage,
                cash |-> cash', time |-> sessionTime', marketPrice |-> market,
                positionQuantity |-> IF order.key \in DOMAIN newPositions
                                     THEN newPositions[order.key].quantity ELSE 0,
                portfolioValue |-> ValueAfter(money, newPositions)])
        /\ totalCommission' = totalCommission + commission
        /\ totalSlippage' = totalSlippage + slippage

\* The position after buying: the average price is weighted by shares, and the
\* whole position is valued at the price of this fill.
Bought(order, ticks) ==
    [symbol |-> order.symbol, price |-> ticks, valued |-> TRUE,
     quantity |-> Held(order.key) + order.quantity,
     average |-> IF order.key \notin DOMAIN positions THEN [num |-> ticks, den |-> 1]
                 ELSE LET held == positions[order.key] IN
                      [num |-> held.quantity * held.average.num
                                 + order.quantity * ticks * held.average.den,
                       den |-> held.average.den * (held.quantity + order.quantity)]]

\* Mutation: the cash of the account is not looked at.
FillBuyUnfunded(order, ticks, market) ==
    /\ LogOrder(order, "FILLED")
    /\ RecordFill(order, ticks, market, -BuyCost(order.quantity, ticks),
           [k \in DOMAIN positions \cup {order.key} |->
               IF k = order.key THEN Bought(order, ticks) ELSE positions[k]])
    /\ UNCHANGED <<connected, marketPrices, winningTrades, losingTrades>>

FillBuy(order, ticks, market) ==
    IF BuyCost(order.quantity, ticks) > cash
    THEN Reject(order)
    ELSE /\ LogOrder(order, "FILLED")
         /\ RecordFill(order, ticks, market, -BuyCost(order.quantity, ticks),
                [k \in DOMAIN positions \cup {order.key} |->
                    IF k = order.key THEN Bought(order, ticks) ELSE positions[k]])
         /\ UNCHANGED <<connected, marketPrices, winningTrades, losingTrades>>

\* Mutations: a position without shares stays on the books; a sale resets the cost.
AfterSaleKept(order, ticks) ==
    [positions EXCEPT ![order.key].quantity = @ - order.quantity]
AfterSaleRecosted(order, ticks) ==
    IF order.quantity = positions[order.key].quantity
    THEN [k \in DOMAIN positions \ {order.key} |-> positions[k]]
    ELSE [positions EXCEPT ![order.key].quantity = @ - order.quantity,
                           ![order.key].average = [num |-> ticks, den |-> 1]]

\* The positions after selling: the key is forgotten when no share is left.
AfterSale(order, ticks) ==
    IF order.quantity = positions[order.key].quantity
    THEN [k \in DOMAIN positions \ {order.key} |-> positions[k]]
    ELSE LET held == positions[order.key] IN
         [positions EXCEPT ![order.key] =
             [held EXCEPT !.symbol = order.symbol, !.price = ticks,
                          !.quantity = held.quantity - order.quantity]]

FillSell(order, ticks, market) ==
    IF order.quantity > Held(order.key)
    THEN Reject(order)
    ELSE LET average == positions[order.key].average IN
         /\ LogOrder(order, "FILLED")
         /\ winningTrades' = winningTrades + (IF ticks * average.den > average.num THEN 1 ELSE 0)
         /\ losingTrades' = losingTrades + (IF ticks * average.den < average.num THEN 1 ELSE 0)
         /\ RecordFill(order, ticks, market, SellProceeds(order.quantity, ticks),
                       AfterSale(order, ticks))
         /\ UNCHANGED <<connected, marketPrices>>

\* No session is open to trade in: disconnected, or no usable quote.
NotTradable(order) ==
    \/ ~connected
    \/ order.symbol \notin DOMAIN marketPrices
    \/ marketPrices[order.symbol] <= 0

SubmitOrder(order) ==
    /\ sessionTime' = sessionTime
    /\ IF NotTradable(order)
       THEN Reject(order)
       ELSE LET quote == marketPrices[order.symbol]
                ticks == ApplySlippage(order.side, quote)
            IN  IF order.side = "BUY" THEN FillBuy(order, ticks, Quoted(quote))
                                      ELSE FillSell(order, ticks, Quoted(quote))

\* Mutation: the booking key is ignored, the ticker decides.
BookedByTicker(symbol, key) ==
    LET under == {k \in DOMAIN positions : positions[k].symbol = symbol} IN
    IF Cardinality(under) = 1 THEN under ELSE {}

\* The position liquidate_at means: the booking key, or the only one under the ticker.
Booked(symbol, key) ==
    LET under == {k \in DOMAIN positions : positions[k].symbol = symbol} IN
    IF key # NoKey THEN {key} \cap DOMAIN positions
    ELSE IF Cardinality(under) = 1 THEN under ELSE {}

\* Sell a whole position at the given price, without slippage.  It works while
\* disconnected, and only for a position it can find and a positive price.
LiquidateAt(symbol, price, time, id, key) ==
    /\ price > 0
    /\ \E k \in Booked(symbol, key) :
          /\ sessionTime' = time
          /\ FillSell([id |-> id, key |-> k, symbol |-> positions[k].symbol,
                       side |-> "SELL", quantity |-> positions[k].quantity],
                      Quoted(price), Quoted(price))

\* Cancels every open order of that id.  get_order_status reads the last one.
CancelOrder(id) ==
    /\ orders' = [i \in DOMAIN orders |->
                    IF orders[i].order.id = id /\ orders[i].status \in Open
                    THEN [orders[i] EXCEPT !.status = "CANCELLED"] ELSE orders[i]]
    /\ UNCHANGED <<connected, marketPrices, sessionTime, accountVars>>

OrderStatus(id) ==
    LET same == {i \in DOMAIN orders : orders[i].order.id = id} IN
    IF same = {} THEN "FAILED" ELSE orders[Max(same)].status

------------------------------------------------------------------------------
PartialFunctions(S, T) == UNION {[D -> T] : D \in SUBSET S}

Next ==
    \/ Connect
    \/ Disconnect
    \/ \E prices \in PartialFunctions(Symbols, Quotes), time \in Times : SetMarketPrices(prices, time)
    \/ \E listings \in PartialFunctions(Keys, Symbols) : RetargetListings(listings)
    \/ \E prices \in PartialFunctions(Symbols, Marks), unvalued \in SUBSET Symbols :
          MarkToMarket(prices, unvalued)
    \/ \E order \in [id : OrderIds, key : Keys, symbol : Symbols, side : Sides, quantity : Quantities] :
          SubmitOrder(order)
    \/ \E symbol \in Symbols, price \in Quotes, time \in Times, id \in OrderIds,
          key \in Keys \cup {NoKey} : LiquidateAt(symbol, price, time, id, key)
    \/ \E id \in OrderIds : CancelOrder(id)

Spec == Init /\ [][Next]_vars

------------------------------------------------------------------------------
(* Properties.                                                              *)

\* The account never overdraws, a key is held only with shares in it, and every
\* variable stays in its range.  The fields of a fill are typed by FillsChain.
TypeOK ==
    /\ connected \in BOOLEAN
    /\ cash \in Nat
    /\ DOMAIN positions \subseteq Keys
    /\ positions \in [DOMAIN positions -> Position]
    /\ orders \in Seq([order : Order, status : Status])
    /\ DOMAIN marketPrices \subseteq Symbols
    /\ marketPrices \in [DOMAIN marketPrices -> Quotes]
    /\ sessionTime \in Times
    /\ totalCommission \in Nat /\ totalSlippage \in Nat
    /\ winningTrades \in Nat /\ losingTrades \in Nat

\* The shares a fill moved and the money it moved, read off the fill alone: the
\* Fill record has no side, so it is told by the cash and quantity around it.
CashBefore(i) == IF i = 1 THEN InitialCapital ELSE fills[i - 1].cash
QuantityBefore(i) ==
    LET earlier == {j \in 1 .. i - 1 : fills[j].key = fills[i].key} IN
    IF earlier = {} THEN 0 ELSE fills[Max(earlier)].positionQuantity

\* While a position is open its average price lies between the lowest and the
\* highest price it was bought at since it was opened: partial sales, marks and
\* a change of ticker leave the cost basis alone.
AverageWithinBuys ==
    \A k \in DOMAIN positions :
        LET own == {i \in DOMAIN fills : fills[i].key = k}
            closed == {i \in own : fills[i].positionQuantity = 0}
            opened == IF closed = {} THEN own ELSE {i \in own : i > Max(closed)}
            bought == {fills[i].price : i \in {j \in opened : fills[j].cash < CashBefore(j)}}
            average == positions[k].average
        IN  /\ Min(bought) * average.den <= average.num
            /\ average.num <= Max(bought) * average.den

\* The totals of the report are the sums over the fills, and a trade counts as won
\* or lost only if it was a sale.
TotalsMatchFills ==
    /\ totalCommission = MapThenSumSet(LAMBDA i : fills[i].commission, DOMAIN fills)
    /\ totalSlippage = MapThenSumSet(LAMBDA i : fills[i].slippage, DOMAIN fills)
    /\ winningTrades + losingTrades <= Cardinality({i \in DOMAIN fills : fills[i].cash >= CashBefore(i)})

\* The broker is an account in the sense of TradeLedger: cash, holdings and fills
\* move together, one trade at a time, and nothing else moves any of them.
Journal ==
    [i \in DOMAIN fills |->
        [key |-> fills[i].key,
         shares |-> IF fills[i].cash < CashBefore(i) THEN fills[i].quantity ELSE -fills[i].quantity,
         money |-> fills[i].cash - CashBefore(i)]]
Ledger == INSTANCE TradeLedger WITH holdings <- [k \in Keys |-> Held(k)], journal <- Journal
LedgerSpec == Ledger!Spec
=============================================================================
