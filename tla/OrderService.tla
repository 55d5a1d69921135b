----------------------------- MODULE OrderService -----------------------------
(***************************************************************************)
(* app/application/order_service.py, create_orders_from_targets: the       *)
(* orders that move an account to a target, sized for the slipped price    *)
(* and cut to the cash that the sales will leave.  Sales are listed first, *)
(* then the buys, each in key order.                                       *)
(*                                                                         *)
(* A target is [count, listing]: `count' names are wanted with equal       *)
(* weights 1/count (PortfolioService), and `listing' gives the ticker each *)
(* wanted position key trades under.  Two names of one key count twice and *)
(* fill one slot.  Keys are naturals in the order their strings sort.      *)
(*                                                                         *)
(* One action per loop iteration: Size does the first loop, TakeSale and   *)
(* GrantBuy one turn of the second and of the third.                       *)
(***************************************************************************)
EXTENDS Execution, Sequences, FiniteSets

CONSTANTS
    Keys, Symbols,
    MinTradeValue,    \* min_trade_value, in money units
    Accounts          \* the calls: records [cash, positions, target, opens]

ASSUME OrderServiceAssumption == Keys \subseteq Nat /\ MinTradeValue \in Nat

\* Calls are made on long-only accounts of finitely many positions, at prices that
\* are never negative.
ASSUME AccountAssumption ==
    \A call \in Accounts :
        /\ call.cash \in Nat
        /\ DOMAIN call.positions \subseteq Keys /\ IsFiniteSet(DOMAIN call.positions)
        /\ \A k \in DOMAIN call.positions :
              /\ call.positions[k].quantity \in Nat /\ call.positions[k].price \in Nat
              /\ call.positions[k].valued \in BOOLEAN
        /\ DOMAIN call.target.listing \subseteq Keys
        /\ DOMAIN call.target.listing # {} => call.target.count \in Nat \ {0}
        /\ \A s \in DOMAIN call.opens : call.opens[s] \in Nat

\* The engine retargets listings and marks the account before it calls: a held key
\* trades under one ticker, and where that has an open it is the price of the position.
ASSUME MarkedAssumption ==
    \A call \in Accounts : \A k \in DOMAIN call.positions :
        LET held == call.positions[k] IN
        /\ k \in DOMAIN call.target.listing => call.target.listing[k] = held.symbol
        /\ held.symbol \in DOMAIN call.opens =>
               held.valued /\ held.price = Quoted(call.opens[held.symbol])

VARIABLES
    cash, positions, target, opens, session,   \* the arguments of the call
    stage,       \* "order" (called), "grant" (intents known), "submit" (returned)
    delta,       \* shares each booked key lacks (< 0: has too many), until listed
    projected,   \* projected_cash
    queue        \* the orders listed so far

arguments == <<cash, positions, target, opens, session>>
vars == <<arguments, stage, delta, projected, queue>>

Distance(x, y) == IF x >= y THEN x - y ELSE y - x
Least(x, y) == IF x <= y THEN x ELSE y

\* Mutation: only what the target wants is booked.
WantedKeys == DOMAIN target.listing

BookedKeys == DOMAIN positions \cup DOMAIN target.listing

\* What is booked under a key: shares and value held, and whether it is wanted.  A
\* wanted key trades under the ticker of the target, the others under their own.
Slot(k) ==
    [symbol   |-> IF k \in DOMAIN target.listing THEN target.listing[k] ELSE positions[k].symbol,
     quantity |-> IF k \in DOMAIN positions THEN positions[k].quantity ELSE 0,
     value    |-> IF k \in DOMAIN positions THEN MarketValue(positions[k]) ELSE 0,
     wanted   |-> k \in DOMAIN target.listing]

\* The target value of a slot is Aim / Parts: equity / count if wanted, else 0.
Parts(slot) == IF slot.wanted THEN target.count ELSE 1
Aim(slot) == IF slot.wanted THEN Equity(cash, positions) ELSE 0

\* Mutation: however near the target a slot is, it is traded.
UnpricedOnly(slot) == slot.symbol \notin DOMAIN opens \/ opens[slot.symbol] <= 0

\* No usable open, or too near the target: the slot is left alone.
LeftAlone(slot) ==
    \/ slot.symbol \notin DOMAIN opens
    \/ opens[slot.symbol] <= 0
    \/ Distance(Aim(slot), Parts(slot) * slot.value) < Parts(slot) * MinTradeValue

\* The target is sized at the price of the side it suggests, which is not always
\* the direction the trade then takes.
Delta(slot) ==
    LET side == IF Aim(slot) >= Parts(slot) * slot.value THEN "BUY" ELSE "SELL"
        ticks == ApplySlippage(side, opens[slot.symbol])
    IN  IF LeftAlone(slot) \/ ticks <= 0 THEN 0
        ELSE Aim(slot) \div (Parts(slot) * ticks * RateDivisor) - slot.quantity

\* Mutation: the commission is left out of what a share costs.
SharesBeforeFee(money, ticks) ==
    IF ticks <= 0 \/ money <= 0 THEN 0 ELSE money \div (ticks * RateDivisor)

\* How many shares the cash buys, commission included.
MaxSharesForCash(money, ticks) ==
    IF ticks <= 0 \/ money <= 0 THEN 0 ELSE money \div (ticks * (RateDivisor + CommissionRate))

\* Mutation: a buy that the cash cannot pay in full is dropped, not cut.
AllOrNothing(k) ==
    IF delta[k] > MaxSharesForCash(projected, ApplySlippage("BUY", opens[Slot(k).symbol]))
    THEN 0 ELSE delta[k]

\* The shares of a wanted buy the projected cash can pay for, if worth a trade.
Granted(k) ==
    LET ticks == ApplySlippage("BUY", opens[Slot(k).symbol])
        quantity == Least(delta[k], MaxSharesForCash(projected, ticks))
    IN  IF TradeValue(quantity, ticks) < MinTradeValue THEN 0 ELSE quantity

\* client_order_id is the session and the place in the list.
MarketOrder(k, side, quantity) ==
    [id |-> <<session, "ORDER", Len(queue) + 1>>, key |-> k,
     symbol |-> Slot(k).symbol, side |-> side, quantity |-> quantity]

Listed(k, side, quantity) ==
    /\ delta' = [j \in DOMAIN delta \ {k} |-> delta[j]]
    /\ queue' = IF quantity > 0 THEN Append(queue, MarketOrder(k, side, quantity)) ELSE queue

Init ==
    /\ \E call \in Accounts :
          /\ cash = call.cash /\ positions = call.positions
          /\ target = call.target /\ opens = call.opens
    /\ session = 1 /\ stage = "order"
    /\ delta = << >> /\ projected = 0 /\ queue = << >>

Size ==
    /\ stage = "order" /\ stage' = "grant"
    /\ delta' = [k \in BookedKeys |-> Delta(Slot(k))]
    /\ projected' = cash
    /\ queue' = << >>
    /\ UNCHANGED arguments

TooMany == {k \in DOMAIN delta : delta[k] < 0}
TooFew == {k \in DOMAIN delta : delta[k] > 0}

\* Mutation: the shares to keep are rounded down once too often.
OneShareMore(k) == 1 - delta[k]

SaleSize(k) == Least(-delta[k], Slot(k).quantity)

TakeSale ==
    /\ stage = "grant" /\ TooMany # {}
    /\ LET k == Min(TooMany) IN
       /\ Listed(k, "SELL", SaleSize(k))
       /\ projected' = projected
            + SellProceeds(SaleSize(k), ApplySlippage("SELL", opens[Slot(k).symbol]))
    /\ UNCHANGED <<arguments, stage>>

GrantBuy ==
    /\ stage = "grant" /\ TooMany = {} /\ TooFew # {}
    /\ LET k == Min(TooFew) IN
       /\ Listed(k, "BUY", Granted(k))
       /\ projected' = projected
            - BuyCost(Granted(k), ApplySlippage("BUY", opens[Slot(k).symbol]))
    /\ UNCHANGED <<arguments, stage>>

Return ==
    /\ stage = "grant" /\ TooMany = {} /\ TooFew = {}
    /\ stage' = "submit" /\ delta' = << >>
    /\ UNCHANGED <<arguments, projected, queue>>

Next == Size \/ TakeSale \/ GrantBuy \/ Return

Spec == Init /\ [][Next]_vars /\ WF_vars(Next)

------------------------------------------------------------------------------
(* Properties.                                                              *)

\* What an order does to cash when it fills at the slipped open.
Money(order) ==
    LET ticks == ApplySlippage(order.side, opens[order.symbol]) IN
    IF order.side = "BUY" THEN -BuyCost(order.quantity, ticks)
                          ELSE SellProceeds(order.quantity, ticks)
CashAfter(i) == cash + MapThenSumSet(LAMBDA j : Money(queue[j]), 1 .. i)

\* The projection is what executing the list will do: filled in order, no prefix of
\* it overdraws the account, and the projected cash is what the last fill leaves.
ListAffordable ==
    stage # "order" =>
        /\ projected = CashAfter(Len(queue))
        /\ \A i \in 0 .. Len(queue) : CashAfter(i) >= 0

\* What a trade leaves under a key is not over its target at the lower, sale price;
\* and a sale does not cut too deep: with one share more, at the higher, buy price,
\* the key would be over its target.
WithinTarget ==
    \A i \in DOMAIN queue :
        LET slot == Slot(queue[i].key)
            worth(quantity, side) ==
                Parts(slot) * TradeValue(quantity, ApplySlippage(side, opens[slot.symbol]))
        IN  IF queue[i].side = "BUY"
            THEN worth(slot.quantity + queue[i].quantity, "SELL") <= Aim(slot)
            ELSE /\ worth(slot.quantity - queue[i].quantity, "SELL") <= Aim(slot)
                 /\ worth(slot.quantity - queue[i].quantity + 1, "BUY") > Aim(slot)

\* A slot whose gap is worth trading is left without an order only if it already
\* holds the whole shares its target is sized to, or if the cash ran out.
GapsTraded ==
    stage = "submit" =>
        \A k \in BookedKeys :
            \/ \E i \in DOMAIN queue : queue[i].key = k
            \/ Delta(Slot(k)) = 0
            \/ LET ticks == ApplySlippage("BUY", opens[Slot(k).symbol]) IN
               \/ projected < BuyCost(1, ticks)
               \/ TradeValue(MaxSharesForCash(projected, ticks), ticks) < MinTradeValue
               \/ TradeValue(Delta(Slot(k)), ticks) < MinTradeValue

\* Trades go toward the target wherever slippage on the holding is worth less than a
\* minimum trade.  (Beyond that a holding under its target can be sold, and one over
\* it bought, because the target is sized at the slipped price.)
TowardTarget ==
    \A i \in DOMAIN queue :
        LET slot == Slot(queue[i].key) IN
        SlippageBps * slot.value <= BpsDivisor * MinTradeValue =>
            (queue[i].side = "BUY" <=> Aim(slot) > Parts(slot) * slot.value)
=============================================================================
