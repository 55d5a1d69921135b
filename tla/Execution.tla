------------------------------ MODULE Execution ------------------------------
(***************************************************************************)
(* Fill arithmetic of the simulated venue (app/domain/execution.py) and    *)
(* the valuation of a portfolio (app/domain/models/position.py,            *)
(* portfolio.py).                                                          *)
(*                                                                         *)
(* The code computes with Decimals.  Here every amount is an exact integer *)
(* in a unit small enough that no slippage or commission is a fraction:    *)
(*   a quoted price   : a natural number                                   *)
(*   a price in ticks : quoted price * BpsDivisor                          *)
(*   money            : shares * ticks * RateDivisor                       *)
(***************************************************************************)
EXTENDS Integers, FiniteSetsExt

CONSTANTS
    SlippageBps,      \* slippage, in BpsDivisor-ths of the quoted price
    BpsDivisor,       \* BPS_DIVISOR, 10000 in the code
    CommissionRate,   \* commission, in RateDivisor-ths of the trade value
    RateDivisor

\* The configuration rejects negative rates.  The upper bounds are the sane
\* range: beyond them a sale would be priced below zero or cost its seller cash.
ASSUME ExecutionAssumption ==
    /\ BpsDivisor \in Nat \ {0} /\ SlippageBps \in 0 .. BpsDivisor
    /\ RateDivisor \in Nat \ {0} /\ CommissionRate \in 0 .. RateDivisor

Sides == {"BUY", "SELL"}

\* A quoted price in ticks, with no slippage.
Quoted(price) == price * BpsDivisor

\* The simulated fill price, in ticks: above the quote for a buy, below it for a sale.
ApplySlippage(side, price) ==
    IF side = "BUY" THEN price * (BpsDivisor + SlippageBps)
                    ELSE price * (BpsDivisor - SlippageBps)

TradeValue(quantity, ticks) == quantity * ticks * RateDivisor

CommissionOn(quantity, ticks) == quantity * ticks * CommissionRate

\* Cash a buy takes out of the account, and cash a sale puts into it.
BuyCost(quantity, ticks) == quantity * ticks * (RateDivisor + CommissionRate)
SellProceeds(quantity, ticks) == quantity * ticks * (RateDivisor - CommissionRate)

\* An unvalued position counts for nothing, whatever its last price was.
MarketValue(position) ==
    IF position.valued THEN TradeValue(position.quantity, position.price) ELSE 0

Equity(cash, positions) ==
    cash + MapThenSumSet(LAMBDA key : MarketValue(positions[key]), DOMAIN positions)
=============================================================================
