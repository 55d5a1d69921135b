---------------------------- MODULE BacktestEngine ----------------------------
(***************************************************************************)
(* app/backtest/engine.py: the session loop of BacktestEngine.run, driving *)
(* the SimulatedBroker with the orders of the OrderService.                *)
(*                                                                         *)
(* One pass of the loop is one session: realize known terminations; at the *)
(* open, execute the target queued by the last rebalance; mark at the      *)
(* close; record equity; and on a rebalance date choose the next target.   *)
(* Every call the loop makes is a step of its own (the order service takes *)
(* several), so the invariants hold between any two calls.                 *)
(*                                                                         *)
(* A scenario is everything a run is given: the bars loaded per ticker,    *)
(* which position key a ticker resolves to on each session, which          *)
(* securities are known to be DELISTED, which series failed the price or   *)
(* identity checks, and the rebalance dates.  The strategy is free: it may *)
(* select any names whose usable series has begun.                         *)
(***************************************************************************)
EXTENDS Execution, Sequences, FiniteSets

CONSTANTS
    Keys, Symbols,
    InitialCapital,
    LastSession,      \* performance sessions are 1 .. LastSession
    TopN,             \* most names the strategy selects
    MinTradeValue,
    Scenarios,
    NoBar, NoTarget,
    Quotes, Marks, Quantities, OrderIds, MaxOrders, NoKey

Sessions == 1 .. LastSession

ASSUME EngineAssumption ==
    /\ Keys \subseteq Nat /\ NoKey \notin Keys
    /\ IsFiniteSet(Symbols)
    /\ InitialCapital \in Nat \ {0}
    /\ LastSession \in Nat \ {0} /\ TopN \in Nat /\ MinTradeValue \in Nat
    /\ \A w \in Scenarios :
          /\ \A s \in Symbols, t \in Sessions :
                w.tape[s][t] = NoBar \/ (w.tape[s][t].open \in Nat /\ w.tape[s][t].close \in Nat)
          /\ \A t \in Sessions : \E s \in Symbols : w.tape[s][t] # NoBar
          /\ \A s \in Symbols, t \in Sessions : w.keyOf[s][t] \in Keys
          /\ w.delisted \subseteq Keys
          /\ w.unusable \subseteq Symbols
          /\ w.rebalance \subseteq Sessions

VARIABLES
    world,            \* the scenario of this run, fixed
    phase,            \* where in the loop body the run is
    session,          \* the session of the loop
    target,           \* pending_target, or NoTarget
    delta, projected, \* where the order service is in its call
    queue,            \* orders created for this session and not yet submitted
    submitted,        \* orders of the result, with their status
    equityCurve,
    peakEquity,
    unvaluedSymbols,  \* tickers reported as left unvalued
    connected, cash, positions, orders, fills, marketPrices, sessionTime,
    totalCommission, totalSlippage, winningTrades, losingTrades

Broker == INSTANCE SimulatedBroker WITH Times <- 0 .. LastSession

brokerVars == <<connected, cash, positions, orders, fills, marketPrices, sessionTime,
                totalCommission, totalSlippage, winningTrades, losingTrades>>
sizing == <<delta, projected, queue>>
results == <<submitted, equityCurve, peakEquity, unvaluedSymbols>>
vars == <<world, phase, session, target, sizing, results, brokerVars>>

------------------------------------------------------------------------------
(* Market data as the loop sees it.                                         *)

HasBar(s) == world.tape[s][session] # NoBar
Tradable == {s \in Symbols : HasBar(s) /\ s \notin world.unusable}
\* Mutation: the session is traded at its own close.
OpensAtClose == [s \in Tradable |-> world.tape[s][session].close]

Opens == [s \in Tradable |-> world.tape[s][session].open]
Closes == [s \in Tradable |-> world.tape[s][session].close]

Orders == INSTANCE OrderService WITH opens <- Opens, stage <- phase, Accounts <- {}

\* Taken over the whole loaded series, unusable ones and later sessions included.
BarSessions(s) == {t \in Sessions : world.tape[s][t] # NoBar}
\* Mutation: only the bars up to this session count.
LastBarSoFar(s) == Max({0} \cup {t \in BarSessions(s) : t <= session})

LastBar(s) == IF BarSessions(s) = {} THEN 0 ELSE Max(BarSessions(s))
LastClose(s) == world.tape[s][LastBar(s)].close

\* The tape of a ticker has stopped before this session (or was never loaded).
Ended(s) == LastBar(s) < session
EndedSymbols == {s \in Symbols : Ended(s) /\ \E k \in DOMAIN positions : positions[k].symbol = s}

\* Mutation: any series that ends is a termination.
AnyEnd(s) == BarSessions(s) # {} /\ Ended(s)

\* Only a security known as DELISTED on its last bar has really ended.
KnownTermination(s) ==
    /\ BarSessions(s) # {} /\ Ended(s)
    /\ world.keyOf[s][LastBar(s)] \in world.delisted

------------------------------------------------------------------------------
Init ==
    /\ world \in Scenarios
    /\ phase = "connect" /\ session = 1
    /\ target = NoTarget
    /\ delta = << >> /\ projected = 0 /\ queue = << >>
    /\ submitted = << >> /\ equityCurve = << >>
    /\ peakEquity = InitialCapital
    /\ unvaluedSymbols = {}
    /\ Broker!Init /\ sessionTime = 0

Go(next) == phase' = next

Connect ==
    /\ phase = "connect" /\ Go("terminate")
    /\ Broker!Connect
    /\ UNCHANGED <<world, session, target, sizing, results>>

\* A position of a known ended listing is sold at the last quoted close, if the broker
\* finds it.
Terminable(k) ==
    LET s == positions[k].symbol IN
    KnownTermination(s) /\ LastClose(s) > 0 /\ Broker!Booked(s, k) # {}

TerminationId(s) == <<session, "TERM", s>>

Terminate(k) ==
    /\ phase = "terminate" /\ Terminable(k)
    /\ LET s == positions[k].symbol IN
       Broker!LiquidateAt(s, LastClose(s), session, TerminationId(s), k)
    /\ submitted' = Append(submitted, orders'[Len(orders')])
    /\ UNCHANGED <<world, phase, session, target, sizing, equityCurve, peakEquity, unvaluedSymbols>>

TerminationsDone ==
    /\ phase = "terminate"
    /\ ~\E k \in DOMAIN positions : Terminable(k)
    /\ Go(IF target = NoTarget THEN "close" ELSE "retarget")
    /\ UNCHANGED <<world, session, target, sizing, results>>
    /\ UNCHANGED brokerVars

\* Held keys the target wants trade under the target's tickers from now on.
Retarget ==
    /\ phase = "retarget" /\ Go("quote")
    /\ Broker!RetargetListings(target.listing)
    /\ UNCHANGED <<world, session, target, sizing, results>>

QuoteOpens ==
    /\ phase = "quote" /\ Go("markOpen")
    /\ Broker!SetMarketPrices(Opens, session)
    /\ UNCHANGED <<world, session, target, sizing, results>>

MarkAtOpen ==
    /\ phase = "markOpen" /\ Go("order")
    /\ Broker!MarkToMarket([s \in Tradable |-> Quoted(Opens[s])], EndedSymbols)
    /\ UNCHANGED <<world, session, target, sizing, results>>

\* create_orders_from_targets, on the account as it is marked at the open.
OrderStep(step) ==
    /\ UNCHANGED <<world, session, results, brokerVars>>
    /\ step

\* RiskManager.validate: no sale of more than is held under the order's key.
RiskAllows(order) ==
    order.side = "SELL" =>
        order.quantity <= IF order.key \in DOMAIN positions THEN positions[order.key].quantity ELSE 0

\* An order the risk manager refuses is reported but never reaches the broker.
SubmitNext ==
    /\ phase = "submit" /\ queue # << >>
    /\ LET order == Head(queue) IN
       IF RiskAllows(order)
       THEN /\ Broker!SubmitOrder(order)
            /\ submitted' = Append(submitted, orders'[Len(orders')])
       ELSE /\ submitted' = Append(submitted, [order |-> order, status |-> "REJECTED"])
            /\ UNCHANGED brokerVars
    /\ queue' = Tail(queue)
    /\ UNCHANGED <<world, phase, session, target, delta, projected, equityCurve, peakEquity, unvaluedSymbols>>

SubmissionsDone ==
    /\ phase = "submit" /\ queue = << >>
    /\ target' = NoTarget /\ Go("close")
    /\ UNCHANGED <<world, session, sizing, results>>
    /\ UNCHANGED brokerVars

\* A held ticker with no close today is unvalued if its tape has stopped, and is
\* otherwise carried at the last price of (the first of) its positions.
ApplyCloseMarks ==
    /\ phase = "close" /\ Go("record")
    /\ LET silent == {positions[k].symbol : k \in DOMAIN positions} \ Tradable
           ended == {s \in silent : Ended(s)}
           carried == silent \ ended
       IN  /\ \E carry \in [carried -> DOMAIN positions] :
                 /\ \A s \in carried : positions[carry[s]].symbol = s
                 /\ Broker!MarkToMarket([s \in Tradable \cup carried |->
                        IF s \in Tradable THEN Quoted(Closes[s]) ELSE positions[carry[s]].price], ended)
           /\ unvaluedSymbols' = unvaluedSymbols \cup ended
    /\ UNCHANGED <<world, session, target, sizing, submitted, equityCurve, peakEquity>>

Peak(equity) == IF equity > peakEquity THEN equity ELSE peakEquity

\* The equity point, with the peak its drawdown is measured from.
RecordEquity ==
    /\ phase = "record"
    /\ LET equity == Equity(cash, positions) IN
       /\ peakEquity' = Peak(equity)
       /\ equityCurve' = Append(equityCurve,
              [session |-> session, equity |-> equity, cash |-> cash, peak |-> peakEquity'])
    /\ Go(IF session \in world.rebalance THEN "signal" ELSE "next")
    /\ UNCHANGED <<world, session, target, sizing, submitted, unvaluedSymbols>>
    /\ UNCHANGED brokerVars

\* Names with a usable series that has begun by this session, dead ones included.
Eligible == {s \in Symbols \ world.unusable : \E t \in BarSessions(s) : t <= session}

\* Any selection of them is queued at equal weights, booked under the keys their
\* tickers resolve to today.
Signal ==
    /\ phase = "signal" /\ Go("next")
    /\ \E picks \in {p \in SUBSET Eligible : Cardinality(p) <= TopN} :
          LET keys == {world.keyOf[s][session] : s \in picks} IN
          \E listing \in [keys -> picks] :
             /\ \A k \in keys : world.keyOf[listing[k]][session] = k
             /\ target' = [count |-> Cardinality(picks), listing |-> listing]
    /\ UNCHANGED <<world, session, sizing, results>>
    /\ UNCHANGED brokerVars

NextSession ==
    /\ phase = "next"
    /\ IF session = LastSession
       THEN Go("done") /\ session' = session
       ELSE Go("terminate") /\ session' = session + 1
    /\ UNCHANGED <<world, target, sizing, results>>
    /\ UNCHANGED brokerVars

Next ==
    \/ Connect
    \/ \E k \in DOMAIN positions : Terminate(k)
    \/ TerminationsDone
    \/ Retarget \/ QuoteOpens \/ MarkAtOpen
    \/ OrderStep(Orders!Size) \/ OrderStep(Orders!TakeSale)
    \/ OrderStep(Orders!GrantBuy) \/ OrderStep(Orders!Return)
    \/ SubmitNext \/ SubmissionsDone
    \/ ApplyCloseMarks \/ RecordEquity \/ Signal \/ NextSession

\* The loop is a sequential program: it keeps running while it can.
Spec == Init /\ [][Next]_vars /\ WF_vars(Next)

------------------------------------------------------------------------------
(* Properties.                                                              *)

Phases == {"connect", "terminate", "retarget", "quote", "markOpen", "order", "grant", "submit",
           "close", "record", "signal", "next", "done"}

\* Every order the engine submits is filled.  The order service projects cash from
\* its own copy of the costs, and sizes from an account marked at the open; the risk
\* manager and the broker then judge each order against the account as the earlier
\* fills left it.  No order of the list is stranded by the ones before it.
EveryOrderFills == \A i \in DOMAIN submitted : submitted[i].status = "FILLED"

\* A market order fills only in the session right after a rebalance, at the slipped
\* open of a usable bar of that session, never on the session that chose it
\* (test_fills_never_occur_on_signal_dates, test_every_fill_uses_next_open_with_slippage).
FillsAtNextOpen ==
    [][(fills' # fills /\ phase = "submit") =>
        LET fill == fills'[Len(fills')] IN
        /\ session - 1 \in world.rebalance
        /\ fill.time = session
        /\ fill.symbol \in Tradable
        /\ fill.price \in {ApplySlippage(side, world.tape[fill.symbol][session].open) : side \in Sides}
       ]_vars

\* The tape of a ticker has no bar from this session on, and that of its last bar is
\* a delisted security's, which had a price.
Stopped(s) == \A t \in session .. LastSession : world.tape[s][t] = NoBar
Exited(s) ==
    /\ Stopped(s)
    /\ \E t \in 1 .. session - 1 :
          /\ world.tape[s][t] # NoBar /\ world.tape[s][t].close > 0
          /\ \A u \in t + 1 .. session : world.tape[s][u] = NoBar
          /\ world.keyOf[s][t] \in world.delisted

\* Every bar of a ticker's tape is the security's own.
OneSecurity(s, k) == \A t \in BarSessions(s) : world.keyOf[s][t] = k

\* A terminal exit sells a whole position, once its tape has stopped, at the last
\* close with no slippage, and the security sold is itself delisted: a series that
\* merely ends is never an invented sale (termination.py:3).  A ticker that carries
\* bars of another security is exempt: there the code asks of the last bar's security
\* and sells whatever is booked under the ticker.
TerminalExits ==
    [][(fills' # fills /\ phase = "terminate") =>
        LET fill == fills'[Len(fills')] IN
        /\ Stopped(fill.symbol)
        /\ fill.price = Quoted(LastClose(fill.symbol)) /\ fill.slippage = 0
        /\ OneSecurity(fill.symbol, fill.key) => fill.key \in world.delisted
        /\ fill.key \notin DOMAIN positions'
       ]_vars

\* Once a session's terminations are realized no held ticker is a known exit any more,
\* not even when several keys are booked under it.  The target then retargets what is
\* held, and only that can bring a known exit back, to be left unvalued for a session:
\* exits are looked for before listings are retargeted, not after.
TerminationsRealized ==
    phase \notin {"connect", "terminate", "next", "done"} =>
        \A k \in DOMAIN positions : Exited(positions[k].symbol) =>
            /\ phase # "retarget" /\ session - 1 \in world.rebalance
            /\ target # NoTarget => /\ k \in DOMAIN target.listing
                                   /\ target.listing[k] = positions[k].symbol

\* Equity counts exactly the positions that have a price: a position is left
\* unvalued if and only if its tape has stopped, is marked at today's close if it
\* has one, and a ticker left unvalued is named in the result.
ValuationMatchesTape ==
    phase = "record" =>
        \A k \in DOMAIN positions :
            LET s == positions[k].symbol IN
            /\ positions[k].valued <=> (s \in Tradable \/ ~Stopped(s))
            /\ s \in Tradable => positions[k].price = Quoted(Closes[s])
            /\ ~positions[k].valued => s \in unvaluedSymbols

\* When a target has been executed, a position it does not want is still held only
\* if its ticker has no usable open today or it is worth less than a minimum trade.
DroppedPositionsSold ==
    [][(phase = "submit" /\ phase' = "close") =>
        \A k \in DOMAIN positions \ DOMAIN target.listing :
            LET s == positions[k].symbol IN
            \/ s \notin Tradable \/ Opens[s] = 0
            \/ TradeValue(positions[k].quantity, Quoted(Opens[s])) < MinTradeValue
       ]_vars

\* Cash on the statement: the account is a TradeLedger through the whole run, with
\* retargeting, marks and terminations included.
AccountIsLedger == Broker!LedgerSpec

\* The run finishes, with one equity point per session, whatever the tape does.
RunFinishes == <>(phase = "done" /\ Len(equityCurve) = LastSession)

------------------------------------------------------------------------------
(* What the documentation says and the code does not do in every scenario.  *)

(* Both look only at a key whose every order filled on a bar of its own.    *)

OwnFills(k) ==
    \A i \in DOMAIN fills : fills[i].key = k =>
        world.keyOf[fills[i].symbol][fills[i].time] = k

\* The sessions with a bar of the security itself, under whatever ticker it had.
OwnBars(k) == {t \in Sessions : \E s \in Symbols : world.tape[s][t] # NoBar /\ world.keyOf[s][t] = k}

\* engine.py:573 "Realize known delisting/acquisition exits at last quoted close."
\* A delisted security held from earlier sessions, whose own tape has ended, is not
\* held any more once the terminations of a session are realized.
KnownExitRealized ==
    [][(phase = "terminate" /\ phase' # "terminate") =>
        \A k \in DOMAIN positions \cap world.delisted :
            OwnFills(k) => \E t \in OwnBars(k) : t >= session
       ]_vars
=============================================================================
