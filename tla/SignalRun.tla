------------------------------ MODULE SignalRun ------------------------------
(***************************************************************************)
(* The research side of a backtest run: the trading calendar made from the *)
(* loaded bars, the warm-up bounds, the monthly rebalances, the strategy   *)
(* called at each of them symbol by symbol, and the coverage report added  *)
(* up at the end (BacktestEngine has the trading side of the same loop).   *)
(***************************************************************************)
EXTENDS Momentum

CONSTANTS
    Start, End,      \* the requested period
    Symbols,         \* a set of naturals: names in alphabetical order
    MonthOf(_),      \* day -> month
    WarmupDays,      \* calendar days of history loaded before Start
    SeriesSets,      \* loaded data: symbol -> sequence of bars
    Universes,       \* membership: month -> set of symbols
    UnusableSets,    \* symbols whose series fails identity
    SignalStarts,    \* requested signal_start, or None
    None

Bars == [day : Nat, close : Nat, adjusted : Nat \cup {Missing}, volume : Nat]

\* Prices are not negative (domain/models/market_bar.py), and a universe
\* holds the symbols that are loaded.
ASSUME RunAssumption ==
    /\ Start \in Nat /\ End \in Nat /\ WarmupDays \in Nat
    /\ Symbols \subseteq Nat /\ IsFiniteSet(Symbols)
    /\ None \notin Nat /\ SignalStarts \subseteq Nat \cup {None}
    /\ \A members \in Universes, day \in Start .. End : members[MonthOf(day)] \subseteq Symbols
    /\ \A series \in SeriesSets, symbol \in Symbols : series[symbol] \in Seq(Bars)

VARIABLES
    data, universe, unusable, signalStart,   \* the run's inputs, fixed
    session,      \* index of the session the loop is at
    todo,         \* symbols of the current rebalance left to evaluate
    found,        \* disposition of the symbols evaluated at this rebalance
    signals,      \* rebalance date -> selected candidates, best first
    diagnostics,  \* rebalance date -> what the rebalance counted
    short,        \* symbols that lacked history at some rebalance
    report        \* the coverage snapshot and status, None while running

inputs == <<data, universe, unusable, signalStart>>
vars == <<inputs, session, todo, found, signals, diagnostics, short, report>>

Empty == [x \in {} |-> {}]

Recorded(f, x, value) == [y \in DOMAIN f \cup {x} |-> IF y = x THEN value ELSE f[y]]

\* Mutation: one session of warm-up too few.
BoundsShort ==
    IF signalStart = None
    THEN [warmup |-> Start - WarmupDays, performance |-> Start, sessions |-> Lookback]
    ELSE [warmup |-> Start - WarmupDays, performance |-> signalStart, sessions |-> 1]

-----------------------------------------------------------------------------
\* resolve_warmup_bounds: without a signal start the first lookback + 1
\* sessions of the calendar are warm-up; with one, everything before it is.
Bounds ==
    IF signalStart = None
    THEN [warmup |-> Start - WarmupDays, performance |-> Start, sessions |-> Lookback + 1]
    ELSE [warmup |-> Start - WarmupDays, performance |-> signalStart, sessions |-> 1]

\* load_market_data: history from the warm-up start to the end.
Loaded(symbol) ==
    Kept(data[symbol], {i \in DOMAIN data[symbol] : data[symbol][i].day \in Bounds.warmup .. End})

\* _build_calendar: a session is a day some series has a bar of, used or not.
TradingDays == {day \in UNION {Days(Loaded(s)) : s \in Symbols} : Start <= day}
TradingDates == Ascending(TradingDays)

PerformanceDates == Ascending({day \in TradingDays : day >= Bounds.performance})

\* _monthly_rebalance_dates
RebalanceDates ==
    LET dates == TradingDates
        Due(i) ==
            /\ i >= Bounds.sessions
            /\ signalStart = None \/ dates[i] >= signalStart
            /\ i = 1 \/ MonthOf(dates[i]) # MonthOf(dates[i - 1])
    IN {dates[i] : i \in {n \in DOMAIN dates : Due(n)}}

\* _universe_market_data
Members(day) == universe[MonthOf(day)]
Unpriced(day) == {s \in Members(day) : Loaded(s) = <<>>}
UnusableMembers(day) == (Members(day) \cap unusable) \ Unpriced(day)
Evaluated(day) == Members(day) \ (unusable \cup Unpriced(day))

\* _bars_as_of
BarsAsOf(symbol, day) == AsOf(Loaded(symbol), day)

-----------------------------------------------------------------------------
Today == PerformanceDates[session]

Init ==
    /\ data \in SeriesSets /\ universe \in Universes /\ unusable \in UnusableSets
    /\ signalStart \in SignalStarts
    /\ session = 1 /\ todo = {} /\ found = Empty
    /\ signals = Empty /\ diagnostics = Empty /\ short = {} /\ report = None

Running == report = None /\ session <= Len(PerformanceDates)

\* A session between rebalances only moves the loop (its trading is in
\* BacktestEngine).
PassSession ==
    /\ Running /\ Today \notin RebalanceDates
    /\ session' = session + 1
    /\ UNCHANGED <<inputs, todo, found, signals, diagnostics, short, report>>

\* The engine filters the data and the strategy starts on it.
StartRebalance ==
    /\ Running /\ Today \in RebalanceDates \ DOMAIN diagnostics
    /\ todo' = Evaluated(Today) /\ found' = Empty
    /\ diagnostics' = Recorded(diagnostics, Today,
           [members |-> Members(Today), missing |-> Unpriced(Today),
            unusable |-> UnusableMembers(Today),
            insufficient |-> 0, price |-> 0, liquidity |-> 0, eligible |-> 0])
    /\ UNCHANGED <<inputs, session, signals, short, report>>

EvaluateSymbol ==
    /\ todo # {}
    /\ LET symbol == Min(todo)
       IN /\ found' = Recorded(found, symbol, Disposition(BarsAsOf(symbol, Today), Today))
          /\ todo' = todo \ {symbol}
    /\ UNCHANGED <<inputs, session, signals, diagnostics, short, report>>

Having(disposition) == {s \in DOMAIN found : found[s] = disposition}

\* Rank, select, build the target and record the diagnostics.
FinishRebalance ==
    /\ Running /\ Today \in RebalanceDates \cap DOMAIN diagnostics
    /\ todo = {}
    /\ LET candidates == {Candidate(s, BarsAsOf(s, Today), Today) : s \in Having("eligible")}
       IN signals' = Recorded(signals, Today, SelectTopN(RankCandidates(candidates)))
    /\ diagnostics' =
           [diagnostics EXCEPT
               ![Today].insufficient = Cardinality(Having("insufficient_history")),
               ![Today].price = Cardinality(Having("failed_price_filter")),
               ![Today].liquidity = Cardinality(Having("failed_liquidity_filter")),
               ![Today].eligible = Cardinality(Having("eligible"))]
    /\ short' = short \cup {s \in Evaluated(Today) : Insufficient(BarsAsOf(s, Today))}
    /\ session' = session + 1
    /\ found' = Empty
    /\ UNCHANGED <<inputs, todo, report>>

\* DataCoverageSnapshot, over the members of all rebalances; without any
\* rebalance, over all that was loaded.
Ever(field) == UNION {diagnostics[day][field] : day \in DOMAIN diagnostics}
UniverseMembers == IF Ever("members") = {} THEN Symbols ELSE Ever("members")
Available == {s \in UniverseMembers : Loaded(s) # <<>>}

Unfit == {s \in unusable : Loaded(s) # <<>>} \cap UniverseMembers

\* Mutation: a member that ever lacked history is still available.
AvailableWithShort == Cardinality(Available \ Unfit)

AvailableCount == Cardinality(Available \ (short \cup Unfit))

\* _insufficient_warmup_warnings looks at the first rebalance only.
ShortWarmup ==
    /\ signalStart # None /\ DOMAIN diagnostics # {}
    /\ LET first == Min(DOMAIN diagnostics)
       IN /\ signals[first] = <<>> /\ diagnostics[first].insufficient > 0
          /\ diagnostics[first].eligible = 0

Report ==
    /\ report = None /\ session > Len(PerformanceDates)
    /\ report' = [members |-> Cardinality(UniverseMembers),
                  available |-> AvailableCount,
                  missing |-> Cardinality(Ever("missing")),
                  unusable |-> Cardinality(Unfit),
                  insufficient |-> Cardinality(short),
                  shortWarmup |-> ShortWarmup,
                  status |-> IF Ever("missing") = {} /\ Unfit = {}
                             THEN "COMPLETE" ELSE "DATA_QUALITY_INCOMPLETE"]
    /\ UNCHANGED <<inputs, session, todo, found, signals, diagnostics, short>>

Next == PassSession \/ StartRebalance \/ EvaluateSymbol \/ FinishRebalance \/ Report

Spec == Init /\ [][Next]_vars

-----------------------------------------------------------------------------
\* The strategy by its promise, with no sorting: the bar n sessions back is
\* the one with exactly n bars after it among those known on the day (bars of
\* one day follow in the order loaded), and a symbol is selected when fewer
\* than top_n of the symbols that pass the filters beat it.
NthBack(symbol, day, n) ==
    LET bars == data[symbol]
        known == {i \in DOMAIN bars : Bounds.warmup <= bars[i].day /\ bars[i].day <= day}
        After(i) == {j \in known : \/ bars[j].day > bars[i].day
                                   \/ bars[j].day = bars[i].day /\ j > i}
    IN {bars[i] : i \in {k \in known : Cardinality(After(k)) = n}}

Qualifies(symbol, day) ==
    /\ \E bar \in NthBack(symbol, day, 0) : bar.close >= MinPrice
    /\ \E now \in NthBack(symbol, day, Skip), past \in NthBack(symbol, day, Lookback) :
          /\ Missing \notin {now.adjusted, past.adjusted}
          /\ 0 < past.adjusted /\ past.adjusted < now.adjusted
    /\ LiquidityPasses(SliceAsOf(BarsAsOf(symbol, day), day))

Beats(a, b, day) ==
    \E aNow \in NthBack(a, day, Skip), aPast \in NthBack(a, day, Lookback),
       bNow \in NthBack(b, day, Skip), bPast \in NthBack(b, day, Lookback) :
        \/ aNow.adjusted * bPast.adjusted > bNow.adjusted * aPast.adjusted
        \/ /\ aNow.adjusted * bPast.adjusted = bNow.adjusted * aPast.adjusted
           /\ a < b

\* At every rebalance the signals are the top_n best of the usable members,
\* in order, whatever order the bars were loaded in and whatever the data
\* holds after the date: ties fall to the earlier name, and history is
\* counted in the symbol's own bars (momentum.py, ranking.py).
SignalsAreTheBest ==
    \A day \in DOMAIN signals :
        LET able == {s \in Evaluated(day) : Qualifies(s, day)}
            place(s) == 1 + Cardinality({other \in able : Beats(other, s, day)})
            best == {s \in able : place(s) <= TopN}
        IN /\ Len(signals[day]) = Cardinality(best)
           /\ \A s \in best : signals[day][place(s)].symbol = s

\* Warm-up is long enough: without a signal start, a member with a bar on
\* every session of the calendar is never short of history, and no rebalance
\* happens before the signal start when there is one (warmup.py).
WarmupSuffices ==
    DOMAIN diagnostics # {} =>
        LET sessions == {day \in TradingDays : day <= Max(DOMAIN diagnostics)}
        IN /\ \A day \in DOMAIN diagnostics : day >= Bounds.performance
           /\ signalStart = None => \A s \in short : ~ sessions \subseteq Days(Loaded(s))

\* Every member that a rebalance met is in the coverage snapshot once: it is
\* available, missing, unusable or short of history; and a run reported
\* COMPLETE handed every member of every rebalance to the strategy
\* (engine.py, result.py).
CoverageAddsUp ==
    report # None =>
        /\ Ever("members") # {} =>
              report.members = report.available + report.missing + report.unusable
                                 + report.insufficient
        /\ report.status = "COMPLETE" =>
              \A day \in DOMAIN diagnostics :
                  LET d == diagnostics[day]
                  IN Evaluated(day) = d.members
=============================================================================
