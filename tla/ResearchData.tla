---------------------------- MODULE ResearchData ----------------------------
(***************************************************************************)
(* What a researcher runs over one world of memberships, price files and   *)
(* identities: the coverage audit, the universe audit, and the data side   *)
(* of a backtest (load, check identity, filter at each rebalance).         *)
(* The price files are what the database holds: the import stores what it  *)
(* caches (MarketDataImport).                                              *)
(***************************************************************************)
EXTENDS UniverseAudit

CONSTANTS
    Worlds,        \* the worlds to research
    HistoryFrom,   \* the first day the backtest loads (warm-up included)
    Need,          \* bars the longest series must have (lookback_days + 1)
    CurrentOnly    \* values of the universe switch: point in time, or current

\* A world has finitely many memberships, and a catalog whose intervals are not empty.
IsWorld(w) ==
    /\ w.members \subseteq Member /\ IsFiniteSet(w.members)
    /\ DOMAIN w.master.tickers \subseteq Nat
    /\ \A i \in DOMAIN w.master.tickers : Constructed(w.master.tickers[i])

Researchable ==
    /\ Start \in Days /\ End \in Days /\ MonthFirsts \subseteq Days
    /\ \A w \in Worlds : IsWorld(w)

ASSUME ResearchAssumption == Researchable

VARIABLES
    world,      \* fixed
    current,    \* does the backtest use today's members for every date
    todo,       \* symbols or dates the running script has not handled
    stage,      \* which script runs
    rows,       \* coverage rows by symbol
    counts,     \* counters of the coverage report
    previous,   \* members on the rebalance before
    summary,    \* summary rows by rebalance date
    detail,     \* changes-only detail by rebalance date
    leaked,     \* current-only leakage the audit found
    investigated, \* class of every symbol the audit investigated
    loaded,     \* bars by listing: days with the vendor symbol stamped on them
    unusable,   \* listings that failed identity
    rebalances  \* what each rebalance handed to the strategy

researchVars == <<world, current, todo, stage, rows, counts, previous, summary, detail, leaked,
          investigated, loaded, unusable, rebalances>>
report == <<rows, counts>>
audit == <<previous, summary, detail, leaked, investigated>>
backtest == <<loaded, unusable, rebalances>>

Empty == [x \in {} |-> {}]

\* A dictionary with one more entry.
Recorded(f, x, value) == [y \in DOMAIN f \cup {x} |-> IF y = x THEN value ELSE f[y]]

NextSymbol == CHOOSE symbol \in todo : TRUE   \* symbols come in one fixed order

WindowSymbols == {item.symbol : item \in {m \in world.members : OverlapsWindow(m)}}

Dates == MonthStarts(Start, End)

\* Symbols the backtest loads (runner.py _resolve_named_universe).
LoadedSymbols == IF current THEN CurrentSymbols(world) ELSE WindowSymbols

\* InMemoryUniverseProvider.get_symbols
Eligible(day) == IF current THEN CurrentSymbols(world) ELSE SymbolsAsOf(world, day)

(***************************************************************************)
(* load_market_data: the bars of all vendor symbols, or the listing's own. *)
(***************************************************************************)
Bars(symbol) == {[vendor |-> symbol, day |-> day] :
                     day \in {d \in world.files[symbol] : HistoryFrom <= d /\ d <= End}}

LoadSymbolHistory(symbol) ==
    LET names == VendorFetchSymbols(world.master, symbol, HistoryFrom, End)
        vendors == UNION {Bars(names[i]) : i \in 2 .. Len(names)}
    IN IF vendors # {} THEN vendors ELSE Bars(symbol)

(***************************************************************************)
(* assess_identity_series: a bar on a day the listing is resolved must be  *)
(* of the same security; where the vendor symbols are mapped at all, bars  *)
(* outside their intervals are dropped.                                    *)
(***************************************************************************)
BarKey(bar) == ResolveMarketDataSymbol(world.master, bar.vendor, bar.day)

\* Mutation: only a bar of another known security is a mismatch.
MismatchOfKnown(symbol, bars) ==
    \E bar \in bars :
        LET key == ResolveSecurity(world.master, symbol, bar.day)
        IN key # Unresolved /\ BarKey(bar) # Unresolved /\ BarKey(bar) # key

Mismatch(symbol, bars) ==
    \E bar \in bars :
        LET key == ResolveSecurity(world.master, symbol, bar.day)
        IN key # Unresolved /\ BarKey(bar) # key

Clipped(symbol, bars) ==
    IF \E name \in {symbol} \cup {bar.vendor : bar \in bars} : HasVendorMapping(world.master, name)
    THEN {bar \in bars : BarKey(bar) # Unresolved}
    ELSE bars

-----------------------------------------------------------------------------
ResearchInit ==
    /\ world \in Worlds /\ current \in CurrentOnly
    /\ stage = "coverage" /\ todo = WindowSymbols
    /\ rows = Empty /\ counts = Zero
    /\ previous = {} /\ summary = Empty /\ detail = Empty /\ leaked = {} /\ investigated = Empty
    /\ loaded = Empty /\ unusable = {} /\ rebalances = Empty

\* build_pit_coverage: one row, in symbol order.
CoverSymbol ==
    /\ stage = "coverage" /\ todo # {}
    /\ LET symbol == NextSymbol
       IN /\ rows' = Recorded(rows, symbol, CoverageRow(world, symbol))
          /\ counts' = Count(counts, CoverageRow(world, symbol))
          /\ todo' = todo \ {symbol}
    /\ UNCHANGED <<world, current, stage, audit, backtest>>

\* audit_universe: one rebalance date, oldest first.
AuditDate ==
    /\ stage = "audit" /\ todo # {}
    /\ LET day == Min(todo)
           present == SymbolsAsOf(world, day)
           marked == SuspiciousOn(world, day)
       IN /\ summary' = Recorded(summary, day, SummaryRow(present, previous, marked))
          /\ detail' = Recorded(detail, day, [s \in ChangedSymbols(present, previous) |->
                                                EligibilityReason(s, present, previous, marked)])
          /\ leaked' = leaked \cup FutureMembersPresent(present, world, day)
          /\ previous' = present
          /\ todo' = todo \ {day}
    /\ UNCHANGED <<world, current, stage, investigated, report, backtest>>

\* The suspicious symbols and their classes, once all dates are seen.
Investigate ==
    /\ stage = "audit" /\ todo = {}
    /\ investigated' = [symbol \in Suspicious(world, leaked) |-> InvestigationClass(world, symbol)]
    /\ stage' = "load" /\ todo' = LoadedSymbols
    /\ UNCHANGED <<world, current, previous, summary, detail, leaked, report, backtest>>

\* load_market_data and apply_identity, one symbol at a time.
LoadSymbol ==
    /\ stage = "load" /\ todo # {}
    /\ LET symbol == NextSymbol
           bars == LoadSymbolHistory(symbol)
           bad == Mismatch(symbol, bars)
       IN /\ loaded' = Recorded(loaded, symbol, IF bad THEN bars ELSE Clipped(symbol, bars))
          /\ unusable' = IF bad THEN unusable \cup {symbol} ELSE unusable
          /\ todo' = todo \ {symbol}
    /\ UNCHANGED <<world, current, stage, report, audit, rebalances>>

\* _universe_market_data: members without bars are missing, members whose
\* series failed are unusable, the others hand their past to the strategy.
BarsOf(symbol) == IF symbol \in DOMAIN loaded THEN loaded[symbol] ELSE {}

BarsAsOf(symbol, day) == {bar \in BarsOf(symbol) : bar.day <= day}

\* occupancy_by_ticker: a ticker with two memberships on the day has no slot.
Memberships(day) ==
    {m \in world.members : IF current THEN m.to = Forever ELSE MemberOn(m, day)}

TwoSlots(day) ==
    \E a, b \in Memberships(day) : a # b /\ a.symbol = b.symbol

\* attach_signal_identities: the key a signal for the symbol would carry.
SignalKey(symbol, day) ==
    LET slot == CHOOSE m \in Memberships(day) : m.symbol = symbol
    IN PositionKey(world.master, symbol, day, slot.from)

Rebalance ==
    /\ stage = "rebalance" /\ todo # {}
    /\ ~ TwoSlots(Min(todo))
    /\ LET day == Min(todo)
           members == Eligible(day)
           priced == {symbol \in members : BarsOf(symbol) # {}}
       IN /\ rebalances' =
               Recorded(rebalances, day,
                        [members |-> members,
                         missing |-> members \ priced,
                         unusable |-> priced \cap unusable,
                         data |-> [s \in priced \ unusable |-> BarsAsOf(s, day)],
                         keys |-> [s \in priced \ unusable |-> SignalKey(s, day)]])
          /\ todo' = todo \ {day}
    /\ UNCHANGED <<world, current, stage, report, audit, loaded, unusable>>

\* The duplicate raises and ends the backtest.
RefuseTwoSlots ==
    /\ stage = "rebalance" /\ todo # {} /\ TwoSlots(Min(todo))
    /\ stage' = "refused" /\ todo' = {}
    /\ UNCHANGED <<world, current, report, audit, backtest>>

\* An empty universe and a too short history raise before the engine runs.
SufficientHistory ==
    \E symbol \in LoadedSymbols : Cardinality(LoadSymbolHistory(symbol)) >= Need

\* A script ends and the next one starts.
StartNext ==
    /\ todo = {}
    /\ \/ stage = "coverage" /\ stage' = "audit" /\ todo' = Dates
       \/ stage = "load" /\ SufficientHistory /\ stage' = "rebalance" /\ todo' = Dates
       \/ stage = "load" /\ ~ SufficientHistory /\ stage' = "done" /\ todo' = {}
       \/ stage = "rebalance" /\ stage' = "done" /\ todo' = {}
    /\ UNCHANGED <<world, current, report, audit, backtest>>

ResearchNext == CoverSymbol \/ AuditDate \/ LoadSymbol
        \/ Investigate \/ Rebalance \/ RefuseTwoSlots \/ StartNext

ResearchSpec == ResearchInit /\ [][ResearchNext]_researchVars

-----------------------------------------------------------------------------
\* What the strategy is handed for a listing is, on every day the catalog
\* says which security the listing is, prices stamped with a vendor symbol of
\* that security: merged vendor files, fallbacks to the listing's own file and
\* clipping never mix in a recycled ticker's bars (identity_quality.py).
SignalsAreTheListing ==
    \A day \in DOMAIN rebalances :
        \A symbol \in DOMAIN rebalances[day].data :
            \A bar \in rebalances[day].data[symbol] :
                LET key == ResolveSecurity(world.master, symbol, bar.day)
                IN key # Unresolved => BarKey(bar) = key

\* A position key names one holding for ever: two rebalances give signals the
\* same key only when the catalog says they are one security, or when they
\* are one ticker in one stay in the index. A recycled or re-entering ticker
\* that nobody resolves never joins an old position (identity_attach.py).
KeysNameOneHolding ==
    \A d, e \in DOMAIN rebalances :
        \A s \in DOMAIN rebalances[d].keys, t \in DOMAIN rebalances[e].keys :
            rebalances[d].keys[s] = rebalances[e].keys[t] =>
                \/ /\ ResolveSecurity(world.master, s, d) # Unresolved
                   /\ ResolveSecurity(world.master, s, d) = ResolveSecurity(world.master, t, e)
                \/ \E m \in Memberships(d) \cap Memberships(e) : s = m.symbol /\ t = m.symbol

\* The coverage report counts every security once as valid or missing, and
\* what it calls partial is valid while what it calls unusable is missing:
\* no verdict of the table leaves prices of an unusable series counted.
CountsAddUp ==
    /\ counts.securities = Cardinality(DOMAIN rows)
    /\ counts.valid + counts.missing = counts.securities
    /\ counts.unusable <= counts.missing
    /\ counts.partial <= counts.valid
    /\ counts.rebalanceUnlisted <= counts.unlisted

\* The universe rebuilt from the changes-only detail: the last row of a symbol up to
\* the day says whether it is in the index.
Replay(day) ==
    LET Mentioned(symbol, d) == d \in DOMAIN detail /\ symbol \in DOMAIN detail[d]
    IN {symbol \in Tickers :
           \E d \in Dates :
               /\ d <= day /\ Mentioned(symbol, d)
               /\ detail[d][symbol].reason # "left_index"
               /\ \A e \in Dates : d < e /\ e <= day => ~ Mentioned(symbol, e)}

\* Joins and leaves of the changes-only detail, replayed from the first date,
\* give the membership of every rebalance, re-entries included, and its size
\* in the summary; nobody is in it through a future membership.
AuditReplays ==
    /\ leaked = {}
    /\ \A day \in DOMAIN summary :
          /\ Replay(day) = SymbolsAsOf(world, day)
          /\ summary[day].size = Cardinality(Replay(day))

\* A backtest refused because a ticker had two memberships on a date is one
\* the audit warned of: it put a symbol with overlapping intervals among the
\* bad memberships, or among the fixtures that hide them (audit.py).
AuditExplainsRefusal ==
    stage = "refused" =>
        \E symbol \in DOMAIN investigated :
            /\ investigated[symbol] \in {"bad membership", "fixture"}
            /\ \E a, b \in world.members :
                  a # b /\ {a.symbol, b.symbol} = {symbol} /\ a.from < b.to /\ b.from < a.to
=============================================================================
