# Verification of stock_strategy

TLA+ models, TLC runs and TLAPS proofs for this repository: what the parts of the
backtest and of its data pipeline promise each other, under which inputs, and why.

## The system

A backtest reads stored daily bars and historical index membership, walks the
trading sessions one by one, and lets a momentum strategy pick a portfolio once a
month that is traded at the next open by a simulated broker. Around it stand imports
(prices, membership, identities), reports on what the data covers, and the trial of a
new data vendor. Everything runs in one process and one thread at a time; what is hard
is not concurrency but *order and identity*: state read at one point of the loop and
used at another, prices found by ticker for positions booked by security, cash
projected by one component and judged by another, rows and files left behind by
imports and scripts that stopped half-way or that superseded each other.

| Component | State | Operations | Talks to | Correct when |
|---|---|---|---|---|
| Execution costs (`domain/execution.py`, `models/position.py`, `models/portfolio.py`) | none | slippage, commission, market value, equity | everyone | broker, order service and engine price a trade alike |
| Simulated broker (`broker/simulated.py`) | cash, positions by key, order log, fills, quotes, totals | connect, quote, mark, retarget, submit, liquidate, cancel | called by the engine | never overdraws, never sells what is not there, a refusal changes nothing, the fills are the account's statement |
| Order service (`application/order_service.py`) | none between calls | turn a target portfolio into a list of orders | reads the account, its list goes to the risk manager and the broker | the list is affordable order by order, toward the target, complete |
| Risk manager (`risk/risk_manager.py`) | none | accept or reject an order | between engine and broker | no order the service made is refused |
| Backtest engine (`backtest/engine.py`) | session, pending target, diagnostics, result | terminations, opens, orders, close marks, equity, signal, coverage snapshot | broker, order service, strategy, identity resolver | no look-ahead, terminal exits exactly for known delistings, valuation matches the tape, every member counted once |
| Momentum strategy (`strategy/`) | none | filter, rank and select names | called at a rebalance close | the best eligible names, nothing later than the signal date |
| Rebalance calendar and warmup (`backtest/warmup.py`, `backtest/data.py`) | none | trading dates, warm-up bounds, first session of each month | engine | one rebalance a month, enough history at the first |
| Market data import (`data/`, `application/market_data_import.py`) | CSV cache, `market_bars` | cover check, cache reuse, download, save, quality gate | vendor, file system, PostgreSQL | re-runs are idempotent, a success means the window is there |
| Universe (`universe/`) | `sp500_constituent_memberships` | snapshots to intervals, validate, upsert, point-in-time query | GitHub CSV, PostgreSQL, strategy | membership on a day is that of the source's snapshot of that day |
| Security master (`security_master/`) | known-identities file, three tables, the catalog a service holds | author, validate, persist, load, resolve a ticker on a day, vendor symbols, position keys | engine, reports, trial | an answer was authored, a key names one holding |
| Identity quality (`data/identity_quality.py`) | none | refuse or clip a series | engine | a series is used for one security only |
| Coverage report and universe audit (`data/pit_coverage.py`, `universe/audit.py`, `backtest/universe_audit.py`) | counters, rows | a verdict per member, joins and leaves per rebalance | price files, membership, catalog | the counts add up, the detail replays, a refusal is foretold |
| Norgate trial (`norgate_trial/`, five scripts) | proof, frozen sample and pairs, occupancy map, staged bars, baseline, verdict | prove, probe, stage, validate, by hand in any order | the vendor's updater, the catalog, membership | no verdict after a run that found the updater down, files are what they are named, ready means the identities are right |
| Live rebalancing and IBKR, persistence mappers, UI, settings, CSV provider, corporate actions | none or files | stubs, mapping, presentation, wiring | | outside the models |

`PROJECT.json` lists the components with their sources, and under `hazards` every
place where the code is hard to test, at its line, with the properties aimed at it.

## Modules

| Module | Stands for | Notes |
|---|---|---|
| `Execution` | slippage, commission, valuation | exact integer arithmetic, see *Units* |
| `TradeLedger` | what a user of the broker relies on: an account moved only by funded purchases and covered sales | abstract specification |
| `SimulatedBroker` | `broker/simulated.py`, one action per method | implements `TradeLedger` (`LedgerSpec`) |
| `OrderService` | `create_orders_from_targets`, one action per loop iteration | with `build_target_portfolio`'s equal weights |
| `BacktestEngine` | the trading side of `BacktestEngine.run`, one action per call of the loop body | instantiates `SimulatedBroker` and `OrderService` on its own variables |
| `Momentum` | filters, momentum ratio, ranking, selection (`strategy/`) | operators on series of bars |
| `SignalRun` | the research side of the same loop: calendar, warm-up, rebalances, the strategy symbol by symbol, the coverage snapshot | on `Momentum` |
| `UniverseImport` | index membership: snapshots to intervals, upsert, the two point-in-time queries | `UniverseImport.cfg` is its small instance |
| `MarketDataImport` | `MarketDataService._import_symbol` with the historical provider, its CSV cache and the session scope | crashes, vendor and database failures are actions |
| `Catalog` | the in-memory Security Master: validation, resolution, vendor symbols, position keys | operators; the base of the five modules below |
| `SecurityMaster` | authoring, import with rollback, loading | on `Catalog` |
| `PitCoverage`, `UniverseAudit` | the verdict cascade of the coverage report; the membership audit | operators on a *world* of catalog, memberships and price files |
| `ResearchData` | the scripts over one world: coverage, audit, load, identity check, rebalances | composes the two with `Catalog` |
| `NorgateProbe`, `NorgateStaging` | the vendor client, the frozen and the baseline probe; occupancies and staged bars | operators on a vendor |
| `NorgateTrial` | the scripts and their artifacts, the gates and the verdict | composes the two; crashes, updater and vendor changes are actions |
| `SimulatedBrokerProofs`, `OrderServiceProofs`, `BacktestEngineProofs`, `SignalRunProofs`, `NorgateTrialProofs` | theorems about the module of that name | checked by TLAPS |
| `ImportProofs` | theorems about `UniverseImport` and `MarketDataImport` | extends both: this is why the first has a `UniverseSpec` and names of its own for the calendar |
| `CatalogProofs` | theorems about `SecurityMaster` and `ResearchData`, which share the catalog | extends both: this is why the second has a `ResearchSpec` |
| `Sums` | lemmas about division, least elements and sums over finite sets | for the proofs only |
| `MC...` | the small instances | scenarios, worlds, vendors are enumerated here |

How state corresponds: broker variables are the attributes of `SimulatedBroker`
(`_cash`, `_positions`, `_orders`, `_fills`, `_market_prices`, `_session_time`, the
totals). A position key stands for `position_key_for(order)`, so `identity` is not a
separate field. Keys are naturals in the order in which their strings sort, because
the order service walks them sorted. `phase` in the engine is the program counter of
one pass of the loop; `target` is `pending_target`; `queue` the list
`create_orders_from_targets` returned and the loop has not yet submitted.
`submitted` are the result's orders.

In `SignalRun` `session` is the index of the loop, `todo` and `found` the loop over
symbols inside `evaluate`, `diagnostics` the rebalance diagnostics and `short` the set of
symbols that lacked history; `report` is the snapshot and status at the end. Bars keep
the order in which they were loaded, which need not be by day.

In `UniverseImport` a snapshot is a set of symbols per change date (suffixes stripped),
`rows` the table `sp500_constituent_memberships`, `Forever` an open end; `previous` and
`openStarts` are the local variables of `snapshots_to_intervals`, one change date per
`Convert`. `imported` is a history variable. In `MarketDataImport` a bar is its day;
`cache` is the symbol's CSV file, `database` its committed rows, `session` the same
table as the open transaction sees it, `stage` the program counter of `_import_symbol`,
and `fetched` a `MarketDataFetchResult`. `vendor` and `today` are the outside world:
which days the vendor will have, which row of it is invalid, and how far time has come.

In `SecurityMaster` `seed` is the known-identities file, `step` the program counter of
`import_security_master.py`, `catalog` what it validated, `session` its uncommitted
tables, `db` the committed ones and `service` the catalog a reader loaded; a stored
ticker row is found under its interval, since the table is unique on it. The author's
edits (`AddTicker`, `EndTicker`, `MoveTicker`) are external: any edit a person could make.
`persist_catalog` also keeps the catalog in the service object before the commit; the
script's object ends with its process, so no reader sees it and the model leaves it out.

In `ResearchData` `stage` is the script that runs; `rows` and `counts` are the coverage
report, `summary`, `detail`, `leaked` and `investigated` the audit, `loaded`, `unusable`
and `rebalances` the data side of a backtest. In `NorgateTrial` each artifact is the
file of that name, `job` what the running script has still to write, `up` whether the
vendor's updater answers; `plan` fixes which scripts a trial runs and which vendors, seeds
and sources it meets. A script that asks the vendor has one step for the status it
asks for first and one for each `lookup_symbol`; in `job`, `databases` and `known` are
what it was told at first, `heard` the lookups of the row at hand, `rows` the rows done.
The calls inside a lookup raise and are passed over from some call on when the updater
goes down in its midst (`CutShort`); a lookup of which only the last date is missing
therefore looks like that of a listing still quoted. The vendor itself changes between
lookups only. `live` and the `of` of a row or series are ghosts: which scripts started
with the updater up, and the vendor that answered the row, or the asset a series is of.

**Units.** Prices are naturals. A quote `p` is `p * BpsDivisor` ticks, so slipped
prices are exact; money is ticks times `RateDivisor`, so commissions are exact. The
code computes with 28-digit decimals; rounding at the 28th digit is left out.
An average price is a fraction. Target weights are `1/count` and momentum is a ratio of
two closes; both are compared by cross-multiplication.

**Mutations.** Definitions whose comment says *Mutation* are not part of any
specification. Each is a plausible bug in the definition that follows it, kept so
that every property can be seen to fail on it (`mutants` in `PROJECT.json`).

## Runs

Passing runs:

| Run | Question | Bounds |
|---|---|---|
| `broker` | does any caller get the account to overdraw, or the fills to disagree with it? | two keys, two tickers, two prices, three orders |
| `order_service` | is every list of orders affordable in order, toward the target, complete? | three keys, two tickers, three cash levels |
| `engine` | does the loop, with broker and order service, value, trade and end positions as tapes and identities say? | two tickers, three keys, five sessions |
| `signal_run` | are the signals the best names, is warm-up long enough, does the snapshot add up? | three symbols with eight series, eight days, lookback 2 |
| `universe_import` | do rows and queries say what the imported snapshots say? | two tickers, five days, every dataset |
| `market_import` | do cache, table and summaries agree over any sequence of imports, failures and crashes? | six days, five vendor series |
| `security_master` | is what a service answers something an author wrote? | two securities, two tickers, three days, two edits |
| `research_data` | do report, audit and backtest agree on one world? | 512 catalogs of up to eight rows, five membership sets, 16 file sets |
| `norgate` | what may a verdict, a re-probed identity and a staged file rest on, in whatever order scripts run and die? | four plans with up to seven vendors, two seeds, two sources; seven sample rows, two changes at any lookup |

What they show, by property:

* **Account.** `TotalsMatchFills` ties commission and slippage to the fills.
  `AverageWithinBuys` keeps an average price between the cheapest and the dearest buy of
  the position. `LedgerSpec`: the broker implements `TradeLedger`, so a refusal moves
  neither cash nor holdings.
* **Order list.** `ListAffordable` replays a list fill by fill from the account's cash;
  `TowardTarget`, `WithinTarget` and `GapsTraded` bound what it does to each gap.
* **Loop.** `EveryOrderFills`: what the order service projects, the risk manager and the
  broker grant, although each computes it from its own state. `FillsAtNextOpen` excludes
  look-ahead. `ValuationMatchesTape`, `TerminalExits` and `TerminationsRealized` separate
  a holding without a bar today from one whose tape has ended; `TerminalExits` asks that
  the security sold is itself delisted, and leaves out tickers that carry bars of two
  securities, where it is not (see below). `DroppedPositionsSold` sells what
  left the target where its booked ticker has an open; `AccountIsLedger` carries the
  ledger through the composition; `RunFinishes` is its termination.
* **Signals.** `SignalsAreTheBest` compares the strategy with its promise stated without
  any sorting, on series loaded in any order that reach past the date. `WarmupSuffices`
  relates three ways of counting warm-up: calendar days, sessions, bars of a symbol.
  `CoverageAddsUp`: the snapshot counts each member once, and COMPLETE means that every
  member of every rebalance reached the strategy.
* **Membership.** `IntervalsMatchSnapshots` and `NeverRefused` are about the conversion,
  `AsOfIsUnionOfImports` about what a query answers after any number of imports (a name
  that left keeps answering for an older import), `WindowCoversMembers` about the
  closed window against half-open intervals.
* **Prices.** `SuccessCoversEnds` says what a success is worth; `CacheIsStored` and
  `CommitsWholeImports` that file and table do not drift apart through failures and
  crashes, a torn cache file included. `ImportEnds` is the liveness of an import.
* **Identities.** `AnswersWereImported`: inserts that keep old rows never combine with
  new ones into an answer nobody authored. `ImportsAreWhole`: an import is stored whole
  or not at all and changes nothing stored.
* **Research data.** `SignalsAreTheListing`: merged vendor files, fallbacks and clipping
  never hand the strategy another security's bars on a day the catalog knows better.
  `KeysNameOneHolding`: one position key, one security or one stay in the index.
  `CountsAddUp`, `AuditReplays` and `AuditExplainsRefusal` are what the two reports are
  worth: counters that agree with the verdicts, a detail from which membership can be
  rebuilt, and a warning before a backtest is refused.
* **Trial.** Each lookup of a probe is a step: the updater may go down in the midst of
  one and the vendor may list symbols anew between two, and the scripts notice neither.
  `StartedLive` is what the single status check is worth: a verdict rests on runs that
  started with the updater up, and one that finds it down takes back what was shown;
  that it stayed up is not promised (`norgate_alias` and the proof below).
  `ReadyIdentities`: under a ready verdict the two occupancies of a recycled ticker share
  no asset, whoever answered for each of them, and a row that one vendor answered in full
  is not its acquirer's. `ReprobeIsStricter`: what the baseline probe fails, the re-probe
  fails, for rows that one vendor answered in full in both; elsewhere a missing answer
  makes the re-probe say `NOT_TESTABLE`. `FilesAreTheirAsset`: staged bars are filed under
  their own asset; what is staged while the vendor itself changes is exempt, since the
  series are then asked for by a symbol that may mean another asset.

The `engine` run takes three families of scenarios: every tape of one ticker beside a
steady one (gaps, late starts, early ends, known terminations, unusable series), a
security that changes its ticker (to one that may have stopped trading or be known to be
delisted), and a ticker that passes to another security.

### Where the code disagrees with its documentation

Each of these runs checks one statement of a comment or a document, and TLC finds an
execution of the program that violates it. `findings` in `PROJECT.json` quotes the lines.

| Run | What happens |
|---|---|
| `known_exit` | a delisted security is bought and held on its own tape; its ticker trades again, for another one, after a gap: in the session after its own last bar no exit is realized, and it stays held and is later valued at the newcomer's prices |
| `stored_overlap` | a name whose open membership was imported is stored again, with its end, when a newer dataset is imported: both rows stay, and a backtest that rebalances on a day they share is aborted by `occupancy_by_ticker` |
| `norgate_alias` | the updater goes down after it gave the acquirer's asset id for a delisted sample and before it gave the name and symbol that would show it: the identity passes and the verdict is ready |

Other disagreements met while modelling, each visible in the definition named:

* Whether a position's listing is known to have ended is asked of its ticker on the
  ticker's last bar (`engine.py:586`). A security that is not delisted, held under a ticker
  that has passed to one that is, is sold as a termination at the newcomer's last close
  when the newcomer's tape ends; `termination.py:5` speaks of "not invented liquidations".
  It is the same lookup by ticker as in `known_exit`, the other way round, and
  `TerminalExits` exempts it (`OneSecurity`).
* A holding whose ticker changed and that left the target is not sold: its price is
  looked up under the booked ticker (`order_service.py:126`; `OrderService.BookedKeys`).
* Terminations are realized before listings are retargeted (`engine.py:151`, `:163`), so a
  target may bring a holding onto a ticker whose known end is already past: it is left
  without a price for that session and sold at the next (`TerminationsRealized`).
* Two holdings under one delisted ticker are terminated under one order id
  (`engine.py:598`).
* A long strict import succeeds on a handful of rows when stored ones lie near both ends
  (`market_data.py:76`; `MarketDataImport.GateFails`), and imports of windows that do not
  touch leave a hole in the cache that later imports reuse (`historical.py:132`).
* Overlapping listings are refused within one file, but the tables may come to hold two
  overlapping rows from two files (`validation.py:3` says they must not be persisted);
  a service then refuses to load (`SecurityMaster.LoadCatalog`) and keeps what it had.
* The coverage report counts as valid a listing whose series the backtest refuses: the
  report asks for the first expected day, the backtest for every bar.
* In the trial: an updater that goes down after the package proof asked for its status
  fails a vendor whose history suffices (`client.py:350`; `NorgateTrial.WriteProof`), where
  the gate matrix says NOT_TESTABLE for "NDU down". Quality gate Q1 is neither among the
  gates that make a vendor unsuitable nor among those ready asks for (`validation.py:347`;
  `NorgateTrial.Ready`), though NORGATE_PLATINUM_TRIAL.md:241 asks that it pass.
* In the trial: a crash between the rows and the pairs of a frozen probe leaves new rows
  beside old pairs, which gate F3 reads; a staging that loses the updater leaves empty
  series that U2 does not count; a security with two occupancies is exported once, cut
  to the first; A1 and A2 look at the first file only; the baseline probe calls its
  evidence live when the updater was up before the sample was asked and down during it.

### Bounds

* Broker and order service: slippage and commission are a half and a quarter, far above
  real ones, so that they decide which orders the cash affords; the opening cash covers
  some orders and not others. Three orders on two keys reach buy, buy at another price
  and sale of one position, and two positions side by side. Keys and tickers are
  interchangeable, so the run uses their symmetry (`Renamings`).
* Engine: two tickers are the least at which selling one funds another; five sessions
  hold two rebalances, a gap, an end and a session after it. The scenarios are
  inputs: tapes, identities, known delistings and rebalance dates. Identities follow the
  dated listings the resolver serves: a ticker has one key a day.
* `MaxOrders` bounds the order log of a broker with any caller; it does not bound the
  engine, whose constants leave `Quotes`, `Marks`, `Quantities`, `OrderIds` and `Times`
  out of use.
* Signals: lookback 2 and skip 1 put two different bars into the ratio; three symbols with
  two places are the least at which somebody is left out; the eight series are a full one,
  a late one, one loaded backwards, a falling one, an illiquid one, one without some
  adjusted closes, one with a day twice, and none.
* Membership: five days and two symbols allow leaving, returning and leaving again, with
  two imports between; symbols interact only through a shared change date. The theorems
  lift the bound.
* Prices: the code's 10 days of tolerance, 365 days of a gated window and 252 bars become
  1, 3 and 3. What matters is their order: a window may be too short to be gated, and a
  gated one may have its ends covered and still too few bars. Six days hold two windows
  that do not touch and the gap between them.
* Identities: three days hold an interval, a gap and a recycled one; `MaxEdits` = 2 lets
  a row be ended and another one take its place between imports. The theorems lift both.
* Research data: six days with a window of four have bars before and after it; the rows
  are a recycled listing, a rename, and vendor symbols that remap history or start
  late, and every subset of them is a catalog.
* Trial: each vendor has one of the defects the gates are there to find. `MaxChanges` = 2
  places two crashes, outages, edits or relistings anywhere between or inside the scripts:
  a script cut off and the next on other ground, or an outage in the midst of a lookup and
  the updater back for the next. Lookup by lookup the scripts interleave with more than
  can be explored at once, so a trial follows one plan (`MCPlans`): staging and
  validation with every seed, source and vendor that differs in what is staged; frozen
  and baseline probe with two vendors the baseline fails, relistings of one another; all
  scripts that lead to a verdict with the honest vendor and either one that collapses a
  recycled ticker or one that answers with an acquirer, and a source of one name. The
  theorems hold for any set of plans.

### Fairness

`OrderService` and `BacktestEngine` have `WF_vars(Next)`: a sequential program that has
been called and can go on does go on; no choice of scenario or target is forced.
`MarketDataImport` has `WF_vars(Step)`, where `Step` is the program alone: nobody must
start an import, the vendor may fail every time, time need not pass, a crash is never
required. The other modules are checked for safety only and state no fairness: scripts
run by hand owe nobody a next step. `CHECK_DEADLOCK FALSE` is set only where a run ends
and nothing follows.

## Proofs

Checked by TLAPS for every value of the constants. What they assume of the constants is
named in the modules, and TLC evaluates each on the runs of its module:

| Assumption | Says |
|---|---|
| `ExecutionAssumption` | slippage and commission lie between zero and the whole price |
| `BrokerAssumption` | prices, marks and capital are naturals, quantities are not zero, no key is the absent one |
| `OrderServiceAssumption`, `AccountAssumption`, `MarkedAssumption` | keys are naturals; an account is long-only, finite and, as the engine leaves it, retargeted and marked at the opens (used for calls in isolation; inside the engine this is proved, `QuoteInv`) |
| `EngineAssumption` | finitely many tickers, capital and sessions, a scenario's prices are naturals, every session has a bar |
| `ConfigAssumption`, `RunAssumption` | what `MomentumConfig` checks (a lookback beyond the skip, positive top_n and window); prices and volumes are naturals and symbols finitely many, a universe's members are among them, no day is the absent one |
| `UniverseAssumption`, `ImportAssumption` | calendars have a natural length, a listing's bars are days of it |
| `ForeverAssumption`, `UnresolvedAssumption`, `SeedAssumption` | an open end is later than day 0, no key is the unresolved one, an author's file is a list of securities with rows |
| `WindowAssumption`, `SampleAssumption`, `AssetsAssumption`, `ListingAssumption`, `PlansAssumption`, `NoVendorAssumption` | days are in order, no symbol is the absent one, the current row of a recycled pair names no delisted symbol, the symbol a vendor gives of an asset is listed for it, a plan names vendors there are, no vendor is the absent one |
| `ResearchAssumption` | the window lies in the calendar, memberships are finitely many, no interval of a catalog is empty |

`DroppedAreSold` asks besides for slippage below the whole price: at the whole price a sale
brings nothing and the order service places none.

**Sums** (`Sums`). A fold over a finite set is unfolded once and then reasoned about as
`Total`: adding an element, splitting a range, comparing two sums. The library's induction
theorems take a predicate as a parameter, which the provers cannot instantiate, so
induction here goes by a least counterexample (`LeastExists`).

**Broker** (`SimulatedBrokerProofs`). The type invariant is not inductive by itself in a
useful way for the ledger, so the invariant is `BrokerInv == TypeOK /\ Statement`, where
`Statement` ties the account's cash to the last fill. Every step is first sorted into
`Refused`, `Bookkept` (a purchase or a sale), `Relisted` or `Quiet` by `NextCases`; the
type lemmas and the mapping of each class to a step or a stutter of `TradeLedger` follow
from the class rather than from the method. `TypeCorrect` holds that no sequence of calls
overdraws the account, `ImplementsLedger` that every behaviour is one of `TradeLedger`.
`TotalsAreSums` adds that one fill is one more summand of each total, `AveragesStayWithin`
that a weighted mean stays between the old average and the new price, which are
themselves among the prices paid.

**Order service** (`OrderServiceProofs`). Arithmetic of one slot comes first: what whole
shares are worth at either side's price, and what a sum of cash affords. `QueueInv` then
ties every order to the delta it was made from, `MoneyInv` the projected cash to the
account's cash and the orders so far, `DroppedInv` every key that went without an order to
the cash that was left, which only falls while buys are granted. From these follow
`ListIsAffordable`, `OrdersWithinTarget`, `OrdersTowardTarget`, `GapsAreTraded` and
`ProjectionIsPaid`.

**Engine** (`BacktestEngineProofs`). The service and the broker are instances on the
engine's own variables, and the proof must carry what one leaves to the other through the
phases of the loop: `QuoteInv`, that the account is retargeted and marked when the service
reads it; `QueueInv`, that every order still queued is covered by a holding of its own key
and that no beginning of the list overdraws the cash; `DeltaInv` and `DroppedInv`, how far
the service is. `EngineInv` is their conjunction, with one lemma per action that it is
kept. `EveryOrderIsFilled` is then immediate for the head of the list: the risk manager
and the broker ask for no more. `FillsAreNextOpen`, `TerminationsAreExits`, `ExitsAreTaken`,
`DroppedAreSold` and `ValuationFollowsTape` follow from it step by step (`ExitsAreTaken` is
one of its conjuncts).
`RunIsLedger` maps every step of the whole loop to a step or a stutter of `TradeLedger`.

**Signals** (`SignalRunProofs`). The properties count and the code sorts, so the operators
come first. A list in a strict order has at each place the element with exactly that many
before it (`RankOrders`, `RankIsOnto`, `ListedIsOrder`), and bars kept of a sequence keep
their order (`Embeds`, `EmbedsLater`); so sorting a slice puts a bar where as many bars
come after it as did among the unsorted ones (`SortedByLater`), whatever the order they
were loaded in, and the bar indexed from the end is the one with that many bars after it
(`BackIsNthBack`). A symbol is therefore eligible exactly when it keeps the promise
(`EligibleQualifies`). Cross multiplication orders the candidates strictly as long as no
past price is zero, which the filter sees to (`AheadOrders`), and the first `top_n` of the
list are those that fewer than `top_n` beat (`RankedSelection`). The invariant `RunInv` is
about the loop: rebalances recorded are those due up to the current session, about their
own members; what is found so far is right and what is not is still to do; recorded
signals are the selection of their day; a symbol noted as short of history was a usable
member of some rebalance; and a report is about all of this. None of the three properties
is inductive without it: a symbol found eligible decides signals only steps later.
`SignalsHold` is the operators applied to recorded signals. `WarmupHolds` counts: a
rebalance has `Lookback + 1` sessions up to it (`RebalanceCalendar`), and as many bars has
a member that was in all of them. `CoverageHolds` splits the members ever met into four
disjoint sets.

**Membership** (`ImportProofs`). The properties speak of finished conversions, so
the invariant says what is true half-way: the change dates not yet converted come after
the converted ones, `previous` are the members at the last converted one, and the closed
intervals together with the open starts answer every day so far as the snapshots do, with
two periods of a symbol apart. `ConversionExact` and `ImportsAccepted` are the case where
nothing is pending; `QueriesAnswerImports` adds that a commit unites the rows with one
exact conversion; `WindowsCover` is arithmetic on half-open intervals.

**Prices** (`ImportProofs`). `TransactionInv` says what a transaction sees before
it saves and after, that the bars it fetched are the window of the file it wrote, and that
a summary is true of the rows about to be committed; `SuccessIsCovered`,
`CacheAndTableAgree` and `ImportsAreWhole` follow through every failure and crash.
`OnlyPublishedBars` is an invariant of its own: file, table and open transaction hold
nothing but valid days the vendor had published.

**Identities** (`CatalogProofs`). `AnswersWereImported` speaks of the catalog a service
holds and says nothing of the database, so the invariant `Origin` follows a row
backwards: what a service loaded, what is committed and what a session has inserted are
rows of imported catalogs (a session also of the one it imports), and in each catalog no
two rows overlap. The row that decides an answer therefore decides it in the catalog it
came from (`RowDecides`), whatever other rows the database has combined it with. `Typing`
adds that a stored row sits under its own interval and that securities reach the session
before their tickers, which is why no ticker lacks its security (`TypeCorrect`). `Whole`
follows the catalog of a session table by table, for `CatalogsAreStoredWhole`.

**Research data** (`CatalogProofs`). Five properties, five invariants: `LoadedAreOwn`, of
the bars of each listing (`SignalsAreOwn`); `KeysInv`, that a signal's key is that of the
one slot its listing has on the day (`KeysAreSound`); `AuditedInv`, that the findings are
the world's once the audit is over (`RefusalsAreExplained`); `CountedInv`, of the counters
while the report grows (`ReportAddsUp`); `AuditInv`, that the dates seen precede those left
and the last one's members are at hand (`DetailIsComplete`).

**Trial** (`NorgateTrialProofs`). The invariants say of each artifact what was heard
when it was written. `EvidenceInv`: a proof or a sample on disk began with the updater
up (`VerdictsStartedLive`). `ProbedInv`: each lookup heard so far for a row is the
vendor's own where one vendor answered all of them in full (`AskingTrue`), so a finished
row says what that vendor holds, and where nobody did, its asset is still that of the
lookup of its frozen suffix if that found one (`FrozenTrue`, `LiveTrue`); rows on disk
have been through the rule for recycled tickers. That rule compares two rows whoever
answered for each, which is why the first half of `ReadyIdentities` needs no vendor and
`ReadyIsIdentified` survives outages and relistings between rows; `ReprobeStaysStrict`
compares two rows of the same vendor. `FilingInv`: a map under way names symbols that
are listed for its assets, and an export under way files an asset's bars under that
asset (`FilesStayTheirAsset`).

Only model-checked: the liveness properties (`RunFinishes`, `ImportEnds`), since the proof
system does not reason about `ENABLED`. Every safety property of a passing run is a
theorem.

## Not modelled

* Corporate actions (`domain/corporate_actions.py`): pure transformations that only their
  tests call; the engine's exit at an end of tape is in `BacktestEngine`.
* `price_quality.py` never marks a series unusable and `price_semantics.py` is a table:
  there is no behaviour to state. `data/coverage.py`, `quality_report.py` and
  `universe/coverage.py` are read-only counts over stored rows.
* The CSV and offline providers, formatting, logging, metrics, statistics, exports and
  dashboard: parsing, wording and layout. `probe_data_coverage_proof.py` writes a report
  whose findings are fixed text.
* Decimal rounding; prices and volumes of imported bars, so a restated bar is not seen;
  a commit that fails and ends the batch of `import_market_data.py`.
* A download of the membership dataset that is cut off while it is written to its cache.
* Persistence mappers and thin repositories; IBKR and live rebalancing, where every
  operation raises `NotImplementedError`.

## What could follow

* The batch loop over symbols on top of `MarketDataImport`, with a failing commit and the
  report's counts, and bars that carry values, so that a restated bar is visible.
