---------------------------- MODULE NorgateProbe ----------------------------
(***************************************************************************)
(* What the Norgate trial asks of the vendor and how it judges the frozen  *)
(* sample: the client (app/norgate_trial/client.py), the two-year re-probe *)
(* (frozen.py, norgate_platinum_frozen_probe.py) and the baseline probe    *)
(* the sample comes from (scripts/probe_vendor_coverage.py).               *)
(*                                                                         *)
(* A vendor is a record: listing maps a symbol to an asset id or NoAsset,  *)
(* asset describes the ids, databases are the ones the updater (NDU)       *)
(* serves.  A date the vendor does not give is NoDate.  What is heard for  *)
(* a row is the sequence of its lookups, each of them asked on its own.    *)
(***************************************************************************)
EXTENDS Catalog, FiniteSets

CONSTANTS
    Symbols,        \* vendor symbols: tickers, and TICKER-YYYYMM of delisted names
    Assets,         \* asset ids, in the order their files sort
    NoAsset,        \* no such symbol
    NoSymbol,
    SuffixesOf,     \* by ticker: the delisted symbols of that stem, sorted
    Samples,        \* the frozen sample, in order
    Recycled,       \* pairs of sample rows <<delisted, current>> of a recycled ticker
    ChangePairs,    \* pairs of tickers <<predecessor, successor>>
    AcquirerAliases,\* by ticker: the acquirers it must not resolve to
    Controls,       \* tickers whose history proves the package, in order
    NoVendor,       \* ghost: no one vendor answered in full
    RequiredStart,  \* first day of the full history
    EvalStart,      \* first day of the two-year window
    EvalEnd         \* last day of both

ASSUME WindowAssumption ==
    /\ RequiredStart \in Days /\ EvalStart \in Days /\ EvalEnd \in Days
    /\ RequiredStart <= EvalStart /\ EvalStart <= EvalEnd

\* A row of the current holder of a recycled ticker names no delisted symbol.
ASSUME SampleAssumption ==
    /\ NoSymbol \notin Symbols
    /\ Len(Samples) \in Nat /\ DOMAIN Samples = 1 .. Len(Samples)
    /\ \A pair \in Recycled : /\ pair \in (DOMAIN Samples) \X (DOMAIN Samples)
                              /\ Samples[pair[2]].suffix = NoSymbol

NoDate == Forever

Later(a, b) == IF a >= b THEN a ELSE b
Earlier(a, b) == IF a <= b THEN a ELSE b

(***************************************************************************)
(* lookup_symbol: the asset id, the name, the symbol and the two dates are *)
(* calls of their own.  A call that raises is passed over: without an id   *)
(* nothing is found, and without its symbol an asset has the one asked for.*)
(***************************************************************************)
NotFound == [id |-> NoAsset, symbol |-> NoSymbol, words |-> {}, first |-> NoDate, last |-> NoDate]

Found(hit) == hit.id # NoAsset

Lookup(vendor, up, symbol) ==
    IF ~ up \/ symbol \notin Symbols \/ vendor.listing[symbol] = NoAsset THEN NotFound
    ELSE LET id == vendor.listing[symbol]
             asset == vendor.asset[id]
         IN [id |-> id, symbol |-> asset.symbol, words |-> asset.words,
             first |-> asset.first, last |-> asset.last]

\* A lookup of which only the first n calls were answered.
CutShort(symbol, hit, n) ==
    [id |-> hit.id,
     words |-> IF n >= 2 THEN hit.words ELSE {},
     symbol |-> IF n >= 3 THEN hit.symbol ELSE symbol,
     first |-> IF n >= 4 THEN hit.first ELSE NoDate,
     last |-> NoDate]

\* A symbol up to its hyphen
Suffixes(ticker) == {SuffixesOf[ticker][i] : i \in DOMAIN SuffixesOf[ticker]}

StemOf(symbol) ==
    IF \E ticker \in Tickers : symbol \in Suffixes(ticker)
    THEN CHOOSE ticker \in Tickers : symbol \in Suffixes(ticker)
    ELSE symbol

\* load_delisted_symbols, and discover_delisted_suffixes of what it returned
DelistedSymbols(vendor) ==
    IF "delisted" \in vendor.databases
    THEN {symbol \in UNION {Suffixes(ticker) : ticker \in Tickers} :
              vendor.listing[symbol] # NoAsset}
    ELSE {}

Discovered(known, ticker) == SelectSeq(SuffixesOf[ticker], LAMBDA symbol : symbol \in known)

(***************************************************************************)
(* evaluate_package_proof where NDU was running at first.  Reaching back   *)
(* and reaching the end are judged over all controls, not of one control.  *)
(***************************************************************************)
PackageVerdict(databases, heard) ==
    LET found == {i \in DOMAIN heard : Found(heard[i])}
        reachesBack == \E i \in found : heard[i].first # NoDate /\ heard[i].first <= EvalStart
        reachesEnd == \E i \in found : heard[i].last = NoDate \/ heard[i].last >= EvalEnd
    IN IF reachesBack /\ reachesEnd /\ "listed" \in databases THEN "PASS" ELSE "FAIL"

(***************************************************************************)
(* Coverage of one sample row.  A row whose occupancy is over before the   *)
(* window passes only where the quotes cover the whole window.             *)
(***************************************************************************)
Covers(hit, from, to) ==
    hit.first <= from /\ (hit.last = NoDate \/ hit.last >= to)

CoverageStatus(hit, sample) ==
    LET from == Later(EvalStart, sample.from)
        to == Earlier(EvalEnd, sample.to)
    IN IF hit.first = NoDate THEN "NOT_TESTABLE"
       ELSE IF from > to
            THEN IF Covers(hit, EvalStart, EvalEnd) THEN "PASS" ELSE "NOT_TESTABLE"
       ELSE IF Covers(hit, from, to) THEN "PASS" ELSE "FAIL"

\* The same judgement of the baseline probe: no date, no proof, never a FAIL.
BaselineCoverage(hit, sample) ==
    LET from == Later(RequiredStart, sample.from)
        to == Earlier(EvalEnd, sample.to)
    IN IF hit.last # NoDate /\ from <= to /\ Covers(hit, from, to)
       THEN "LIVE_PARTIAL" ELSE "NOT_TESTABLE"

(***************************************************************************)
(* Identity of one sample row: a delisted sample never takes the current   *)
(* ticker.                                                                 *)
(***************************************************************************)
IdentityLookup(sample, current, suffix, discovered) ==
    IF sample.suffix = NoSymbol THEN current
    ELSE IF Found(suffix) THEN suffix
    ELSE discovered

MustNotAlias(sample) ==
    IF sample.aliases # {} THEN sample.aliases ELSE AcquirerAliases[sample.ticker]

\* Mutation: only the name is compared.
IsAliasName(hit, aliases) == hit.words \cap aliases # {}

IsAliasIdentity(hit, aliases) == StemOf(hit.symbol) \in aliases \/ hit.words \cap aliases # {}

ClassifyFrozenRow(sample, current, suffix, discovered, of) ==
    LET hit == IdentityLookup(sample, current, suffix, discovered)
    IN [ticker |-> sample.ticker,
        asset |-> hit.id,
        current |-> current.id,
        delisted |-> suffix.id,
        identity |-> IF ~ Found(hit) THEN "NOT_TESTABLE"
                     ELSE IF IsAliasIdentity(hit, MustNotAlias(sample)) THEN "FAIL"
                     ELSE "PASS",
        coverage |-> IF Found(hit) THEN CoverageStatus(hit, sample) ELSE "NOT_TESTABLE",
        of |-> of]

ClassifyLiveRow(sample, current, suffix, of) ==
    LET hit == IdentityLookup(sample, current, suffix, NotFound)
    IN [ticker |-> sample.ticker,
        current |-> current.id,
        delisted |-> suffix.id,
        identity |-> IF ~ Found(hit) THEN "NOT_TESTABLE"
                     ELSE IF StemOf(hit.symbol) \in sample.aliases THEN "FAIL"
                     ELSE "LIVE_PARTIAL",
        coverage |-> IF Found(hit) THEN BaselineCoverage(hit, sample) ELSE "NOT_TESTABLE",
        evidence |-> "LIVE",
        of |-> of]

\* _docs_row: what is written where nothing can be asked.
DocsRow(sample) ==
    [ticker |-> sample.ticker, current |-> NoAsset, delisted |-> NoAsset,
     identity |-> "NOT_TESTABLE", coverage |-> "NOT_TESTABLE", evidence |-> "DOCUMENTED",
     of |-> NoVendor]

(***************************************************************************)
(* The lookups of a sample row: the ticker, the frozen suffix and, in the  *)
(* re-probe, the first other suffix of the delisted symbols loaded before. *)
(***************************************************************************)
Alternates(sample, known) ==
    SelectSeq(Discovered(known, sample.ticker), LAMBDA symbol : symbol # sample.suffix)

AsksSuffix(sample, databases) == sample.suffix # NoSymbol /\ "delisted" \in databases

LiveQuestions(sample, databases) ==
    IF AsksSuffix(sample, databases) THEN <<sample.ticker, sample.suffix>> ELSE <<sample.ticker>>

SampleQuestions(sample, databases, known) ==
    IF AsksSuffix(sample, databases) /\ Alternates(sample, known) # <<>>
    THEN <<sample.ticker, sample.suffix, Alternates(sample, known)[1]>>
    ELSE LiveQuestions(sample, databases)

Heard(heard, i) == IF i \in DOMAIN heard THEN heard[i] ELSE NotFound

FrozenRow(sample, heard, of) ==
    ClassifyFrozenRow(sample, Heard(heard, 1), Heard(heard, 2), Heard(heard, 3), of)

LiveRow(sample, heard, of) ==
    ClassifyLiveRow(sample, Heard(heard, 1), Heard(heard, 2), of)

(***************************************************************************)
(* apply_recycle_identity_rules: two occupancies of a recycled ticker must *)
(* not share an asset id; the delisted row pays.                           *)
(***************************************************************************)
Or(id, other) == IF id # NoAsset THEN id ELSE other

\* The baseline rule: only the two lookups that were asked for.
BaselineCollapsed(old, new) ==
    old.delisted # NoAsset /\ new.current # NoAsset /\ old.delisted = new.current

Collapsed(old, new) ==
    LET past == Or(old.delisted, old.asset)
        now == Or(new.current, new.asset)
    IN past # NoAsset /\ now # NoAsset /\ past = now

RecycleRules(rows) ==
    [i \in DOMAIN rows |->
        IF \E pair \in Recycled : pair[1] = i /\ Collapsed(rows[i], rows[pair[2]])
        THEN [rows[i] EXCEPT !.identity = "FAIL"] ELSE rows[i]]

BaselineRecycleRules(rows) ==
    [i \in DOMAIN rows |->
        IF \E pair \in Recycled : pair[1] = i /\ BaselineCollapsed(rows[i], rows[pair[2]])
        THEN [rows[i] EXCEPT !.identity = "FAIL"] ELSE rows[i]]

(***************************************************************************)
(* compare_ticker_change_pairs.  A ticker's last row speaks for it; the    *)
(* recycled tickers do not take part.                                      *)
(***************************************************************************)
RecycledTickers == {Samples[pair[1]].ticker : pair \in Recycled}

RowsOf(rows, ticker) ==
    {i \in DOMAIN rows : rows[i].ticker = ticker /\ ticker \notin RecycledTickers}

LastRowOf(rows, ticker) ==
    rows[CHOOSE i \in RowsOf(rows, ticker) : \A j \in RowsOf(rows, ticker) : j <= i]

AssetIds(row) == {row.asset, row.current, row.delisted} \ {NoAsset}

PairStatus(rows, pair) ==
    IF RowsOf(rows, pair[1]) = {} \/ RowsOf(rows, pair[2]) = {} THEN "NOT_TESTABLE"
    ELSE LET before == AssetIds(LastRowOf(rows, pair[1]))
             after == AssetIds(LastRowOf(rows, pair[2]))
         IN IF after = {} THEN "NOT_TESTABLE"
            ELSE IF before = {} THEN "PARTIAL"
            ELSE IF before \cap after # {} THEN "PASS"
            ELSE "FAIL"

ComparePairs(rows) == [pair \in ChangePairs |-> PairStatus(rows, pair)]
=============================================================================
