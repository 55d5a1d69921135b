----------------------------- MODULE PitCoverage -----------------------------
(***************************************************************************)
(* Point-in-time coverage of market data (app/data/pit_coverage.py): for   *)
(* each index member of the research window, the days the local price      *)
(* files cover of the days the membership asks for, and the verdict that   *)
(* explains the difference.                                                *)
(*                                                                         *)
(* A world is a record [master, members, files]: a catalog, a set of       *)
(* membership intervals [symbol, from, to, fixture], and the days every    *)
(* vendor symbol has bars on.  A symbol without days has no price file.    *)
(* No master at all is the catalog without rows: nothing here tells them   *)
(* apart.  Confidence and notes are wording and left out, and so is price  *)
(* quality, which never fails (price_usable is always true).               *)
(***************************************************************************)
EXTENDS Catalog, FiniteSets, FiniteSetsExt

CONSTANTS
    Start, End,    \* the research window, both days included
    MonthFirsts,   \* the days that are the first of a month
    RebalanceFrom, \* REBALANCE_ENCOUNTER_START
    Dotted         \* the tickers with share-class punctuation

None == "none"

Member == [symbol : Tickers, from : Days, to : 1 .. Forever, fixture : BOOLEAN]

MemberOn(item, day) == item.from <= day /\ day < item.to

OverlapsWindow(item) == item.from <= End /\ Start < item.to

\* The first of every month in the window, and the first day of the window.
MonthStarts(from, to) ==
    IF from > to THEN {} ELSE {from} \cup {day \in MonthFirsts : from <= day /\ day <= to}

(***************************************************************************)
(* Price windows: the first and the last bar of a file.                    *)
(***************************************************************************)
HasFile(world, symbol) == symbol \in Tickers /\ world.files[symbol] # {}
FirstBar(world, symbol) == Min(world.files[symbol])
LastBar(world, symbol) == Max(world.files[symbol])

\* A file has prices somewhere between its ends and the expected days.
WindowMeets(world, symbol, expected) ==
    /\ HasFile(world, symbol)
    /\ FirstBar(world, symbol) < expected.to
    /\ LastBar(world, symbol) + 1 > expected.from

(***************************************************************************)
(* What the membership asks for: from the first to the last day of the     *)
(* symbol's intervals within the window, gaps included, half open.         *)
(***************************************************************************)
IntervalsOf(world, symbol) ==
    {item \in world.members : item.symbol = symbol /\ OverlapsWindow(item)}

Later(a, b) == IF a < b THEN b ELSE a
Earlier(a, b) == IF a < b THEN a ELSE b

Expected(world, symbol) ==
    [from |-> Min({Later(item.from, Start) : item \in IntervalsOf(world, symbol)}),
     to |-> Max({Earlier(item.to, End + 1) : item \in IntervalsOf(world, symbol)})]

\* Members some rebalance date would have met.
RebalanceEncountered(world) ==
    {item.symbol : item \in
        {member \in world.members :
            \E day \in MonthStarts(Later(Start, RebalanceFrom), End) : MemberOn(member, day)}}

(***************************************************************************)
(* Identity at the first expected day.                                     *)
(***************************************************************************)
IsRecycled(world, symbol) ==
    Cardinality(ListingSeedKeys(world.master, symbol, Start, End)) > 1

IsTickerChange(world, key) ==
    \E i, j \in TickerHistory(world.master, key) :
        world.master.tickers[i].ticker # world.master.tickers[j].ticker

IsDelisted(world, key) ==
    key # Unresolved /\ world.master.securities[key] = "DELISTED"

\* The first vendor symbol with a file, else the listing's own file.
PriceSource(world, symbol, expected) ==
    LET names == VendorFetchSymbols(world.master, symbol, expected.from, End)
        tried == IF Len(names) > 1 THEN Tail(names) ELSE names
        found == {i \in DOMAIN tried : HasFile(world, tried[i])}
    IN IF found # {} THEN tried[Min(found)]
       ELSE IF HasFile(world, symbol) THEN symbol ELSE None

\* A resolved listing whose vendor symbol is not resolved, although a file of
\* the listing's name has prices for the expected days.
IdentityFailed(world, symbol, expected) ==
    LET vendor == PreferredVendorSymbol(world.master, symbol, expected.from, End)
    IN /\ ResolveSecurity(world.master, symbol, expected.from) # Unresolved
       /\ ResolveMarketDataSymbol(world.master, vendor, expected.from) = Unresolved
       /\ WindowMeets(world, symbol, expected)

(***************************************************************************)
(* Covered days: the file's window cut to the vendor interval of the       *)
(* listing's security (the first row that names it) and to the expected    *)
(* days.                                                                   *)
(***************************************************************************)
VendorRows(world, vendor, key) ==
    {i \in DOMAIN world.master.tickers :
        /\ world.master.tickers[i].scheme = "yahoo"
        /\ world.master.tickers[i].ticker = vendor
        /\ world.master.tickers[i].seed_key = key}

CoveredDays(world, symbol, expected) ==
    LET source == PriceSource(world, symbol, expected)
        vendor == PreferredVendorSymbol(world.master, symbol, expected.from, End)
        key == ResolveSecurity(world.master, symbol, expected.from)
        rows == VendorRows(world, vendor, key)
        mapped == world.master.tickers[Min(rows)]
        from == Later(expected.from, IF rows = {} THEN 0 ELSE mapped.valid_from)
        to == Earlier(expected.to, IF rows = {} THEN Forever ELSE mapped.valid_to)
    IN IF source = None \/ IdentityFailed(world, symbol, expected) THEN {}
       ELSE IF /\ key # Unresolved /\ rows = {}
               /\ ResolveMarketDataSymbol(world.master, vendor, FirstBar(world, source))
                      = Unresolved
            THEN {}
       ELSE {day \in from .. to - 1 :
                FirstBar(world, source) <= day /\ day <= LastBar(world, source)}

(***************************************************************************)
(* The verdict on a row: the first line of the table whose condition holds *)
(* (quality, market status, reason).                                       *)
(***************************************************************************)
Verdict(quality, market, reason) ==
    [quality |-> quality, market |-> market, reason |-> reason]

FirstLine(table) ==
    table[CHOOSE i \in DOMAIN table :
              table[i].holds /\ \A j \in 1 .. i - 1 : ~ table[j].holds].verdict

When(condition, verdict) == [holds |-> condition, verdict |-> verdict]

VerdictTable(world, symbol, row) ==
    LET key == row.key
        resolved == key # Unresolved
        other == row.vendor # symbol
        found == row.source # None
        covers == row.days > 0
        whole == row.days >= row.asked
        partly(available) == [quality |-> IF whole THEN "valid" ELSE "partial",
                              market |-> IF whole THEN available ELSE "partial"]
        unnamed == IF symbol \in Dotted THEN "E_vendor_symbol_differs" ELSE "D_unresolved"
        later == HasFile(world, symbol) /\ FirstBar(world, symbol) >= row.expected.to
    IN <<
        When(row.failed, Verdict("unusable", "unusable", "H_identity_failed")),
        When(row.recycled /\ ~ covers,
             Verdict(IF WindowMeets(world, symbol, row.expected) THEN "unusable" ELSE "n/a",
                     "missing", "C_recycled")),
        When(other /\ found /\ covers,
             Verdict(partly("other").quality, partly("other").market, "G_other_ticker")),
        When(other /\ ~ found,
             Verdict("n/a", "missing",
                     IF symbol \in Dotted THEN "E_vendor_symbol_differs" ELSE "B_ticker_change")),
        When(row.changed /\ ~ covers, Verdict("n/a", "missing", "B_ticker_change")),
        When(row.delisted /\ covers,
             Verdict(partly("available").quality, partly("available").market, "F_delisted")),
        When(row.delisted /\ later, Verdict("n/a", "missing", "C_recycled")),
        When(row.delisted, Verdict("n/a", "missing", "A_unavailable")),
        When(~ covers /\ ~ row.listed /\ ~ resolved, Verdict("n/a", "missing", unnamed)),
        When(~ covers, Verdict("n/a", "missing",
                               IF resolved THEN "I_insufficient" ELSE "D_unresolved")),
        When(~ whole, Verdict("partial", "partial",
                              IF resolved THEN "I_insufficient" ELSE "D_unresolved")),
        When(TRUE, Verdict("valid", "available", IF resolved THEN None ELSE "D_unresolved"))
       >>

Classify(world, symbol, row) == FirstLine(VerdictTable(world, symbol, row))

\* A row with its verdict.
Judged(row, verdict) ==
    [row EXCEPT !.quality = verdict.quality, !.market = verdict.market,
                !.reason = verdict.reason]

CoverageRow(world, symbol) ==
    LET expected == Expected(world, symbol)
        key == ResolveSecurity(world.master, symbol, expected.from)
        row == [symbol |-> symbol, expected |-> expected, key |-> key,
                vendor |-> PreferredVendorSymbol(world.master, symbol, expected.from, End),
                source |-> PriceSource(world, symbol, expected),
                failed |-> IdentityFailed(world, symbol, expected),
                days |-> Cardinality(CoveredDays(world, symbol, expected)),
                asked |-> expected.to - expected.from,
                recycled |-> IsRecycled(world, symbol),
                changed |-> key # Unresolved /\ IsTickerChange(world, key),
                delisted |-> IsDelisted(world, key),
                listed |-> HasFile(world, symbol),
                encountered |-> symbol \in RebalanceEncountered(world),
                quality |-> None, market |-> None, reason |-> None]
    IN Judged(row, Classify(world, symbol, row))

(***************************************************************************)
(* The counters of the report, one row at a time.                          *)
(***************************************************************************)
Zero == [securities |-> 0, unresolved |-> 0, unusable |-> 0, missing |-> 0, partial |-> 0,
         valid |-> 0, unlisted |-> 0, rebalanceUnlisted |-> 0]

One(condition) == IF condition THEN 1 ELSE 0

\* Mutation: an unusable row with prices is counted as valid.
CountAny(counts, row) ==
    [counts EXCEPT !.securities = @ + 1,
                   !.missing = @ + One(row.days = 0),
                   !.valid = @ + 1]

Count(counts, row) ==
    LET usable == row.quality # "unusable"
    IN [counts EXCEPT
          !.securities = @ + 1,
          !.unresolved = @ + One(row.key = Unresolved),
          !.unusable = @ + One(~ usable),
          !.missing = @ + One(row.days = 0),
          !.partial = @ + One(row.days > 0 /\ row.days < row.asked),
          !.valid = @ + One(row.days > 0 /\ usable),
          !.unlisted = @ + One(~ row.listed),
          !.rebalanceUnlisted = @ + One(~ row.listed /\ row.encountered)]
=============================================================================
