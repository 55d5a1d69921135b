---------------------------- MODULE UniverseImport ----------------------------
(***************************************************************************)
(* Historical index membership: the import of app/universe and             *)
(* scripts/import_sp500_universe.py, from the change-date snapshots of the *)
(* source to the rows every point-in-time query reads.                     *)
(*                                                                         *)
(* The source publishes, per change date, the tickers that are members     *)
(* from that date on, and keeps growing; an import downloads it (or reads  *)
(* the copy an earlier download left), turns it into half-open intervals   *)
(* one change date at a time, validates them and upserts them in one       *)
(* transaction.  Dates are naturals; a tickers list is the set of symbols  *)
(* left after the source's removal suffixes are stripped.                  *)
(***************************************************************************)
EXTENDS Naturals, FiniteSets

CONSTANTS
    Symbols,
    LastDate          \* the calendar is 1 .. LastDate

ASSUME UniverseAssumption == LastDate \in Nat

Dates == 1 .. LastDate
Forever == LastDate + 1      \* end_date None: date.max, DATE '9999-12-31'

VARIABLES
    published,        \* the dataset upstream: a function from change dates to tickers
    cacheFile,        \* the copy the last download wrote
    phase,            \* "idle", "convert", "persist"
    snapshots,        \* the dataset this import works on
    pending,          \* change dates not converted yet
    previous,         \* members as of the last converted change date
    openStarts,       \* when each of them joined
    intervals,        \* memberships converted so far
    rows,             \* table sp500_constituent_memberships
    imported          \* history variable: the datasets whose import has committed

conversion == <<snapshots, pending, previous, openStarts, intervals>>
universeVars == <<published, cacheFile, phase, conversion, rows, imported>>

Membership == {m \in [symbol : Symbols, start : Dates, end : 2 .. Forever] : m.start < m.end}

Contains(interval, day) == interval.start <= day /\ day < interval.end

\* get_memberships_as_of, and the sorted symbols of get_symbols.
AsOf(table, day) == {row.symbol : row \in {r \in table : Contains(r, day)}}

\* Mutation: an interval that ends where the window starts is taken in.
TouchesWindow(interval, start, end) == interval.start <= end /\ start <= interval.end

\* symbols_overlapping_window: the window is closed, the intervals half-open.
OverlapsWindow(interval, start, end) == interval.start <= end /\ start < interval.end
Overlapping(table, start, end) ==
    {row.symbol : row \in {r \in table : OverlapsWindow(r, start, end)}}

\* validate_memberships refuses two different intervals of a symbol that share a day.
IntervalsOverlap(m, n) == m.symbol = n.symbol /\ m.start < n.end /\ n.start < m.end
HasOverlap(table) == \E m, n \in table : m # n /\ IntervalsOverlap(m, n)

UniverseInit ==
    /\ published = << >> /\ cacheFile = << >>
    /\ phase = "idle"
    /\ snapshots = << >> /\ pending = {} /\ previous = {}
    /\ openStarts = << >> /\ intervals = {}
    /\ rows = {} /\ imported = {}

\* The process ends, and what it had converted with it.
Exit ==
    /\ phase' = "idle"
    /\ snapshots' = << >> /\ pending' = {} /\ previous' = {}
    /\ openStarts' = << >> /\ intervals' = {}

\* The maintainers of the source append a snapshot.  parse_snapshots accepts one list
\* per change date, none of them empty.
Publish(day, members) ==
    /\ \A d \in DOMAIN published : d < day
    /\ published' = [d \in DOMAIN published \cup {day} |->
                        IF d = day THEN members ELSE published[d]]
    /\ UNCHANGED <<cacheFile, phase, conversion, rows, imported>>

\* A dataset without rows is refused by the parser.
Start(dataset) ==
    /\ phase = "idle" /\ DOMAIN dataset # {}
    /\ phase' = "convert"
    /\ snapshots' = dataset /\ pending' = DOMAIN dataset
    /\ previous' = {} /\ openStarts' = << >> /\ intervals' = {}
    /\ UNCHANGED <<published, rows, imported>>

DownloadDataset == Start(published) /\ cacheFile' = published
ReadFile == Start(cacheFile) /\ UNCHANGED cacheFile

\* Mutation: a symbol that left keeps its first start, and comes back with it.
FirstStarts(members, day) ==
    [s \in members \cup DOMAIN openStarts |->
        IF s \in DOMAIN openStarts THEN openStarts[s] ELSE day]

\* When the members of a change date joined.
StartsAfter(members, day) ==
    [s \in members |-> IF s \in previous THEN openStarts[s] ELSE day]

\* Mutation: the change date is the last day of the ones that leave, not the first
\* day without them.
ClosedAfter(members, day) ==
    {[symbol |-> s, start |-> openStarts[s], end |-> day + 1] : s \in previous \ members}

\* The memberships a change date ends.
Closed(members, day) ==
    {[symbol |-> s, start |-> openStarts[s], end |-> day] : s \in previous \ members}

Convert(day) ==
    /\ phase = "convert" /\ day \in pending
    /\ \A d \in pending : day <= d
    /\ LET members == snapshots[day] IN
       /\ intervals' = intervals \cup Closed(members, day)
       /\ openStarts' = StartsAfter(members, day)
       /\ previous' = members
    /\ pending' = pending \ {day}
    /\ UNCHANGED <<published, cacheFile, phase, snapshots, rows, imported>>

\* Memberships still open after the last change date have no end.
CloseOut ==
    /\ phase = "convert" /\ pending = {}
    /\ phase' = "persist"
    /\ intervals' = intervals \cup
           {[symbol |-> s, start |-> openStarts[s], end |-> Forever] : s \in previous}
    /\ UNCHANGED <<published, cacheFile, snapshots, pending, previous, openStarts, rows, imported>>

\* Mutation: the rows of every symbol it brings a new row of are replaced.
ReplaceFresh(new) ==
    LET fresh == new \ rows
    IN  fresh \cup {r \in rows : \A m \in fresh : r.symbol # m.symbol}

\* on_conflict_do_nothing on (symbol, start_date, COALESCE(end_date, 9999-12-31)).
Upsert(new) == rows \cup new

\* All batches and the commit are one transaction; overlapping input is refused.
Persist ==
    /\ phase = "persist" /\ Exit
    /\ IF HasOverlap(intervals)
       THEN UNCHANGED <<rows, imported>>
       ELSE rows' = Upsert(intervals) /\ imported' = imported \cup {snapshots}
    /\ UNCHANGED <<published, cacheFile>>

\* The process dies, or the database does: the transaction is rolled back.
Abort ==
    /\ phase # "idle" /\ Exit
    /\ UNCHANGED <<published, cacheFile, rows, imported>>

UniverseNext ==
    \/ \E day \in Dates, members \in SUBSET Symbols \ {{}} : Publish(day, members)
    \/ DownloadDataset \/ ReadFile
    \/ \E day \in Dates : Convert(day)
    \/ CloseOut \/ Persist \/ Abort

UniverseSpec == UniverseInit /\ [][UniverseNext]_universeVars

------------------------------------------------------------------------------
(* Properties.                                                              *)

\* A dataset, as far as one can be published.
IsDataset(d) == DOMAIN d \subseteq Dates /\ \A day \in DOMAIN d : d[day] \subseteq Symbols

TypeOK ==
    /\ IsDataset(published) /\ IsDataset(cacheFile) /\ IsDataset(snapshots)
    /\ phase \in {"idle", "convert", "persist"}
    /\ pending \subseteq DOMAIN snapshots
    /\ previous \subseteq Symbols
    /\ DOMAIN openStarts = previous /\ \A s \in previous : openStarts[s] \in Dates
    /\ intervals \subseteq Membership
    /\ rows \subseteq Membership
    /\ \A d \in imported : IsDataset(d)

\* The members of a dataset on a day: those of its last snapshot up to that day.
IsLatest(dataset, change, day) ==
    /\ change \in DOMAIN dataset /\ change <= day
    /\ \A d \in DOMAIN dataset : d <= day => d <= change
Truth(dataset, day) ==
    {s \in Symbols : \E change \in DOMAIN dataset :
                        IsLatest(dataset, change, day) /\ s \in dataset[change]}

\* The intervals of a finished conversion say of every day exactly what the last
\* snapshot up to that day says, the change dates themselves included.
IntervalsMatchSnapshots ==
    phase = "persist" => \A day \in Dates : AsOf(intervals, day) = Truth(snapshots, day)

\* No conversion is refused: whatever leaves and comes back, the periods of a symbol
\* never share a day.
NeverRefused == phase = "persist" => ~HasOverlap(intervals)

\* A point-in-time query answers with the members of that day in any of the datasets
\* ever imported.  (So a name that left keeps the open row of an older import.)
AsOfIsUnionOfImports ==
    \A day \in Dates : AsOf(rows, day) = UNION {Truth(d, day) : d \in imported}

\* The symbols whose prices are loaded for a window are the members of its days.
WindowCoversMembers ==
    \A start, end \in Dates : start <= end =>
        Overlapping(rows, start, end) = UNION {AsOf(rows, day) : day \in start .. end}

------------------------------------------------------------------------------
(* What the documentation says and the program does not do.                 *)

\* universe/validation.py:3 "Invalid and overlapping intervals are reported and must
\* not be persisted."  A backtest that rebalances on a day two rows of a symbol share is
\* aborted (occupancy_by_ticker, backtest/identity_attach.py).
NoStoredOverlap == ~HasOverlap(rows)
=============================================================================
