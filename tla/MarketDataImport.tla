--------------------------- MODULE MarketDataImport ---------------------------
(***************************************************************************)
(* The import of one symbol's daily bars: MarketDataService._import_symbol *)
(* (app/data/market_data.py) with the historical provider and its CSV      *)
(* cache, in the session_scope scripts/import_market_data.py opens for it. *)
(*                                                                         *)
(* Imports of any window follow each other; the vendor's series grows in   *)
(* between, calls fail, and the process may die at any point.  A bar is    *)
(* its day: what a bar holds is abstracted, except that the vendor's row   *)
(* of a day may fail validation.  Windows are short here, so the lengths   *)
(* the code states in days are constants.                                  *)
(***************************************************************************)
EXTENDS Integers, FiniteSets, FiniteSetsExt

CONSTANTS
    LastDay,          \* the calendar is 1 .. LastDay
    Listings,         \* possible vendor series: records [bars, invalid] of sets of days
    Tolerance,        \* RANGE_TOLERANCE_DAYS and CACHE_RANGE_TOLERANCE_DAYS, 10
    LongWindow,       \* a window of at least this many days is gated, 365
    FewestBars,       \* 252
    NoSummary

Days == 1 .. LastDay

ASSUME ImportAssumption ==
    /\ LastDay \in Nat \ {0} /\ Tolerance \in Nat /\ LongWindow \in Nat /\ FewestBars \in Nat
    /\ \A v \in Listings : v.bars \subseteq Days /\ v.invalid \subseteq Days

VARIABLES
    vendor,           \* the series the vendor will have published in the end
    today,            \* it has published the days up to this one
    cache,            \* the days in the symbol's CSV file
    database,         \* the days of market_bars, committed
    stage,            \* "idle", "check", "fetch", "write", "save", "commit"
    window,           \* the request: [start, end, strict]
    merged,           \* what the cache file is about to be
    fetched,          \* what the provider returned: [bars, rowsRead, invalid, fromCache]
    session,          \* market_bars as this transaction sees them
    summary           \* of the import that runs or ran last

locals == <<window, merged, fetched, session>>
vars == <<vendor, today, cache, database, stage, locals, summary>>

InWindow(days) == {d \in days : window.start <= d /\ d <= window.end}
Length == window.end - window.start

\* _range_coverage_error: none if the first and the last bar are near enough.
Covers(days) ==
    /\ days # {}
    /\ Min(days) <= window.start + Tolerance
    /\ Max(days) >= window.end - Tolerance

\* minimum_expected_bars
BarsExpected == IF Length < LongWindow THEN 0 ELSE Max({FewestBars, Length \div 2})

Summary(status, origin, inserted, bars) ==
    [window |-> window, status |-> status, origin |-> origin, inserted |-> inserted,
     bars |-> bars]

NoFetch == [bars |-> {}, rowsRead |-> 0, invalid |-> 0, fromCache |-> FALSE]

Init ==
    /\ vendor \in Listings /\ today = 1
    /\ cache = {} /\ database = {}
    /\ stage = "idle"
    /\ window = [start |-> 1, end |-> 1, strict |-> TRUE]
    /\ merged = {} /\ fetched = NoFetch /\ session = {}
    /\ summary = NoSummary

\* Time passes between imports, and the last summary is history.
NextDay ==
    /\ stage = "idle" /\ today < LastDay
    /\ today' = today + 1 /\ summary' = NoSummary
    /\ UNCHANGED <<vendor, cache, database, stage, locals>>

\* One symbol, one session; explicit symbols are imported strictly, a universe is not.
Begin(start, end, strict) ==
    /\ stage = "idle" /\ stage' = "check"
    /\ window' = [start |-> start, end |-> end, strict |-> strict]
    /\ session' = database
    /\ merged' = {} /\ fetched' = NoFetch /\ summary' = NoSummary
    /\ UNCHANGED <<vendor, today, cache, database>>

\* The summary is known: what is left is to commit.
Report(status, origin, stored) ==
    /\ summary' = Summary(status, origin, Cardinality(session' \ session), Cardinality(stored))
    /\ stage' = "commit"

\* A window the database covers already is not fetched again.
CheckDatabase ==
    /\ stage = "check"
    /\ session' = session
    /\ IF Covers(InWindow(session))
       THEN Report("SUCCESS", "DATABASE", InWindow(session))
       ELSE stage' = "fetch" /\ UNCHANGED summary
    /\ UNCHANGED <<vendor, today, cache, database, window, merged, fetched>>

CacheHeadCovers == cache # {} /\ Min(cache) <= window.start + Tolerance

\* What is left to download: from the start up to the first cached day.
DownloadEnd == IF cache = {} THEN window.end ELSE Min({window.end, Min(cache) - 1})

ReuseCache ==
    /\ stage = "fetch" /\ stage' = "save"
    /\ CacheHeadCovers \/ DownloadEnd < window.start
    /\ fetched' = [bars |-> InWindow(cache), rowsRead |-> Cardinality(InWindow(cache)),
                   invalid |-> 0, fromCache |-> TRUE]
    /\ UNCHANGED <<vendor, today, cache, database, window, merged, session, summary>>

\* Rows of the vendor for the days asked for.
Served == {d \in vendor.bars : window.start <= d /\ d <= DownloadEnd /\ d <= today}

\* merge_bars: the file keeps what it has.
MergeBars(bars) == cache \cup bars

Download ==
    /\ stage = "fetch" /\ ~(CacheHeadCovers \/ DownloadEnd < window.start)
    /\ merged' = MergeBars(Served \ vendor.invalid)
    /\ fetched' = [bars |-> InWindow(merged'),
                   rowsRead |-> Cardinality(Served) + Cardinality(InWindow(cache)),
                   invalid |-> Cardinality(Served \cap vendor.invalid), fromCache |-> FALSE]
    /\ stage' = IF merged' = {} THEN "save" ELSE "write"
    /\ UNCHANGED <<vendor, today, cache, database, window, session, summary>>

\* Mutation: the download is tried again without limit.
RetryDownload ==
    /\ stage = "fetch" /\ ~(CacheHeadCovers \/ DownloadEnd < window.start)
    /\ stage' = "check"
    /\ UNCHANGED <<vendor, today, cache, database, locals, summary>>

\* The vendor cannot be reached: a FAILED summary, nothing to commit.
DownloadFails ==
    /\ stage = "fetch" /\ ~(CacheHeadCovers \/ DownloadEnd < window.start)
    /\ session' = session
    /\ Report("FAILED", "FAILED", {})
    /\ UNCHANGED <<vendor, today, cache, database, window, merged, fetched>>

WriteCache ==
    /\ stage = "write" /\ stage' = "save"
    /\ cache' = merged
    /\ UNCHANGED <<vendor, today, database, locals, summary>>

Origin == IF fetched.fromCache THEN "CACHED" ELSE "DOWNLOADED"

\* Nothing came back, or nothing valid.
NothingToSave ==
    /\ stage = "save" /\ fetched.bars = {}
    /\ session' = session
    /\ IF fetched.rowsRead = 0
       THEN Report("EMPTY", "EMPTY", {})
       ELSE Report("FAILED", "FAILED", {})
    /\ UNCHANGED <<vendor, today, cache, database, window, merged, fetched>>

\* Mutations: only what lies beyond the stored bars is inserted; only the count is gated.
InsertTail(bars) == session \cup {d \in bars : \A s \in session : s < d}

\* on_conflict_do_nothing: stored bars stay.
Insert(bars) == session \cup bars

CountedOnly(stored) == window.strict /\ Cardinality(stored) < BarsExpected

\* The gates a strict import fails, after its bars were inserted.
GateFails(stored) ==
    /\ window.strict
    /\ \/ Cardinality(stored) < BarsExpected
       \/ Length >= LongWindow /\ ~Covers(stored)

Warned(stored) ==
    \/ fetched.invalid > 0
    \/ Length >= LongWindow /\ ~Covers(stored) /\ ~window.strict

Save ==
    /\ stage = "save" /\ fetched.bars # {}
    /\ session' = Insert(fetched.bars)
    /\ LET stored == InWindow(session')
           inserted == session' \ session
           duplicates == fetched.bars \cap session
       IN  Report(IF GateFails(stored) THEN "FAILED"
                  ELSE IF Warned(stored) \/ (inserted # {} /\ duplicates # {})
                  THEN "SUCCESS_WITH_WARNINGS" ELSE "SUCCESS", Origin, stored)
    /\ UNCHANGED <<vendor, today, cache, database, window, merged, fetched>>

\* The process forgets the import.
Leave ==
    /\ stage' = "idle"
    /\ merged' = {} /\ fetched' = NoFetch /\ session' = {}
    /\ UNCHANGED <<vendor, today, window>>

\* session_scope commits whatever the summary says.
Commit ==
    /\ stage = "commit" /\ Leave
    /\ database' = session
    /\ UNCHANGED <<cache, summary>>

\* Mutation: the rows before the one that failed stay.
KeepFirstRow ==
    /\ stage = "save" /\ fetched.bars # {} /\ Leave
    /\ summary' = Summary("FAILED", "FAILED", 0, 0)
    /\ database' = database \cup {Min(fetched.bars)}
    /\ UNCHANGED cache

\* A database error while saving rolls back and is reported as FAILED by the batch.
DatabaseFails ==
    /\ stage = "save" /\ fetched.bars # {} /\ Leave
    /\ summary' = Summary("FAILED", "FAILED", 0, 0)
    /\ UNCHANGED <<cache, database>>

\* The process dies: the transaction is rolled back.
Crash ==
    /\ stage # "idle" /\ Leave
    /\ summary' = NoSummary
    /\ UNCHANGED <<cache, database>>

\* The file is rewritten in place and in order, so a crash leaves a first part of it.
CrashInWrite(rows) ==
    /\ stage = "write" /\ Leave
    /\ cache' = {d \in merged : Cardinality({e \in merged : e <= d}) <= rows}
    /\ cache' # merged
    /\ summary' = NoSummary
    /\ UNCHANGED database

Step ==
    \/ CheckDatabase \/ ReuseCache \/ Download \/ DownloadFails \/ WriteCache
    \/ NothingToSave \/ Save \/ Commit \/ DatabaseFails

Next ==
    \/ NextDay
    \/ \E start, end \in Days, strict \in BOOLEAN : start <= end /\ Begin(start, end, strict)
    \/ Step
    \/ Crash
    \/ \E rows \in 0 .. LastDay : CrashInWrite(rows)

\* The program keeps running once it is started; nobody has to start it.
Spec == Init /\ [][Next]_vars /\ WF_vars(Step)

------------------------------------------------------------------------------
(* Properties.                                                              *)

Statuses == {"SUCCESS", "SUCCESS_WITH_WARNINGS", "FAILED", "EMPTY"}
Successful == {"SUCCESS", "SUCCESS_WITH_WARNINGS"}

\* The summary of an import that has ended with its commit.
Reported == stage = "idle" /\ summary # NoSummary
Stored == InWindow(database)

\* A strict import that reports success of a long window has stored both its ends, to
\* within the tolerance; one that is not strict says so with a warning if it has not.
SuccessCoversEnds ==
    (Reported /\ Length >= LongWindow /\ ~Covers(Stored)) =>
        summary.status \in {"FAILED", "EMPTY"}
            \cup IF window.strict THEN {} ELSE {"SUCCESS_WITH_WARNINGS"}

\* An import that fetched and committed has stored everything the cache file now has of
\* its window: file and table do not drift apart, whatever crashed before.
CacheIsStored ==
    (Reported /\ summary.origin \in {"CACHED", "DOWNLOADED"}) => InWindow(cache) \subseteq database

\* market_bars only changes by a commit, which adds the fetched bars of one window as
\* a whole, and the summary counts exactly the rows it added.
CommitsWholeImports ==
    [][database' # database =>
        /\ stage = "commit" /\ fetched.bars # {}
        /\ database' = database \cup fetched.bars
        /\ summary.inserted = Cardinality(database' \ database)]_vars

\* Every import ends.
ImportEnds == stage # "idle" ~> stage = "idle"
=============================================================================
