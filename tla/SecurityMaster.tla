--------------------------- MODULE SecurityMaster ---------------------------
(***************************************************************************)
(* Authoring, importing and loading the Security Master.                   *)
(*                                                                         *)
(* An author edits the known-identities file.  import_security_master.py   *)
(* reads and validates it, then inserts securities, tickers and            *)
(* identifiers in one database session that commits or rolls back; every   *)
(* insert does nothing on a conflict.  A service loads the catalog from    *)
(* the database, keeps it, and answers from it until it loads again.       *)
(*                                                                         *)
(* A stored row has no place of its own: the table holds at most one row   *)
(* per interval, so the interval is its key.  load_all orders the rows by  *)
(* name and start, and nothing asked of the loaded catalog here depends on *)
(* the order.                                                              *)
(***************************************************************************)
EXTENDS Catalog, FiniteSets

CONSTANTS
    FirstSeeds,   \* the files an author may start from
    IdValues,     \* external identifiers (CIK, FIGI)
    MaxEdits      \* bound on the edits of the file

\* One security of the file, with its ticker rows and its identifiers.
SeedBlock == [seed_key : Keys, status : Statuses, tickers : Seq(Row), identifiers : SUBSET IdValues]

ASSUME SeedAssumption == FirstSeeds \subseteq Seq(SeedBlock) /\ MaxEdits \in Nat

VARIABLES
    seed,      \* the file: a sequence of securities with their tickers
    edits,     \* how often it was edited (bounds the model)
    step,      \* where the import script is
    catalog,   \* the catalog it validated
    session,   \* its uncommitted view of the database
    db,        \* the committed database
    imported,  \* history: the catalogs whose import committed
    service    \* the catalog a reading service holds, or NoCatalog

vars == <<seed, edits, step, catalog, session, db, imported, service>>
script == <<step, catalog, session>>

NoCatalog == [securities |-> <<>>, tickers |-> <<>>]
EmptyDb == [securities |-> <<>>, tickers |-> <<>>, identifiers |-> {}]

Identifiers == [seed_key : Keys, value : IdValues]

(***************************************************************************)
(* catalog_from_payload: the rows of the file in file order.               *)
(***************************************************************************)
SeedRows(file) ==
    LET upTo[n \in 0 .. Len(file)] ==
            IF n = 0 THEN <<>> ELSE upTo[n - 1] \o file[n].tickers
    IN upTo[Len(file)]

SeedSecurities(file) ==
    [key \in {file[n].seed_key : n \in DOMAIN file} |->
        file[CHOOSE n \in DOMAIN file : file[n].seed_key = key].status]

SeedIdentifiers(file) ==
    {id \in Identifiers :
        \E n \in DOMAIN file : id.seed_key = file[n].seed_key /\ id.value \in file[n].identifiers}

(***************************************************************************)
(* The inserts: ON CONFLICT DO NOTHING on the seed key, on the interval    *)
(* with its open end replaced by a last date, and on the identifier value. *)
(***************************************************************************)
Stored(tickers) == {IntervalKey(tickers[i]) : i \in DOMAIN tickers}

InsertSecurities(old, new) ==
    [key \in DOMAIN old \cup DOMAIN new |-> IF key \in DOMAIN old THEN old[key] ELSE new[key]]

\* The row of an interval.
RowAt(rows, key) == CHOOSE row \in rows : IntervalKey(row) = key

RowsOf(tickers) == {tickers[i] : i \in DOMAIN tickers}

\* Mutation: a conflicting interval takes the security of the new row.
OverwriteTickers(old, new) ==
    [key \in DOMAIN old \cup Stored(new) |->
        IF key \in Stored(new) THEN RowAt(RowsOf(new), key) ELSE old[key]]

\* Mutation: a row that starts where a stored one starts moves its end.
ExtendTickers(old, new) ==
    LET starts(row) == <<row.scheme, row.ticker, row.valid_from>>
        others(row, rows) == {other \in rows : starts(other) = starts(row)}
        moved(row) == IF others(row, RowsOf(new)) = {} THEN row
                      ELSE [row EXCEPT !.valid_to =
                               (CHOOSE other \in others(row, RowsOf(new)) : TRUE).valid_to]
        rows == {moved(row) : row \in RowsOf(old)}
                \cup {row \in RowsOf(new) : others(row, RowsOf(old)) = {}}
    IN [key \in {IntervalKey(row) : row \in rows} |-> RowAt(rows, key)]

InsertTickers(old, new) ==
    [key \in DOMAIN old \cup Stored(new) |->
        IF key \in DOMAIN old THEN old[key] ELSE RowAt(RowsOf(new), key)]

InsertIdentifiers(old, new) ==
    old \cup {id \in new : \A stored \in old : stored.value # id.value}

-----------------------------------------------------------------------------
Init ==
    /\ seed \in FirstSeeds
    /\ edits = 0
    /\ step = "idle" /\ catalog = NoCatalog /\ session = EmptyDb
    /\ db = EmptyDb
    /\ imported = {}
    /\ service = NoCatalog

Edit(file) ==
    /\ edits < MaxEdits
    /\ edits' = edits + 1
    /\ seed' = file
    /\ UNCHANGED <<step, catalog, session, db, imported, service>>

\* The author opens an interval: a listing, a rename, a recycled ticker, a
\* vendor symbol.
AddTicker(n, scheme, ticker, from) ==
    LET row == [seed_key |-> seed[n].seed_key, scheme |-> scheme, ticker |-> ticker,
                valid_from |-> from, valid_to |-> Forever, continuity |-> FALSE]
    IN Edit([seed EXCEPT ![n].tickers = Append(@, row)])

\* The author sets the end of an interval: a delisting, a rename, a correction.
EndTicker(n, i, to, status) ==
    Edit([seed EXCEPT ![n].tickers[i].valid_to = to, ![n].status = status])

\* The author moves the last interval of one security to another.
MoveTicker(n, m) ==
    /\ n # m /\ Len(seed[n].tickers) > 0
    /\ LET last == Len(seed[n].tickers)
           row == [seed[n].tickers[last] EXCEPT !.seed_key = seed[m].seed_key]
       IN Edit([seed EXCEPT ![n].tickers = SubSeq(@, 1, last - 1),
                            ![m].tickers = Append(@, row)])

(***************************************************************************)
(* The import script.                                                      *)
(***************************************************************************)
\* load_known_identities_catalog refuses a file with an empty interval or with
\* intervals that overlap; the script then exits before it opens a session.
Validate ==
    /\ step = "idle"
    /\ Accepted(SeedSecurities(seed), SeedRows(seed))
    /\ step' = "securities"
    /\ catalog' = CatalogOf(SeedSecurities(seed), SeedRows(seed))
    /\ session' = db
    /\ UNCHANGED <<seed, edits, db, imported, service>>

UpsertSecurities ==
    /\ step = "securities"
    /\ session' = [session EXCEPT !.securities = InsertSecurities(@, catalog.securities)]
    /\ step' = "tickers"
    /\ UNCHANGED <<seed, edits, catalog, db, imported, service>>

UpsertTickers ==
    /\ step = "tickers"
    /\ session' = [session EXCEPT !.tickers = InsertTickers(@, catalog.tickers)]
    /\ step' = "identifiers"
    /\ UNCHANGED <<seed, edits, catalog, db, imported, service>>

\* The identifiers are those of the file as it was read; the file's author
\* edits tickers only, so they are read from it here.
UpsertIdentifiers ==
    /\ step = "identifiers"
    /\ session' = [session EXCEPT !.identifiers = InsertIdentifiers(@, SeedIdentifiers(seed))]
    /\ step' = "commit"
    /\ UNCHANGED <<seed, edits, catalog, db, imported, service>>

Commit ==
    /\ step = "commit"
    /\ db' = session
    /\ imported' = imported \cup {catalog}
    /\ step' = "idle" /\ catalog' = NoCatalog /\ session' = EmptyDb
    /\ UNCHANGED <<seed, edits, service>>

\* An insert or the commit fails, or the process dies: nothing is stored.
Rollback ==
    /\ step # "idle"
    /\ step' = "idle" /\ catalog' = NoCatalog /\ session' = EmptyDb
    /\ UNCHANGED <<seed, edits, db, imported, service>>

(***************************************************************************)
(* SecurityMasterService.load_catalog raises when the stored rows overlap, *)
(* and the service keeps what it held.                                     *)
(***************************************************************************)
LoadCatalog ==
    /\ service' = IF Accepted(db.securities, db.tickers)
                  THEN CatalogOf(db.securities, db.tickers)
                  ELSE service
    /\ UNCHANGED <<seed, edits, script, db, imported>>

Next ==
    \/ \E n \in DOMAIN seed, scheme \in Schemes, ticker \in Tickers, from \in Days :
           AddTicker(n, scheme, ticker, from)
    \/ \E n \in DOMAIN seed :
           \E i \in DOMAIN seed[n].tickers, to \in 1 .. Forever, status \in Statuses :
               EndTicker(n, i, to, status)
    \/ \E n, m \in DOMAIN seed : MoveTicker(n, m)
    \/ Validate \/ UpsertSecurities \/ UpsertTickers \/ UpsertIdentifiers
    \/ Commit \/ Rollback
    \/ LoadCatalog

Spec == Init /\ [][Next]_vars

-----------------------------------------------------------------------------
\* What the database holds is rows of known securities, one per interval.
WellFormed(store) ==
    /\ DOMAIN store.securities \subseteq Keys
    /\ \A key \in DOMAIN store.securities : store.securities[key] \in Statuses
    /\ \A i \in DOMAIN store.tickers :
           Constructed(store.tickers[i]) /\ store.tickers[i].seed_key \in DOMAIN store.securities
    /\ \A i, j \in DOMAIN store.tickers :
           i # j => IntervalKey(store.tickers[i]) # IntervalKey(store.tickers[j])

TypeOK ==
    /\ seed \in Seq(SeedBlock) /\ edits \in 0 .. MaxEdits
    /\ step \in {"idle", "securities", "tickers", "identifiers", "commit"}
    /\ WellFormed(db) /\ db.identifiers \subseteq Identifiers
    /\ WellFormed(session) /\ session.identifiers \subseteq Identifiers
    /\ WellFormed(catalog) /\ WellFormed(service)
    /\ \A known \in imported : WellFormed(known)

\* A service that answers from the database, after any sequence of edits,
\* imports, rollbacks and stale loads, says of a ticker on a day only what
\* some imported catalog said: conflicting inserts, reattributed rows and
\* closed intervals never combine into an answer nobody authored.
AnswersWereImported ==
    \A scheme \in Schemes, ticker \in Tickers, day \in Days :
        LET answer == Resolve(service, scheme, ticker, day)
        IN answer # Unresolved =>
               \E known \in imported : Resolve(known, scheme, ticker, day) = answer

\* An import is stored whole or not at all, adds to what is stored without
\* changing it, and a catalog already imported changes nothing.
ImportsAreWhole ==
    [][ \/ db' = db
        \/ /\ DOMAIN db.tickers \subseteq DOMAIN db'.tickers
           /\ \A interval \in DOMAIN db.tickers : db'.tickers[interval] = db.tickers[interval]
           /\ \A key \in DOMAIN db.securities : db'.securities[key] = db.securities[key]
           /\ Stored(catalog.tickers) \subseteq DOMAIN db'.tickers
           /\ DOMAIN catalog.securities \subseteq DOMAIN db'.securities
           /\ catalog \notin imported ]_vars
=============================================================================
