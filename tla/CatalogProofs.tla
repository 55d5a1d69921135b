--------------------------- MODULE CatalogProofs ---------------------------
(***************************************************************************)
(* Theorems about the two machines built on the catalog: SecurityMaster,   *)
(* which stores it, and ResearchData, which asks it.                       *)
(*                                                                         *)
(* For all files, edits and imports, what a service answers from the       *)
(* database was said by one imported catalog.  The property alone is not   *)
(* inductive: a service answers from what it loaded, the database holds    *)
(* what sessions committed, and a session holds the rows of the catalog it *)
(* was opened with.  The invariant follows a row along that way, and keeps *)
(* of every catalog that no two of its rows overlap: the row that decides  *)
(* an answer then decides it as well in the catalog it came from.  And an  *)
(* import adds all of its catalog, or nothing (CatalogsAreStoredWhole).    *)
(***************************************************************************)
EXTENDS SecurityMaster, ResearchData, SequenceTheorems, Sums

RowsIn(catalogs) == UNION {RowsOf(known.tickers) : known \in catalogs}

\* A catalog whose rows never contradict each other.
Clean(master) ==
    /\ \A i \in DOMAIN master.tickers : Constructed(master.tickers[i])
    /\ \A i, j \in DOMAIN master.tickers :
           i # j => ~ IntervalsOverlap(master.tickers[i], master.tickers[j])

IsStore(store) ==
    store = [securities |-> store.securities, tickers |-> store.tickers,
             identifiers |-> store.identifiers]

Origin ==
    /\ step \in {"idle", "securities", "tickers", "identifiers", "commit"}
    /\ IsStore(db) /\ IsStore(session)
    /\ \A known \in imported : Clean(known)
    /\ step # "idle" => Clean(catalog)
    /\ RowsOf(db.tickers) \subseteq RowsIn(imported)
    /\ step # "idle" => RowsOf(session.tickers) \subseteq RowsIn(imported \cup {catalog})
    /\ RowsOf(service.tickers) \subseteq RowsIn(imported)

(***************************************************************************)
(* The operators.                                                          *)
(***************************************************************************)
\* What validate_tickers lets through and the catalog keeps is clean, and
\* nothing but rows it was given.
LEMMA CatalogOfAccepted ==
    ASSUME NEW securities, NEW listed, Accepted(securities, listed)
    PROVE  /\ Clean(CatalogOf(securities, listed))
           /\ RowsOf(CatalogOf(securities, listed).tickers) \subseteq RowsOf(listed)
<1> DEFINE made == CatalogOf(securities, listed)
<1>1. /\ DOMAIN made.tickers = Kept(listed)
      /\ \A i \in Kept(listed) : made.tickers[i] = listed[i]
      /\ Kept(listed) \subseteq DOMAIN listed
  BY DEF CatalogOf, Kept
<1> HIDE DEF made
<1>2. Clean(made)
  BY <1>1 DEF Accepted, HasOverlap, Clean
<1>3. RowsOf(made.tickers) \subseteq RowsOf(listed)
  BY <1>1 DEF RowsOf
<1>4. QED
  BY <1>2, <1>3 DEF made

\* ON CONFLICT DO NOTHING leaves the stored rows and adds rows of the catalog.
LEMMA InsertedRows ==
    ASSUME NEW old, NEW new
    PROVE  RowsOf(InsertTickers(old, new)) \subseteq RowsOf(old) \cup RowsOf(new)
<1> SUFFICES ASSUME NEW key \in DOMAIN old \cup Stored(new)
             PROVE  (IF key \in DOMAIN old THEN old[key] ELSE RowAt(RowsOf(new), key))
                        \in RowsOf(old) \cup RowsOf(new)
  BY DEF InsertTickers, RowsOf
<1>1. CASE key \in DOMAIN old
  BY <1>1 DEF RowsOf
<1>2. CASE key \notin DOMAIN old
  <2>1. \E row \in RowsOf(new) : IntervalKey(row) = key
    BY <1>2 DEF Stored, RowsOf
  <2>2. RowAt(RowsOf(new), key) \in RowsOf(new)
    BY <2>1 DEF RowAt
  <2>3. QED
    BY <1>2, <2>2
<1>3. QED
  BY <1>1, <1>2

LEMMA RowsInGrows ==
    ASSUME NEW few, NEW many, few \subseteq many
    PROVE  RowsIn(few) \subseteq RowsIn(many)
BY DEF RowsIn

\* Two rows of one name that hold on one day overlap.
LEMMA SharedDayOverlaps ==
    ASSUME NEW a \in Row, NEW b \in Row, NEW day \in Days,
           SameName(a, b), Contains(a, day), Contains(b, day)
    PROVE  IntervalsOverlap(a, b)
<1>1. /\ a.valid_from \in Nat /\ a.valid_to \in Nat
      /\ b.valid_from \in Nat /\ b.valid_to \in Nat /\ day \in Nat
  BY ForeverAssumption DEF Row, Days
<1>2. QED
  BY <1>1 DEF Contains, IntervalsOverlap

\* In a clean catalog a row that holds on a day decides what its name means.
LEMMA RowDecides ==
    ASSUME NEW master, Clean(master), NEW j \in DOMAIN master.tickers, NEW day \in Days,
           Contains(master.tickers[j], day)
    PROVE  Resolve(master, master.tickers[j].scheme, master.tickers[j].ticker, day)
               = master.tickers[j].seed_key
<1> DEFINE row == master.tickers[j]
           hits == Matches(master, row.scheme, row.ticker, day)
<1>1. hits = {j}
  <2>1. j \in hits
    BY DEF Matches
  <2>2. ASSUME NEW k \in hits, k # j
        PROVE  FALSE
    <3>1. /\ k \in DOMAIN master.tickers
          /\ SameName(master.tickers[k], row) /\ Contains(master.tickers[k], day)
      BY DEF Matches, SameName
    <3>2. IntervalsOverlap(master.tickers[k], row)
      BY <3>1, SharedDayOverlaps DEF Clean, Constructed
    <3>3. QED
      BY <2>2, <3>1, <3>2 DEF Clean
  <2>3. QED
    BY <2>1, <2>2
<1>2. (CHOOSE i \in hits : TRUE) = j
  BY <1>1
<1>3. QED
  BY <1>1, <1>2 DEF Resolve

(***************************************************************************)
(* The invariant.                                                          *)
(***************************************************************************)
LEMMA OriginInit == Init => Origin
BY DEF Init, Origin, IsStore, EmptyDb, NoCatalog, RowsOf, RowsIn

LEMMA OriginStep == Origin /\ [Next]_vars => Origin'
<1> SUFFICES ASSUME Origin, [Next]_vars
             PROVE  Origin'
  OBVIOUS
<1> USE DEF Origin
<1>1. ASSUME UNCHANGED <<script, db, imported, service>>
      PROVE  Origin'
  BY <1>1 DEF script
<1>2. ASSUME NEW file, Edit(file)
      PROVE  Origin'
  BY <1>1, <1>2 DEF Edit, script
<1>3. CASE Validate
  <2>1. Clean(catalog')
    BY <1>3, CatalogOfAccepted DEF Validate
  <2>2. RowsOf(session'.tickers) \subseteq RowsIn(imported' \cup {catalog'})
    BY <1>3, RowsInGrows DEF Validate
  <2>3. QED
    BY <1>3, <2>1, <2>2 DEF Validate
<1>4. CASE UpsertSecurities
  <2>1. session'.tickers = session.tickers /\ IsStore(session')
    BY <1>4 DEF UpsertSecurities, IsStore
  <2>2. QED
    BY <1>4, <2>1 DEF UpsertSecurities
<1>5. CASE UpsertTickers
  <2>1. /\ session'.tickers = InsertTickers(session.tickers, catalog.tickers)
        /\ IsStore(session')
    BY <1>5 DEF UpsertTickers, IsStore
  <2>2. RowsOf(catalog.tickers) \subseteq RowsIn(imported \cup {catalog})
    BY DEF RowsIn
  <2>3. RowsOf(session'.tickers) \subseteq RowsIn(imported \cup {catalog})
    BY <1>5, <2>1, <2>2, InsertedRows DEF UpsertTickers
  <2>4. QED
    BY <1>5, <2>1, <2>3 DEF UpsertTickers
<1>6. CASE UpsertIdentifiers
  <2>1. session'.tickers = session.tickers /\ IsStore(session')
    BY <1>6 DEF UpsertIdentifiers, IsStore
  <2>2. QED
    BY <1>6, <2>1 DEF UpsertIdentifiers
<1>7. CASE Commit
  <2>1. RowsOf(service'.tickers) \subseteq RowsIn(imported')
    BY <1>7, RowsInGrows DEF Commit
  <2>2. IsStore(session')
    BY <1>7 DEF Commit, IsStore, EmptyDb
  <2>3. QED
    BY <1>7, <2>1, <2>2 DEF Commit
<1>8. CASE Rollback
  <2>1. IsStore(session')
    BY <1>8 DEF Rollback, IsStore, EmptyDb
  <2>2. QED
    BY <1>8, <2>1 DEF Rollback
<1>9. CASE LoadCatalog
  <2>1. RowsOf(service'.tickers) \subseteq RowsIn(imported)
    BY <1>9, CatalogOfAccepted DEF LoadCatalog
  <2>2. QED
    BY <1>9, <2>1 DEF LoadCatalog, script
<1>10. QED
  BY <1>1, <1>2, <1>3, <1>4, <1>5, <1>6, <1>7, <1>8, <1>9
     DEF Next, vars, script, AddTicker, EndTicker, MoveTicker

LEMMA OriginGivesAnswers == Origin => AnswersWereImported
<1> SUFFICES ASSUME Origin, NEW scheme \in Schemes, NEW ticker \in Tickers, NEW day \in Days,
                    Resolve(service, scheme, ticker, day) # Unresolved
             PROVE  \E known \in imported :
                        Resolve(known, scheme, ticker, day)
                            = Resolve(service, scheme, ticker, day)
  BY DEF AnswersWereImported
<1>1. PICK i \in Matches(service, scheme, ticker, day) :
          Matches(service, scheme, ticker, day) = {i}
  BY DEF Resolve
<1>2. /\ i \in DOMAIN service.tickers
      /\ service.tickers[i].scheme = scheme /\ service.tickers[i].ticker = ticker
      /\ Contains(service.tickers[i], day)
  BY DEF Matches
<1>3. (CHOOSE n \in Matches(service, scheme, ticker, day) : TRUE) = i
  BY <1>1
<1>4. Resolve(service, scheme, ticker, day) = service.tickers[i].seed_key
  BY <1>1, <1>3 DEF Resolve
<1>5. PICK known \in imported : service.tickers[i] \in RowsOf(known.tickers)
  BY <1>2 DEF Origin, RowsIn, RowsOf
<1>6. PICK j \in DOMAIN known.tickers : known.tickers[j] = service.tickers[i]
  BY <1>5 DEF RowsOf
<1>7. Resolve(known, scheme, ticker, day) = service.tickers[i].seed_key
  BY <1>2, <1>6, RowDecides DEF Origin
<1>8. QED
  BY <1>4, <1>7

\* After any sequence of edits, imports, rollbacks and stale loads, what the
\* service answers of a ticker on a day was said by one imported catalog.
THEOREM AnswersImported == Spec => []AnswersWereImported
<1>1. Init => Origin
  BY OriginInit
<1>2. Origin /\ [Next]_vars => Origin'
  BY OriginStep
<1>3. Origin => AnswersWereImported
  BY OriginGivesAnswers
<1>4. QED
  BY <1>1, <1>2, <1>3, PTL DEF Spec

(***************************************************************************)
(* Type correctness.  A stored row is found under its own interval, and    *)
(* the securities of a catalog reach the session before its tickers do, so *)
(* no ticker names a security that is not stored.                          *)
(***************************************************************************)
Keyed(tickers) == \A key \in DOMAIN tickers : IntervalKey(tickers[key]) = key

KnownSecurities(securities) ==
    /\ DOMAIN securities \subseteq Keys
    /\ \A key \in DOMAIN securities : securities[key] \in Statuses

Typing ==
    /\ TypeOK /\ Origin
    /\ Keyed(db.tickers) /\ Keyed(session.tickers)
    /\ step \in {"tickers", "identifiers", "commit"} =>
           DOMAIN catalog.securities \subseteq DOMAIN session.securities

LEMMA SeedSecuritiesKnown ==
    ASSUME NEW file \in Seq(SeedBlock)
    PROVE  KnownSecurities(SeedSecurities(file))
<1>1. \A n \in DOMAIN file : file[n].seed_key \in Keys /\ file[n].status \in Statuses
  <2>1. \A n \in DOMAIN file : file[n] \in SeedBlock
    OBVIOUS
  <2>2. QED
    BY <2>1 DEF SeedBlock
<1>2. ASSUME NEW key \in {file[n].seed_key : n \in DOMAIN file}
      PROVE  file[CHOOSE n \in DOMAIN file : file[n].seed_key = key].status \in Statuses
  BY <1>1, <1>2
<1>3. QED
  BY <1>1, <1>2 DEF SeedSecurities, KnownSecurities

\* Rows of one interval would overlap, so the rows of a clean catalog state
\* different intervals.
LEMMA CleanRowsDiffer ==
    ASSUME NEW a, NEW b, Constructed(a), Constructed(b), ~ IntervalsOverlap(a, b)
    PROVE  IntervalKey(a) # IntervalKey(b)
<1> SUFFICES ASSUME IntervalKey(a) = IntervalKey(b)
             PROVE  FALSE
  OBVIOUS
<1>1. /\ a.scheme = b.scheme /\ a.ticker = b.ticker
      /\ a.valid_from = b.valid_from /\ a.valid_to = b.valid_to
  BY DEF IntervalKey
<1>2. QED
  BY <1>1 DEF IntervalsOverlap, SameName, Constructed

LEMMA CatalogWellFormed ==
    ASSUME NEW securities, NEW listed, KnownSecurities(securities), Accepted(securities, listed)
    PROVE  WellFormed(CatalogOf(securities, listed))
<1> DEFINE made == CatalogOf(securities, listed)
<1>1. /\ made.securities = securities
      /\ DOMAIN made.tickers = Kept(listed)
      /\ \A i \in Kept(listed) : made.tickers[i] = listed[i]
  BY DEF CatalogOf
<1>2. Clean(made)
  BY CatalogOfAccepted
<1> HIDE DEF made
<1>3. \A i \in DOMAIN made.tickers :
          Constructed(made.tickers[i]) /\ made.tickers[i].seed_key \in DOMAIN made.securities
  BY <1>1, <1>2 DEF Accepted, Clean
<1>4. \A i, j \in DOMAIN made.tickers :
          i # j => IntervalKey(made.tickers[i]) # IntervalKey(made.tickers[j])
  BY <1>2, CleanRowsDiffer DEF Clean
<1>5. WellFormed(made)
  BY <1>1, <1>3, <1>4 DEF WellFormed, KnownSecurities
<1>6. QED
  BY <1>5 DEF made

LEMMA InsertedSecurities ==
    ASSUME NEW old, NEW new, KnownSecurities(old), KnownSecurities(new)
    PROVE  /\ KnownSecurities(InsertSecurities(old, new))
           /\ DOMAIN InsertSecurities(old, new) = DOMAIN old \cup DOMAIN new
BY DEF InsertSecurities, KnownSecurities

LEMMA InsertedKeyed ==
    ASSUME NEW old, NEW new, Keyed(old)
    PROVE  Keyed(InsertTickers(old, new))
<1> SUFFICES ASSUME NEW key \in DOMAIN old \cup Stored(new)
             PROVE  IntervalKey(IF key \in DOMAIN old THEN old[key]
                                ELSE RowAt(RowsOf(new), key)) = key
  BY DEF Keyed, InsertTickers
<1>1. CASE key \in DOMAIN old
  BY <1>1 DEF Keyed
<1>2. CASE key \notin DOMAIN old
  <2>1. \E row \in RowsOf(new) : IntervalKey(row) = key
    BY <1>2 DEF Stored, RowsOf
  <2>2. QED
    BY <1>2, <2>1 DEF RowAt
<1>3. QED
  BY <1>1, <1>2

\* A store is well formed when its rows are, each under its own interval.
LEMMA KeyedWellFormed ==
    ASSUME NEW store, KnownSecurities(store.securities), Keyed(store.tickers),
           \A row \in RowsOf(store.tickers) :
               Constructed(row) /\ row.seed_key \in DOMAIN store.securities
    PROVE  WellFormed(store)
<1>1. \A i \in DOMAIN store.tickers : store.tickers[i] \in RowsOf(store.tickers)
  BY DEF RowsOf
<1>2. QED
  BY <1>1 DEF KnownSecurities, Keyed, WellFormed

(***************************************************************************)
(* The edits of the file.                                                  *)
(***************************************************************************)
\* Putting other rows of the right type under a security keeps the type.
LEMMA BlockEdited ==
    ASSUME NEW file \in Seq(SeedBlock), NEW n \in DOMAIN file,
           NEW listed \in Seq(Row)
    PROVE  [file EXCEPT ![n].tickers = listed] \in Seq(SeedBlock)
<1>1. file[n] \in SeedBlock /\ n \in 1 .. Len(file)
  OBVIOUS
<1>2. [file[n] EXCEPT !.tickers = listed] \in SeedBlock
  BY <1>1 DEF SeedBlock
<1>3. [file EXCEPT ![n] = [file[n] EXCEPT !.tickers = listed]] \in Seq(SeedBlock)
  BY <1>1, <1>2, ExceptSeq
<1>4. QED
  BY <1>3

LEMMA AddTickerTyped ==
    ASSUME seed \in Seq(SeedBlock), NEW n \in DOMAIN seed, NEW scheme \in Schemes,
           NEW ticker \in Tickers, NEW from \in Days, AddTicker(n, scheme, ticker, from)
    PROVE  seed' \in Seq(SeedBlock)
<1> DEFINE row == [seed_key |-> seed[n].seed_key, scheme |-> scheme, ticker |-> ticker,
                   valid_from |-> from, valid_to |-> Forever, continuity |-> FALSE]
<1>1. seed[n] \in SeedBlock
  OBVIOUS
<1>2. seed[n].seed_key \in Keys /\ seed[n].tickers \in Seq(Row)
  BY <1>1 DEF SeedBlock
<1>3. row \in Row
  BY <1>2, ForeverAssumption DEF Row
<1>4. Append(seed[n].tickers, row) \in Seq(Row)
  BY <1>2, <1>3, AppendProperties
<1>5. seed' = [seed EXCEPT ![n].tickers = Append(seed[n].tickers, row)]
  BY DEF AddTicker, Edit
<1>6. QED
  BY <1>4, <1>5, BlockEdited

LEMMA EndTickerTyped ==
    ASSUME seed \in Seq(SeedBlock), NEW n \in DOMAIN seed, NEW i \in DOMAIN seed[n].tickers,
           NEW to \in 1 .. Forever, NEW status \in Statuses, EndTicker(n, i, to, status)
    PROVE  seed' \in Seq(SeedBlock)
<1> DEFINE row == [seed[n].tickers[i] EXCEPT !.valid_to = to]
           listed == [seed[n].tickers EXCEPT ![i] = row]
           block == [[seed[n] EXCEPT !.tickers = listed] EXCEPT !.status = status]
<1>1. seed[n] \in SeedBlock /\ n \in 1 .. Len(seed)
  OBVIOUS
<1>2. seed[n].tickers \in Seq(Row)
  BY <1>1 DEF SeedBlock
<1>3. seed[n].tickers[i] \in Row /\ i \in 1 .. Len(seed[n].tickers)
  BY <1>2
<1>4. row \in Row
  BY <1>3 DEF Row
<1>5. listed \in Seq(Row)
  BY <1>2, <1>3, <1>4, ExceptSeq
<1>6. block \in SeedBlock
  BY <1>1, <1>5 DEF SeedBlock
<1>7. seed' = [seed EXCEPT ![n] = block]
  BY DEF EndTicker, Edit
<1>8. QED
  BY <1>1, <1>6, <1>7, ExceptSeq

LEMMA MoveTickerTyped ==
    ASSUME seed \in Seq(SeedBlock), NEW n \in DOMAIN seed, NEW m \in DOMAIN seed,
           MoveTicker(n, m)
    PROVE  seed' \in Seq(SeedBlock)
<1> DEFINE last == Len(seed[n].tickers)
           row == [seed[n].tickers[last] EXCEPT !.seed_key = seed[m].seed_key]
           taken == SubSeq(seed[n].tickers, 1, last - 1)
           given == Append(seed[m].tickers, row)
           cut == [seed EXCEPT ![n].tickers = taken]
<1>1. seed[n] \in SeedBlock /\ seed[m] \in SeedBlock /\ n # m
  BY DEF MoveTicker
<1>2. /\ seed[n].tickers \in Seq(Row) /\ seed[m].tickers \in Seq(Row)
      /\ seed[m].seed_key \in Keys
  BY <1>1 DEF SeedBlock
<1>3. last \in Nat /\ last > 0
  BY <1>2 DEF MoveTicker
<1>4. seed[n].tickers[last] \in Row
  BY <1>2, <1>3
<1>5. row \in Row
  BY <1>2, <1>4 DEF Row
<1>6. given \in Seq(Row)
  BY <1>2, <1>5, AppendProperties
<1>7. taken \in Seq(Row)
  <2>1. \A i \in 1 .. last - 1 : seed[n].tickers[i] \in Row
    BY <1>2, <1>3
  <2>2. QED
    BY <1>3, <2>1, SubSeqProperties
<1>8. cut \in Seq(SeedBlock)
  BY <1>7, BlockEdited
<1>9. m \in DOMAIN cut
  OBVIOUS
<1>10. [cut EXCEPT ![m].tickers = given] \in Seq(SeedBlock)
  <2> HIDE DEF cut, given
  <2>1. QED
    BY <1>6, <1>8, <1>9, BlockEdited
<1>11. seed' = [cut EXCEPT ![m].tickers = given]
  BY <1>1 DEF MoveTicker, Edit
<1>12. QED
  BY <1>10, <1>11

LEMMA EditTyped ==
    ASSUME Typing, NEW file \in Seq(SeedBlock), Edit(file)
    PROVE  Typing'
<1>1. edits' \in 0 .. MaxEdits
  BY SeedAssumption DEF Typing, TypeOK, Edit
<1>2. Origin'
  BY DEF Typing, Origin, Edit
<1>3. QED
  BY <1>1, <1>2 DEF Typing, TypeOK, Edit

(***************************************************************************)
(* The invariant.                                                          *)
(***************************************************************************)
LEMMA TypingInit == Init => Typing
<1> SUFFICES ASSUME Init
             PROVE  Typing
  OBVIOUS
<1>1. WellFormed(NoCatalog) /\ WellFormed(EmptyDb)
  BY DEF WellFormed, NoCatalog, EmptyDb
<1>2. seed \in Seq(SeedBlock) /\ edits \in 0 .. MaxEdits
  BY SeedAssumption DEF Init
<1>3. EmptyDb.identifiers = {} /\ Keyed(EmptyDb.tickers)
  BY DEF EmptyDb, Keyed
<1>4. QED
  BY <1>1, <1>2, <1>3, OriginInit DEF Typing, TypeOK, Init

LEMMA TypingStep == Typing /\ [Next]_vars => Typing'
<1> SUFFICES ASSUME Typing, [Next]_vars
             PROVE  Typing'
  OBVIOUS
<1> USE DEF Typing, TypeOK
<1>1. Origin'
  BY OriginStep
<1>2. ASSUME NEW n \in DOMAIN seed, NEW scheme \in Schemes, NEW ticker \in Tickers,
             NEW from \in Days, AddTicker(n, scheme, ticker, from)
      PROVE  Typing'
  <2>1. PICK file : Edit(file)
    BY <1>2 DEF AddTicker
  <2>2. file = seed'
    BY <2>1 DEF Edit
  <2>3. QED
    BY <1>2, <2>1, <2>2, AddTickerTyped, EditTyped
<1>3. ASSUME NEW n \in DOMAIN seed, NEW i \in DOMAIN seed[n].tickers,
             NEW to \in 1 .. Forever, NEW status \in Statuses, EndTicker(n, i, to, status)
      PROVE  Typing'
  <2>1. PICK file : Edit(file)
    BY <1>3 DEF EndTicker
  <2>2. file = seed'
    BY <2>1 DEF Edit
  <2>3. QED
    BY <1>3, <2>1, <2>2, EndTickerTyped, EditTyped
<1>4. ASSUME NEW n \in DOMAIN seed, NEW m \in DOMAIN seed, MoveTicker(n, m)
      PROVE  Typing'
  <2>1. PICK file : Edit(file)
    BY <1>4 DEF MoveTicker
  <2>2. file = seed'
    BY <2>1 DEF Edit
  <2>3. QED
    BY <1>4, <2>1, <2>2, MoveTickerTyped, EditTyped
<1>5. CASE Validate
  <2>1. WellFormed(catalog')
    BY <1>5, SeedSecuritiesKnown, CatalogWellFormed DEF Validate
  <2>2. QED
    BY <1>1, <1>5, <2>1 DEF Validate
<1>6. CASE UpsertSecurities
  <2>1. session' = [session EXCEPT !.securities = InsertSecurities(session.securities, catalog.securities)]
    BY <1>6 DEF UpsertSecurities
  <2>2. /\ session'.securities = InsertSecurities(session.securities, catalog.securities)
        /\ session'.tickers = session.tickers /\ session'.identifiers = session.identifiers
    BY <2>1 DEF Origin, IsStore
  <2>3. /\ KnownSecurities(session'.securities)
        /\ DOMAIN session'.securities = DOMAIN session.securities \cup DOMAIN catalog.securities
    BY <2>2, InsertedSecurities DEF WellFormed, KnownSecurities
  <2>4. WellFormed(session')
    BY <2>2, <2>3 DEF WellFormed, KnownSecurities
  <2>5. QED
    BY <1>1, <1>6, <2>2, <2>3, <2>4 DEF UpsertSecurities
<1>7. CASE UpsertTickers
  <2>1. session' = [session EXCEPT !.tickers = InsertTickers(session.tickers, catalog.tickers)]
    BY <1>7 DEF UpsertTickers
  <2>2. /\ session'.tickers = InsertTickers(session.tickers, catalog.tickers)
        /\ session'.securities = session.securities
        /\ session'.identifiers = session.identifiers
    BY <2>1 DEF Origin, IsStore
  <2>3. Keyed(session'.tickers)
    BY <2>2, InsertedKeyed
  <2>4. DOMAIN catalog.securities \subseteq DOMAIN session.securities
    BY <1>7 DEF UpsertTickers
  <2>5. \A row \in RowsOf(session.tickers) \cup RowsOf(catalog.tickers) :
            Constructed(row) /\ row.seed_key \in DOMAIN session.securities
    BY <2>4 DEF WellFormed, RowsOf
  <2>6. \A row \in RowsOf(session'.tickers) :
            Constructed(row) /\ row.seed_key \in DOMAIN session'.securities
    BY <2>2, <2>5, InsertedRows
  <2>7. WellFormed(session')
    <3>1. KnownSecurities(session'.securities)
      BY <2>2 DEF WellFormed, KnownSecurities
    <3>2. QED
      BY <2>3, <2>6, <3>1, KeyedWellFormed
  <2>8. QED
    BY <1>1, <1>7, <2>2, <2>3, <2>4, <2>7 DEF UpsertTickers
<1>8. CASE UpsertIdentifiers
  <2>1. session' = [session EXCEPT !.identifiers =
                        InsertIdentifiers(session.identifiers, SeedIdentifiers(seed))]
    BY <1>8 DEF UpsertIdentifiers
  <2>2. /\ session'.tickers = session.tickers /\ session'.securities = session.securities
        /\ session'.identifiers = InsertIdentifiers(session.identifiers, SeedIdentifiers(seed))
    BY <2>1 DEF Origin, IsStore
  <2>3. session'.identifiers \subseteq Identifiers
    BY <2>2 DEF InsertIdentifiers, SeedIdentifiers
  <2>4. WellFormed(session')
    BY <2>2 DEF WellFormed
  <2>5. QED
    BY <1>1, <1>8, <2>2, <2>3, <2>4 DEF UpsertIdentifiers
<1>9. CASE Commit \/ Rollback
  <2>1. WellFormed(NoCatalog) /\ WellFormed(EmptyDb)
    BY DEF WellFormed, NoCatalog, EmptyDb
  <2>2. EmptyDb.identifiers = {} /\ Keyed(EmptyDb.tickers)
    BY DEF EmptyDb, Keyed
  <2>3. QED
    BY <1>1, <1>9, <2>1, <2>2 DEF Commit, Rollback
<1>10. CASE LoadCatalog
  <2>1. KnownSecurities(db.securities)
    BY DEF WellFormed, KnownSecurities
  <2>2. WellFormed(service')
    BY <1>10, <2>1, CatalogWellFormed DEF LoadCatalog
  <2>3. QED
    BY <1>1, <1>10, <2>2 DEF LoadCatalog, script
<1>11. CASE UNCHANGED vars
  BY <1>1, <1>11 DEF vars
<1>12. QED
  BY <1>2, <1>3, <1>4, <1>5, <1>6, <1>7, <1>8, <1>9, <1>10, <1>11 DEF Next

\* The file, the session, the database and what is loaded from it keep their
\* types: every stored ticker has a real interval and a stored security, and
\* no two stored rows share an interval.
THEOREM TypeCorrect == Spec => []TypeOK
<1>1. Init => Typing
  BY TypingInit
<1>2. Typing /\ [Next]_vars => Typing'
  BY TypingStep
<1>3. Typing => TypeOK
  BY DEF Typing
<1>4. QED
  BY <1>1, <1>2, <1>3, PTL DEF Spec

(***************************************************************************)
(* Whole imports.  A session only ever adds to what it was opened on, so   *)
(* what is stored is never changed; and what an import of a catalog would  *)
(* add is stored when that catalog has been imported before, identifiers   *)
(* included: the author edits tickers only.                                *)
(***************************************************************************)
IsFunction(f) == f = [x \in DOMAIN f |-> f[x]]
Grown(new, old) ==
    /\ DOMAIN old.tickers \subseteq DOMAIN new.tickers
    /\ \A interval \in DOMAIN old.tickers : new.tickers[interval] = old.tickers[interval]
    /\ DOMAIN old.securities \subseteq DOMAIN new.securities
    /\ \A key \in DOMAIN old.securities : new.securities[key] = old.securities[key]
    /\ old.identifiers \subseteq new.identifiers
Identified(store) ==
    \A id \in SeedIdentifiers(seed) : \E stored \in store.identifiers : stored.value = id.value

Whole ==
    /\ IsFunction(db.securities) /\ IsFunction(db.tickers)
    /\ \A known \in imported : /\ Stored(known.tickers) \subseteq DOMAIN db.tickers
                               /\ DOMAIN known.securities \subseteq DOMAIN db.securities
    /\ imported # {} => Identified(db)
    /\ step # "idle" =>
           /\ IsFunction(session.securities) /\ IsFunction(session.tickers)
           /\ Grown(session, db)
           /\ catalog \in imported => session = db
    /\ step \in {"identifiers", "commit"} => Stored(catalog.tickers) \subseteq DOMAIN session.tickers
    /\ step = "commit" => Identified(session)

\* An edit of the file is one of its tickers: the identifiers stay.
LEMMA EditsKeepIdentifiers ==
    ASSUME seed \in Seq(SeedBlock),
           \/ \E n \in DOMAIN seed, scheme \in Schemes, ticker \in Tickers, from \in Days :
                  AddTicker(n, scheme, ticker, from)
           \/ \E n \in DOMAIN seed :
                  \E i \in DOMAIN seed[n].tickers, to \in 1 .. Forever, status \in Statuses :
                      EndTicker(n, i, to, status)
           \/ \E n, m \in DOMAIN seed : MoveTicker(n, m)
    PROVE  SeedIdentifiers(seed)' = SeedIdentifiers(seed)
<1>1. \A n \in DOMAIN seed : seed[n] \in SeedBlock
  OBVIOUS
<1>2. /\ DOMAIN seed' = DOMAIN seed
      /\ \A n \in DOMAIN seed : /\ seed'[n].seed_key = seed[n].seed_key
                                /\ seed'[n].identifiers = seed[n].identifiers
  <2>1. ASSUME NEW n \in DOMAIN seed, NEW listed, seed' = [seed EXCEPT ![n].tickers = listed]
        PROVE  /\ DOMAIN seed' = DOMAIN seed
               /\ \A m \in DOMAIN seed : /\ seed'[m].seed_key = seed[m].seed_key
                                         /\ seed'[m].identifiers = seed[m].identifiers
    BY <1>1, <2>1 DEF SeedBlock
  <2>2. CASE \E n \in DOMAIN seed, scheme \in Schemes, ticker \in Tickers, from \in Days :
                 AddTicker(n, scheme, ticker, from)
    <3>1. \E n \in DOMAIN seed : \E listed : seed' = [seed EXCEPT ![n].tickers = listed]
      BY <2>2 DEF AddTicker, Edit
    <3>2. QED
      BY <2>1, <3>1
  <2>3. CASE \E n \in DOMAIN seed :
                 \E i \in DOMAIN seed[n].tickers, to \in 1 .. Forever, status \in Statuses :
                     EndTicker(n, i, to, status)
    <3>1. PICK n \in DOMAIN seed :
              \E i \in DOMAIN seed[n].tickers, to \in 1 .. Forever, status \in Statuses :
                  EndTicker(n, i, to, status)
      BY <2>3
    <3>2. PICK i \in DOMAIN seed[n].tickers, to \in 1 .. Forever, status \in Statuses :
              EndTicker(n, i, to, status)
      BY <3>1
    <3> DEFINE listed == [seed[n].tickers EXCEPT ![i].valid_to = to]
               block == [[seed[n] EXCEPT !.tickers = listed] EXCEPT !.status = status]
    <3>3. seed' = [seed EXCEPT ![n] = block]
      BY <3>2 DEF EndTicker, Edit
    <3>4. block.seed_key = seed[n].seed_key /\ block.identifiers = seed[n].identifiers
      BY <1>1 DEF SeedBlock
    <3> HIDE DEF block
    <3>5. QED
      BY <3>3, <3>4
  <2>4. CASE \E n, m \in DOMAIN seed : MoveTicker(n, m)
    <3>1. PICK n \in DOMAIN seed, m \in DOMAIN seed : MoveTicker(n, m)
      BY <2>4
    <3>2. PICK taken, given : seed' = [[seed EXCEPT ![n].tickers = taken] EXCEPT ![m].tickers = given]
      BY <3>1 DEF MoveTicker, Edit
    <3> DEFINE cut == [seed EXCEPT ![n].tickers = taken]
    <3>3. /\ DOMAIN cut = DOMAIN seed
          /\ \A k \in DOMAIN seed : /\ cut[k].seed_key = seed[k].seed_key
                                    /\ cut[k].identifiers = seed[k].identifiers
                                    /\ cut[k] = [seed[k] EXCEPT !.tickers = cut[k].tickers]
      BY <1>1 DEF SeedBlock
    <3>4. seed' = [cut EXCEPT ![m].tickers = given]
      BY <3>2
    <3>5. \A k \in DOMAIN seed : /\ [cut[k] EXCEPT !.tickers = given].seed_key = seed[k].seed_key
                                 /\ [cut[k] EXCEPT !.tickers = given].identifiers = seed[k].identifiers
      BY <1>1, <3>3 DEF SeedBlock
    <3> HIDE DEF cut
    <3>6. QED
      BY <3>3, <3>4, <3>5
  <2>5. QED
    BY <2>2, <2>3, <2>4
<1>3. QED
  BY <1>2 DEF SeedIdentifiers

\* What is inserted is added to what there was, which stays.
LEMMA InsertsGrow ==
    ASSUME NEW old, NEW new
    PROVE  /\ LET made == InsertSecurities(old, new) IN
              /\ IsFunction(made) /\ DOMAIN made = DOMAIN old \cup DOMAIN new
              /\ \A key \in DOMAIN old : made[key] = old[key]
              /\ IsFunction(old) /\ DOMAIN new \subseteq DOMAIN old => made = old
           /\ LET made == InsertTickers(old, new) IN
              /\ IsFunction(made) /\ DOMAIN made = DOMAIN old \cup Stored(new)
              /\ \A interval \in DOMAIN old : made[interval] = old[interval]
              /\ IsFunction(old) /\ Stored(new) \subseteq DOMAIN old => made = old
<1>1. ASSUME IsFunction(old), DOMAIN new \subseteq DOMAIN old
      PROVE  InsertSecurities(old, new) = old
  <2>1. DOMAIN old \cup DOMAIN new = DOMAIN old
    BY <1>1
  <2>2. InsertSecurities(old, new) = [key \in DOMAIN old |-> old[key]]
    BY <2>1 DEF InsertSecurities
  <2>3. QED
    BY <1>1, <2>2 DEF IsFunction
<1>2. ASSUME IsFunction(old), Stored(new) \subseteq DOMAIN old
      PROVE  InsertTickers(old, new) = old
  <2>1. DOMAIN old \cup Stored(new) = DOMAIN old
    BY <1>2
  <2>2. InsertTickers(old, new) = [key \in DOMAIN old |-> old[key]]
    BY <2>1 DEF InsertTickers
  <2>3. QED
    BY <1>2, <2>2 DEF IsFunction
<1>3. /\ IsFunction(InsertSecurities(old, new))
      /\ DOMAIN InsertSecurities(old, new) = DOMAIN old \cup DOMAIN new
      /\ \A key \in DOMAIN old : InsertSecurities(old, new)[key] = old[key]
  BY DEF InsertSecurities, IsFunction
<1>4. /\ IsFunction(InsertTickers(old, new))
      /\ DOMAIN InsertTickers(old, new) = DOMAIN old \cup Stored(new)
      /\ \A interval \in DOMAIN old : InsertTickers(old, new)[interval] = old[interval]
  BY DEF InsertTickers, IsFunction
<1>5. QED
  BY <1>1, <1>2, <1>3, <1>4

\* Two stores with the same three parts are one.
LEMMA SameStore ==
    ASSUME NEW a, NEW b, IsStore(a), IsStore(b), a.securities = b.securities,
           a.tickers = b.tickers, a.identifiers = b.identifiers
    PROVE  a = b
BY DEF IsStore

LEMMA WholeInit == Init => Whole
BY DEF Init, Whole, EmptyDb, IsFunction

LEMMA WholeStep == Typing /\ Whole /\ [Next]_vars => Whole'
<1> SUFFICES ASSUME Typing, Whole, [Next]_vars
             PROVE  Whole'
  OBVIOUS
<1>1. /\ IsStore(session) /\ IsStore(db) /\ seed \in Seq(SeedBlock)
      /\ step \in {"tickers", "identifiers", "commit"} =>
             DOMAIN catalog.securities \subseteq DOMAIN session.securities
  BY DEF Typing, TypeOK, Origin
<1>2. ASSUME UNCHANGED <<script, db, imported>>, SeedIdentifiers(seed)' = SeedIdentifiers(seed)
      PROVE  Whole'
  BY <1>2 DEF script, Whole, Identified
<1>3. ASSUME NEW file, Edit(file), SeedIdentifiers(seed)' = SeedIdentifiers(seed)
      PROVE  Whole'
  BY <1>2, <1>3 DEF Edit, script
<1>4. CASE Validate
  <2>1. /\ session' = db /\ step' = "securities"
        /\ UNCHANGED <<seed, db, imported>>
    BY <1>4 DEF Validate
  <2>2. Grown(db, db)
    BY DEF Grown
  <2>3. QED
    BY <2>1, <2>2 DEF Whole, Identified
<1>5. CASE UpsertSecurities
  <2>1. /\ session' = [session EXCEPT !.securities = InsertSecurities(session.securities, catalog.securities)]
        /\ step = "securities" /\ step' = "tickers" /\ UNCHANGED <<seed, catalog, db, imported>>
    BY <1>5 DEF UpsertSecurities
  <2>2. /\ session'.securities = InsertSecurities(session.securities, catalog.securities)
        /\ session'.tickers = session.tickers /\ session'.identifiers = session.identifiers
        /\ IsStore(session')
    BY <1>1, <2>1 DEF IsStore
  <2> DEFINE made == InsertSecurities(session.securities, catalog.securities)
  <2>a. DOMAIN session.securities \subseteq DOMAIN made
    BY DEF InsertSecurities
  <2>b. /\ IsFunction(made)
        /\ \A key \in DOMAIN session.securities : made[key] = session.securities[key]
    BY DEF IsFunction, InsertSecurities
  <2>c. Grown(session, db) /\ IsFunction(session.tickers)
    BY <2>1 DEF Whole
  <2>d. session'.securities = made
    BY <2>2
  <2> HIDE DEF made
  <2>e. Grown(session', db)
    BY <2>2, <2>a, <2>b, <2>c, <2>d DEF Grown
  <2>3. Grown(session', db) /\ IsFunction(session'.securities) /\ IsFunction(session'.tickers)
    BY <2>2, <2>b, <2>c, <2>d, <2>e
  <2>4. catalog \in imported => session' = db
    <3> SUFFICES ASSUME catalog \in imported PROVE session' = db
      OBVIOUS
    <3>1. session = db /\ IsFunction(db.securities)
          /\ DOMAIN catalog.securities \subseteq DOMAIN db.securities
      BY <2>1 DEF Whole
    <3>2. session'.securities = db.securities
      BY <2>2, <3>1, InsertsGrow
    <3>3. QED
      BY <1>1, <2>2, <3>1, <3>2, SameStore
  <2>5. QED
    BY <2>1, <2>3, <2>4 DEF Whole, Identified
<1>6. CASE UpsertTickers
  <2>1. /\ session' = [session EXCEPT !.tickers = InsertTickers(session.tickers, catalog.tickers)]
        /\ step = "tickers" /\ step' = "identifiers" /\ UNCHANGED <<seed, catalog, db, imported>>
    BY <1>6 DEF UpsertTickers
  <2>2. /\ session'.tickers = InsertTickers(session.tickers, catalog.tickers)
        /\ session'.securities = session.securities /\ session'.identifiers = session.identifiers
        /\ IsStore(session')
    BY <1>1, <2>1 DEF IsStore
  <2> DEFINE made == InsertTickers(session.tickers, catalog.tickers)
  <2>a. /\ DOMAIN session.tickers \subseteq DOMAIN made
        /\ Stored(catalog.tickers) \subseteq DOMAIN made
    BY DEF InsertTickers
  <2>b. /\ IsFunction(made)
        /\ \A interval \in DOMAIN session.tickers : made[interval] = session.tickers[interval]
    BY DEF IsFunction, InsertTickers
  <2>c. Grown(session, db) /\ IsFunction(session.securities)
    BY <2>1 DEF Whole
  <2>d. session'.tickers = made
    BY <2>2
  <2> HIDE DEF made
  <2>e. Grown(session', db)
    BY <2>2, <2>a, <2>b, <2>c, <2>d DEF Grown
  <2>3. /\ Grown(session', db) /\ IsFunction(session'.securities) /\ IsFunction(session'.tickers)
        /\ Stored(catalog.tickers) \subseteq DOMAIN session'.tickers
    BY <2>2, <2>a, <2>b, <2>c, <2>d, <2>e
  <2>4. catalog \in imported => session' = db
    <3> SUFFICES ASSUME catalog \in imported PROVE session' = db
      OBVIOUS
    <3>1. session = db /\ IsFunction(db.tickers) /\ Stored(catalog.tickers) \subseteq DOMAIN db.tickers
      BY <2>1 DEF Whole
    <3>2. session'.tickers = db.tickers
      BY <2>2, <3>1, InsertsGrow
    <3>3. QED
      BY <1>1, <2>2, <3>1, <3>2, SameStore
  <2>5. QED
    BY <2>1, <2>3, <2>4 DEF Whole, Identified
<1>7. CASE UpsertIdentifiers
  <2>1. /\ session' = [session EXCEPT !.identifiers =
                           InsertIdentifiers(session.identifiers, SeedIdentifiers(seed))]
        /\ step = "identifiers" /\ step' = "commit" /\ UNCHANGED <<seed, catalog, db, imported>>
    BY <1>7 DEF UpsertIdentifiers
  <2>2. /\ session'.identifiers = InsertIdentifiers(session.identifiers, SeedIdentifiers(seed))
        /\ session'.securities = session.securities /\ session'.tickers = session.tickers
        /\ IsStore(session')
    BY <1>1, <2>1 DEF IsStore
  <2>3. /\ Grown(session', db) /\ IsFunction(session'.securities) /\ IsFunction(session'.tickers)
        /\ Stored(catalog.tickers) \subseteq DOMAIN session'.tickers
    BY <2>1, <2>2 DEF Whole, Grown, InsertIdentifiers
  <2>4. Identified(session)'
    <3>1. \A id \in SeedIdentifiers(seed) : \E stored \in session'.identifiers : stored.value = id.value
      BY <2>2 DEF InsertIdentifiers
    <3>2. QED
      BY <2>1, <3>1 DEF Identified
  <2>5. catalog \in imported => session' = db
    <3> SUFFICES ASSUME catalog \in imported PROVE session' = db
      OBVIOUS
    <3>1. session = db /\ Identified(db)
      BY <2>1 DEF Whole
    <3>2. session'.identifiers = db.identifiers
      BY <2>2, <3>1 DEF InsertIdentifiers, Identified
    <3>3. QED
      BY <1>1, <2>2, <3>1, <3>2, SameStore
  <2>6. QED
    BY <2>1, <2>3, <2>4, <2>5 DEF Whole, Identified
<1>8. CASE Commit
  <2>1. /\ step = "commit" /\ step' = "idle" /\ db' = session
        /\ imported' = imported \cup {catalog} /\ UNCHANGED seed
    BY <1>8 DEF Commit
  <2>2. Identified(db)'
    BY <2>1 DEF Whole, Identified
  <2>3. QED
    BY <1>1, <2>1, <2>2 DEF Whole, Grown
<1>9. CASE Rollback
  <2>1. step' = "idle" /\ UNCHANGED <<seed, db, imported>>
    BY <1>9 DEF Rollback
  <2>2. QED
    BY <2>1 DEF Whole, Identified
<1>10. CASE LoadCatalog \/ UNCHANGED vars
  BY <1>2, <1>10 DEF LoadCatalog, vars, script
<1>11. CASE \/ \E n \in DOMAIN seed, scheme \in Schemes, ticker \in Tickers, from \in Days :
                   AddTicker(n, scheme, ticker, from)
            \/ \E n \in DOMAIN seed :
                   \E i \in DOMAIN seed[n].tickers, to \in 1 .. Forever, status \in Statuses :
                       EndTicker(n, i, to, status)
            \/ \E n, m \in DOMAIN seed : MoveTicker(n, m)
  <2>1. SeedIdentifiers(seed)' = SeedIdentifiers(seed)
    BY <1>1, <1>11, EditsKeepIdentifiers
  <2>2. \E file : Edit(file)
    BY <1>11 DEF AddTicker, EndTicker, MoveTicker
  <2>3. QED
    BY <1>3, <2>1, <2>2
<1>12. QED
  BY <1>4, <1>5, <1>6, <1>7, <1>8, <1>9, <1>10, <1>11 DEF Next

\* A commit adds all of a catalog that was not imported before and changes no stored
\* row; a catalog imported before changes nothing at all, and nothing else touches
\* the database (scripts/import_security_master.py, repositories/security_master.py).
THEOREM CatalogsAreStoredWhole == Spec => ImportsAreWhole
<1> DEFINE WholeImport ==
        \/ db' = db
        \/ /\ DOMAIN db.tickers \subseteq DOMAIN db'.tickers
           /\ \A interval \in DOMAIN db.tickers : db'.tickers[interval] = db.tickers[interval]
           /\ \A key \in DOMAIN db.securities : db'.securities[key] = db.securities[key]
           /\ Stored(catalog.tickers) \subseteq DOMAIN db'.tickers
           /\ DOMAIN catalog.securities \subseteq DOMAIN db'.securities
           /\ catalog \notin imported
<1>1. Init => Typing /\ Whole
  BY TypingInit, WholeInit
<1>2. Typing /\ Whole /\ [Next]_vars => Typing' /\ Whole'
  BY TypingStep, WholeStep
<1>3. Typing /\ Whole /\ [Next]_vars => [WholeImport]_vars
  <2> SUFFICES ASSUME Typing, Whole, [Next]_vars
               PROVE  WholeImport
    OBVIOUS
  <2>1. CASE Commit
    <3>1. step = "commit" /\ db' = session
      BY <2>1 DEF Commit
    <3>2. DOMAIN catalog.securities \subseteq DOMAIN session.securities
      BY <3>1 DEF Typing
    <3>3. QED
      BY <3>1, <3>2 DEF Whole, Grown
  <2>2. CASE UNCHANGED db
    BY <2>2
  <2>3. QED
    BY <2>1, <2>2 DEF Next, AddTicker, EndTicker, MoveTicker, Edit, Validate, UpsertSecurities,
       UpsertTickers, UpsertIdentifiers, Rollback, LoadCatalog, vars
<1>4. Spec => [][WholeImport]_vars
  BY <1>1, <1>2, <1>3, PTL DEF Spec
<1>5. QED
  BY <1>4, PTL DEF ImportsAreWhole

(***************************************************************************)
(* The research scripts and the data side of a backtest (ResearchData),    *)
(* over any worlds.  The five properties are five invariants: of the bars  *)
(* as they are loaded, of the keys as the signals get them, of what the    *)
(* audit has found when a backtest starts, of the counters as the report   *)
(* grows, and of the dates the audit has seen.                             *)
(***************************************************************************)
\* The bars are of the security the listing is on their day, where it is one.
Own(symbol, bars) ==
    \A bar \in bars :
        ResolveSecurity(world.master, symbol, bar.day) # Unresolved =>
            BarKey(bar) = ResolveSecurity(world.master, symbol, bar.day)

LoadedAreOwn == \A s \in DOMAIN loaded : s \notin unusable => Own(s, loaded[s])

LEMMA ClippedAreOwn ==
    ASSUME NEW symbol, NEW bars, ~ Mismatch(symbol, bars)
    PROVE  Own(symbol, Clipped(symbol, bars))
BY DEF Mismatch, Clipped, Own

LEMMA SignalsStep ==
    ASSUME LoadedAreOwn, SignalsAreTheListing, [ResearchNext]_researchVars
    PROVE  LoadedAreOwn' /\ SignalsAreTheListing'
<1>1. CASE UNCHANGED <<world, loaded, unusable, rebalances>>
  <2>1. LoadedAreOwn'
    BY <1>1 DEF LoadedAreOwn, Own, ResolveSecurity, BarKey,
       ResolveMarketDataSymbol
  <2>2. SignalsAreTheListing'
    BY <1>1 DEF SignalsAreTheListing, ResolveSecurity, BarKey,
       ResolveMarketDataSymbol
  <2>3. QED
    BY <2>1, <2>2
<1>2. CASE LoadSymbol
  <2> DEFINE symbol == NextSymbol
             bars == LoadSymbolHistory(symbol)
             kept == IF Mismatch(symbol, bars) THEN bars
                     ELSE Clipped(symbol, bars)
  <2>1. /\ loaded' = Recorded(loaded, symbol, kept)
        /\ unusable' = IF Mismatch(symbol, bars) THEN unusable \cup {symbol} ELSE unusable
        /\ UNCHANGED <<world, rebalances>>
    BY <1>2 DEF LoadSymbol, report, audit
  <2>2. symbol \notin unusable' => Own(symbol, kept)
    BY <2>1, ClippedAreOwn
  <2> HIDE DEF symbol, kept
  <2>3. ASSUME NEW s \in DOMAIN loaded', s \notin unusable'
        PROVE  Own(s, loaded'[s])
    <3>1. CASE s = symbol
      BY <2>1, <2>2, <2>3, <3>1 DEF Recorded
    <3>2. CASE s # symbol
      <4>1. s \in DOMAIN loaded /\ loaded'[s] = loaded[s]
        BY <2>1, <2>3, <3>2 DEF Recorded
      <4>2. s \notin unusable
        BY <2>1, <2>3
      <4>3. QED
        BY <4>1, <4>2 DEF LoadedAreOwn
    <3>3. QED
      BY <3>1, <3>2
  <2>4. LoadedAreOwn'
    BY <2>1, <2>3 DEF LoadedAreOwn, Own, ResolveSecurity, BarKey,
       ResolveMarketDataSymbol
  <2>5. SignalsAreTheListing'
    BY <2>1 DEF SignalsAreTheListing, ResolveSecurity, BarKey,
       ResolveMarketDataSymbol
  <2>6. QED
    BY <2>4, <2>5
<1>3. CASE Rebalance
  <2> DEFINE day == Min(todo)
             members == Eligible(day)
             priced == {symbol \in members : BarsOf(symbol) # {}}
             data == [s \in priced \ unusable |-> BarsAsOf(s, day)]
             entry == [members |-> members,
                       missing |-> members \ priced,
                       unusable |-> priced \cap unusable,
                       data |-> data,
                       keys |-> [s \in priced \ unusable |-> SignalKey(s, day)]]
  <2>1. rebalances' = Recorded(rebalances, day, entry) /\ entry.data = data
    BY <1>3 DEF Rebalance
  <2>2. UNCHANGED <<world, loaded, unusable>>
    BY <1>3 DEF Rebalance
  <2>3. \A s \in DOMAIN data : Own(s, data[s])
    BY DEF LoadedAreOwn, Own, BarsAsOf, BarsOf
  <2> HIDE DEF day, data, entry
  <2>4. \A d \in DOMAIN rebalances' : \A s \in DOMAIN rebalances'[d].data :
            Own(s, rebalances'[d].data[s])
    <3>1. \A d \in DOMAIN rebalances : \A s \in DOMAIN rebalances[d].data :
              Own(s, rebalances[d].data[s])
      BY DEF SignalsAreTheListing, Own
    <3>2. QED
      BY <2>1, <2>3, <3>1 DEF Recorded
  <2>5. LoadedAreOwn'
    BY <2>2 DEF LoadedAreOwn, Own, ResolveSecurity, BarKey,
       ResolveMarketDataSymbol
  <2>6. SignalsAreTheListing'
    BY <2>2, <2>4 DEF SignalsAreTheListing, Own, ResolveSecurity,
       BarKey, ResolveMarketDataSymbol
  <2>7. QED
    BY <2>5, <2>6
<1>4. QED
  BY <1>1, <1>2, <1>3 DEF ResearchNext, CoverSymbol, AuditDate,
     Investigate, RefuseTwoSlots, StartNext, researchVars,
     audit, report, backtest

\* Every bar handed to the strategy for a listing is, on a day the catalog says which
\* security the listing is, of that security (identity_quality.py, engine.py).
THEOREM SignalsAreOwn == ResearchSpec => []SignalsAreTheListing
<1>1. ResearchInit => LoadedAreOwn /\ SignalsAreTheListing
  BY DEF ResearchInit, Empty, LoadedAreOwn, SignalsAreTheListing
<1>2. /\ LoadedAreOwn /\ SignalsAreTheListing
      /\ [ResearchNext]_researchVars
      => (LoadedAreOwn /\ SignalsAreTheListing)'
  BY SignalsStep
<1>3. QED
  BY <1>1, <1>2, PTL DEF ResearchSpec

\* The key of a signal is that of the one slot its listing has on the day.
KeysInv ==
    /\ IsWorld(world)
    /\ stage = "rebalance" => todo \subseteq Nat
    /\ \A d \in DOMAIN rebalances :
           /\ d \in Nat /\ ~ TwoSlots(d)
           /\ \A s \in DOMAIN rebalances[d].keys :
                  /\ \E m \in Memberships(d) : m.symbol = s
                  /\ rebalances[d].keys[s] = SignalKey(s, d)

LEMMA OneSlot ==
    ASSUME NEW day, ~ TwoSlots(day), NEW m \in Memberships(day)
    PROVE  SignalKey(m.symbol, day)
               = PositionKey(world.master, m.symbol, day, m.from)
<1>1. \A a \in Memberships(day) : a.symbol = m.symbol => a = m
  BY DEF TwoSlots
<1>2. (CHOOSE a \in Memberships(day) : a.symbol = m.symbol) = m
  BY <1>1
<1>3. QED
  BY <1>2 DEF SignalKey

\* Two stays of a listing that start on one day are one, when no date of either has two.
LEMMA OneStay ==
    ASSUME IsWorld(world), NEW d \in Nat, NEW e \in Nat, ~ TwoSlots(d), ~ TwoSlots(e),
           NEW m \in Memberships(d), NEW n \in Memberships(e),
           m.symbol = n.symbol, m.from = n.from
    PROVE  m = n
<1>0. \A k : /\ MemberOn(k, d) <=> k.from <= d /\ d < k.to
             /\ MemberOn(k, e) <=> k.from <= e /\ e < k.to
  BY DEF MemberOn
<1>1. /\ m \in Member /\ n \in Member
      /\ m \in world.members /\ n \in world.members
  BY DEF IsWorld, Memberships
<1>2. m.to \in Nat /\ n.to \in Nat
  BY <1>1, ForeverAssumption DEF Member
<1>3. CASE current
  <2>1. n \in Memberships(d)
    BY <1>1, <1>3 DEF Memberships
  <2>2. QED
    BY <2>1 DEF TwoSlots
<1>4. CASE ~ current
  <2>1. /\ MemberOn(m, d) /\ MemberOn(n, e)
        /\ \A k : k \in world.members /\ MemberOn(k, d) => k \in Memberships(d)
        /\ \A k : k \in world.members /\ MemberOn(k, e) => k \in Memberships(e)
    BY <1>4 DEF Memberships
  <2>2. m.from <= d /\ d < m.to /\ n.from <= e /\ e < n.to
    BY <1>0, <2>1
  <2>3. CASE m.to <= n.to
    <3>1. MemberOn(n, d)
      BY <1>0, <1>2, <2>2, <2>3
    <3>2. QED
      BY <1>1, <2>1, <3>1 DEF TwoSlots
  <2>4. CASE n.to <= m.to
    <3>1. MemberOn(m, e)
      BY <1>0, <1>2, <2>2, <2>4
    <3>2. QED
      BY <1>1, <2>1, <3>1 DEF TwoSlots
  <2>5. QED
    BY <1>2, <2>3, <2>4
<1>5. QED
  BY <1>3, <1>4

LEMMA KeysAreHoldings == KeysInv => KeysNameOneHolding
<1> SUFFICES ASSUME KeysInv, NEW d \in DOMAIN rebalances, NEW e \in DOMAIN rebalances,
                    NEW s \in DOMAIN rebalances[d].keys, NEW t \in DOMAIN rebalances[e].keys,
                    rebalances[d].keys[s] = rebalances[e].keys[t]
             PROVE  \/ /\ ResolveSecurity(world.master, s, d) # Unresolved
                       /\ ResolveSecurity(world.master, s, d)
                              = ResolveSecurity(world.master, t, e)
                    \/ \E m \in Memberships(d) \cap Memberships(e) :
                           s = m.symbol /\ t = m.symbol
  BY DEF KeysNameOneHolding
<1> DEFINE ofS == ResolveSecurity(world.master, s, d)
           ofT == ResolveSecurity(world.master, t, e)
<1>1. PICK m \in Memberships(d) : m.symbol = s
  BY DEF KeysInv
<1>2. PICK n \in Memberships(e) : n.symbol = t
  BY DEF KeysInv
<1>3. /\ ~ TwoSlots(d) /\ ~ TwoSlots(e) /\ IsWorld(world)
      /\ d \in Nat /\ e \in Nat
      /\ rebalances[d].keys[s] = SignalKey(s, d)
      /\ rebalances[e].keys[t] = SignalKey(t, e)
  BY DEF KeysInv
<1>4. PositionKey(world.master, s, d, m.from)
          = PositionKey(world.master, t, e, n.from)
  BY <1>1, <1>2, <1>3, OneSlot
<1> DEFINE keyOfS == PositionKey(world.master, s, d, m.from)
           keyOfT == PositionKey(world.master, t, e, n.from)
<1>5. /\ ofS # Unresolved => keyOfS.kind = "security" /\ keyOfS.value = ofS
      /\ ofS = Unresolved => keyOfS.kind = "listing" /\ keyOfS.value = <<s, m.from>>
      /\ ofT # Unresolved => keyOfT.kind = "security" /\ keyOfT.value = ofT
      /\ ofT = Unresolved => keyOfT.kind = "listing" /\ keyOfT.value = <<t, n.from>>
  BY DEF PositionKey, SecurityPositionKey, ListingPositionKey
<1> HIDE DEF ofS, ofT, keyOfS, keyOfT
<1>9. keyOfS = keyOfT
  BY <1>4 DEF keyOfS, keyOfT
<1>6. CASE ofS # Unresolved
  <2>1. ofT # Unresolved
    BY <1>5, <1>6, <1>9
  <2>2. ofS = ofT
    BY <1>5, <1>6, <1>9, <2>1
  <2>3. QED
    BY <1>6, <2>2 DEF ofS, ofT
<1>7. CASE ofS = Unresolved
  <2>1. ofT = Unresolved
    BY <1>5, <1>7, <1>9
  <2>2. <<s, m.from>> = <<t, n.from>>
    BY <1>5, <1>7, <1>9, <2>1
  <2>3. m = n
    BY <1>1, <1>2, <1>3, <2>2, OneStay
  <2>4. QED
    BY <1>1, <1>2, <2>3
<1>8. QED
  BY <1>6, <1>7

LEMMA DatesAreDays ==
    ASSUME Researchable
    PROVE  Dates \subseteq Nat
<1>1. Dates \subseteq Days
  BY DEF Dates, MonthStarts, Researchable
<1>2. Days \subseteq Nat
  BY ForeverAssumption DEF Days
<1>3. QED
  BY <1>1, <1>2

LEMMA KeysStep ==
    ASSUME Researchable, KeysInv, [ResearchNext]_researchVars
    PROVE  KeysInv'
<1>1. UNCHANGED <<world, current>>
  BY DEF ResearchNext, CoverSymbol, AuditDate, LoadSymbol,
     Investigate, Rebalance, RefuseTwoSlots, StartNext,
     researchVars
<1>2. /\ IsWorld(world)'
      /\ \A day : TwoSlots(day)' <=> TwoSlots(day)
      /\ \A day : Memberships(day)' = Memberships(day)
      /\ \A s, day : SignalKey(s, day)' = SignalKey(s, day)
      /\ stage' = "rebalance" => todo' \subseteq Nat
  <2>1. CASE UNCHANGED stage /\ todo' \subseteq todo
    BY <1>1, <2>1 DEF KeysInv, TwoSlots, Memberships, SignalKey
  <2>2. CASE stage' = "rebalance" => todo' = Dates
    BY <1>1, <2>2, DatesAreDays
       DEF KeysInv, TwoSlots, Memberships, SignalKey
  <2>3. (UNCHANGED stage /\ todo' \subseteq todo) \/ (stage' = "rebalance" => todo' = Dates)
    BY DEF ResearchNext, CoverSymbol, AuditDate, LoadSymbol,
       Investigate, Rebalance, RefuseTwoSlots, StartNext,
       researchVars
  <2>4. QED
    BY <2>1, <2>2, <2>3
<1>3. CASE UNCHANGED rebalances
  BY <1>2, <1>3 DEF KeysInv
<1>4. CASE Rebalance
  <2> DEFINE day == Min(todo)
             members == Eligible(day)
             priced == {symbol \in members : BarsOf(symbol) # {}}
             keys == [s \in priced \ unusable |-> SignalKey(s, day)]
             entry == [members |-> members,
                       missing |-> members \ priced,
                       unusable |-> priced \cap unusable,
                       data |-> [s \in priced \ unusable |-> BarsAsOf(s, day)],
                       keys |-> keys]
  <2>1. /\ rebalances' = Recorded(rebalances, day, entry) /\ entry.keys = keys
        /\ ~ TwoSlots(day)
    BY <1>4 DEF Rebalance
  <2>5. day \in Nat
    BY <1>4, LeastExists DEF Rebalance, KeysInv
  <2>2. ASSUME NEW s \in DOMAIN keys
        PROVE  /\ \E m \in Memberships(day) : m.symbol = s
               /\ keys[s] = SignalKey(s, day)
    BY DEF Eligible, CurrentSymbols, SymbolsAsOf,
       MembersAsOf, Memberships
  <2> HIDE DEF day, keys, entry
  <2>3. \A d \in DOMAIN rebalances' :
            /\ d \in Nat /\ ~ TwoSlots(d)
            /\ \A s \in DOMAIN rebalances'[d].keys :
                   /\ \E m \in Memberships(d) : m.symbol = s
                   /\ rebalances'[d].keys[s] = SignalKey(s, d)
    BY <2>1, <2>2, <2>5 DEF Recorded, KeysInv
  <2>4. QED
    BY <1>2, <2>3 DEF KeysInv
<1>5. QED
  BY <1>3, <1>4 DEF ResearchNext, CoverSymbol, AuditDate,
     LoadSymbol, Investigate, RefuseTwoSlots, StartNext,
     researchVars, audit, report, backtest

\* A position key joins two signals only when they are of one security, or of one stay
\* of a ticker in the index (identity_attach.py, domain/models/identity.py).
THEOREM KeysAreSound == ResearchSpec => []KeysNameOneHolding
<1>1. ResearchInit => KeysInv
  BY ResearchAssumption DEF ResearchInit, Empty, KeysInv, Researchable
<1>2. KeysInv /\ [ResearchNext]_researchVars => KeysInv'
  BY KeysStep, ResearchAssumption
<1>3. QED
  BY <1>1, <1>2, KeysAreHoldings, PTL DEF ResearchSpec

\* A date on which a ticker has two memberships is one the audit of the world warns of.
LEMMA TwoSlotsAreWarned ==
    ASSUME IsWorld(world), NEW day \in Nat, TwoSlots(day), NEW leaks
    PROVE  \E symbol \in Suspicious(world, leaks) :
               /\ InvestigationClass(world, symbol) \in {"bad membership", "fixture"}
               /\ \E a, b \in world.members :
                     a # b /\ {a.symbol, b.symbol} = {symbol} /\ a.from < b.to /\ b.from < a.to
<1>1. PICK a \in Memberships(day), b \in Memberships(day) :
          a # b /\ a.symbol = b.symbol
  BY DEF TwoSlots
<1>2. /\ a \in world.members /\ b \in world.members
      /\ a \in Member /\ b \in Member
  BY DEF IsWorld, Memberships
<1>3. /\ a.from \in Nat /\ b.from \in Nat /\ a.to \in Nat /\ b.to \in Nat
      /\ a.from < Forever /\ b.from < Forever
      /\ a.fixture \in BOOLEAN /\ b.fixture \in BOOLEAN
  BY <1>2, ForeverAssumption DEF Member, Days
<1>4. a.from < b.to /\ b.from < a.to
  <2>1. CASE current
    BY <1>3, <2>1 DEF Memberships
  <2>2. CASE ~ current
    <3>1. a.from <= day /\ day < a.to /\ b.from <= day /\ day < b.to
      BY <2>2 DEF Memberships, MemberOn
    <3>2. QED
      BY <1>3, <3>1
  <2>3. QED
    BY <2>1, <2>2
<1>5. \/ a.symbol \in OverlappingSymbols(world)
      \/ a.symbol \in FixtureSymbols(world)
  <2>1. CASE <<a.from, a.to>> # <<b.from, b.to>>
    <3>1. a.symbol \in OverlappingSymbols(world)
      BY <1>1, <1>2, <1>4, <2>1 DEF OverlappingSymbols
    <3>2. QED
      BY <3>1
  <2>2. CASE a.from = b.from /\ a.to = b.to
    <3>1. a.fixture # b.fixture
      BY <1>1, <1>2, <2>2 DEF Member
    <3>2. \E m \in {a, b} : m.fixture /\ m.symbol = a.symbol
      BY <1>1, <1>3, <3>1
    <3>3. QED
      BY <1>2, <3>2 DEF FixtureSymbols
  <2>3. QED
    BY <2>1, <2>2
<1>6. a.symbol \in Suspicious(world, leaks)
  BY <1>5 DEF Suspicious
<1>7. InvestigationClass(world, a.symbol) \in {"bad membership", "fixture"}
  <2>1. CASE a.symbol \in FixtureSymbols(world)
    BY <2>1 DEF InvestigationClass
  <2>2. CASE a.symbol \notin FixtureSymbols(world)
    BY <1>5, <2>2 DEF InvestigationClass
  <2>3. QED
    BY <2>1, <2>2
<1>8. {a.symbol, b.symbol} = {a.symbol}
  BY <1>1
<1>9. QED
  BY <1>1, <1>2, <1>4, <1>6, <1>7, <1>8

\* Once the audit is over, its findings are those of the world.
AuditedInv ==
    /\ IsWorld(world)
    /\ stage = "rebalance" => todo \subseteq Nat
    /\ stage \in {"load", "rebalance"} =>
           investigated = [symbol \in Suspicious(world, leaked) |->
                              InvestigationClass(world, symbol)]
    /\ AuditExplainsRefusal

LEMMA AuditedStep ==
    ASSUME Researchable, AuditedInv, [ResearchNext]_researchVars
    PROVE  AuditedInv'
<1> USE DEF report, audit, backtest
<1>1. IsWorld(world)' /\ world' = world
  BY DEF AuditedInv, ResearchNext, CoverSymbol, AuditDate,
     LoadSymbol, Investigate, Rebalance, RefuseTwoSlots,
     StartNext, researchVars
<1>2. CASE UNCHANGED <<stage, investigated, leaked>> /\ todo' \subseteq todo
  BY <1>1, <1>2 DEF AuditedInv, AuditExplainsRefusal
<1>3. CASE AuditDate
  BY <1>1, <1>3 DEF AuditedInv, AuditDate, AuditExplainsRefusal
<1>4. CASE Investigate
  BY <1>1, <1>4 DEF AuditedInv, Investigate, AuditExplainsRefusal
<1>5. CASE RefuseTwoSlots
  <2>1. /\ stage = "rebalance" /\ todo # {} /\ TwoSlots(Min(todo))
        /\ stage' = "refused" /\ UNCHANGED <<investigated, leaked>>
    BY <1>5 DEF RefuseTwoSlots
  <2>2. Min(todo) \in Nat
    BY <2>1, LeastExists DEF AuditedInv
  <2>3. PICK symbol \in Suspicious(world, leaked) :
            /\ InvestigationClass(world, symbol) \in {"bad membership", "fixture"}
            /\ \E a, b \in world.members :
                  a # b /\ {a.symbol, b.symbol} = {symbol} /\ a.from < b.to /\ b.from < a.to
    BY <2>1, <2>2, TwoSlotsAreWarned DEF AuditedInv
  <2>4. symbol \in DOMAIN investigated
        /\ investigated[symbol] = InvestigationClass(world, symbol)
    BY <2>1, <2>3 DEF AuditedInv
  <2>5. AuditExplainsRefusal'
    BY <1>1, <2>1, <2>3, <2>4 DEF AuditExplainsRefusal
  <2>6. QED
    BY <1>1, <2>1, <2>5 DEF AuditedInv
<1>6. CASE StartNext
  <2>1. /\ stage \in {"coverage", "load", "rebalance"} /\ stage' \in {"audit", "rebalance", "done"}
        /\ stage' = "rebalance" => stage = "load" /\ todo' = Dates
        /\ UNCHANGED <<world, investigated, leaked>>
    BY <1>6 DEF StartNext
  <2>2. QED
    BY <1>1, <2>1, DatesAreDays DEF AuditedInv, AuditExplainsRefusal
<1>7. QED
  BY <1>2, <1>3, <1>4, <1>5, <1>6 DEF ResearchNext, CoverSymbol,
     LoadSymbol, Rebalance, researchVars

\* A backtest is refused over two memberships of a ticker only in a world whose audit
\* put that ticker among the bad memberships or the fixtures (universe/audit.py).
THEOREM RefusalsAreExplained == ResearchSpec => []AuditExplainsRefusal
<1>1. ResearchInit => AuditedInv
  BY ResearchAssumption DEF ResearchInit, AuditedInv, Researchable, AuditExplainsRefusal
<1>2. AuditedInv /\ [ResearchNext]_researchVars => AuditedInv'
  BY AuditedStep, ResearchAssumption
<1>3. AuditedInv => AuditExplainsRefusal
  BY DEF AuditedInv
<1>4. QED
  BY <1>1, <1>2, <1>3, PTL DEF ResearchSpec

\* The verdict is that of one line of the table whose condition holds.
LEMMA SomeLineHolds ==
    ASSUME NEW table, NEW n \in Nat, DOMAIN table = 1 .. n, n > 0, table[n].holds
    PROVE  \E i \in 1 .. n : table[i].holds /\ FirstLine(table) = table[i].verdict
<1> DEFINE held == {i \in 1 .. n : table[i].holds}
<1>1. n \in held /\ held \in SUBSET Nat
  OBVIOUS
<1>2. Min(held) \in held /\ \A i \in held : Min(held) <= i
  BY <1>1, LeastExists
<1> HIDE DEF held
<1>3. PICK least \in held : \A i \in held : least <= i
  BY <1>2
<1>4. /\ least \in DOMAIN table /\ table[least].holds
      /\ \A j \in 1 .. least - 1 : ~ table[j].holds
  BY <1>3 DEF held
<1>5. QED
  BY <1>4 DEF FirstLine

\* What is called unusable failed identity, or is a recycled ticker without prices.
LEMMA UnusableHasNone ==
    ASSUME NEW symbol, NEW row,
           Classify(world, symbol, row).quality = "unusable"
    PROVE  row.failed \/ ~ (row.days > 0)
<1> DEFINE table == VerdictTable(world, symbol, row)
<1>1. DOMAIN table = 1 .. 12
  BY DEF VerdictTable
<1>8. /\ table[1].holds => row.failed
      /\ table[2].holds => ~ (row.days > 0)
  BY DEF VerdictTable, When
<1>9. table[12].holds
  BY DEF VerdictTable, When
<1>2. /\ table[3].verdict.quality # "unusable"
      /\ table[4].verdict.quality # "unusable"
      /\ table[5].verdict.quality # "unusable"
      /\ table[6].verdict.quality # "unusable"
      /\ table[7].verdict.quality # "unusable"
  BY DEF VerdictTable, When, Verdict
<1>3. /\ table[8].verdict.quality # "unusable"
      /\ table[9].verdict.quality # "unusable"
      /\ table[10].verdict.quality # "unusable"
      /\ table[11].verdict.quality # "unusable"
      /\ table[12].verdict.quality # "unusable"
  BY DEF VerdictTable, When, Verdict
<1> HIDE DEF table
<1>4. PICK i \in 1 .. 12 : table[i].holds /\ FirstLine(table) = table[i].verdict
  <2>1. 12 \in Nat /\ 12 > 0
    OBVIOUS
  <2>2. QED
    BY <1>1, <1>9, <2>1, SomeLineHolds
<1>5. table[i].verdict.quality = "unusable"
  BY <1>4 DEF Classify, table
<1>6. i = 1 \/ i = 2
  BY <1>2, <1>3, <1>5
<1>7. QED
  BY <1>8, <1>4, <1>6

\* A member of the window is expected on days of the calendar.
LEMMA ExpectedDays ==
    ASSUME Researchable, IsWorld(world), NEW symbol \in WindowSymbols
    PROVE  /\ Expected(world, symbol).from \in Nat
           /\ Expected(world, symbol).to \in Nat
<1> DEFINE items == IntervalsOf(world, symbol)
           froms == {Later(item.from, Start) : item \in items}
           tos == {Earlier(item.to, End + 1) : item \in items}
<1>1. items # {} /\ items \in SUBSET world.members
  BY DEF WindowSymbols, IntervalsOf
<1>2. Start \in Nat /\ End \in Nat
  BY ForeverAssumption DEF Researchable, Days
<1> HIDE DEF items
<1>8. IsFiniteSet(items)
  BY <1>1, FS_Subset DEF IsWorld
<1>9. \A item \in items : item.from \in Nat /\ item.to \in Nat
  BY <1>1, ForeverAssumption DEF IsWorld, Member, Days
<1>3. froms \in SUBSET Nat /\ froms # {} /\ tos \in SUBSET Int /\ tos \in SUBSET Nat /\ tos # {}
  BY <1>1, <1>2, <1>9 DEF Later, Earlier
<1>4. IsFiniteSet(tos)
  <2> DEFINE end == [item \in items |-> Earlier(item.to, End + 1)]
  <2>1. end \in Surjection(items, tos)
    BY DEF Surjection
  <2> HIDE DEF end, tos
  <2>2. QED
    BY <1>8, <2>1, FS_Surjection
<1> HIDE DEF froms, tos
<1>5. Min(froms) \in Nat /\ Max(tos) \in Nat
  BY <1>3, <1>4, LeastExists, GreatestExists
<1>7. QED
  BY <1>5 DEF Expected, froms, tos, items

LEMMA CoveredAreFinite ==
    ASSUME IsWorld(world), NEW symbol, NEW expected,
           expected.from \in Nat, expected.to \in Nat
    PROVE  /\ IsFiniteSet(CoveredDays(world, symbol, expected))
           /\ IdentityFailed(world, symbol, expected) =>
                  CoveredDays(world, symbol, expected) = {}
<1> DEFINE vendor == PreferredVendorSymbol(world.master, symbol, expected.from, End)
           key == ResolveSecurity(world.master, symbol, expected.from)
           places == VendorRows(world, vendor, key)
           mapped == world.master.tickers[Min(places)]
           from == Later(expected.from, IF places = {} THEN 0 ELSE mapped.valid_from)
           to == Earlier(expected.to, IF places = {} THEN Forever ELSE mapped.valid_to)
<1>1. places # {} => mapped.valid_from \in Nat /\ mapped.valid_to \in Nat
  <2> SUFFICES ASSUME places # {} PROVE mapped.valid_from \in Nat /\ mapped.valid_to \in Nat
    OBVIOUS
  <2>1. places \subseteq DOMAIN world.master.tickers /\ places \subseteq Nat
    BY DEF VendorRows, IsWorld
  <2> HIDE DEF places
  <2>2. Min(places) \in DOMAIN world.master.tickers
    BY <2>1, LeastExists
  <2>3. Constructed(mapped)
    BY <2>2 DEF IsWorld
  <2> HIDE DEF mapped
  <2>4. QED
    BY <2>3, ForeverAssumption DEF Constructed, Row, Days
<1>2. from \in Nat /\ to \in Nat
  <2> HIDE DEF places, mapped
  <2>1. QED
    BY <1>1, ForeverAssumption DEF Later, Earlier
<1>3. \/ CoveredDays(world, symbol, expected) = {}
      \/ CoveredDays(world, symbol, expected) \subseteq from .. to - 1
  BY DEF CoveredDays
<1> HIDE DEF from, to
<1>4. IsFiniteSet(from .. to - 1)
  BY <1>2, FS_Interval
<1>5. IsFiniteSet(CoveredDays(world, symbol, expected))
  BY <1>3, <1>4, FS_Subset, FS_EmptySet
<1>6. IdentityFailed(world, symbol, expected) =>
          CoveredDays(world, symbol, expected) = {}
  BY DEF CoveredDays
<1>7. QED
  BY <1>5, <1>6

\* What the coverage report says of a symbol it counts.
LEMMA RowCounts ==
    ASSUME Researchable, IsWorld(world), NEW symbol \in WindowSymbols
    PROVE  LET row == CoverageRow(world, symbol) IN
           /\ row.days \in Nat
           /\ row.quality = "unusable" => row.days = 0
<1> DEFINE expected == Expected(world, symbol)
           covered == CoveredDays(world, symbol, expected)
           row == CoverageRow(world, symbol)
<1>1. \E known :
          /\ known.days = Cardinality(covered)
          /\ known.failed = IdentityFailed(world, symbol, expected)
          /\ row.days = known.days
          /\ row.quality = Classify(world, symbol, known).quality
  BY DEF CoverageRow, Judged
<1>2. PICK known :
          /\ known.days = Cardinality(covered)
          /\ known.failed = IdentityFailed(world, symbol, expected)
          /\ row.days = known.days
          /\ row.quality = Classify(world, symbol, known).quality
  BY <1>1
<1>3. /\ IsFiniteSet(covered)
      /\ IdentityFailed(world, symbol, expected) => covered = {}
  BY ExpectedDays, CoveredAreFinite
<1> HIDE DEF expected, covered, row
<1>4. known.days = Cardinality(covered) /\ known.days \in Nat
  BY <1>2, <1>3, FS_CardinalityType
<1>5. ASSUME row.quality = "unusable" PROVE row.days = 0
  <2>1. known.failed \/ ~ (known.days > 0)
    BY <1>2, <1>5, UnusableHasNone
  <2>2. CASE known.failed
    BY <1>2, <1>3, <1>4, <2>2, FS_EmptySet
  <2>3. CASE ~ (known.days > 0)
    BY <1>2, <1>4, <2>3
  <2>4. QED
    BY <2>1, <2>2, <2>3
<1>6. QED
  BY <1>2, <1>4, <1>5 DEF row

\* The counters that the property is about are numbers, and so are the rows counted.
CountedInv ==
    /\ IsWorld(world)
    /\ stage = "coverage" => todo \subseteq WindowSymbols /\ todo \cap DOMAIN rows = {}
    /\ IsFiniteSet(DOMAIN rows)
    /\ counts \in [{"securities", "unresolved", "unusable", "missing", "partial", "valid",
                    "unlisted", "rebalanceUnlisted"} -> Nat]
    /\ CountsAddUp

LEMMA CountKeeps ==
    ASSUME Researchable, CountedInv, stage = "coverage", NEW symbol \in todo,
           NEW new, new = Count(counts, CoverageRow(world, symbol))
    PROVE  /\ new \in [{"securities", "unresolved", "unusable", "missing", "partial", "valid",
                        "unlisted", "rebalanceUnlisted"} -> Nat]
           /\ new.securities = counts.securities + 1
           /\ new.valid + new.missing = new.securities
           /\ new.unusable <= new.missing
           /\ new.partial <= new.valid
           /\ new.rebalanceUnlisted <= new.unlisted
<1> DEFINE row == CoverageRow(world, symbol)
           usable == row.quality # "unusable"
<1>1. row.days \in Nat /\ (row.quality = "unusable" => row.days = 0)
  BY RowCounts DEF CountedInv
<1>2. /\ new = [counts EXCEPT
                !.securities = counts.securities + 1,
                !.unresolved = counts.unresolved + One(row.key = Unresolved),
                !.unusable = counts.unusable + One(~ usable),
                !.missing = counts.missing + One(row.days = 0),
                !.partial = counts.partial + One(row.days > 0 /\ row.days < row.asked),
                !.valid = counts.valid + One(row.days > 0 /\ usable),
                !.unlisted = counts.unlisted + One(~ row.listed),
                !.rebalanceUnlisted =
                    counts.rebalanceUnlisted + One(~ row.listed /\ row.encountered)]
  BY DEF Count
<1> HIDE DEF row
<1>3. /\ \A c : One(c) \in Nat
      /\ One(~ usable) <= One(row.days = 0)
      /\ One(row.days > 0 /\ usable) + One(row.days = 0) = 1
      /\ One(row.days > 0 /\ row.days < row.asked)
             <= One(row.days > 0 /\ usable)
      /\ One(~ row.listed /\ row.encountered) <= One(~ row.listed)
  BY <1>1 DEF One
<1>4. /\ counts.valid + counts.missing = counts.securities
      /\ counts.unusable <= counts.missing /\ counts.partial <= counts.valid
      /\ counts.rebalanceUnlisted <= counts.unlisted
  BY DEF CountedInv, CountsAddUp
<1> DEFINE fields == {"securities", "unresolved", "unusable", "missing", "partial", "valid",
                      "unlisted", "rebalanceUnlisted"}
<1>5. counts \in [fields -> Nat]
  BY DEF CountedInv
<1>6. /\ counts.securities \in Nat /\ counts.unusable \in Nat /\ counts.missing \in Nat
      /\ counts.partial \in Nat /\ counts.valid \in Nat /\ counts.unlisted \in Nat
      /\ counts.rebalanceUnlisted \in Nat /\ counts.unresolved \in Nat
  BY <1>5
<1>7. /\ new.securities = counts.securities + 1
      /\ new.unresolved = counts.unresolved + One(row.key = Unresolved)
      /\ new.unusable = counts.unusable + One(~ usable)
      /\ new.missing = counts.missing + One(row.days = 0)
      /\ new.partial = counts.partial + One(row.days > 0 /\ row.days < row.asked)
      /\ new.valid = counts.valid + One(row.days > 0 /\ usable)
      /\ new.unlisted = counts.unlisted + One(~ row.listed)
      /\ new.rebalanceUnlisted =
             counts.rebalanceUnlisted + One(~ row.listed /\ row.encountered)
      /\ DOMAIN new = fields /\ new = [f \in fields |-> new[f]]
  BY <1>2, <1>5
<1>8. \A f \in fields : new[f] \in Nat
  BY <1>3, <1>6, <1>7
<1>9. new \in [fields -> Nat]
  BY <1>7, <1>8
<1>10. new.valid + new.missing = new.securities
  BY <1>3, <1>4, <1>6, <1>7
<1>11. new.unusable <= new.missing /\ new.partial <= new.valid
  BY <1>3, <1>4, <1>6, <1>7
<1>12. new.rebalanceUnlisted <= new.unlisted
  BY <1>3, <1>4, <1>6, <1>7
<1>13. QED
  BY <1>7, <1>9, <1>10, <1>11, <1>12

LEMMA CountedStep ==
    ASSUME Researchable, CountedInv, [ResearchNext]_researchVars
    PROVE  CountedInv'
<1> USE DEF report, audit, backtest
<1>1. CASE UNCHANGED <<world, rows, counts>> /\ (stage' = "coverage" => UNCHANGED <<stage, todo>>)
  BY <1>1 DEF CountedInv, CountsAddUp, WindowSymbols
<1>2. CASE CoverSymbol
  <2> DEFINE symbol == NextSymbol
             row == CoverageRow(world, symbol)
  <2>1. /\ stage = "coverage" /\ symbol \in todo /\ UNCHANGED world
        /\ rows' = Recorded(rows, symbol, row)
        /\ counts' = Count(counts, row)
        /\ todo' = todo \ {symbol}
    BY <1>2 DEF CoverSymbol, NextSymbol
  <2> HIDE DEF symbol
  <2>2. DOMAIN rows' = DOMAIN rows \cup {symbol} /\ symbol \notin DOMAIN rows
    BY <2>1 DEF Recorded, CountedInv
  <2>3. /\ IsFiniteSet(DOMAIN rows')
        /\ Cardinality(DOMAIN rows') = Cardinality(DOMAIN rows) + 1
    BY <2>2, FS_AddElement DEF CountedInv
  <2>4. /\ counts' \in [{"securities", "unresolved", "unusable", "missing", "partial", "valid",
                         "unlisted", "rebalanceUnlisted"} -> Nat]
        /\ counts'.securities = counts.securities + 1
        /\ counts'.valid + counts'.missing = counts'.securities
        /\ counts'.unusable <= counts'.missing
        /\ counts'.partial <= counts'.valid
        /\ counts'.rebalanceUnlisted <= counts'.unlisted
    BY <2>1, CountKeeps
  <2>5. counts.securities = Cardinality(DOMAIN rows)
    BY DEF CountedInv, CountsAddUp
  <2>6. counts'.securities = Cardinality(DOMAIN rows')
    BY <2>3, <2>4, <2>5
  <2>7. CountsAddUp'
    BY <2>4, <2>6 DEF CountsAddUp
  <2>8. todo' \subseteq WindowSymbols' /\ todo' \cap DOMAIN rows' = {}
    BY <2>1, <2>2 DEF CountedInv, WindowSymbols
  <2>9. QED
    BY <2>1, <2>3, <2>4, <2>7, <2>8 DEF CountedInv
<1>3. QED
  BY <1>1, <1>2 DEF ResearchNext, AuditDate, LoadSymbol, Investigate,
     Rebalance, RefuseTwoSlots, StartNext, researchVars

\* The coverage report counts every security once, as valid or as missing, and counts no
\* price of a series it calls unusable (data/pit_coverage.py).
THEOREM ReportAddsUp == ResearchSpec => []CountsAddUp
<1>1. ResearchInit => CountedInv
  <2> SUFFICES ASSUME ResearchInit PROVE CountedInv
    OBVIOUS
  <2>1. /\ IsWorld(world) /\ todo = WindowSymbols
        /\ DOMAIN rows = {} /\ counts = Zero
    BY ResearchAssumption DEF ResearchInit, Researchable, Empty
  <2>2. IsFiniteSet({}) /\ Cardinality({}) = 0
    BY FS_EmptySet
  <2>3. QED
    BY <2>1, <2>2 DEF CountedInv, CountsAddUp, Zero
<1>2. CountedInv /\ [ResearchNext]_researchVars => CountedInv'
  BY CountedStep, ResearchAssumption
<1>3. CountedInv => CountsAddUp
  BY DEF CountedInv
<1>4. QED
  BY <1>1, <1>2, <1>3, PTL DEF ResearchSpec

\* Rows of the detail: who is said to be in the index from a date on.
Says(symbol, d) == d \in DOMAIN detail /\ symbol \in DOMAIN detail[d]
In(symbol, d) == detail[d][symbol].reason # "left_index"

LEMMA ReplayIs ==
    ASSUME NEW day, NEW symbol
    PROVE  symbol \in Replay(day) <=>
               /\ symbol \in Tickers
               /\ \E d \in Dates :
                      /\ d <= day /\ Says(symbol, d) /\ In(symbol, d)
                      /\ \A e \in Dates : d < e /\ e <= day => ~ Says(symbol, e)
BY DEF Replay, Says, In

\* The audit has seen the dates before the ones it has left, each against the one before.
AuditInv ==
    /\ IsWorld(world)
    /\ leaked = {}
    /\ stage = "coverage" => DOMAIN detail = {} /\ DOMAIN summary = {} /\ previous = {}
    /\ DOMAIN detail = DOMAIN summary /\ DOMAIN detail \subseteq Dates
    /\ stage = "audit" =>
           /\ todo \subseteq Dates
           /\ DOMAIN detail = Dates \ todo
           /\ \A d \in DOMAIN detail, e \in todo : d < e
           /\ \/ DOMAIN detail = {} /\ previous = {}
              \/ \E last \in DOMAIN detail :
                     /\ \A d \in DOMAIN detail : d <= last
                     /\ previous = SymbolsAsOf(world, last)
    /\ \A day \in DOMAIN summary :
           /\ Replay(day) = SymbolsAsOf(world, day)
           /\ summary[day].size = Cardinality(SymbolsAsOf(world, day))

LEMMA AuditIsReplayed == AuditInv => AuditReplays
BY DEF AuditInv, AuditReplays

LEMMA AuditDateStep ==
    ASSUME Researchable, AuditInv, AuditDate
    PROVE  AuditInv'
<1>0. PICK day : day = Min(todo)
  OBVIOUS
<1> DEFINE present == SymbolsAsOf(world, day)
           changed == ChangedSymbols(present, previous)
           marked == SuspiciousOn(world, day)
           entry == [s \in changed |-> EligibilityReason(s, present, previous, marked)]
           line == SummaryRow(present, previous, marked)
<1>1. /\ stage = "audit" /\ todo # {} /\ UNCHANGED <<world, stage>>
      /\ summary' = Recorded(summary, day, line)
      /\ detail' = Recorded(detail, day, entry)
      /\ leaked' = leaked \cup FutureMembersPresent(present, world, day)
      /\ previous' = present
      /\ todo' = todo \ {day}
  BY <1>0 DEF AuditDate
<1>2. /\ day \in todo /\ \A e \in todo : day <= e
      /\ todo \subseteq Dates /\ Dates \subseteq Nat /\ day \in Nat
  <2>1. todo \subseteq Dates /\ Dates \subseteq Nat /\ todo \subseteq Nat
    BY <1>1, DatesAreDays DEF AuditInv
  <2>2. QED
    BY <1>0, <1>1, <2>1, LeastExists
<1>3. FutureMembersPresent(present, world, day) = {}
  BY DEF FutureMembersPresent
<1>4. line.size = Cardinality(present)
  BY DEF SummaryRow
<1>5. \A s : /\ s \in changed <=> (s \in present /\ s \notin previous)
                                      \/ (s \in previous /\ s \notin present)
             /\ s \in changed => (entry[s].reason # "left_index" <=> s \in present)
  BY DEF ChangedSymbols, EligibilityReason
<1>6. present \subseteq Tickers /\ DOMAIN entry = changed
  BY DEF AuditInv, IsWorld, SymbolsAsOf, MembersAsOf, Member
<1> HIDE DEF present, entry, line, changed
<1>7. /\ DOMAIN detail' = DOMAIN detail \cup {day} /\ DOMAIN summary' = DOMAIN summary \cup {day}
      /\ detail'[day] = entry /\ summary'[day] = line
      /\ \A d \in DOMAIN detail : d # day => detail'[d] = detail[d]
      /\ \A d \in DOMAIN summary : d # day => summary'[d] = summary[d]
  BY <1>1 DEF Recorded
<1>8. /\ DOMAIN detail = DOMAIN summary /\ DOMAIN detail = Dates \ todo
      /\ \A d \in DOMAIN detail : d < day /\ d \in Nat
      /\ day \notin DOMAIN detail
  BY <1>1, <1>2 DEF AuditInv
<1>9. /\ \A s, d : d # day => (Says(s, d)' <=> Says(s, d))
      /\ \A s, d : d # day /\ Says(s, d) => (In(s, d)' <=> In(s, d))
      /\ \A s : Says(s, day)' <=> s \in changed
      /\ \A s \in changed : In(s, day)' <=> s \in present
  BY <1>5, <1>6, <1>7 DEF Says, In
<1>10. \A d \in DOMAIN summary : Replay(d)' = Replay(d)
  <2> SUFFICES ASSUME NEW d \in DOMAIN summary, NEW s
               PROVE  s \in Replay(d)' <=> s \in Replay(d)
    BY DEF Replay
  <2>1. d \in Nat /\ d < day /\ \A e \in Dates : e <= d => e # day
    BY <1>2, <1>8
  <2>2. s \in Replay(d)' <=>
            /\ s \in Tickers
            /\ \E x \in Dates :
                   /\ x <= d /\ Says(s, x)' /\ In(s, x)'
                   /\ \A e \in Dates : x < e /\ e <= d => ~ Says(s, e)'
    BY DEF Replay, Says, In
  <2>3. QED
    BY <1>9, <2>1, <2>2, ReplayIs
<1>11. Replay(day)' = present
  <2> SUFFICES ASSUME NEW s
               PROVE  s \in Replay(day)' <=> s \in present
    BY DEF Replay
  <2>1. s \in Replay(day)' <=>
            /\ s \in Tickers
            /\ \E x \in Dates :
                   /\ x <= day /\ Says(s, x)' /\ In(s, x)'
                   /\ \A e \in Dates : x < e /\ e <= day => ~ Says(s, e)'
    BY DEF Replay, Says, In
  <2>2. CASE s \in changed
    <3>1. /\ Says(s, day)' /\ (In(s, day)' <=> s \in present)
          /\ day \in Dates /\ day <= day
          /\ ~ \E e \in Dates : day < e /\ e <= day
          /\ \A x \in Dates : x <= day /\ x # day => x < day
      BY <1>2, <1>9, <2>2
    <3>2. QED
      BY <1>6, <2>1, <3>1
  <2>3. CASE s \notin changed
    <3>1. ~ Says(s, day)' /\ (s \in present <=> s \in previous)
      BY <1>5, <1>9, <2>3
    <3>2. CASE DOMAIN detail = {} /\ previous = {}
      <4>1. \A x : ~ Says(s, x)'
        BY <1>9, <3>1, <3>2 DEF Says
      <4>2. QED
        BY <2>1, <3>1, <3>2, <4>1
    <3>3. CASE \E last \in DOMAIN detail :
                   /\ \A d \in DOMAIN detail : d <= last
                   /\ previous = SymbolsAsOf(world, last)
      <4>1. PICK last \in DOMAIN detail :
                     /\ \A d \in DOMAIN detail : d <= last
                     /\ previous = SymbolsAsOf(world, last)
        BY <3>3
      <4>2. previous = Replay(last)
        BY <1>8, <4>1 DEF AuditInv
      <4>3. /\ last < day /\ last \in Nat
            /\ \A x : Says(s, x) => x <= last /\ x \in Nat /\ x # day
            /\ \A x : Says(s, x)' <=> Says(s, x)
        BY <1>8, <1>9, <3>1, <4>1 DEF Says
      <4>4. s \in Replay(day)' <=>
                /\ s \in Tickers
                /\ \E x \in Dates :
                       /\ x <= last /\ Says(s, x) /\ In(s, x)
                       /\ \A e \in Dates : x < e /\ e <= last => ~ Says(s, e)
        BY <1>2, <1>9, <2>1, <4>3
      <4>5. QED
        BY <3>1, <4>2, <4>4, ReplayIs
    <3>4. QED
      BY <1>1, <3>2, <3>3 DEF AuditInv
  <2>4. QED
    BY <2>2, <2>3
<1>12. \A d \in DOMAIN summary' :
           /\ Replay(d)' = SymbolsAsOf(world, d)
           /\ summary'[d].size = Cardinality(SymbolsAsOf(world, d))
  <2>1. present = SymbolsAsOf(world, day)
    BY DEF present
  <2>2. CASE TRUE
    BY <1>4, <1>7, <1>8, <1>10, <1>11, <2>1 DEF AuditInv
  <2>3. QED
    BY <2>2
<1>13. /\ leaked' = {} /\ IsWorld(world)' /\ stage' # "coverage"
       /\ DOMAIN detail' = DOMAIN summary' /\ DOMAIN detail' \subseteq Dates
  BY <1>1, <1>2, <1>3, <1>7, <1>8 DEF AuditInv
<1>14. /\ todo' \subseteq Dates /\ DOMAIN detail' = Dates \ todo'
       /\ \A d \in DOMAIN detail', e \in todo' : d < e
       /\ day \in DOMAIN detail' /\ \A d \in DOMAIN detail' : d <= day
       /\ previous' = SymbolsAsOf(world, day)
  <2>1. \A e \in todo' : day < e
    BY <1>1, <1>2
  <2>2. \A d \in DOMAIN detail, e \in todo' : d < e
    BY <1>1 DEF AuditInv
  <2>3. previous' = SymbolsAsOf(world, day)
    BY <1>1 DEF present
  <2>4. QED
    BY <1>1, <1>2, <1>7, <1>8, <2>1, <2>2, <2>3
<1>15. (\A d \in DOMAIN summary :
            /\ Replay(d) = SymbolsAsOf(world, d)
            /\ summary[d].size = Cardinality(SymbolsAsOf(world, d)))'
  BY <1>1, <1>12 DEF SymbolsAsOf, MembersAsOf
<1>16. (\E last \in DOMAIN detail : /\ \A d \in DOMAIN detail : d <= last
                                    /\ previous = SymbolsAsOf(world, last))'
  BY <1>1, <1>14 DEF SymbolsAsOf, MembersAsOf
<1>17. QED
  BY <1>13, <1>14, <1>15, <1>16 DEF AuditInv

LEMMA AuditStep ==
    ASSUME Researchable, AuditInv, [ResearchNext]_researchVars
    PROVE  AuditInv'
<1> USE DEF report, audit, backtest
<1>1. CASE AuditDate
  BY <1>1, AuditDateStep
<1>2. CASE /\ UNCHANGED <<world, previous, summary, detail, leaked>>
           /\ \/ UNCHANGED <<stage, todo>>
              \/ stage' \notin {"coverage", "audit"}
              \/ stage = "coverage" /\ stage' = "coverage"
              \/ stage = "coverage" /\ stage' = "audit" /\ todo' = Dates
  BY <1>2 DEF AuditInv, Replay
<1>3. QED
  BY <1>1, <1>2 DEF ResearchNext, CoverSymbol, LoadSymbol,
     Investigate, Rebalance, RefuseTwoSlots, StartNext,
     researchVars

\* Replayed, the changes-only detail gives the membership of every date and its size
\* (universe/audit.py, backtest/universe_audit.py).
THEOREM DetailIsComplete == ResearchSpec => []AuditReplays
<1>1. ResearchInit => AuditInv
  BY ResearchAssumption DEF ResearchInit, AuditInv, Researchable, Empty
<1>2. AuditInv /\ [ResearchNext]_researchVars => AuditInv'
  BY AuditStep, ResearchAssumption
<1>3. QED
  BY <1>1, <1>2, AuditIsReplayed, PTL DEF ResearchSpec
=============================================================================
