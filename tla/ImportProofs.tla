------------------------------ MODULE ImportProofs ------------------------------
(***************************************************************************)
(* Theorems about the two imports that fill the database: UniverseImport,  *)
(* for every set of symbols, every calendar and every history of the       *)
(* source, and MarketDataImport, for every calendar, every series the      *)
(* vendor may have, every tolerance and every length of the gates.         *)
(*                                                                         *)
(* Membership follows the loop in snapshots_to_intervals: after some       *)
(* change dates, the days before the next one are already answered for by  *)
(* the closed intervals and by the starts still open (Prefix), and what is *)
(* closed lies before what is open (Apart).  Prices follow one             *)
(* transaction: until it saves, it sees what is committed; what it saves   *)
(* is what the cache file has of its window; and what it reports is said   *)
(* of the rows it is about to commit.                                      *)
(***************************************************************************)
EXTENDS UniverseImport, MarketDataImport, TLAPS
------------------------------------------------------------------------------
(* The import of index membership.                                         *)

\* The change dates already converted come before the ones that are left, and the
\* last of them gives the current members.
Taken == DOMAIN snapshots \ pending
InOrder ==
    /\ \A d \in Taken, e \in pending : d < e
    /\ \A d \in Taken : (\A e \in Taken : e <= d) => previous = snapshots[d]
    /\ Taken = {} => previous = {}
    /\ \A s \in previous : openStarts[s] \in Taken
    /\ \A m \in intervals : m.end \in Taken

\* Every day before the next change date is settled.
Settled(day) == \A e \in pending : day < e
Open(s, day) == s \in previous /\ openStarts[s] <= day
Prefix ==
    \A day \in Dates : Settled(day) =>
        \A s \in Symbols : s \in Truth(snapshots, day) <=> (s \in AsOf(intervals, day) \/ Open(s, day))

\* No two closed intervals of a symbol share a day, and all end before it is open.
Apart ==
    /\ ~HasOverlap(intervals)
    /\ \A m \in intervals : m.symbol \in previous => m.end <= openStarts[m.symbol]

MembershipInv ==
    /\ TypeOK
    /\ phase = "convert" => InOrder /\ Prefix /\ Apart
    /\ IntervalsMatchSnapshots
    /\ NeverRefused
    /\ AsOfIsUnionOfImports

------------------------------------------------------------------------------
LEMMA DatesAreNaturals ==
    /\ LastDate \in Nat /\ Dates \subseteq Nat /\ Forever \in Nat
    /\ \A d \in Dates : d < Forever
  BY UniverseAssumption DEF UniverseAssumption, Dates, Forever

LEMMA AsOfOf ==
    ASSUME NEW table, NEW s, NEW day
    PROVE  s \in AsOf(table, day) <=> \E m \in table : m.symbol = s /\ Contains(m, day)
  BY DEF AsOf

LEMMA MembershipDates ==
    ASSUME NEW m \in Membership
    PROVE  m.start \in Nat /\ m.end \in Nat /\ m.start < m.end
  <1>1. m.start \in Dates /\ m.end \in 2 .. Forever /\ m.start < m.end
    BY DEF Membership
  <1>2. \A n \in 2 .. Forever : n \in Nat
    BY DatesAreNaturals
  <1> QED
    BY <1>1, <1>2, DatesAreNaturals

\* The new intervals of a change date and the ones that CloseOut adds.
LEMMA ClosedIn ==
    ASSUME TypeOK, phase = "convert", InOrder, NEW day \in pending, NEW members
    PROVE  /\ Closed(members, day) \subseteq Membership
           /\ \A m \in Closed(members, day) :
                 /\ m.symbol \in previous \ members
                 /\ m.start = openStarts[m.symbol] /\ m.end = day
           /\ \A s \in previous \ members : \E m \in Closed(members, day) : m.symbol = s
  <1>1. day \in Dates /\ day \in Nat
    BY DatesAreNaturals DEF TypeOK, IsDataset
  <1>2. \A s \in previous : openStarts[s] \in Dates /\ openStarts[s] < day /\ s \in Symbols
    BY DEF TypeOK, InOrder
  <1>3. \A s \in previous : day \in 2 .. Forever
    BY <1>1, <1>2, DatesAreNaturals DEF Dates
  <1>4. ASSUME NEW m \in Closed(members, day)
        PROVE  /\ m \in Membership
               /\ m.symbol \in previous \ members
               /\ m.start = openStarts[m.symbol] /\ m.end = day
    <2>1. PICK s \in previous \ members : m = [symbol |-> s, start |-> openStarts[s], end |-> day]
      BY <1>4 DEF Closed
    <2>2. s \in Symbols /\ openStarts[s] \in Dates /\ openStarts[s] < day /\ day \in 2 .. Forever
      BY <1>2, <1>3
    <2>3. m \in [symbol : Symbols, start : Dates, end : 2 .. Forever] /\ m.start < m.end
      BY <2>1, <2>2
    <2> QED
      BY <2>1, <2>3 DEF Membership
  <1>5. \A s \in previous \ members :
            [symbol |-> s, start |-> openStarts[s], end |-> day] \in Closed(members, day)
    BY DEF Closed
  <1> QED
    BY <1>4, <1>5

------------------------------------------------------------------------------
LEMMA StartKeeps ==
    ASSUME MembershipInv, NEW dataset, IsDataset(dataset), Start(dataset),
           IsDataset(published'), IsDataset(cacheFile')
    PROVE  MembershipInv'
  <1>1. /\ phase' = "convert" /\ snapshots' = dataset /\ pending' = DOMAIN dataset
        /\ previous' = {} /\ openStarts' = << >> /\ intervals' = {}
        /\ rows' = rows /\ imported' = imported
    BY DEF Start
  <1>2. TypeOK'
    BY <1>1 DEF MembershipInv, TypeOK, IsDataset
  <1>3. InOrder'
    BY <1>1 DEF InOrder, Taken
  <1>4. Prefix'
    <2>1. ASSUME NEW day \in Dates, \A e \in DOMAIN dataset : day < e, NEW s
          PROVE  s \notin Truth(dataset, day)
      <3>1. ASSUME NEW c, IsLatest(dataset, c, day)
            PROVE  FALSE
        <4>1. c \in DOMAIN dataset /\ c <= day /\ day < c
          BY <2>1, <3>1 DEF IsLatest
        <4>2. c \in Nat /\ day \in Nat
          BY <4>1, DatesAreNaturals DEF IsDataset
        <4> QED
          BY <4>1, <4>2
      <3> QED
        BY <3>1 DEF Truth
    <2>2. \A day \in Dates : Settled(day)' => \A s : s \notin Truth(snapshots', day)
      BY <1>1, <2>1 DEF Settled
    <2>3. \A day, s : s \notin AsOf(intervals', day) /\ ~Open(s, day)'
      BY <1>1 DEF AsOf, Open
    <2> QED
      BY <2>2, <2>3 DEF Prefix, Truth, IsLatest, AsOf
  <1>5. Apart'
    BY <1>1 DEF Apart, HasOverlap
  <1>6. AsOfIsUnionOfImports'
    BY <1>1 DEF MembershipInv, AsOfIsUnionOfImports, AsOf, Truth, IsLatest
  <1> QED
    BY <1>1, <1>2, <1>3, <1>4, <1>5, <1>6 DEF MembershipInv, IntervalsMatchSnapshots, NeverRefused

\* The days that are settled by a change date and were not before have its members.
LEMMA TruthAtChange ==
    ASSUME TypeOK, phase = "convert", InOrder, NEW change \in pending,
           \A d \in pending : change <= d,
           NEW day \in Dates, change <= day, \A e \in pending \ {change} : day < e
    PROVE  Truth(snapshots, day) = snapshots[change]
  <1>1. \A d \in DOMAIN snapshots : d \in Nat
    BY DatesAreNaturals DEF TypeOK, IsDataset
  <1>2. change \in DOMAIN snapshots /\ snapshots[change] \subseteq Symbols
    BY DEF TypeOK, IsDataset
  <1>3. IsLatest(snapshots, change, day)
    <2>1. ASSUME NEW d \in DOMAIN snapshots, d <= day
          PROVE  d <= change
      BY <2>1, <1>1, <1>2, DatesAreNaturals DEF InOrder, Taken
    <2> QED
      BY <2>1, <1>2 DEF IsLatest
  <1>4. \A c : IsLatest(snapshots, c, day) => c = change
    BY <1>1, <1>2, <1>3 DEF IsLatest
  <1> QED
    BY <1>2, <1>3, <1>4 DEF Truth

LEMMA ConvertKeeps ==
    ASSUME MembershipInv, NEW change \in Dates, Convert(change)
    PROVE  MembershipInv'
  <1> DEFINE members == snapshots[change]
  <1>1. /\ phase = "convert" /\ change \in pending /\ \A d \in pending : change <= d
        /\ intervals' = intervals \cup Closed(members, change)
        /\ openStarts' = StartsAfter(members, change)
        /\ previous' = members /\ pending' = pending \ {change}
        /\ UNCHANGED <<published, cacheFile, phase, snapshots, rows, imported>>
    BY DEF Convert
  <1>2. TypeOK /\ InOrder /\ Prefix /\ Apart
    BY <1>1 DEF MembershipInv
  <1>3. /\ Closed(members, change) \subseteq Membership
        /\ \A m \in Closed(members, change) :
              /\ m.symbol \in previous \ members
              /\ m.start = openStarts[m.symbol] /\ m.end = change
        /\ \A s \in previous \ members : \E m \in Closed(members, change) : m.symbol = s
    BY <1>1, <1>2, ClosedIn
  <1>4. /\ members \subseteq Symbols /\ change \in DOMAIN snapshots /\ change \in Nat
        /\ \A d \in DOMAIN snapshots : d \in Dates /\ d \in Nat
    BY <1>1, <1>2, DatesAreNaturals DEF TypeOK, IsDataset
  <1>5. /\ DOMAIN openStarts' = members
        /\ \A s \in members : openStarts'[s] = IF s \in previous THEN openStarts[s] ELSE change
    BY <1>1 DEF StartsAfter
  <1>6. \A s \in previous : openStarts[s] \in Taken /\ openStarts[s] < change
                              /\ openStarts[s] \in Nat
    BY <1>1, <1>2, <1>4 DEF InOrder, Taken
  <1>7. Taken' = Taken \cup {change}
    BY <1>1, <1>4 DEF Taken
  <1>8. TypeOK'
    BY <1>1, <1>2, <1>3, <1>4, <1>5 DEF TypeOK, IsDataset
  <1>9. InOrder'
    <2>1. \A d \in Taken', e \in pending' : d < e
      BY <1>1, <1>2, <1>4, <1>7 DEF InOrder, TypeOK
    <2>2. \A d \in Taken' : (\A e \in Taken' : e <= d) => previous' = snapshots'[d]
      <3>1. \A d \in Taken : d < change
        BY <1>1, <1>2 DEF InOrder
      <3> QED
        BY <3>1, <1>1, <1>4, <1>7 DEF Taken
    <2>3. \A s \in previous' : openStarts'[s] \in Taken'
      BY <1>1, <1>5, <1>6, <1>7
    <2>4. \A m \in intervals' : m.end \in Taken'
      BY <1>1, <1>2, <1>3, <1>7 DEF InOrder
    <2> QED
      BY <2>1, <2>2, <2>3, <2>4, <1>7 DEF InOrder
  <1>10. Prefix'
    <2> SUFFICES ASSUME NEW day \in Dates, Settled(day)', NEW s \in Symbols
                 PROVE  s \in Truth(snapshots, day) <=> (s \in AsOf(intervals', day) \/ Open(s, day)')
      BY <1>1 DEF Prefix, Truth, IsLatest, AsOf
    <2>1. day \in Nat /\ \A e \in pending \ {change} : day < e
      BY <1>1, DatesAreNaturals DEF Settled
    <2>2. s \in AsOf(intervals', day) <=>
              \/ s \in AsOf(intervals, day)
              \/ \E m \in Closed(members, change) : m.symbol = s /\ Contains(m, day)
      BY <1>1, AsOfOf
    <2>3. (\E m \in Closed(members, change) : m.symbol = s /\ Contains(m, day)) <=>
              s \in previous \ members /\ openStarts[s] <= day /\ day < change
      BY <1>3 DEF Contains
    <2>4. Open(s, day)' <=>
              s \in members /\ (IF s \in previous THEN openStarts[s] ELSE change) <= day
      BY <1>1, <1>5 DEF Open
    <2>5. CASE day < change
      <3>1. Settled(day)
        BY <2>5, <1>1, <1>4, <2>1 DEF Settled, TypeOK
      <3>2. s \in Truth(snapshots, day) <=> (s \in AsOf(intervals, day) \/ Open(s, day))
        BY <3>1, <1>2 DEF Prefix
      <3>3. ~(change <= day)
        BY <2>5, <2>1, <1>4
      <3> QED
        BY <2>2, <2>3, <2>4, <2>5, <3>2, <3>3 DEF Open
    <2>6. CASE change <= day
      <3>1. Truth(snapshots, day) = members
        BY <2>6, <1>1, <1>2, <2>1, TruthAtChange
      <3>2. \A m \in intervals : ~Contains(m, day)
        BY <2>6, <1>1, <1>2, <1>4, <2>1 DEF InOrder, Taken, Contains
      <3>3. s \notin AsOf(intervals, day)
        BY <3>2, AsOfOf
      <3>4. s \in previous => openStarts[s] <= day
        BY <1>6, <1>4, <2>1, <2>6
      <3>5. ~(day < change)
        BY <2>6, <2>1, <1>4
      <3> QED
        BY <2>2, <2>3, <2>4, <2>6, <3>1, <3>3, <3>4, <3>5
    <2> QED
      BY <2>5, <2>6, <2>1, <1>4
  <1>11. Apart'
    <2>1. ASSUME NEW m \in intervals', m.symbol \in members
          PROVE  m.end <= openStarts'[m.symbol]
      <3>1. m \in intervals
        BY <1>1, <1>3, <2>1
      <3>2. m.end \in Taken /\ m.end < change /\ m.end \in Nat
        BY <3>1, <1>1, <1>2, <1>4 DEF InOrder, Taken
      <3>3. m.symbol \in previous => m.end <= openStarts[m.symbol]
        BY <3>1, <1>2 DEF Apart
      <3> QED
        BY <3>2, <3>3, <2>1, <1>4, <1>5
    <2>2. ASSUME NEW m \in intervals', NEW n \in intervals', m # n
          PROVE  ~IntervalsOverlap(m, n)
      <3>1. m \in Membership /\ n \in Membership
        BY <1>8 DEF TypeOK
      <3>2. m.start \in Nat /\ n.start \in Nat /\ m.end \in Nat /\ n.end \in Nat
        BY <3>1, MembershipDates
      <3>3. CASE m \in intervals /\ n \in intervals
        BY <3>3, <2>2, <1>2 DEF Apart, HasOverlap
      <3>4. CASE m \in intervals /\ n \in Closed(members, change)
        <4>1. n.symbol = m.symbol => m.end <= n.start
          BY <3>4, <1>2, <1>3 DEF Apart
        <4> QED
          BY <4>1, <3>2 DEF IntervalsOverlap
      <3>5. CASE n \in intervals /\ m \in Closed(members, change)
        <4>1. n.symbol = m.symbol => n.end <= m.start
          BY <3>5, <1>2, <1>3 DEF Apart
        <4> QED
          BY <4>1, <3>2 DEF IntervalsOverlap
      <3>6. CASE m \in Closed(members, change) /\ n \in Closed(members, change)
        BY <3>6, <2>2 DEF Closed, IntervalsOverlap
      <3> QED
        BY <3>3, <3>4, <3>5, <3>6, <1>1
    <2> QED
      BY <2>1, <2>2, <1>1 DEF Apart, HasOverlap
  <1>12. AsOfIsUnionOfImports'
    BY <1>1 DEF MembershipInv, AsOfIsUnionOfImports, AsOf, Truth, IsLatest
  <1> QED
    BY <1>1, <1>8, <1>9, <1>10, <1>11, <1>12 DEF MembershipInv, IntervalsMatchSnapshots, NeverRefused

LEMMA CloseOutKeeps ==
    ASSUME MembershipInv, CloseOut
    PROVE  MembershipInv'
  <1> DEFINE Rest == {[symbol |-> s, start |-> openStarts[s], end |-> Forever] : s \in previous}
  <1>1. /\ phase = "convert" /\ pending = {} /\ phase' = "persist"
        /\ intervals' = intervals \cup Rest
        /\ UNCHANGED <<published, cacheFile, snapshots, pending, previous, openStarts, rows, imported>>
    BY DEF CloseOut
  <1>2. TypeOK /\ InOrder /\ Prefix /\ Apart
    BY <1>1 DEF MembershipInv
  <1>3. \A s \in previous : openStarts[s] \in Dates /\ openStarts[s] \in Nat
                              /\ s \in Symbols /\ openStarts[s] < Forever /\ Forever \in 2 .. Forever
    BY <1>2, DatesAreNaturals DEF TypeOK, Dates
  <1>4. ASSUME NEW m \in Rest
        PROVE  /\ m.symbol \in previous /\ m.start = openStarts[m.symbol] /\ m.end = Forever
               /\ m \in Membership
    <2>1. PICK s \in previous : m = [symbol |-> s, start |-> openStarts[s], end |-> Forever]
      BY <1>4
    <2>2. m \in [symbol : Symbols, start : Dates, end : 2 .. Forever] /\ m.start < m.end
      BY <2>1, <1>3
    <2> QED
      BY <2>1, <2>2 DEF Membership
  <1>5. \A s \in previous : \E m \in Rest : m.symbol = s
    <2>1. \A s \in previous : [symbol |-> s, start |-> openStarts[s], end |-> Forever] \in Rest
      OBVIOUS
    <2> QED
      BY <2>1
  <1> HIDE DEF Rest
  <1>6. TypeOK'
    BY <1>1, <1>2, <1>4 DEF TypeOK, IsDataset
  <1>7. IntervalsMatchSnapshots'
    <2>1. ASSUME NEW day \in Dates
          PROVE  AsOf(intervals', day) = Truth(snapshots, day)
      <3>1. \A s \in Symbols : s \in Truth(snapshots, day) <=> (s \in AsOf(intervals, day) \/ Open(s, day))
        BY <1>1, <1>2 DEF Prefix, Settled
      <3>2. \A s : s \in AsOf(intervals', day) <=>
                \/ s \in AsOf(intervals, day)
                \/ \E m \in Rest : m.symbol = s /\ Contains(m, day)
        BY <1>1, AsOfOf
      <3>3. day < Forever
        BY DatesAreNaturals
      <3>4. \A s : (\E m \in Rest : m.symbol = s /\ Contains(m, day)) <=> Open(s, day)
        BY <1>4, <1>5, <3>3 DEF Contains, Open
      <3>5. AsOf(intervals', day) \subseteq Symbols
        BY <1>6 DEF AsOf, TypeOK, Membership
      <3>6. Truth(snapshots, day) \subseteq Symbols
        BY DEF Truth
      <3> QED
        BY <3>1, <3>2, <3>4, <3>5, <3>6
    <2>2. \A day \in Dates : AsOf(intervals', day) = Truth(snapshots', day)
      BY <2>1, <1>1
    <2> QED
      BY <2>2 DEF IntervalsMatchSnapshots, AsOf, Truth, IsLatest
  <1>8. NeverRefused'
    <2>1. ASSUME NEW m \in intervals', NEW n \in intervals', m # n
          PROVE  ~IntervalsOverlap(m, n)
      <3>1. m \in Membership /\ n \in Membership
        BY <1>6 DEF TypeOK
      <3>2. m.start \in Nat /\ n.start \in Nat /\ m.end \in Nat /\ n.end \in Nat
        BY <3>1, MembershipDates
      <3>3. CASE m \in intervals /\ n \in intervals
        BY <3>3, <2>1, <1>2 DEF Apart, HasOverlap
      <3>4. CASE m \in intervals /\ n \in Rest
        <4>1. n.symbol = m.symbol => m.end <= n.start
          BY <3>4, <1>2, <1>4 DEF Apart
        <4> QED
          BY <4>1, <3>2 DEF IntervalsOverlap
      <3>5. CASE n \in intervals /\ m \in Rest
        <4>1. n.symbol = m.symbol => n.end <= m.start
          BY <3>5, <1>2, <1>4 DEF Apart
        <4> QED
          BY <4>1, <3>2 DEF IntervalsOverlap
      <3>6. CASE m \in Rest /\ n \in Rest
        BY <3>6, <2>1 DEF Rest, IntervalsOverlap
      <3> QED
        BY <3>3, <3>4, <3>5, <3>6, <1>1
    <2> QED
      BY <2>1 DEF NeverRefused, HasOverlap
  <1>9. AsOfIsUnionOfImports'
    BY <1>1 DEF MembershipInv, AsOfIsUnionOfImports, AsOf, Truth, IsLatest
  <1> QED
    BY <1>1, <1>6, <1>7, <1>8, <1>9 DEF MembershipInv

LEMMA PersistKeeps ==
    ASSUME MembershipInv, Persist
    PROVE  MembershipInv'
  <1>1. /\ phase = "persist" /\ phase' = "idle"
        /\ snapshots' = << >> /\ pending' = {} /\ previous' = {}
        /\ openStarts' = << >> /\ intervals' = {}
        /\ rows' = rows \cup intervals /\ imported' = imported \cup {snapshots}
        /\ UNCHANGED <<published, cacheFile>>
    BY DEF Persist, Exit, MembershipInv, NeverRefused, Upsert
  <1>2. TypeOK'
    BY <1>1 DEF MembershipInv, TypeOK, IsDataset
  <1>3. AsOfIsUnionOfImports'
    <2>1. ASSUME NEW day \in Dates
          PROVE  AsOf(rows', day) = UNION {Truth(d, day) : d \in imported'}
      <3>1. AsOf(rows', day) = AsOf(rows, day) \cup AsOf(intervals, day)
        BY <1>1 DEF AsOf
      <3>2. AsOf(rows, day) = UNION {Truth(d, day) : d \in imported}
        BY DEF MembershipInv, AsOfIsUnionOfImports
      <3>3. AsOf(intervals, day) = Truth(snapshots, day)
        BY <1>1 DEF MembershipInv, IntervalsMatchSnapshots
      <3> QED
        BY <1>1, <3>1, <3>2, <3>3
    <2> QED
      BY <2>1 DEF AsOfIsUnionOfImports, AsOf, Truth, IsLatest
  <1> QED
    BY <1>1, <1>2, <1>3 DEF MembershipInv, IntervalsMatchSnapshots, NeverRefused

\* Steps after which no conversion is running, or the same one, with the same rows.
LEMMA OthersKeep ==
    ASSUME MembershipInv, IsDataset(published'), IsDataset(cacheFile'),
           UNCHANGED <<rows, imported>>, Exit \/ UNCHANGED <<phase, conversion>>
    PROVE  MembershipInv'
  <1>1. AsOfIsUnionOfImports'
    BY DEF MembershipInv, AsOfIsUnionOfImports, AsOf, Truth, IsLatest
  <1>2. CASE Exit
    <2>1. TypeOK'
      BY <1>2 DEF Exit, MembershipInv, TypeOK, IsDataset
    <2> QED
      BY <1>1, <1>2, <2>1 DEF Exit, MembershipInv, IntervalsMatchSnapshots, NeverRefused
  <1>3. CASE UNCHANGED <<phase, conversion>>
    <2>1. TypeOK'
      BY <1>3 DEF conversion, MembershipInv, TypeOK, IsDataset
    <2>2. phase' = "convert" => InOrder' /\ Prefix' /\ Apart'
      BY <1>3 DEF conversion, MembershipInv, InOrder, Taken, Prefix, Settled, Open, Apart,
                  HasOverlap, AsOf, Truth, IsLatest
    <2>3. IntervalsMatchSnapshots' /\ NeverRefused'
      BY <1>3 DEF conversion, MembershipInv, IntervalsMatchSnapshots, NeverRefused,
                  HasOverlap, AsOf, Truth, IsLatest
    <2> QED
      BY <1>1, <2>1, <2>2, <2>3 DEF MembershipInv
  <1> QED
    BY <1>2, <1>3

------------------------------------------------------------------------------
LEMMA MembershipInit == UniverseInit => MembershipInv
  <1> SUFFICES ASSUME UniverseInit PROVE MembershipInv
    OBVIOUS
  <1>1. TypeOK
    BY DEF UniverseInit, TypeOK, IsDataset
  <1>2. AsOfIsUnionOfImports
    BY DEF UniverseInit, AsOfIsUnionOfImports, AsOf
  <1> QED
    BY <1>1, <1>2 DEF UniverseInit, MembershipInv, IntervalsMatchSnapshots, NeverRefused

LEMMA MembershipStep == MembershipInv /\ [UniverseNext]_universeVars => MembershipInv'
  <1> SUFFICES ASSUME MembershipInv, [UniverseNext]_universeVars PROVE MembershipInv'
    OBVIOUS
  <1>1. IsDataset(published) /\ IsDataset(cacheFile)
    BY DEF MembershipInv, TypeOK
  <1>2. ASSUME NEW day \in Dates, NEW members \in SUBSET Symbols \ {{}}, Publish(day, members)
        PROVE  MembershipInv'
    <2>1. IsDataset(published')
      BY <1>1, <1>2 DEF Publish, IsDataset
    <2> QED
      BY <2>1, <1>1, <1>2, OthersKeep DEF Publish, IsDataset
  <1>3. CASE DownloadDataset
    BY <1>1, <1>3, StartKeeps DEF DownloadDataset, Start, IsDataset
  <1>4. CASE ReadFile
    BY <1>1, <1>4, StartKeeps DEF ReadFile, Start, IsDataset
  <1>5. ASSUME NEW day \in Dates, Convert(day)
        PROVE  MembershipInv'
    BY <1>5, ConvertKeeps
  <1>6. CASE CloseOut
    BY <1>6, CloseOutKeeps
  <1>7. CASE Persist
    BY <1>7, PersistKeeps
  <1>8. CASE Abort
    BY <1>1, <1>8, OthersKeep DEF Abort, IsDataset
  <1>9. CASE UNCHANGED universeVars
    BY <1>1, <1>9, OthersKeep DEF universeVars, conversion, IsDataset
  <1> QED
    BY <1>2, <1>3, <1>4, <1>5, <1>6, <1>7, <1>8, <1>9 DEF UniverseNext

LEMMA MembershipHolds == UniverseSpec => []MembershipInv
  BY MembershipInit, MembershipStep, PTL DEF UniverseSpec

\* Every variable of the import stays in its range, whatever is published; in
\* particular no interval is ever empty (ConstituentMembership would refuse it).
THEOREM TypeCorrect == UniverseSpec => []TypeOK
  <1>1. MembershipInv => TypeOK
    BY DEF MembershipInv
  <1> QED
    BY <1>1, MembershipHolds, PTL

\* snapshots_to_intervals loses and invents nothing: the finished intervals give, for
\* every day, the members of the last snapshot up to that day.
THEOREM ConversionExact == UniverseSpec => []IntervalsMatchSnapshots
  <1>1. MembershipInv => IntervalsMatchSnapshots
    BY DEF MembershipInv
  <1> QED
    BY <1>1, MembershipHolds, PTL

\* validate_memberships never refuses what the conversion made.
THEOREM ImportsAccepted == UniverseSpec => []NeverRefused
  <1>1. MembershipInv => NeverRefused
    BY DEF MembershipInv
  <1> QED
    BY <1>1, MembershipHolds, PTL

\* A point-in-time query answers with the members of the day in any imported dataset.
THEOREM QueriesAnswerImports == UniverseSpec => []AsOfIsUnionOfImports
  <1>1. MembershipInv => AsOfIsUnionOfImports
    BY DEF MembershipInv
  <1> QED
    BY <1>1, MembershipHolds, PTL

\* The symbols loaded for a window are exactly the members of its days: the closed
\* window and the half-open intervals agree at both ends.
THEOREM WindowsCover == UniverseSpec => []WindowCoversMembers
  <1>1. MembershipInv => WindowCoversMembers
    <2> SUFFICES ASSUME MembershipInv, NEW start \in Dates, NEW end \in Dates, start <= end
                 PROVE  Overlapping(rows, start, end) = UNION {AsOf(rows, day) : day \in start .. end}
      BY DEF WindowCoversMembers
    <2>1. start \in Nat /\ end \in Nat /\ start .. end \subseteq Nat
      BY DatesAreNaturals
    <2>2. ASSUME NEW row \in rows
          PROVE  OverlapsWindow(row, start, end) <=> \E day \in start .. end : Contains(row, day)
      <3>1. row.start \in Nat /\ row.end \in Nat /\ row.start < row.end
        BY MembershipDates DEF MembershipInv, TypeOK
      <3>2. CASE row.start <= start
        BY <2>1, <3>1, <3>2 DEF OverlapsWindow, Contains
      <3>3. CASE start < row.start
        BY <2>1, <3>1, <3>3 DEF OverlapsWindow, Contains
      <3> QED
        BY <2>1, <3>1, <3>2, <3>3
    <2>3. \A s : s \in Overlapping(rows, start, end) <=>
              \E row \in rows : row.symbol = s /\ OverlapsWindow(row, start, end)
      BY DEF Overlapping
    <2>4. \A s : s \in UNION {AsOf(rows, day) : day \in start .. end} <=>
              \E day \in start .. end, row \in rows : row.symbol = s /\ Contains(row, day)
      BY AsOfOf
    <2> QED
      BY <2>2, <2>3, <2>4
  <1> QED
    BY <1>1, MembershipHolds, PTL

------------------------------------------------------------------------------
(* The import of prices.                                                   *)

\* Days the vendor has published with a valid row.
PublishedDays == {d \in vendor.bars \ vendor.invalid : d <= today}

\* File, table and everything in between hold published days only.
NothingInvented ==
    /\ cache \subseteq PublishedDays /\ database \subseteq PublishedDays
    /\ merged \subseteq PublishedDays /\ session \subseteq PublishedDays
    /\ fetched.bars \subseteq PublishedDays

\* What the transaction sees before it saves, and what it adds.
Unsaved == {"check", "fetch", "write", "save"}
Isolated ==
    /\ stage \in Unsaved => session = database
    /\ stage = "commit" =>
        \/ session = database
        \/ fetched.bars # {} /\ session = database \cup fetched.bars
    /\ stage = "commit" => summary.inserted = Cardinality(session \ database)

\* The provider returns what its file holds, or is about to hold, of the window.
FileIsFetched ==
    /\ stage = "write" => fetched.bars = InWindow(merged)
    /\ stage = "save" => fetched.bars = {} \/ fetched.bars = InWindow(cache)

Fetching == {"CACHED", "DOWNLOADED"}
Lacking == {"FAILED", "EMPTY"} \cup IF window.strict THEN {} ELSE {"SUCCESS_WITH_WARNINGS"}

\* What a summary says, of the rows that are stored or about to be.
Truthful(stored) ==
    /\ (Length >= LongWindow /\ ~Covers(InWindow(stored))) => summary.status \in Lacking
    /\ summary.origin \in Fetching => InWindow(cache) \subseteq stored

TransactionInv ==
    /\ Isolated /\ FileIsFetched
    /\ stage = "commit" => Truthful(session)
    /\ Reported => Truthful(database)

------------------------------------------------------------------------------

\* What Report leaves behind.
LEMMA Reports ==
    ASSUME NEW status, NEW origin, NEW stored, Report(status, origin, stored)
    PROVE  /\ stage' = "commit"
           /\ summary'.status = status /\ summary'.origin = origin
           /\ summary'.inserted = Cardinality(session' \ session)
  BY DEF Report, Summary

\* A step that leaves the process idle with nothing reported, or with a failure.
LEMMA LeaveKeeps ==
    ASSUME Leave, \/ summary' = NoSummary
                  \/ summary'.status = "FAILED" /\ summary'.origin = "FAILED"
    PROVE  TransactionInv'
  <1>1. stage' = "idle"
    BY DEF Leave
  <1>2. summary' # NoSummary => Truthful(database)'
    BY DEF Truthful, Lacking, Fetching
  <1> QED
    BY <1>1, <1>2 DEF TransactionInv, Isolated, FileIsFetched, Unsaved, Reported

LEMMA CheckKeeps ==
    ASSUME TransactionInv, CheckDatabase
    PROVE  TransactionInv'
  <1>1. /\ stage = "check" /\ session' = session /\ session = database
        /\ UNCHANGED <<cache, database, window, fetched>>
    BY DEF CheckDatabase, TransactionInv, Isolated, Unsaved
  <1>2. CASE Covers(InWindow(session))
    <2>1. Report("SUCCESS", "DATABASE", InWindow(session))
      BY <1>2 DEF CheckDatabase
    <2>2. /\ stage' = "commit" /\ summary'.origin = "DATABASE"
          /\ summary'.inserted = Cardinality(session' \ session)
      BY <2>1, Reports
    <2>3. Covers(InWindow(session))'
      BY <1>1, <1>2 DEF Covers, InWindow
    <2>4. Truthful(session)'
      BY <2>2, <2>3 DEF Truthful, Fetching
    <2> QED
      BY <1>1, <2>2, <2>4 DEF TransactionInv, Isolated, FileIsFetched, Reported, Unsaved
  <1>3. CASE ~Covers(InWindow(session))
    <2>1. stage' = "fetch"
      BY <1>3 DEF CheckDatabase
    <2> QED
      BY <1>1, <2>1 DEF TransactionInv, Isolated, FileIsFetched, Reported, Unsaved
  <1> QED
    BY <1>2, <1>3

LEMMA ReuseKeeps ==
    ASSUME TransactionInv, ReuseCache
    PROVE  TransactionInv'
  <1>1. /\ stage = "fetch" /\ stage' = "save" /\ fetched'.bars = InWindow(cache)
        /\ UNCHANGED <<cache, database, window, session>>
    BY DEF ReuseCache
  <1>2. InWindow(cache)' = InWindow(cache)
    BY <1>1 DEF InWindow
  <1> QED
    BY <1>1, <1>2 DEF TransactionInv, Isolated, FileIsFetched, Reported, Unsaved

LEMMA DownloadKeeps ==
    ASSUME TransactionInv, Download
    PROVE  TransactionInv'
  <1>1. /\ stage = "fetch" /\ fetched'.bars = InWindow(merged')
        /\ stage' = IF merged' = {} THEN "save" ELSE "write"
        /\ UNCHANGED <<cache, database, window, session>>
    BY DEF Download
  <1>2. InWindow(merged)' = InWindow(merged')
    BY <1>1 DEF InWindow
  <1>3. merged' = {} => fetched'.bars = {}
    BY <1>1 DEF InWindow
  <1> QED
    BY <1>1, <1>2, <1>3 DEF TransactionInv, Isolated, FileIsFetched, Reported, Unsaved

LEMMA WriteKeeps ==
    ASSUME TransactionInv, WriteCache
    PROVE  TransactionInv'
  <1>1. /\ stage = "write" /\ stage' = "save" /\ cache' = merged
        /\ UNCHANGED <<database, window, merged, fetched, session>>
    BY DEF WriteCache, locals
  <1>2. InWindow(cache)' = InWindow(merged)
    BY <1>1 DEF InWindow
  <1> QED
    BY <1>1, <1>2 DEF TransactionInv, Isolated, FileIsFetched, Reported, Unsaved

\* A failed or an empty summary claims nothing.
LEMMA UnsavedKeeps ==
    ASSUME TransactionInv, stage \in Unsaved, session' = session,
           NEW status \in {"FAILED", "EMPTY"}, Report(status, status, {}),
           UNCHANGED <<cache, database, window, fetched>>
    PROVE  TransactionInv'
  <1>1. /\ stage' = "commit"
        /\ summary'.status = status /\ summary'.origin = status
        /\ summary'.inserted = Cardinality(session' \ session)
    BY Reports
  <1>2. session' = database' /\ session = database
    BY DEF TransactionInv, Isolated
  <1>3. Truthful(session)'
    BY <1>1 DEF Truthful, Lacking, Fetching
  <1> QED
    BY <1>1, <1>2, <1>3 DEF TransactionInv, Isolated, FileIsFetched, Reported, Unsaved

LEMMA SaveKeeps ==
    ASSUME TransactionInv, Save
    PROVE  TransactionInv'
  <1>1. /\ stage = "save" /\ fetched.bars # {} /\ session' = session \cup fetched.bars
        /\ session = database /\ fetched.bars = InWindow(cache)
        /\ UNCHANGED <<cache, database, window, fetched>>
    BY DEF Save, Insert, TransactionInv, Isolated, FileIsFetched, Unsaved
  <1> DEFINE stored == InWindow(session')
             mixed == session' \ session # {} /\ fetched.bars \cap session # {}
             status == IF GateFails(stored) THEN "FAILED"
                       ELSE IF Warned(stored) \/ mixed
                       THEN "SUCCESS_WITH_WARNINGS" ELSE "SUCCESS"
  <1>2. Report(status, Origin, stored)
    BY DEF Save
  <1>3. /\ stage' = "commit" /\ summary'.status = status
        /\ summary'.inserted = Cardinality(session' \ session)
    BY <1>2, Reports
  <1>4. Length' = Length /\ Lacking' = Lacking /\ InWindow(session)' = stored
    BY <1>1 DEF Length, Lacking, InWindow
  <1>5. Covers(InWindow(session))' <=> Covers(stored)
    BY <1>1 DEF Covers, InWindow
  <1>6. (Length >= LongWindow /\ ~Covers(stored)) => status \in Lacking
    BY DEF GateFails, Warned, Lacking
  <1>7. InWindow(cache)' \subseteq session'
    BY <1>1 DEF InWindow
  <1>8. Truthful(session)'
    BY <1>3, <1>4, <1>5, <1>6, <1>7 DEF Truthful
  <1> QED
    BY <1>1, <1>3, <1>8 DEF TransactionInv, Isolated, FileIsFetched, Reported, Unsaved

LEMMA CommitKeeps ==
    ASSUME TransactionInv, Commit
    PROVE  TransactionInv'
  <1>1. /\ stage = "commit" /\ stage' = "idle" /\ database' = session
        /\ UNCHANGED <<cache, summary, window>>
    BY DEF Commit, Leave
  <1>2. Truthful(database)'
    BY <1>1 DEF TransactionInv, Truthful, Length, Covers, InWindow, Lacking, Fetching
  <1> QED
    BY <1>1, <1>2 DEF TransactionInv, Isolated, FileIsFetched, Unsaved

\* Steps between imports, and the start of one.
LEMMA IdleKeeps ==
    ASSUME TransactionInv, NextDay \/ \E start, end, strict : Begin(start, end, strict)
    PROVE  TransactionInv'
  BY DEF TransactionInv, NextDay, Begin, locals, Isolated, FileIsFetched, Reported, Unsaved

LEMMA TransactionStep ==
    ASSUME TransactionInv, [Next]_vars
    PROVE  TransactionInv'
  <1>1. CASE CheckDatabase
    BY <1>1, CheckKeeps
  <1>2. CASE ReuseCache
    BY <1>2, ReuseKeeps
  <1>3. CASE Download
    BY <1>3, DownloadKeeps
  <1>4. CASE DownloadFails
    <2>1. /\ stage \in Unsaved /\ session' = session /\ Report("FAILED", "FAILED", {})
          /\ UNCHANGED <<cache, database, window, fetched>>
      BY <1>4 DEF DownloadFails, Unsaved
    <2> QED
      BY <2>1, UnsavedKeeps
  <1>5. CASE WriteCache
    BY <1>5, WriteKeeps
  <1>6. CASE NothingToSave
    <2>1. /\ stage \in Unsaved /\ session' = session
          /\ UNCHANGED <<cache, database, window, fetched>>
          /\ Report("EMPTY", "EMPTY", {}) \/ Report("FAILED", "FAILED", {})
      BY <1>6 DEF NothingToSave, Unsaved
    <2> QED
      BY <2>1, UnsavedKeeps
  <1>7. CASE Save
    BY <1>7, SaveKeeps
  <1>8. CASE Commit
    BY <1>8, CommitKeeps
  <1>9. CASE DatabaseFails
    <2>1. Leave /\ summary'.status = "FAILED" /\ summary'.origin = "FAILED"
      BY <1>9 DEF DatabaseFails, Summary
    <2> QED
      BY <2>1, LeaveKeeps
  <1>10. CASE Crash \/ \E kept \in 0 .. LastDay : CrashInWrite(kept)
    <2>1. Leave /\ summary' = NoSummary
      BY <1>10 DEF Crash, CrashInWrite
    <2> QED
      BY <2>1, LeaveKeeps
  <1>11. CASE NextDay \/ \E start, end \in Days, strict \in BOOLEAN : Begin(start, end, strict)
    BY <1>11, IdleKeeps
  <1>12. CASE UNCHANGED vars
    BY <1>12 DEF vars, locals, TransactionInv, Isolated, FileIsFetched, Reported, Truthful,
                 Unsaved, Lacking, Fetching, InWindow, Length, Covers
  <1> QED
    BY <1>1, <1>2, <1>3, <1>4, <1>5, <1>6, <1>7, <1>8, <1>9, <1>10, <1>11, <1>12
       DEF Next, Step

LEMMA TransactionInit == Init => TransactionInv
  BY DEF Init, TransactionInv, Isolated, FileIsFetched, Reported, Unsaved

LEMMA TransactionHolds == Spec => []TransactionInv
  <1> QED
    BY TransactionInit, TransactionStep, PTL DEF Spec

\* A long window that a strict import reports as stored is stored at both its ends,
\* and one that is not strict carries a warning: _import_symbol's gates judge the
\* rows of the transaction that is committed afterwards.
THEOREM SuccessIsCovered == Spec => []SuccessCoversEnds
  <1>1. TransactionInv => SuccessCoversEnds
    BY DEF TransactionInv, SuccessCoversEnds, Truthful, Lacking, Stored
  <1> QED
    BY <1>1, TransactionHolds, PTL

\* After an import that fetched and committed, the table has what the cache file has of
\* its window, whatever an earlier crash left in either.
THEOREM CacheAndTableAgree == Spec => []CacheIsStored
  <1>1. TransactionInv => CacheIsStored
    BY DEF TransactionInv, CacheIsStored, Truthful, Fetching
  <1> QED
    BY <1>1, TransactionHolds, PTL

\* Only a commit changes the table, by all the bars that were fetched, and the
\* summary counts the rows it added.
THEOREM ImportsAreWhole == Spec => CommitsWholeImports
  <1> DEFINE Whole == database' # database =>
                        /\ stage = "commit" /\ fetched.bars # {}
                        /\ database' = database \cup fetched.bars
                        /\ summary.inserted = Cardinality(database' \ database)
  <1>1. ASSUME TransactionInv, [Next]_vars, database' # database
        PROVE  Commit
    BY <1>1 DEF Next, vars, Step, NextDay, Begin, CheckDatabase, ReuseCache, Download,
                DownloadFails, WriteCache, NothingToSave, Save, DatabaseFails, Crash,
                CrashInWrite
  <1>2. TransactionInv /\ Commit => Whole
    BY DEF Commit, TransactionInv, Isolated
  <1>3. TransactionInv /\ [Next]_vars => [Whole]_vars
    BY <1>1, <1>2
  <1> QED
    BY <1>3, TransactionHolds, PTL DEF Spec, CommitsWholeImports

------------------------------------------------------------------------------
PublicationInv ==
    /\ vendor \in Listings /\ today \in Days
    /\ NothingInvented

LEMMA PublishedGrows ==
    ASSUME today \in Days, today' \in Days, today <= today', vendor' = vendor, vendor \in Listings
    PROVE  PublishedDays \subseteq PublishedDays'
  <1>1. vendor.bars \subseteq Days /\ \A d \in Days : d \in Nat
    BY ImportAssumption DEF ImportAssumption, Days
  <1> QED
    BY <1>1 DEF PublishedDays

LEMMA DownloadServesPublished ==
    ASSUME PublicationInv, Download
    PROVE  merged' \subseteq PublishedDays /\ fetched'.bars \subseteq PublishedDays
  <1>1. Served \ vendor.invalid \subseteq PublishedDays
    BY DEF Served, PublishedDays
  <1>2. merged' = cache \cup (Served \ vendor.invalid) /\ fetched'.bars = InWindow(merged')
    BY DEF Download, MergeBars
  <1> QED
    BY <1>1, <1>2 DEF PublicationInv, NothingInvented, InWindow

LEMMA PublicationStep ==
    ASSUME PublicationInv, [Next]_vars
    PROVE  PublicationInv'
  <1>1. CASE NextDay
    <2>1. /\ today \in Days /\ today' = today + 1 /\ today < LastDay /\ vendor' = vendor
          /\ UNCHANGED <<cache, database, merged, fetched, session>>
      BY <1>1 DEF PublicationInv, NextDay, locals
    <2>2. today' \in Days /\ today <= today'
      BY <2>1, ImportAssumption DEF ImportAssumption, Days
    <2>3. PublishedDays \subseteq PublishedDays'
      BY <2>1, <2>2, PublishedGrows DEF PublicationInv
    <2> QED
      BY <2>1, <2>2, <2>3 DEF PublicationInv, NothingInvented
  <1>2. CASE ~NextDay
    <2>1. vendor' = vendor /\ today' = today
      BY <1>2 DEF Next, Step, vars, Begin, CheckDatabase, ReuseCache, Download, DownloadFails,
                  WriteCache, NothingToSave, Save, Commit, DatabaseFails, Crash, CrashInWrite, Leave
    <2>2. PublishedDays' = PublishedDays
      BY <2>1 DEF PublishedDays
    <2>3. CASE Download
      BY <2>1, <2>2, <2>3, DownloadServesPublished
         DEF PublicationInv, NothingInvented, Download
    <2>4. CASE Save
      BY <2>1, <2>2, <2>4 DEF PublicationInv, NothingInvented, Save, Insert
    <2>5. CASE ReuseCache
      BY <2>1, <2>2, <2>5 DEF PublicationInv, NothingInvented, ReuseCache, InWindow
    <2>6. CASE Commit \/ DatabaseFails \/ Crash \/ \E kept \in 0 .. LastDay : CrashInWrite(kept)
      <3>1. cache' \subseteq cache \cup merged /\ database' \subseteq database \cup session
        BY <2>6 DEF Commit, DatabaseFails, Crash, CrashInWrite
      <3>2. merged' = {} /\ session' = {} /\ fetched'.bars = {}
        BY <2>6 DEF Commit, DatabaseFails, Crash, CrashInWrite, Leave, NoFetch
      <3> QED
        BY <2>1, <2>2, <3>1, <3>2 DEF PublicationInv, NothingInvented
    <2>7. CASE \E start, end \in Days, strict \in BOOLEAN : Begin(start, end, strict)
      BY <2>1, <2>2, <2>7 DEF PublicationInv, NothingInvented, Begin, NoFetch
    <2>8. CASE CheckDatabase \/ DownloadFails \/ WriteCache \/ NothingToSave \/ UNCHANGED vars
      BY <2>1, <2>2, <2>8
         DEF PublicationInv, NothingInvented, CheckDatabase, DownloadFails, WriteCache,
             NothingToSave, vars, locals
    <2> QED
      BY <1>2, <2>3, <2>4, <2>5, <2>6, <2>7, <2>8 DEF Next, Step
  <1> QED
    BY <1>1, <1>2

\* The cache file, the table and everything an import carries between them hold only
\* days the vendor has published with a valid row, whatever was cut short.
THEOREM OnlyPublishedBars == Spec => []NothingInvented
  <1>1. Init => PublicationInv
    BY ImportAssumption DEF Init, PublicationInv, NothingInvented, NoFetch, ImportAssumption, Days
  <1>2. PublicationInv => NothingInvented
    BY DEF PublicationInv
  <1> QED
    BY <1>1, <1>2, PublicationStep, PTL DEF Spec
==============================================================================
