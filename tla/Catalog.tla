------------------------------ MODULE Catalog ------------------------------
(***************************************************************************)
(* The in-memory Security Master (app/security_master): ticker intervals,  *)
(* their validation, what a ticker means on a day, which vendor symbols a  *)
(* listing is fetched under, and the key a position is booked on.          *)
(*                                                                         *)
(* A catalog is a record [securities, tickers]: a function from seed keys  *)
(* to statuses, and a function from places to ticker rows.  A place is a   *)
(* position in the file, which gives the catalog its order, or the key of  *)
(* a stored row.  A day is a natural number; Forever stands for a missing  *)
(* valid_to, which the code replaces by date.max where it compares ends.   *)
(***************************************************************************)
EXTENDS Naturals, Sequences

CONSTANTS
    Keys,        \* seed keys of securities
    Tickers,     \* ticker symbols, of either scheme
    Forever,     \* the effective end of an open interval
    Unresolved   \* what resolution answers when it does not know

ASSUME ForeverAssumption == Forever \in Nat \ {0}
ASSUME UnresolvedAssumption == Unresolved \notin Keys

Days == 0 .. Forever - 1
Schemes == {"listing", "yahoo"}
Statuses == {"ACTIVE", "DELISTED"}

Row == [seed_key : Keys, scheme : Schemes, ticker : Tickers,
        valid_from : Days, valid_to : 1 .. Forever, continuity : BOOLEAN]

(***************************************************************************)
(* Intervals are half open.                                                *)
(***************************************************************************)
Contains(row, day) == row.valid_from <= day /\ day < row.valid_to

SameName(a, b) == a.scheme = b.scheme /\ a.ticker = b.ticker

IntervalsOverlap(a, b) ==
    /\ SameName(a, b)
    /\ a.valid_from < b.valid_to
    /\ b.valid_from < a.valid_to

\* A row meets an inclusive window [start, end].
OverlapsInclusive(row, start, end) ==
    row.valid_from <= end /\ start < row.valid_to

IntervalKey(row) == <<row.scheme, row.ticker, row.valid_from, row.valid_to>>

(***************************************************************************)
(* Validation: of the rows that state one interval the first is kept,      *)
(* whoever it names; two kept rows of one name that overlap block.         *)
(***************************************************************************)
Kept(rows) ==
    {i \in DOMAIN rows :
        \A j \in DOMAIN rows : IntervalKey(rows[j]) = IntervalKey(rows[i]) => i = j \/ i < j}

HasOverlap(rows) ==
    \E i, j \in Kept(rows) : i # j /\ IntervalsOverlap(rows[i], rows[j])

\* A row whose interval is empty is not constructed at all.
Constructed(row) == row \in Row /\ row.valid_from < row.valid_to

Accepted(securities, rows) ==
    /\ \A i \in DOMAIN rows : Constructed(rows[i])
    /\ ~ HasOverlap(rows)
    /\ \A i \in Kept(rows) : rows[i].seed_key \in DOMAIN securities

\* Mutation: a repeated interval stays in the catalog.
CatalogOfAll(securities, rows) ==
    [securities |-> securities, tickers |-> rows]

CatalogOf(securities, rows) ==
    [securities |-> securities, tickers |-> [i \in Kept(rows) |-> rows[i]]]

(***************************************************************************)
(* Resolution.  Zero matches or several are no answer.                     *)
(***************************************************************************)
Matches(master, scheme, ticker, day) ==
    {i \in DOMAIN master.tickers :
        /\ master.tickers[i].scheme = scheme
        /\ master.tickers[i].ticker = ticker
        /\ Contains(master.tickers[i], day)}

Resolve(master, scheme, ticker, day) ==
    LET hits == Matches(master, scheme, ticker, day)
    IN IF \E i \in hits : hits = {i}
       THEN master.tickers[CHOOSE i \in hits : TRUE].seed_key
       ELSE Unresolved

ResolveSecurity(master, ticker, day) == Resolve(master, "listing", ticker, day)

ResolveMarketDataSymbol(master, symbol, day) == Resolve(master, "yahoo", symbol, day)

HasVendorMapping(master, symbol) ==
    \E i \in DOMAIN master.tickers :
        master.tickers[i].scheme = "yahoo" /\ master.tickers[i].ticker = symbol

\* The listing intervals of one security, in catalog order.
TickerHistory(master, key) ==
    {i \in DOMAIN master.tickers :
        master.tickers[i].seed_key = key /\ master.tickers[i].scheme = "listing"}

ListingSeedKeys(master, ticker, start, end) ==
    {master.tickers[i].seed_key : i \in
        {j \in DOMAIN master.tickers :
            /\ master.tickers[j].scheme = "listing"
            /\ master.tickers[j].ticker = ticker
            /\ OverlapsInclusive(master.tickers[j], start, end)}}

(***************************************************************************)
(* The vendor names a listing is fetched under: the listing itself, then,  *)
(* in catalog order, the yahoo symbols of the securities it named in the   *)
(* window.  A listing that named nobody in the window falls back to what   *)
(* it means on the first day.                                              *)
(***************************************************************************)
FetchKeys(master, listing, start, end) ==
    LET named == ListingSeedKeys(master, listing, start, end)
    IN IF named # {} THEN named
       ELSE {ResolveSecurity(master, listing, start)} \ {Unresolved}

LastPlace(master) ==
    CHOOSE i \in {0} \cup DOMAIN master.tickers : \A j \in DOMAIN master.tickers : j <= i

VendorFetchSymbols(master, listing, start, end) ==
    LET keys == FetchKeys(master, listing, start, end)
        fits(row) == /\ row.scheme = "yahoo"
                     /\ row.seed_key \in keys
                     /\ OverlapsInclusive(row, start, end)
        names[n \in 0 .. LastPlace(master)] ==
            IF n = 0 THEN <<listing>>
            ELSE LET before == names[n - 1]
                 IN IF /\ n \in DOMAIN master.tickers /\ fits(master.tickers[n])
                       /\ \A i \in DOMAIN before : before[i] # master.tickers[n].ticker
                    THEN Append(before, master.tickers[n].ticker)
                    ELSE before
    IN names[LastPlace(master)]

PreferredVendorSymbol(master, listing, start, end) ==
    LET names == VendorFetchSymbols(master, listing, start, end)
    IN IF Len(names) > 1 THEN names[2] ELSE listing

(***************************************************************************)
(* Position keys (app/domain/models/identity.py, listing.py): the security *)
(* of a listing that exactly one interval explains, otherwise the ticker   *)
(* with the start of the occupancy the caller knows, otherwise the ticker  *)
(* with an unknown occupancy.                                              *)
(***************************************************************************)
UnknownOccupancy == Forever   \* no day, so no occupancy starts there

SecurityPositionKey(key) == [kind |-> "security", value |-> key]

ListingPositionKey(ticker, from) ==
    [kind |-> "listing", value |-> <<ticker, from>>]

\* Mutation: the occupancy is left out of the key.
PositionKeyByTicker(master, ticker, day, occupancy) ==
    LET key == ResolveSecurity(master, ticker, day)
    IN IF key # Unresolved THEN SecurityPositionKey(key)
       ELSE ListingPositionKey(ticker, UnknownOccupancy)

PositionKey(master, ticker, day, occupancy) ==
    LET key == ResolveSecurity(master, ticker, day)
    IN IF key # Unresolved THEN SecurityPositionKey(key)
       ELSE ListingPositionKey(ticker, occupancy)
=============================================================================
