---------------------------- MODULE UniverseAudit ----------------------------
(***************************************************************************)
(* The audit of point-in-time membership (app/universe/audit.py) and the   *)
(* join-and-leave detail written from it (app/backtest/universe_audit.py). *)
(*                                                                         *)
(* Intervals that end before they start cannot be constructed, so the      *)
(* audit's invalid lists are always empty; extreme_first_price is always   *)
(* empty in the code.  Both are left out, as is the class of tickers that  *)
(* still carry a date suffix.                                              *)
(***************************************************************************)
EXTENDS PitCoverage

CONSTANT PriceGap   \* price_gap_days

MembersAsOf(world, day) == {item \in world.members : MemberOn(item, day)}

SymbolsAsOf(world, day) == {item.symbol : item \in MembersAsOf(world, day)}

CurrentSymbols(world) == {item.symbol : item \in {m \in world.members : m.to = Forever}}

\* Open memberships that start after the day, of selected names that are not
\* members on it.
FutureMembersPresent(selected, world, day) ==
    {item.symbol : item \in
        {m \in world.members :
            m.to = Forever /\ m.from > day /\ m.symbol \in selected \ SymbolsAsOf(world, day)}}

AllSymbols(world) == {item.symbol : item \in world.members}

FixtureSymbols(world) == {item.symbol : item \in {m \in world.members : m.fixture}}

\* Mutation: only intervals with one start are compared.
OverlappingFromOneDay(world) ==
    {a.symbol : a \in
        {m \in world.members :
            \E b \in world.members : b.symbol = m.symbol /\ b.to # m.to /\ b.from = m.from}}

\* Two different intervals of a symbol overlap.
OverlappingSymbols(world) ==
    {a.symbol : a \in
        {m \in world.members :
            \E b \in world.members :
                /\ b.symbol = m.symbol /\ <<b.from, b.to>> # <<m.from, m.to>>
                /\ b.from < m.to /\ m.from < b.to}}

(***************************************************************************)
(* Membership against the price corpus.                                    *)
(***************************************************************************)
Priced(world) == {symbol \in Tickers : HasFile(world, symbol)}
CorpusFirst(world) == Min({FirstBar(world, symbol) : symbol \in Priced(world)})
CorpusLast(world) == Max({LastBar(world, symbol) : symbol \in Priced(world)})

LatePriceStart(world) ==
    {symbol \in AllSymbols(world) \cap Priced(world) :
        /\ \E item \in world.members : item.symbol = symbol /\ item.from < FirstBar(world, symbol)
        /\ FirstBar(world, symbol) - CorpusFirst(world) > PriceGap}

\* Open memberships, and memberships that end after the last bar.
MembershipAfterPrices(world) ==
    {symbol \in AllSymbols(world) \cap Priced(world) :
        /\ \E item \in world.members :
               item.symbol = symbol /\ (item.to = Forever \/ LastBar(world, symbol) < item.to)
        /\ CorpusLast(world) - LastBar(world, symbol) > PriceGap}

\* Names flagged on a rebalance date; membership after prices is not.
SuspiciousOn(world, day) ==
    SymbolsAsOf(world, day)
        \cap (FixtureSymbols(world) \cup LatePriceStart(world) \cup OverlappingSymbols(world))

Suspicious(world, leaked) ==
    FixtureSymbols(world) \cup LatePriceStart(world) \cup MembershipAfterPrices(world)
        \cup OverlappingSymbols(world) \cup leaked

InvestigationClass(world, symbol) ==
    CASE symbol \in FixtureSymbols(world) -> "fixture"
      [] symbol \in OverlappingSymbols(world) \ FixtureSymbols(world) -> "bad membership"
      [] OTHER -> IF \/ symbol \notin AllSymbols(world)
                     \/ symbol \in LatePriceStart(world) \cup MembershipAfterPrices(world)
                  THEN "other" ELSE "valid"

(***************************************************************************)
(* The summary and the changes-only detail, one rebalance at a time.       *)
(***************************************************************************)
SummaryRow(current, previous, suspicious) ==
    [size |-> Cardinality(current),
     joined |-> Cardinality(current \ previous),
     removed |-> Cardinality(previous \ current),
     suspicious |-> Cardinality(suspicious)]

\* Mutation: only joins are reported.
JoinedSymbols(current, previous) == current \ previous

ChangedSymbols(current, previous) == (current \ previous) \cup (previous \ current)

\* A symbol that left has no interval on the day it is reported; the suspicion is said
\* of members only.
EligibilityReason(symbol, current, previous, suspicious) ==
    [reason |-> IF symbol \in current
                THEN IF symbol \in previous THEN "member" ELSE "joined"
                ELSE IF symbol \in previous THEN "left_index" ELSE "not_a_member",
     suspicious |-> symbol \in current \cap suspicious]
=============================================================================
