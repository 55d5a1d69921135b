--------------------------- MODULE NorgateStaging ---------------------------
(***************************************************************************)
(* Which asset each occupancy of the index is (app/norgate_trial/          *)
(* occupancy.py) and what is read out of the staged bars (bars.py).        *)
(* An occupancy is [ticker, from, to, overlay]; to is Forever while it     *)
(* lasts.                                                                  *)
(***************************************************************************)
EXTENDS NorgateProbe

Ordered == INSTANCE SequencesExt

CONSTANTS
    Overlays,       \* occupancies mapped for identity only
    Rank,           \* tickers in alphabetical order
    MaxGap          \* days two neighbouring bars may be apart

Midpoint(occ) ==
    LET end == IF occ.to = Forever THEN EvalEnd ELSE occ.to
    IN IF end < occ.from THEN occ.from ELSE occ.from + (end - occ.from) \div 2

EvalFrom(occ) == Later(EvalStart, occ.from)

EvalTo(occ) == IF occ.to = Forever THEN EvalEnd ELSE Earlier(EvalEnd, occ.to - 1)

OverlapsEvalWindow(occ) == EvalFrom(occ) <= EvalTo(occ)

HoldsOn(occ, day) == occ.from <= day /\ day < occ.to

InWindow(occ) == occ.from <= EvalEnd /\ occ.to > EvalStart

(***************************************************************************)
(* build_occupancies: memberships that meet the window, then the overlays  *)
(* no membership states already, by ticker and start.                      *)
(***************************************************************************)
Interval(occ) == <<occ.ticker, occ.from, occ.to>>

BuildOccupancies(members) ==
    LET pit == {[ticker |-> m.ticker, from |-> m.from, to |-> m.to, overlay |-> FALSE] :
                    m \in {n \in members : InWindow(n)}}
        extra == {occ \in Overlays : Interval(occ) \notin {Interval(p) : p \in pit}}
    IN Ordered!SetToSortSeq(pit \cup extra,
           LAMBDA a, b : \/ Rank[a.ticker] < Rank[b.ticker]
                         \/ a.ticker = b.ticker /\ a.from < b.from
                         \/ a.ticker = b.ticker /\ a.from = b.from /\ a.to < b.to)

WindowTickers(occupancies) ==
    {occ.ticker : occ \in {o \in occupancies : ~ o.overlay /\ InWindow(o)}}

(***************************************************************************)
(* may_use_current_ticker: the ticker means the same security in the       *)
(* middle of the occupancy and at the end of the window.                   *)
(***************************************************************************)
MayUseCurrentTicker(occ, master) ==
    LET then == ResolveSecurity(master, occ.ticker, Midpoint(occ))
        now == ResolveSecurity(master, occ.ticker, EvalEnd)
    IN IF then = Unresolved THEN occ.to = Forever ELSE then = now

QuotedRangeOverlaps(hit, occ) ==
    /\ hit.first # NoDate
    /\ OverlapsEvalWindow(occ)
    /\ hit.first <= EvalTo(occ)
    /\ hit.last >= EvalFrom(occ)   \* NoDate is later than every day

(***************************************************************************)
(* map_occupancy.  The current ticker is looked up, then the candidates in *)
(* order up to the first whose quotes meet the occupancy, so that two      *)
(* never conflict; a successor that did not do is looked up once more.     *)
(***************************************************************************)
FrozenSuffixes(occ) ==
    LET exact == {i \in DOMAIN Samples : /\ Samples[i].ticker = occ.ticker
                                         /\ Samples[i].suffix # NoSymbol
                                         /\ Samples[i].to = occ.to /\ occ.to # Forever}
        any == {i \in DOMAIN Samples : /\ Samples[i].ticker = occ.ticker
                                       /\ Samples[i].suffix # NoSymbol}
        choice == IF exact # {} THEN exact ELSE any
    IN IF choice = {} THEN <<>>
       ELSE <<Samples[CHOOSE i \in choice : \A j \in choice : j <= i].suffix>>

SuccessorFor(ticker) ==
    LET pairs == {pair \in ChangePairs : pair[1] = ticker}
    IN IF pairs = {} THEN <<>> ELSE <<(CHOOSE pair \in pairs : TRUE)[2]>>

Candidates(occ, known) ==
    LET frozen == FrozenSuffixes(occ)
        others == SelectSeq(Discovered(known, occ.ticker),
                            LAMBDA symbol : symbol \notin {frozen[i] : i \in DOMAIN frozen})
    IN frozen \o others \o SuccessorFor(occ.ticker) \o SuccessorFor(occ.ticker)

MappedTo(occ, hit, source) ==
    [occ |-> occ, asset |-> hit.id, symbol |-> hit.symbol, last |-> hit.last, source |-> source]

TakesCurrent(occ, master, heard) ==
    MayUseCurrentTicker(occ, master) /\ Found(Heard(heard, 1))

TakesCandidate(occ, heard) ==
    Len(heard) > 1 /\ QuotedRangeOverlaps(heard[Len(heard)], occ)

\* The symbols still to be looked up for an occupancy after what was heard
StillToAsk(occ, master, known, heard) ==
    IF heard = <<>> THEN <<occ.ticker>> \o Candidates(occ, known)
    ELSE IF TakesCurrent(occ, master, heard) \/ TakesCandidate(occ, heard) THEN <<>>
    ELSE SubSeq(Candidates(occ, known), Len(heard), Len(Candidates(occ, known)))

MapOccupancy(occ, master, heard) ==
    IF TakesCurrent(occ, master, heard) THEN MappedTo(occ, heard[1], "current_ticker")
    ELSE IF TakesCandidate(occ, heard) THEN MappedTo(occ, heard[Len(heard)], "candidate")
    ELSE MappedTo(occ, NotFound, "none")

Mapped(row) == row.asset # NoAsset

CurrentTickerContamination(row, master) ==
    row.source = "current_ticker" /\ ~ MayUseCurrentTicker(row.occ, master)

(***************************************************************************)
(* Staged series.  A file holds the days it has bars for, the days whose   *)
(* bars fail validate_historical_parsed_bar, and the days the adjusted     *)
(* close differs from the close; of is the asset the vendor answered for.  *)
(***************************************************************************)
NoBars == [of |-> NoAsset, days |-> {}, bad |-> {}, adjusted |-> {}]

\* bars_from_timeseries and clip_to_occupancy
Series(vendor, up, symbol, occ) ==
    IF ~ up \/ vendor.listing[symbol] = NoAsset THEN NoBars
    ELSE LET id == vendor.listing[symbol]
             asset == vendor.asset[id]
             window == EvalFrom(occ) .. EvalTo(occ)
         IN [of |-> id, days |-> asset.days \cap window, bad |-> asset.bad \cap window,
             adjusted |-> asset.adjusted \cap window]

InteriorGap(days) ==
    \E a, b \in days :
        /\ b > a + MaxGap
        /\ \A c \in days : c <= a \/ c >= b

SeriesCoversOccupancy(days, row) ==
    /\ \E day \in days : day <= EvalFrom(row.occ)
    /\ \E day \in days : day >= Earlier(EvalTo(row.occ), row.last)
=============================================================================
