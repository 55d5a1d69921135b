------------------------------ MODULE Momentum ------------------------------
(***************************************************************************)
(* The momentum strategy: a symbol's bars up to a date, its filters, the   *)
(* ratio of two adjusted closes, and the ranking. A bar is [day, close,    *)
(* adjusted, volume]; a series is a sequence of bars in the order they     *)
(* were loaded in, which need not be by day. Symbols are integers in the   *)
(* order of their names. Ratios are compared by cross multiplication.      *)
(***************************************************************************)
EXTENDS Integers, FiniteSets, SequencesExt

CONSTANTS Lookback, Skip, TopN, MinPrice, Window, MinDollarVolume,
          Missing   \* an adjusted close the vendor did not give

\* MomentumConfig.__post_init__
ASSUME ConfigAssumption ==
    /\ Skip \in Nat /\ Lookback \in Nat /\ Lookback > Skip
    /\ TopN \in Nat \ {0} /\ Window \in Nat \ {0}
    /\ MinPrice \in Nat /\ MinDollarVolume \in Nat
    /\ Missing \notin Nat

\* A set in an order, as a sequence.
InOrder(set, Before(_, _)) ==
    [i \in 1 .. Cardinality(set) |->
        CHOOSE x \in set : Cardinality({y \in set : Before(y, x)}) = i - 1]

Ascending(set) == InOrder(set, <)

\* The entries of a sequence at some of its places, in the order they are in.
Kept(seq, places) ==
    [n \in 1 .. Cardinality(places) |-> seq[Ascending(places)[n]]]

Days(bars) == {bars[i].day : i \in DOMAIN bars}

AsOf(bars, day) == Kept(bars, {i \in DOMAIN bars : bars[i].day <= day})

\* Mutation: bars are taken in the order they were loaded in.
AsLoaded(bars) == bars

\* sorted(bars, key=timestamp) is stable: the bars of a day keep their order.
Sorted(bars) ==
    LET Before(i, j) == \/ bars[i].day < bars[j].day
                        \/ bars[i].day = bars[j].day /\ i < j
    IN [n \in DOMAIN bars |-> bars[InOrder(DOMAIN bars, Before)[n]]]

SliceAsOf(bars, day) == AsOf(Sorted(bars), day)

\* The bar n places before the last one.
Back(bars, n) == bars[Len(bars) - n]

Insufficient(bars) == Len(bars) < Lookback + 1

PricePasses(bars) == Back(bars, 0).close >= MinPrice

\* Fewer bars than the window fail the filter too.
LiquidityPasses(bars) ==
    /\ Len(bars) >= Window
    /\ LET Add(total, n) == total + Back(bars, n).close * Back(bars, n).volume
       IN FoldLeft(Add, 0, [n \in 1 .. Window |-> n - 1]) >= MinDollarVolume * Window

SkipPrice(bars) == Back(bars, Skip).adjusted
LookbackPrice(bars) == Back(bars, Lookback).adjusted

\* Price[t - skip] / Price[t - lookback] - 1 exists and is positive.
MomentumPasses(bars) ==
    /\ SkipPrice(bars) # Missing /\ LookbackPrice(bars) # Missing
    /\ LookbackPrice(bars) # 0
    /\ SkipPrice(bars) > LookbackPrice(bars)

\* _evaluate_symbol: the first filter that fails names the disposition; what
\* fails on momentum is dropped without one.
Disposition(series, day) ==
    LET bars == SliceAsOf(series, day)
    IN CASE Insufficient(bars) -> "insufficient_history"
         [] ~ Insufficient(bars) /\ ~ PricePasses(bars) -> "failed_price_filter"
         [] ~ Insufficient(bars) /\ PricePasses(bars) /\ ~ LiquidityPasses(bars) ->
                "failed_liquidity_filter"
         [] OTHER -> IF MomentumPasses(bars) THEN "eligible" ELSE "dropped"

Candidate(symbol, series, day) ==
    LET bars == SliceAsOf(series, day)
    IN [symbol |-> symbol, skip |-> SkipPrice(bars), lookback |-> LookbackPrice(bars)]

\* Mutation: ties keep the later name in front.
AheadByLastName(a, b) ==
    LET left == a.skip * b.lookback
        right == b.skip * a.lookback
    IN left > right \/ (left = right /\ a.symbol > b.symbol)

\* Key (-momentum, symbol).
Ahead(a, b) ==
    LET left == a.skip * b.lookback
        right == b.skip * a.lookback
    IN left > right \/ (left = right /\ a.symbol < b.symbol)

RankCandidates(candidates) == InOrder(candidates, Ahead)

SelectTopN(ranked) == SubSeq(ranked, 1, IF Len(ranked) < TopN THEN Len(ranked) ELSE TopN)
=============================================================================
