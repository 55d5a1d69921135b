--------------------------- MODULE MCBacktestEngine ---------------------------
(***************************************************************************)
(* Scenarios for the engine, on two tickers and two position keys.         *)
(*   TapeWorlds   : fixed identities; tapes with gaps, late starts, early  *)
(*                  ends, known and unknown terminations, unusable series. *)
(*   RenameWorlds : one security changes ticker while the run goes on.     *)
(*   RecycleWorlds: one ticker passes from a security to another one, with *)
(*                  or without a gap between their bars.                   *)
(***************************************************************************)
EXTENDS BacktestEngine

CONSTANTS a, b

Bar(open, close) == [open |-> open, close |-> close]
Up == Bar(2, 3)
Down == Bar(3, 1)
Flat == Bar(2, 2)

\* A tape with the same bar on every session of S and none elsewhere.
During(S, bar) == [t \in Sessions |-> IF t \in S THEN bar ELSE NoBar]

FixedKeys == [s \in Symbols |-> [t \in Sessions |-> IF s = a THEN 1 ELSE 2]]

SteadyTapes == {[t \in Sessions |-> IF t % 2 = 1 THEN Up ELSE Down], During(Sessions, Flat)}

TapeWorlds ==
    [tape : {[s \in Symbols |-> IF s = a THEN steady ELSE other] :
                steady \in SteadyTapes, other \in [Sessions -> {NoBar, Up, Down}]},
     keyOf : {FixedKeys},
     delisted : {{}, {2}},
     unusable : {{}, {b}},
     rebalance : {{1, 2}, {1, 3}, {2, 4}}]

\* From session r on the security of a is listed as b, and a as an unknown occupancy;
\* the tape of a stops, or that of b, or neither.
RenameWorlds ==
    {[tape |-> [s \in Symbols |-> IF s = a THEN During(1 .. last[a], Flat)
                                  ELSE During(first .. last[b], bar)],
      keyOf |-> [s \in Symbols |-> [t \in Sessions |-> IF s = b THEN (IF t < r THEN 2 ELSE 1)
                                                 ELSE (IF t < r THEN 1 ELSE 3)]],
      delisted |-> dead, unusable |-> {}, rebalance |-> dates] :
        r \in 2 .. 3, first \in 1 .. 3,
        last \in {l \in [Symbols -> 2 .. LastSession] : \E s \in Symbols : l[s] = LastSession},
        bar \in {Up, Down}, dead \in {{}, {1}}, dates \in {{1, 2}, {1, 3}, {1, 2, 3}}}

\* a belongs to key 1 up to session r and to key 2 after; b keeps the calendar open.
RecycleWorlds ==
    {[tape |-> [s \in Symbols |->
                  IF s = b THEN During(Sessions, Flat)
                  ELSE [t \in Sessions |-> IF t > r /\ t < r + gap THEN NoBar
                                           ELSE IF t > stop THEN NoBar
                                           ELSE IF t > r THEN bar ELSE Flat]],
      keyOf |-> [s \in Symbols |-> [t \in Sessions |->
                    IF s = b THEN 3 ELSE IF t > r THEN 2 ELSE 1]],
      delisted |-> dead, unusable |-> {}, rebalance |-> dates] :
        r \in 1 .. 2, gap \in 1 .. 3, stop \in 3 .. LastSession, bar \in {Up, Down},
        dead \in SUBSET {1, 2}, dates \in {{1, 2}, {1, 3}, {1, 2, 3}}}

Worlds == TapeWorlds \cup RenameWorlds \cup RecycleWorlds
=============================================================================
