-------------------------- MODULE MCMarketDataImport --------------------------
(***************************************************************************)
(* Imports of every window of a short calendar: a steady series, one that  *)
(* starts late, one that was delisted, one with an invalid row, one with   *)
(* nothing but invalid rows.                                               *)
(***************************************************************************)
EXTENDS MarketDataImport

Series(bars, invalid) == [bars |-> bars, invalid |-> invalid]

MCListings ==
    {Series(Days, {}), Series(Days \ {1, 2}, {}), Series(1 .. 3, {}),
     Series(Days \ {4}, {3}), Series({3, 4}, {3, 4})}
=============================================================================
