-------------------------- MODULE MCSimulatedBroker --------------------------
(***************************************************************************)
(* The broker with any caller, on small accounts.  Slippage is a half and  *)
(* commission a quarter, so that both change which orders the opening cash *)
(* affords.  Keys and tickers are interchangeable: nothing in the broker   *)
(* picks one of several.                                                   *)
(***************************************************************************)
EXTENDS SimulatedBroker, TLC

Renamings == Permutations(Keys) \cup Permutations(Symbols)
=============================================================================
