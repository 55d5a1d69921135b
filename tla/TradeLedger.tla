----------------------------- MODULE TradeLedger -----------------------------
(***************************************************************************)
(* What a broker promises its owner: a double-entry account.  Cash and     *)
(* holdings move only by posting one trade to the journal, by exactly the  *)
(* shares and the cash that entry names, never below zero, and no entry is *)
(* ever altered.  Prices, marks, listings, connections and refused orders  *)
(* do not exist at this level.                                             *)
(***************************************************************************)
EXTENDS Integers, Sequences

CONSTANTS Keys, InitialCapital

VARIABLES
    cash,       \* money in the account
    holdings,   \* holdings[k] = shares booked under position key k
    journal     \* the trades posted so far: [key, shares, money], both signed

vars == <<cash, holdings, journal>>

Init ==
    /\ cash = InitialCapital
    /\ holdings = [k \in Keys |-> 0]
    /\ journal = << >>

\* A buy brings shares and takes money; a sale takes shares and never costs money.
Sound(entry) ==
    \/ entry.shares > 0 /\ entry.money <= 0
    \/ entry.shares < 0 /\ entry.money >= 0

Post(k, entry) ==
    /\ entry.key = k
    /\ Sound(entry)
    /\ cash + entry.money >= 0
    /\ holdings[k] + entry.shares >= 0
    /\ cash' = cash + entry.money
    /\ holdings' = [holdings EXCEPT ![k] = @ + entry.shares]
    /\ journal' = Append(journal, entry)

Next ==
    /\ Len(journal') = Len(journal) + 1
    /\ \E k \in Keys : Post(k, journal'[Len(journal')])

Spec == Init /\ [][Next]_vars
=============================================================================
