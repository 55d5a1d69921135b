---------------------------- MODULE MCOrderService ----------------------------
(***************************************************************************)
(* Every call on small accounts: three keys on two tickers, so that two    *)
(* keys may share a ticker.  As in the engine, listings are retargeted and *)
(* the account is marked before the call: a held key that is wanted trades *)
(* under the target's ticker, a position whose ticker has an open is       *)
(* priced at it, and only one without an open may be unvalued.             *)
(***************************************************************************)
EXTENDS OrderService

CONSTANTS a, b

\* What key k may hold when its ticker must be one of S.
Holdings(S, opened) ==
    {[symbol |-> s, quantity |-> q, valued |-> v,
      price |-> IF s \in DOMAIN opened THEN Quoted(opened[s]) ELSE Quoted(2)] :
        s \in S, q \in {1, 4}, v \in BOOLEAN}

OpenPrices == UNION {[S -> {1, 3}] : S \in SUBSET Symbols}

WantedTargets ==
    UNION {{[count |-> n, listing |-> f] : n \in {Cardinality(D), Cardinality(D) + 1},
                                           f \in [D -> Symbols]} : D \in {{}, {1}, {2}, {1, 2}, {2, 3}}}

PositionMaps(opened, wanted) ==
    UNION {{f \in [D -> Holdings(Symbols, opened)] :
               \A k \in D :
                  /\ f[k].symbol \in DOMAIN opened => f[k].valued
                  /\ k \in DOMAIN wanted.listing => f[k].symbol = wanted.listing[k]
                  /\ k = 3 => f[k].symbol = b} : D \in {{}, {1}, {1, 2}, {1, 3}, {3}}}

MCAccounts ==
    UNION {{[cash |-> c, positions |-> f, target |-> t, opens |-> o] :
               c \in {0, 30, 170}, f \in PositionMaps(o, t)} :
           o \in OpenPrices, t \in WantedTargets}
=============================================================================
