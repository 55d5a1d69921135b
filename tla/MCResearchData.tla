--------------------------- MODULE MCResearchData ---------------------------
(***************************************************************************)
(* Worlds of two securities and three tickers over six days: every subset  *)
(* of eight ticker rows (a recycled listing, a rename, vendor symbols that   *)
(* remap history or start late), a few memberships with gaps and           *)
(* re-entries, and price files that start late, stop early or are absent.  *)
(***************************************************************************)
EXTENDS ResearchData

CONSTANTS k1, k2, T, U, V

TickerRows ==
    LET row(key, scheme, ticker, from, to) ==
            [seed_key |-> key, scheme |-> scheme, ticker |-> ticker,
             valid_from |-> from, valid_to |-> to, continuity |-> FALSE]
    IN << row(k1, "listing", T, 0, 3), row(k2, "listing", T, 4, Forever),
          row(k1, "listing", U, 3, Forever), row(k1, "yahoo", U, 0, Forever),
          row(k2, "yahoo", T, 4, Forever), row(k1, "yahoo", T, 0, 3),
          row(k2, "listing", V, 0, Forever), row(k2, "yahoo", V, 2, Forever) >>

Catalogs == {CatalogOf([key \in Keys |-> status], [n \in keep |-> TickerRows[n]]) :
                 keep \in SUBSET (1 .. 8), status \in Statuses}

In(symbol, from, to) == [symbol |-> symbol, from |-> from, to |-> to, fixture |-> FALSE]

MemberSets ==
    { {In(T, 1, 3), In(T, 4, Forever), In(U, 2, Forever)},
      {In(T, 0, 4), In(V, 3, 5)},
      {In(T, 2, Forever), In(U, 0, 3), In(U, 2, 5)},
      {In(U, 0, Forever), In(V, 1, 2), In(V, 3, Forever)},
      {[In(U, 1, 4) EXCEPT !.fixture = TRUE], In(T, 3, Forever)} }

FileSets ==
    {[symbol \in Tickers |-> CASE symbol = T -> t [] symbol = U -> u [] OTHER -> v] :
        t \in {{}, {0, 1, 2}, {4, 5}, {1, 3, 5}}, u \in {0 .. 5, {3, 4}}, v \in {{}, {0, 2, 4}}}

World == [master : Catalogs, members : MemberSets, files : FileSets]
=============================================================================
