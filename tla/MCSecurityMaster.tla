-------------------------- MODULE MCSecurityMaster --------------------------
(***************************************************************************)
(* Two securities, two tickers, three days.  The file starts with a        *)
(* listing that is still open, with one that was recycled, or with one     *)
(* that was renamed; two edits open, end and move its intervals.           *)
(***************************************************************************)
EXTENDS SecurityMaster

CONSTANTS k1, k2, T, U

Listing(key, ticker, from, to) ==
    [seed_key |-> key, scheme |-> "listing", ticker |-> ticker,
     valid_from |-> from, valid_to |-> to, continuity |-> FALSE]

Block(key, rows) ==
    [seed_key |-> key, status |-> "ACTIVE", tickers |-> rows, identifiers |-> IdValues]

Seeds ==
    {<<Block(k1, <<Listing(k1, T, 0, Forever)>>), Block(k2, <<>>)>>,
     <<Block(k1, <<Listing(k1, T, 0, 1)>>), Block(k2, <<Listing(k2, T, 2, Forever)>>)>>,
     <<Block(k1, <<Listing(k1, T, 0, 1), Listing(k1, U, 1, Forever)>>), Block(k2, <<>>)>>}
=============================================================================
