--------------------------- MODULE MCNorgateTrial ---------------------------
(***************************************************************************)
(* Days 0..7, the two-year window is 3..6.  The sample has the recycled SE *)
(* (Spectra, then Sea), the acquired ATVI, the renamed SQ and the pair WWE *)
(* and TKO; GME is the control.  Eight vendors: an honest one (1), and     *)
(* ones that collapse SE under the frozen suffix and give TKO the bars of  *)
(* WWE (2), collapse SE under another suffix (3), answer ATVI with the     *)
(* acquirer (4), split SQ from XYZ (5), serve no delisted database (6),    *)
(* list symbols anew (7), or have a bad bar (8).                           *)
(***************************************************************************)
EXTENDS NorgateTrial, TLC

CONSTANTS SE, SQ, XYZ, GME, ATVI, TKO, WWE, SE17, SE18, ATVI23, WWE23, MSFT,
          spectra, sea, block, gamestop, none

MCSymbols == Tickers \cup {SE17, SE18, ATVI23, WWE23, MSFT}

MCSuffixesOf == [t \in Tickers |-> CASE t = SE -> <<SE17, SE18>> [] t = ATVI -> <<ATVI23>>
                                     [] t = WWE -> <<WWE23>> [] OTHER -> <<>>]

Sample(ticker, suffix, aliases, from, to) ==
    [ticker |-> ticker, suffix |-> suffix, aliases |-> aliases, from |-> from, to |-> to]

MCSamples == << Sample(SE, SE17, {}, 0, 4), Sample(SE, none, {}, 5, Forever),
                Sample(ATVI, ATVI23, {MSFT}, 0, 2), Sample(SQ, none, {}, 0, 5),
                Sample(XYZ, none, {}, 5, Forever), Sample(WWE, WWE23, {}, 0, 2),
                Sample(TKO, none, {WWE}, 2, Forever) >>

MCRecycled == {<<1, 2>>}
MCPairs == {<<SQ, XYZ>>}
MCAliases == [t \in Tickers |-> IF t = ATVI THEN {MSFT} ELSE {}]
MCControls == <<GME>>
MCOverlays == {[ticker |-> SE, from |-> 0, to |-> 2, overlay |-> TRUE]}
MCRank == [t \in Tickers |-> CASE t = ATVI -> 1 [] t = GME -> 2 [] t = SE -> 3 [] t = SQ -> 4
                                  [] t = TKO -> 5 [] t = WWE -> 6 [] OTHER -> 7]

Series0(symbol, first, last, days) ==
    [symbol |-> symbol, words |-> {}, first |-> first, last |-> last,
     days |-> days, bad |-> {}, adjusted |-> days]

Asset0 ==
    [a \in Assets |->
        CASE a = 1 -> Series0(SE17, 0, 4, 3 .. 4)
          [] a = 2 -> Series0(SE, 4, NoDate, 4 .. 6)
          [] a = 3 -> Series0(XYZ, 0, NoDate, 3 .. 6)
          [] a = 4 -> Series0(GME, 0, NoDate, 3 .. 6)
          [] a = 5 -> Series0(TKO, 2, NoDate, 3 .. 6)
          [] a = 6 -> Series0(WWE23, 0, 2, {})
          [] OTHER -> Series0(SQ, 2, NoDate, {3, 6})]

Listing0 ==
    [s \in Symbols |->
        CASE s = SE -> 2 [] s = SE17 -> 1 [] s = XYZ -> 3 [] s = GME -> 4 [] s = TKO -> 5
          [] s = WWE23 -> 6 [] OTHER -> NoAsset]

Both == {"listed", "delisted"}
VendorOf(listing, asset, databases) ==
    [listing |-> listing, asset |-> asset, databases |-> databases]

MCVendors ==
    << VendorOf(Listing0, Asset0, Both),
       VendorOf([Listing0 EXCEPT ![SE17] = 2, ![WWE23] = 5], Asset0, Both),
       VendorOf([Listing0 EXCEPT ![SE17] = NoAsset, ![SE18] = 2], [Asset0 EXCEPT ![2].first = 0], Both),
       VendorOf([Listing0 EXCEPT ![ATVI23] = 6, ![MSFT] = 6, ![WWE23] = NoAsset],
                [Asset0 EXCEPT ![6].symbol = MSFT], Both),
       VendorOf([Listing0 EXCEPT ![SQ] = 7], Asset0, Both),
       VendorOf([Listing0 EXCEPT ![SE17] = NoAsset, ![WWE23] = NoAsset], Asset0, {"listed"}),
       VendorOf([Listing0 EXCEPT ![XYZ] = 7, ![SQ] = 3],
                [Asset0 EXCEPT ![7].symbol = XYZ, ![3].symbol = SQ], Both),
       VendorOf(Listing0, [Asset0 EXCEPT ![3].bad = {5}], Both) >>

TickerRow(key, ticker, from, to) ==
    [seed_key |-> key, scheme |-> "listing", ticker |-> ticker,
     valid_from |-> from, valid_to |-> to, continuity |-> FALSE]

Securities == [key \in Keys |-> "ACTIVE"]

MCMasters ==
    { CatalogOf(Securities,
          <<TickerRow(spectra, SE, 0, 4), TickerRow(sea, SE, 5, Forever), TickerRow(block, SQ, 0, 5),
            TickerRow(block, XYZ, 5, Forever), TickerRow(gamestop, GME, 0, Forever)>>),
      CatalogOf(Securities,
          <<TickerRow(sea, SE, 0, Forever), TickerRow(block, XYZ, 0, Forever)>>) }

Member(ticker, from, to) == [ticker |-> ticker, from |-> from, to |-> to]

MCMemberSets ==
    { NoSource,
      {Member(SE, 0, 4), Member(SQ, 3, Forever), Member(GME, 0, Forever)} }

MCJoinDates == {3, 6}

(***************************************************************************)
(* What a trial is.  Staging meets every seed, source and vendor that      *)
(* differs in what is staged; the two probes of the sample meet two        *)
(* vendors the baseline fails; and what leads to a verdict meets the       *)
(* honest one and either of two the verdict has to tell from it.           *)
(***************************************************************************)
PlanOf(scripts, vendors, masters, sources) ==
    [scripts |-> scripts, vendors |-> vendors, masters |-> masters, sources |-> sources]

SettledMaster == {m \in MCMasters : Len(m.tickers) = 5}
SettledSource == {{Member(GME, 0, Forever)}}
VerdictScripts == {"proof", "probe", "stage", "validate"}

MCPlans ==
    { PlanOf({"stage", "validate"}, (1 .. 8) \ {4}, MCMasters, MCMemberSets),
      PlanOf({"probe", "baseline"}, {2, 4}, SettledMaster, SettledSource),
      PlanOf(VerdictScripts, {1, 3}, SettledMaster, SettledSource),
      PlanOf(VerdictScripts, {1, 4}, SettledMaster, SettledSource) }

\* The acquirer answers for ATVI throughout.
AliasPlans == {PlanOf(VerdictScripts, {4}, SettledMaster, SettledSource)}
=============================================================================
