SPECIFICATION Spec
CONSTANTS
    Keys = {spectra, sea, block, gamestop}
    Tickers = {SE, SQ, XYZ, GME, ATVI, TKO, WWE}
    Forever = 8
    Unresolved = Unresolved
    SE = SE
    SQ = SQ
    XYZ = XYZ
    GME = GME
    ATVI = ATVI
    TKO = TKO
    WWE = WWE
    SE17 = SE17
    SE18 = SE18
    ATVI23 = ATVI23
    WWE23 = WWE23
    MSFT = MSFT
    spectra = spectra
    sea = sea
    block = block
    gamestop = gamestop
    none = none
    NoSymbol = none
    NoAsset = 0
    NoSource = NoSource
    Assets = {1, 2, 3, 4, 5, 6, 7}
    Symbols <- MCSymbols
    SuffixesOf <- MCSuffixesOf
    Samples <- MCSamples
    Recycled <- MCRecycled
    ChangePairs <- MCPairs
    AcquirerAliases <- MCAliases
    Controls <- MCControls
    Overlays <- MCOverlays
    Rank <- MCRank
    Vendors <- MCVendors
    Plans <- AliasPlans
    JoinDates <- MCJoinDates
    RequiredStart = 0
    EvalStart = 3
    EvalEnd = 6
    MaxGap = 2
    Predecessor = WWE
    Successor = TKO
    NoVendor = 0
    MaxChanges = 1
INVARIANT
    ReadyIsUnaliased
