\* Every way in which up to three credentials are listed, and every page.
SPECIFICATION Spec
CONSTANTS
    k1 = k1  k2 = k2
    Nil = Nil
    Trimmed <- MCTrimmed
    NoKey = NoKey
    Compat = "compat"
    Sections <- MCSections
    DefaultBase <- MCDefault
    VendorRank <- MCVendorRank
    TailRank <- MCTailRank
    HostFiles <- MCFiles
    SourceLists <- MCSources
    Atoi <- MCAtoi
    MaxInt = 6
    Queries <- MCQueries
    DefaultPageSize = 2
    MaxPageSize = 3
INVARIANTS ScanExact OncePerVendor IdxIsPlace SameViewAgain PagesTile CountsAreTotals
CHECK_DEADLOCK FALSE
