\* Two threads at the same cards while the plugin is reconfigured and unloaded.
SPECIFICATION Spec
CONSTANTS
    t1 = t1  t2 = t2  a1 = a1  a2 = a2  b1 = b1  A = A  B = B
    AnyVendor = AnyVendor
    NoResult = NoResult
    Vendors <- MCVendors
    Threads = {t1, t2}
    Entries <- TwoEntries
    VendorOf <- TwoVendorOf
    DisplayRank <- TwoRank
    Requests <- RaceRequests
    Configs <- OneConfig
    Files <- OneFile
    ScanTTL = 2
    DefaultPageSize = 2
    MaxPageSize = 2
    MaxRuntimes = 2
    MaxTime = 2
INVARIANTS OwnResults AnswerFilled ForcedShowsNew
PROPERTIES RetiredFrozen ImplementsBoard
SYMMETRY ThreadSymmetry
