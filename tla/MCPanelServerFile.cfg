\* One thread, every kind of request, edits of the file, a reconfigure, an unload.
SPECIFICATION FairSpec
CONSTANTS
    t1 = t1  t2 = t2  a1 = a1  a2 = a2  b1 = b1  A = A  B = B
    AnyVendor = AnyVendor
    NoResult = NoResult
    Vendors <- MCVendors
    Threads = {t1}
    Entries <- TwoEntries
    VendorOf <- TwoVendorOf
    DisplayRank <- TwoRank
    Requests <- FileRequests
    Configs <- OneConfig
    Files <- TwoFiles
    ScanTTL = 1
    DefaultPageSize = 2
    MaxPageSize = 2
    MaxRuntimes = 2
    MaxTime = 2
INVARIANTS TypeOK FollowsFile AnswerFilled ForcedShowsNew ScopedWork
PROPERTIES EveryCallAnswered
