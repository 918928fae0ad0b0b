\* Cards are fetched, given up, refreshed and filtered while the server works
\* for them, and is reconfigured or unloaded.
SPECIFICATION FairSpec
CONSTANTS
    t1 = t1  t2 = t2  a1 = a1  b1 = b1  A = A  B = B
    AllTab = AllTab
    NoResult = NoResult
    Entries <- MCEntries
    Vendors <- MCVendors
    VendorOf <- MCVendorOf
    DisplayRank <- MCRank
    Threads = {t1, t2}
    Requests <- MCRequests
    Configs <- MCConfigs
    Files <- MCFiles
    OpenedAt = 1
    CachedAt <- MCCachedAt
    Sites <- MCSites
    ScanTTL = 2
    DefaultPageSize = 2
    MaxPageSize = 2
    MaxRuntimes = 2
    MaxTime = 1
    EntryConcurrency = 1
    MaxRetries = 1
    Controls = {"refresh", "tab"}
    Faults = {"load", "entry"}
    MaxClicks = 2
    MaxEvents = 3
INVARIANTS NoOrphanWhileUndisturbed
PROPERTIES ImplementsDashboard RefreshFills EventuallySettled
CHECK_DEADLOCK FALSE
