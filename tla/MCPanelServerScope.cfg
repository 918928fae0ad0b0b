\* A forced refresh of a page without cards queries every entry.
SPECIFICATION Spec
CONSTANTS
    t1 = t1  t2 = t2  a1 = a1  a2 = a2  b1 = b1  A = A  B = B
    AnyVendor = AnyVendor
    NoResult = NoResult
    Vendors <- MCVendors
    Threads = {t1}
    Entries <- MCEntries
    VendorOf <- MCVendorOf
    DisplayRank <- MCRank
    Requests <- MCRequests
    Configs <- OneConfig
    Files <- MCFiles
    ScanTTL = 2
    DefaultPageSize = 2
    MaxPageSize = 2
    MaxRuntimes = 1
    MaxTime = 4
INVARIANTS PageScoped
