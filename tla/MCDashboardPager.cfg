\* Paging and refreshing, nothing fails.
SPECIFICATION FairSpec
CONSTANTS
    a1 = a1  b1 = b1  b2 = b2  A = A  B = B
    AllTab = AllTab
    Entries <- MCEntries
    Vendors <- MCVendors
    VendorOf <- MCVendorOf
    DefaultPageSize = 2
    MaxPageSize = 2
    Sites <- OneSite
    EntryConcurrency = 2
    MaxRetries = 2
    CardStates = {"fresh", "stale", "missing"}
    AskedStates = {"fresh"}
    Controls = {"page", "refresh", "reload"}
    Faults = {}
    MaxClicks = 4
    MaxEdits = 0
INVARIANTS SlotIdentity NoOrphanSkeleton ReloadSameView
PROPERTIES EventuallySettled
CHECK_DEADLOCK FALSE
