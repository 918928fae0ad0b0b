\* A load that fails while a card is fetched.
SPECIFICATION Spec
CONSTANTS
    a1 = a1  b1 = b1  b2 = b2  A = A  B = B
    AllTab = AllTab
    Entries <- MCEntries
    Vendors <- MCVendors
    VendorOf <- MCVendorOf
    DefaultPageSize = 2
    MaxPageSize = 2
    Sites <- OneSite
    EntryConcurrency = 1
    MaxRetries = 2
    CardStates = {"fresh", "missing"}
    AskedStates = {"fresh"}
    Controls = {"page"}
    Faults = {"load"}
    MaxClicks = 1
    MaxEdits = 0
INVARIANTS NoOrphanSkeleton
CHECK_DEADLOCK FALSE
