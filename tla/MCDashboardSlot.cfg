\* A tab is left while its cards wait, and entered again; nothing fails.
SPECIFICATION Spec
CONSTANTS
    a1 = a1  b1 = b1  b2 = b2  A = A  B = B
    AllTab = AllTab
    Entries <- MCEntries
    Vendors <- MCVendors
    VendorOf <- MCVendorOf
    DefaultPageSize = 2
    MaxPageSize = 2
    Sites <- OneSite
    EntryConcurrency = 1
    MaxRetries = 2
    CardStates = {"fresh", "missing"}
    AskedStates = {"fresh"}
    Controls = {"tab"}
    Faults = {}
    MaxClicks = 2
    MaxEdits = 0
INVARIANTS SlotIdentity
CHECK_DEADLOCK FALSE
