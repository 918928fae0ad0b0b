\* Paging while a card of the page before fails to load.
SPECIFICATION Spec
CONSTANTS
    a1 = a1  b1 = b1  b2 = b2  A = A  B = B
    AllTab = AllTab
    Entries <- MCEntries
    Vendors <- MCVendors
    VendorOf <- MCVendorOf
    DefaultPageSize = 2
    MaxPageSize = 2
    Sites <- OneSite
    EntryConcurrency = 1
    MaxRetries = 1
    CardStates = {"fresh", "missing"}
    AskedStates = {"fresh"}
    Controls = {"page"}
    Faults = {"entry"}
    MaxClicks = 2
    MaxEdits = 0
PROPERTIES FailedOnlyByOwn
CHECK_DEADLOCK FALSE
