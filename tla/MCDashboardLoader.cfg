\* Everything may happen: all controls, failures, edits.
SPECIFICATION FairSpec
CONSTANTS
    a1 = a1  b1 = b1  b2 = b2  A = A  B = B
    AllTab = AllTab
    Entries <- MCEntries
    Vendors <- MCVendors
    VendorOf <- MCVendorOf
    DefaultPageSize = 2
    MaxPageSize = 2
    Sites <- MCSites
    EntryConcurrency = 1
    MaxRetries = 1
    CardStates = {"fresh", "missing"}
    AskedStates = {"fresh"}
    Controls = {"tab", "page", "refresh", "reload"}
    Faults = {"load", "entry"}
    MaxClicks = 2
    MaxEdits = 1
INVARIANTS TypeOK NothingTwice WorkConserving
PROPERTIES BusyEnds ComesToRest
CHECK_DEADLOCK FALSE
