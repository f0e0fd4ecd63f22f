SPECIFICATION Spec
CONSTANTS
    Threads = {1}
    Names = {"apex", "www"}
    Apex = "apex"
    Types = {"soa", "a", "mx", "hinfo"}
    Soa = "soa"
    Values = {"x", "y", "z"}
    FirstSerial = 1
    InitialEntries <- MCEntries
    TypedValues = {"z"}
    TypedNames = {"www"}
    OtherRequests <- MCOtherRequests
    MaxClicks = 0
    MaxSelections = 2
    MaxEvents = 1
CHECK_DEADLOCK FALSE
INVARIANTS
    DeletesAllEntries
