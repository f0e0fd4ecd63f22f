SPECIFICATION Spec
CONSTANTS
    Threads = {1}
    Names = {"apex", "www"}
    Apex = "apex"
    Types = {"soa", "a", "mx", "hinfo"}
    Soa = "soa"
    Values = {"x", "y", "z"}
    FirstSerial = 1
    InitialEntries <- MCEntries
    TypedValues = {"z"}
    TypedNames = {"www"}
    OtherRequests <- MCOtherRequests
    MaxClicks = 2
    MaxSelections = 2
    MaxEvents = 0
CHECK_DEADLOCK FALSE
PROPERTIES
    DeletesThisRecord
