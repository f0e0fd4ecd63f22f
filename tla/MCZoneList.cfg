SPECIFICATION FairSpec
CONSTANTS
    Slots = {1, 2}
    LeftCurrent = 1
    PageSize = 2
    ZoneNames = {1, 2, 3, 4, 5}
    InitialZones = {2, 3, 4}
    TypedZones = {5}
    OtherZones = {1}
    MaxClicks = 5
    MaxEvents = 2
CHECK_DEADLOCK FALSE
INVARIANTS
    TypeOK
    NoZoneSkipped
    ButtonDeletesItsRow
    LoginStartsAtTheTop
PROPERTIES
    SpinnerEnds
