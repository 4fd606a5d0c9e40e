SPECIFICATION HubSpec
CONSTANTS
    Prices = {1, 2, 3}
    Depth = 2
    MaxUpdates = 4
    MaxLag = 2
    MaxBuffer = 2
INVARIANTS
    HubTypeOK
    CaughtUpIsExact
    ServedIsThenOrNow
    ShownIsServed
CHECK_DEADLOCK FALSE
