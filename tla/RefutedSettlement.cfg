SPECIFICATION Spec
CONSTANTS
    Assets <- OneAsset
    ClientIds = {c1, c2}
    NoClient = NoClient
    Quantities = {1, 2}
    Requests <- MCRequests
    Quotes <- MCQuotes
    OrderIds = {1, 2}
    Scale = 1440
    FeeRate = 144
    InitialCash = 18000
    MinQuantity = 1
    MinNotional = 1
    Practice = FALSE
    Txns = {t1, t2}
    Operations = {"place", "cancel", "fill", "exit", "settle", "schedule"}
    Serial = {{"fill", "exit"}}
    ContestStatuses = {"active", "cancelled"}
    MaxSettlements = 2
    Shapes <- RaceShapes
    Books <- OneBook
SYMMETRY FullSymmetry
PROPERTY
    AllPendingAreCancelled
CHECK_DEADLOCK FALSE
