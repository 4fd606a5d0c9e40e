SPECIFICATION Spec
CONSTANTS
    Assets <- OneAsset
    ClientIds = {c1, c2, c3}
    NoClient = NoClient
    Quantities = {1, 2}
    Requests <- MCRequests
    Quotes <- MCQuotes
    OrderIds = {1, 2, 3}
    Scale = 1440
    FeeRate = 144
    InitialCash = 18000
    MinQuantity = 1
    MinNotional = 1
    Practice = FALSE
    Txns = {t1, t2}
    Operations = {"place", "cancel", "fill", "exit", "moderate"}
    Serial = {{"cancel", "fill", "exit"}, {"fill", "exit", "moderate"}}
    ContestStatuses = {"active"}
    MaxSettlements = 0
    Shapes <- BothShapes
    Books <- OneBook
SYMMETRY FullSymmetry
INVARIANT
    TypeOK
PROPERTIES
    RefinesLedger
CHECK_DEADLOCK FALSE
