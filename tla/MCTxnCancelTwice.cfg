SPECIFICATION Spec
CONSTANTS
    Assets <- OneAsset
    ClientIds = {c1, c2}
    NoClient = NoClient
    Quantities = {1, 2}
    Requests <- MCRequests
    Quotes <- MCQuotes
    OrderIds = {1, 2}
    Scale = 1440
    FeeRate = 144
    InitialCash = 18000
    MinQuantity = 1
    MinNotional = 1
    Practice = FALSE
    Txns = {t1, t2}
    Operations = {"place", "cancel"}
    Serial = {{"fill", "exit"}}
    ContestStatuses = {"active"}
    MaxSettlements = 0
    Shapes <- RestShapes
    Books <- OneBook
SYMMETRY FullSymmetry
INVARIANT
    CashMatchesFills
CHECK_DEADLOCK FALSE
