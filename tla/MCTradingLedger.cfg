SPECIFICATION Spec
CONSTANTS
    Assets <- OneAsset
    ClientIds = {c1, c2, c3}
    NoClient = NoClient
    Quantities = {1, 2}
    Requests <- MCRequests
    Quotes <- MCQuotes
    OrderIds = {1, 2, 3, 4}
    Scale = 1440
    FeeRate = 144
    InitialCash = 18000
    MinQuantity = 1
    MinNotional = 1
    Practice = FALSE
    Marks <- AllMarks
    Prices = {0, 1, 2}
    ContestStatuses = {"active", "settling"}
    MaxSettlements = 1
    Shapes <- TradeShapes
    Books <- TwoBooks
SYMMETRY Symmetry
INVARIANTS
    ExitsBelongToTheirEntries
    LocksMatchPending
    BooksMatchFills
    ProfitMatchesBooks
    SettlementIsCurrent
PROPERTY
    StandingsOmitOnlyReservations
CHECK_DEADLOCK FALSE
