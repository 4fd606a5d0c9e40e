SPECIFICATION Spec
CONSTANTS
    Wallets = {w1, w2, w3}
    TopNs = {1, 3}
    RankLimit = 255
    MaxSettlements = 2
    MaxBatches = 2
    MaxVisitors = 1
SYMMETRY Symmetry
INVARIANTS
    TypeOK
    AcceptsExactlyPrizes
    CertificatesStateRanks
    RecordedWasSent
CHECK_DEADLOCK FALSE
