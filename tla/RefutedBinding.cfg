SPECIFICATION Spec
CONSTANTS
    None = None
    ann = ann
    bob = bob
    w1 = w1
    w2 = w2
    r1 = r1
    r2 = r2
CONSTANTS
    Users <- TwoUsers
    Founders <- OneAdmin
    Wallets <- TwoWallets
    Requests <- TwoRequests
    Mixes <- ThreeMixes
    SenderConfigured = TRUE
SYMMETRY Symmetry
PROPERTIES
    WalletsAreLocked
CHECK_DEADLOCK FALSE
