SPECIFICATION OrderSpec
CONSTANTS
    MaxMinute = 3
    BucketSize = 2
    QueueSize = 1
    PageLimit = 2
    Lookback = 3
    MaxFaults = 1
    LastSubmit = 1
CONSTANTS
    Halts <- SomeHalts
    Markets <- SomeMarkets
INVARIANT
    StoreIsFinal
PROPERTIES
    MarketDecides
    TouchedOrderIsExecuted
    SuccessIsComplete
    ReadersCatchUp
