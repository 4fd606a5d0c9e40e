SPECIFICATION PageSpec
CONSTANTS
    PageContests = {k1, k2, k3}
    Sorts = {equity, roi}
    None = None
    MaxPolls = 2
INVARIANT
    PageHasOneSource
PROPERTIES
    ForeignBoardsWereAskedFor
    BoardCatchesUp
CHECK_DEADLOCK FALSE
