SPECIFICATION WalkSpec
CONSTANTS
    Ladders <- SortedLadders
    Quantities = {1, 2, 3, 4}
    MaxLevels = 3
    MaxPrice = 3
    MaxQuantity = 2
INVARIANT
    BestExecution
CHECK_DEADLOCK FALSE
