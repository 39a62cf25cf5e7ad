SPECIFICATION Spec
CONSTANTS
    buy = buy
    sell = sell
    Orders <- TwoOrders
    OrderSide <- Sides
    MaxSize = 2
    MaxMerge = 2
    MaxBatch = 3
    MatchSide = "taker"
CHECK_DEADLOCK FALSE
INVARIANTS
    TypeOK
    LiveMirrored
    ListedOnce
    StaleWereClosed
