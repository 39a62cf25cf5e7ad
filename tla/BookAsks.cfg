SPECIFICATION Spec
CONSTANTS
    buy = buy
    sell = sell
    Orders <- TwoOrders
    OrderSide <- Sides
    MaxSize = 1
    MaxMerge = 2
    MaxBatch = 1
    MatchSide = "taker"
CHECK_DEADLOCK FALSE
INVARIANT
    AsksAgree
