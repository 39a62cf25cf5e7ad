SPECIFICATION DeliverySpec
CONSTANTS
    Clients = {c1}
    Products = {p1}
    RequestTypes = {"subscribe", "unsubscribe"}
    Trades = TRUE
    MaxRequests = 3
    MaxChanges = 4
    MaxSeq = 4
CHECK_DEADLOCK FALSE
INVARIANTS
    InOrderIsExact
    MissingWereReversed
    RepeatedOnNewerBook
PROPERTY
    NeverGoesBack
