SPECIFICATION FairSpec
CONSTANTS
    Clients = {c1}
    Products = {p1}
    RequestTypes = {"subscribe", "unsubscribe"}
    Trades = TRUE
    MaxRequests = 2
    MaxChanges = 0
CHECK_DEADLOCK FALSE
PROPERTY
    UnsubscribeReturns
