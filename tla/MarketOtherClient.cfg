SPECIFICATION Spec
CONSTANTS
    Clients = {c1, c2}
    Products = {p1}
    RequestTypes = {"subscribe", "unsubscribe"}
    Trades = FALSE
    MaxRequests = 3
    MaxChanges = 1
CHECK_DEADLOCK FALSE
INVARIANT
    OwnUnsubscribeIsSafe
