SPECIFICATION DeliverySpec
CONSTANTS
    Clients = {c1}
    Products = {p1}
    RequestTypes = {"subscribe"}
    Trades = FALSE
    MaxRequests = 1
    MaxChanges = 2
    MaxSeq = 2
CHECK_DEADLOCK FALSE
INVARIANT
    BookUpToDate
