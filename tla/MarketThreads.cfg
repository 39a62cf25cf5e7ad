SPECIFICATION FairSpec
CONSTANTS
    Clients = {c1}
    Products = {p1, p2}
    RequestTypes = {"subscribe", "unsubscribe"}
    Trades = TRUE
    MaxRequests = 3
    MaxChanges = 3
CHECK_DEADLOCK FALSE
INVARIANTS
    TypeOK
    RegistriesAgree
    EachChangeOnce
    DroppedAreOrphans
    BatchesInOrder
PROPERTIES
    RequestsReturn
    ChangesProcessed
