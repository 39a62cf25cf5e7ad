SPECIFICATION FairFlowSpec
CONSTANTS
    p1 = p1
    p2 = p2
    p3 = p3
    Clients = {c1}
    Client = c1
    Products = {p2}
    RequestTypes = {"subscribe", "unsubscribe"}
    Trades = TRUE
    MaxRequests = 3
    MaxChanges = 0
    Listing <- ThreeListed
    Kinds <- ThreeKinds
    MaxMessages = 2
    MayDrop = TRUE
CHECK_DEADLOCK FALSE
INVARIANTS
    FlowTypeOK
    FeedFollowsRegistry
    BindsSucceed
    ValuesGiven
PROPERTIES
    ChannelSpec
    WireDrains
    HeardIsShown
