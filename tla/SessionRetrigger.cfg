SPECIFICATION FairSpec
CONSTANTS
    a = a
    p = p
    q = q
    Programs <- OneProgram
    Others = {}
    Products <- OneListed
    Listed <- OneListed
    Scenario <- OneScenario
    ListingMayFail = FALSE
    Missing = Missing
    MaxOther = 0
    MaxRestarts = 1
CHECK_DEADLOCK FALSE
PROPERTY
    Retriggers
