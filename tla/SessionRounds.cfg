SPECIFICATION FairSpec
CONSTANTS
    a = a
    p = p
    q = q
    Programs <- OneProgram
    Others = {o}
    Products <- TwoProducts
    Listed <- OneListed
    Scenario <- RoundsScenario
    ListingMayFail = TRUE
    Missing = Missing
    MaxOther = 2
    MaxRestarts = 1
CHECK_DEADLOCK FALSE
INVARIANTS
    TypeOK
    IdsKnown
    FlagsExist
PROPERTIES
    ConfirmedIsHeard
    FirstRoundStops
    ScenarioPlayed
