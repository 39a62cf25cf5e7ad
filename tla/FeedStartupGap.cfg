SPECIFICATION Spec
CONSTANTS
    StartSeq = 1
    MaxSeq = 4
    Lossy = FALSE
    Echoes = FALSE
    RestMayFail = FALSE
CHECK_DEADLOCK FALSE
INVARIANT
    AllConsecutive
