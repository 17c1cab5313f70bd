SPECIFICATION Spec
CONSTANTS
    NoValue = NoValue
    NoDeckSize = NoDeckSize
    NoState = NoState
    NoTimer = NoTimer
    NumPlayers = 2
    Card <- MCCards3
    StatSchema <- MCSchema
    Statistics <- MCStatistics
    DeckSize = NoDeckSize
    StartingLives = 2
    MayFail = TRUE
    MayCrash = TRUE
    MaxRequests = 3
    MaxFaults = 2
INVARIANTS
    PaidBeforeShown
    LogExplainsState
PROPERTIES
    StoreFollowsMatch
\* the match ends, or a fault stops it
CHECK_DEADLOCK FALSE
