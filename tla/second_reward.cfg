SPECIFICATION Spec
CONSTANTS
    NoValue = NoValue
    NoDeckSize = NoDeckSize
    NoState = NoState
    NoTimer = NoTimer
    NumPlayers = 2
    Card <- MCCards3
    StatSchema <- MCSchema
    Statistics <- MCStatistics
    DeckSize = NoDeckSize
    StartingLives = 2
    MayFail = TRUE
    MayCrash = FALSE
    MaxRequests = 3
    MaxFaults = 1
INVARIANTS
    SingleReward
CHECK_DEADLOCK FALSE
