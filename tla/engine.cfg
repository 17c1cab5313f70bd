SPECIFICATION FairSpec
CONSTANTS
    NoValue = NoValue
    NoDeckSize = NoDeckSize
    NoState = NoState
    NoTimer = NoTimer
    NumPlayers = 2
    Card <- MCCards3
    StatSchema <- MCSchema
    Statistics <- MCStatistics
    DeckSize = NoDeckSize
    StartingLives = 2
    MayFail = FALSE
    MayCrash = FALSE
    MaxRequests = 3
    MaxFaults = 0
INVARIANTS
    TimerGuardsDecision
PROPERTIES
    LifeLostToOwnTimer
    ImplementsFairMatch
\* the match ends
CHECK_DEADLOCK FALSE
