SPECIFICATION FairSpec
CONSTANTS
    NoValue = NoValue
    NoDeckSize = NoDeckSize
    NoView = NoView
    NoCard = NoCard
    NumPlayers = 2
    Card <- MCCards3
    StatSchema <- MCSchema
    Statistics <- MCStatistics
    DeckSize = NoDeckSize
    StartingLives = 1
    Self = 1
    MaxRound = 2
    MaxTaps = 2
    MaxDrops = 2
INVARIANTS
    QuietViewIsCurrent
PROPERTIES
    OverlaysEnd
\* the match ends
CHECK_DEADLOCK FALSE
