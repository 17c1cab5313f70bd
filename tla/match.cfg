SPECIFICATION HistorySpec
CONSTANTS
    NoValue = NoValue
    NoDeckSize = NoDeckSize
    NumPlayers = 4
    Card <- MCCards5
    StatSchema <- MCSchema
    Statistics <- MCStatistics
    DeckSize = NoDeckSize
    StartingLives = 2
    MaxRound = 3
INVARIANTS
    TypeOK
    CardConservation
    EliminatedIffEmpty
    TurnIsPlayable
    WinnerOwnsAllCards
    RankingIsTotal
    TieIsGenuine
    AuditNamesHoldersWhileLivesLast
PROPERTIES
    TieKeepsTheTable
    DecisionKeyAdvances
    TieIsWonByTied
    StallEnds
\* the match ends
CHECK_DEADLOCK FALSE
