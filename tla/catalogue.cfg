SPECIFICATION Spec
CONSTANTS
    NoValue = NoValue
    NoInnings = NoInnings
    NoWicket = NoWicket
    NoFigure = NoFigure
    NoFile = NoFile
    NotRunning = NotRunning
    Person = {"a", "b", "c", "d"}
    FORMATS <- MCFormats
    CARD_SETS <- MCCardSets
    Squads <- MCSquads
    Spells <- MCSpells
    PoolSize = 3
    MaxInnings = 3
    MaxSpells = 2
    Worker = {1, 2}
    CheckpointEvery = 2
    Seeder = {"s1", "s2"}
    MaxStops = 1
INVARIANTS
    CareersBalance
    BestFigureWins
    CardsAreComparable
    RatingsFollowForm
    LookupsAreShared
    CatalogueIsWhole
\* the catalogue is there
CHECK_DEADLOCK FALSE
