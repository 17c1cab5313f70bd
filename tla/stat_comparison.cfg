SPECIFICATION ComparisonSpec
CONSTANTS
    NoValue = NoValue
    Players = {1, 2, 3}
    Raws <- MCRaws
    Schema = {"runs", "economyRate", "bestBowling", "dateOfBirth"}
INVARIANTS
    FiguresFollowCricket
    SelectableIsComparable
