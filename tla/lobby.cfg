SPECIFICATION Spec
CONSTANTS
    Self = "ann"
    Others = {"bob", "cy"}
    NoGame = NoGame
    NoRoom = NoRoom
    MaxOthers = 3
    MaxTaps = 2
    MaxLosses = 2
INVARIANTS
    QuietLobbyIsCurrent
    NobodyLeftBehind
    EntersOwnGame
\* the match starts, or the screen is left
CHECK_DEADLOCK FALSE
