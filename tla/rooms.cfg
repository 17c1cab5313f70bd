SPECIFICATION Spec
CONSTANTS
    User = {"ann", "bob", "cy"}
    Creator = "ann"
    MaxPlayers = 2
    NoGame = NoGame
    Request = {r1, r2}
    MaxCrashes = 1
SYMMETRY Symmetry
INVARIANTS
    AloneKeepsRoomWhole
    StartedRoomIsPlayable
PROPERTIES
    OneGameForGood
