SPECIFICATION Spec
CONSTANTS
    User = {"ann", "bob", "cy", "dan"}
    Game = {"g1", "g2"}
    Seats <- MCSeats
    EntryAmount <- MCEntryAmount
    WelcomeBonus = 4
    WinBonus = 1
    NoUser = NoUser
    NoTransaction = NoTransaction
INVARIANTS
    LedgerExplainsBalance
CHECK_DEADLOCK FALSE
