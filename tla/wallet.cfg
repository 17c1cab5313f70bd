SPECIFICATION Spec
CONSTANTS
    User = {"ann", "bob", "cy", "dan"}
    Game = {"g1", "g2"}
    Seats <- MCSeats
    EntryAmount <- MCEntryAmount
    WelcomeBonus = 4
    WinBonus = 1
    NoUser = NoUser
    NoTransaction = NoTransaction
INVARIANTS
    LedgerExplainsUnshared
    EntriesAllOrNone
    EachWinnerPaidOnce
\* both games are over or refused
CHECK_DEADLOCK FALSE
