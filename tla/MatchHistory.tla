---------------------------- MODULE MatchHistory ----------------------------
(***************************************************************************)
(* Match with the card-collection history it writes to Postgres: owner is  *)
(* what the GameRoundCard rows say of each card dealt, the owner in its    *)
(* newest row, or the player it was dealt to before its first row.         *)
(***************************************************************************)
EXTENDS Match

VARIABLE owner

historyVars == <<deck, state, owner>>

DealtTo(c) == CHOOSE p \in Seat : \E i \in 1..PileSize(p) : Piles(deck)[p][i] = c

HistoryInit ==
    /\ Init
    /\ owner = [c \in {deck[i] : i \in 1..NumDealt} |-> DealtTo(c)]

\* gameRoundCard.create for each of the cards, with ownerUserId p.
WriteRoundCards(cards, p) ==
    owner' = [c \in DOMAIN owner |-> IF c \in cards THEN p ELSE owner[c]]

\* handleTie writes a GameRound without cards.
TieHistory ==
    /\ \E p \in Seat, s \in StatSchema : SelectAndTie(p, s)
    /\ UNCHANGED owner

RoundHistory ==
    \E p \in Seat, s \in StatSchema :
        LET w == RoundWinner(state, p, s)
        IN  SelectAndResolve(p, s) /\ WriteRoundCards(RoundCards(state, w), w)

TimeoutHistory ==
    /\ TurnTimeout
    /\ WriteRoundCards(TimeoutCards(state), NextPlayer(state, state.currentPlayerId))

ForfeitHistory ==
    \E p \in Seat :
        ForfeitMatch(p) /\ WriteRoundCards(ForfeitCards(state, p), NextPlayer(state, p))

HistoryNext == TieHistory \/ RoundHistory \/ TimeoutHistory \/ ForfeitHistory

\* As in Match, only the server's timer is sure to go off.
HistorySpec ==
    HistoryInit /\ [][HistoryNext]_historyVars /\ WF_historyVars(TimeoutHistory)

-----------------------------------------------------------------------------
\* schema.prisma: GameRoundCard is the auditable card-collection history, so its
\* newest rows name the holders of the cards.
AuditNamesHolders == \A a \in Places : owner[CardAt(a)] = a[1]

\* It does so as long as nobody has run out of lives: rounds, timeouts and
\* forfeits account for every card they move.
AuditNamesHoldersWhileLivesLast ==
    (\A p \in Seat : state.livesRemaining[p] > 0) => AuditNamesHolders
=============================================================================
