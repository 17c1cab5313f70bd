----------------------------- MODULE GameState ------------------------------
(***************************************************************************)
(* The live GameState of game-state.types.ts and what each handler of      *)
(* GameEngineService computes from it.  An operator After...(st) is the    *)
(* state one handler saves when it loaded st; when the handler may run is  *)
(* an operator Can...(st).  Match runs the handlers one at a time,         *)
(* GameEngine runs them in phases against the lock, the timer, Redis and   *)
(* the database.                                                           *)
(*                                                                         *)
(* A player is his seat (the order of state.players).  isEliminated is the *)
(* set of eliminated seats, cardIds, cardsWonCount and livesRemaining are  *)
(* functions of the seat.  A null tieState is NoTie, a missing winnerId    *)
(* NoSeat.                                                                 *)
(***************************************************************************)
EXTENDS StatComparison, Sequences, FiniteSets

CONSTANTS
    NumPlayers,          \* players of the match
    Card,                \* the eligible cards of the card set
    StatSchema,          \* batting and bowling fields of the card set
    Statistics,          \* Statistics[c][f]: raw value of field f on card c
    DeckSize,            \* room.deckSize; NoDeckSize when it is null
    NoDeckSize,
    StartingLives        \* TURN_TIMEOUT_STARTING_LIVES

ASSUME PlayersAssumption == NumPlayers \in Nat /\ NumPlayers >= 2
ASSUME CardsAssumption ==
    /\ IsFiniteSet(Card)
    /\ Cardinality(Card) >= NumPlayers      \* doStartGame refuses fewer cards
ASSUME DeckAssumption ==
    \/ DeckSize = NoDeckSize
    \/ DeckSize \in Nat /\ DeckSize >= NumPlayers   \* CreateRoomDto: at least 10
ASSUME LivesAssumption == StartingLives \in Nat \ {0}
ASSUME StatisticsAssumption ==
    \A c \in Card : \A f \in StatSchema : IsRaw(Statistics[c][f])

Seat == 1..NumPlayers
NoSeat == 0
NoTie == [contestingPlayerIds |-> {}, usedStatistics |-> <<>>]

StateType ==
    [cardIds : [Seat -> Seq(Card)],
     isEliminated : SUBSET Seat,
     cardsWonCount : [Seat -> Nat],
     livesRemaining : [Seat -> 0..StartingLives],
     roundNumber : Nat \ {0},
     currentPlayerId : Seat,
     roundActivePlayerIds : SUBSET Seat,
     tieState : [contestingPlayerIds : SUBSET Seat, usedStatistics : Seq(StatSchema)],
     eliminationOrder : Seq(Seat),
     eventSequence : Nat,
     status : {"PLAYER_TURN", "GAME_FINISHED"},
     winnerId : Seat \cup {NoSeat}]

-----------------------------------------------------------------------------
(***************************************************************************)
(* doStartGame: a shuffled pool, cut to the deck size, dealt round-robin.  *)
(***************************************************************************)
NumDealt == IF DeckSize # NoDeckSize /\ DeckSize < Cardinality(Card)
            THEN DeckSize ELSE Cardinality(Card)

Shuffled == {deck \in [1..NumDealt -> Card] :
                \A i, j \in 1..NumDealt : i # j => deck[i] # deck[j]}

PileSize(p) == (NumDealt - p + NumPlayers) \div NumPlayers

Piles(deck) ==
    [p \in Seat |-> [i \in 1..PileSize(p) |-> deck[p + (i - 1) * NumPlayers]]]

InitialState(deck) ==
    [cardIds |-> Piles(deck),
     isEliminated |-> {},
     cardsWonCount |-> [p \in Seat |-> 0],
     livesRemaining |-> [p \in Seat |-> StartingLives],
     roundNumber |-> 1,
     currentPlayerId |-> 1,
     roundActivePlayerIds |-> Seat,
     tieState |-> NoTie,
     eliminationOrder |-> <<>>,
     eventSequence |-> 0,
     status |-> "PLAYER_TURN",
     winnerId |-> NoSeat]

-----------------------------------------------------------------------------
Remaining(st) == Seat \ st.isEliminated

TopCard(st, p) == Head(st.cardIds[p])

\* activeIds[(idx + 1) % activeIds.length]
NextPlayer(st, p) ==
    LET others == Remaining(st) \ {p}
        later == {q \in others : q > p}
        First(S) == CHOOSE q \in S : \A r \in S : q <= r
    IN  IF later # {} THEN First(later) ELSE First(others \cup {p})

\* The members of S as state.players lists them.
SeatOrders(S) ==
    {o \in [1..Cardinality(S) -> S] :
        /\ \A i, j \in 1..Cardinality(S) : i < j => o[i] < o[j]
        /\ \A p \in S : \E i \in 1..Cardinality(S) : o[i] = p}
SeatOrder(S) == CHOOSE o \in SeatOrders(S) : TRUE

\* A tie keeps current player and round, so the tie's length is part of the key.
decisionKeyFor(st) ==
    <<st.currentPlayerId, st.roundNumber, Len(st.tieState.usedStatistics)>>

-----------------------------------------------------------------------------
\* The common end of every handler: the game is decided, or p plays next.
Decided(st, winner) ==
    [st EXCEPT !.tieState = NoTie, !.status = "GAME_FINISHED", !.winnerId = winner]

\* Mutant: the players of the last round stay the round's players.
NextTurnOfSameRound(st, p) ==
    [st EXCEPT !.tieState = NoTie, !.roundNumber = @ + 1, !.currentPlayerId = p]

\* Mutant: the round is not counted.
NextTurnUncounted(st, p) ==
    [st EXCEPT !.tieState = NoTie, !.currentPlayerId = p,
               !.roundActivePlayerIds = Remaining(st)]

NextTurn(st, p) ==
    [st EXCEPT !.tieState = NoTie,
               !.roundNumber = @ + 1,
               !.currentPlayerId = p,
               !.roundActivePlayerIds = Remaining(st)]

\* Mutant: off by one.
AtMostTwoLeft(st) == Cardinality(Remaining(st)) <= 2

OneLeft(st) == \A p, q \in Remaining(st) : p = q

\* remaining[0]?.userId ?? nextPlayerId
LastPlayer(st, p) ==
    IF Remaining(st) = {} THEN p ELSE CHOOSE q \in Remaining(st) : TRUE

-----------------------------------------------------------------------------
(***************************************************************************)
(* doSelectStatistic, handleTie and handleRoundResolved.                   *)
(***************************************************************************)
\* Mutant: everyone is compared again during a tie.
ComparisonOfEveryone(st) == Remaining(st)

ComparisonPlayers(st) ==
    IF st.tieState = NoTie THEN Remaining(st) ELSE st.tieState.contestingPlayerIds

AlreadyUsed(st, s) ==
    \E i \in 1..Len(st.tieState.usedStatistics) : st.tieState.usedStatistics[i] = s

CanSelect(st, p, s) ==
    /\ st.status # "GAME_FINISHED"
    /\ st.currentPlayerId = p
    /\ ~AlreadyUsed(st, s)
    /\ isSelectableStatistic(s, StatSchema, Statistics[TopCard(st, p)])

Values(st, s) ==
    [p \in ComparisonPlayers(st) |-> comparisonValue(s, Statistics[TopCard(st, p)][s])]

Winners(st, s) == determineWinners(Values(st, s), s)

IsTie(st, s) == \E p, q \in Winners(st, s) : p # q

\* winners[0] ?? userId: nobody compared has a value, so the caller takes it.
RoundWinner(st, p, s) ==
    IF Winners(st, s) = {} THEN p ELSE CHOOSE q \in Winners(st, s) : TRUE

\* Mutant: a tie within a tie forgets the statistics used before.
AfterTieForgetful(st, s) ==
    [st EXCEPT !.tieState = [contestingPlayerIds |-> Winners(st, s), usedStatistics |-> <<s>>],
               !.eventSequence = @ + 1]

AfterTie(st, s) ==
    [st EXCEPT !.tieState = [contestingPlayerIds |-> Winners(st, s),
                             usedStatistics |-> Append(@.usedStatistics, s)],
               !.eventSequence = @ + 1]

RoundLosers(st, w) == st.roundActivePlayerIds \ {w}

\* The losers' top cards in seat order.
CollectedCards(st, w) ==
    LET losers == SeatOrder({p \in RoundLosers(st, w) : st.cardIds[p] # <<>>})
    IN  [i \in DOMAIN losers |-> TopCard(st, losers[i])]

\* Mutant: the winner's shifted card is not pushed back.
PilesDroppingOwnCard(st, w) ==
    [p \in Seat |->
        CASE p = w -> Tail(st.cardIds[w]) \o CollectedCards(st, w)
          [] p \in RoundLosers(st, w) /\ st.cardIds[p] # <<>> -> Tail(st.cardIds[p])
          [] OTHER -> st.cardIds[p]]

\* The winner's own card goes under his deck, the collected cards under it.
PilesAfterRound(st, w) ==
    [p \in Seat |->
        CASE p = w -> Tail(st.cardIds[w]) \o <<TopCard(st, w)>> \o CollectedCards(st, w)
          [] p \in RoundLosers(st, w) /\ st.cardIds[p] # <<>> -> Tail(st.cardIds[p])
          [] OTHER -> st.cardIds[p]]

\* Mutant: only the players compared are looked at.
FallenInComparison(st, w) ==
    {p \in ComparisonPlayers(st) \ {w} : PilesAfterRound(st, w)[p] = <<>>}

Fallen(st, w) ==
    {p \in RoundLosers(st, w) \ st.isEliminated : PilesAfterRound(st, w)[p] = <<>>}

AfterRound(st, w) ==
    LET collected == [st EXCEPT
            !.cardIds = PilesAfterRound(st, w),
            !.cardsWonCount[w] = @ + Len(CollectedCards(st, w)),
            !.isEliminated = @ \cup Fallen(st, w),
            !.eliminationOrder = @ \o SeatOrder(Fallen(st, w)),
            !.eventSequence = @ + 1]
    IN  IF OneLeft(collected) THEN Decided(collected, w) ELSE NextTurn(collected, w)

-----------------------------------------------------------------------------
\* Cards of p go under next's deck, rest stays with p.
MoveCards(piles, p, rest, next, moved) ==
    [piles EXCEPT ![p] = rest, ![next] = @ \o moved]

(***************************************************************************)
(* handleTurnTimeout: the current player forfeits his top card and a life; *)
(* at zero lives or zero cards he is out and the rest of his deck follows. *)
(***************************************************************************)
\* Mutant: lives are counted but never run out.
IsOutOfCards(st, p) == Len(st.cardIds[p]) <= 1

\* The code also asks that he is not out already, which a player on turn never is.
IsOut(st, p) == st.livesRemaining[p] - 1 <= 0 \/ Len(st.cardIds[p]) <= 1

AfterTimeout(st) ==
    LET p == st.currentPlayerId
        next == NextPlayer(st, p)
        forfeited == IF st.cardIds[p] = <<>> THEN <<>> ELSE <<TopCard(st, p)>>
        rest == IF st.cardIds[p] = <<>> THEN <<>> ELSE Tail(st.cardIds[p])
        paid == [st EXCEPT
            !.cardIds = IF IsOut(st, p)
                        THEN MoveCards(@, p, <<>>, next, forfeited \o rest)
                        ELSE MoveCards(@, p, rest, next, forfeited),
            !.cardsWonCount[next] = @ + Len(forfeited),
            !.livesRemaining[p] = @ - 1,
            !.eventSequence = @ + 1,
            !.isEliminated = IF IsOut(st, p) THEN @ \cup {p} ELSE @,
            !.eliminationOrder = IF IsOut(st, p) THEN Append(@, p) ELSE @]
    IN  IF OneLeft(paid) THEN Decided(paid, LastPlayer(paid, next))
                         ELSE NextTurn(paid, next)

-----------------------------------------------------------------------------
(***************************************************************************)
(* doForfeitMatch: the whole deck moves to the next player.                *)
(***************************************************************************)
CanForfeit(st, p) ==
    /\ st.status # "GAME_FINISHED"
    /\ p \notin st.isEliminated

AfterForfeit(st, p) ==
    LET next == NextPlayer(st, p)
        quit == [st EXCEPT
            !.cardIds = MoveCards(@, p, <<>>, next, st.cardIds[p]),
            !.cardsWonCount[next] = @ + Len(st.cardIds[p]),
            !.isEliminated = @ \cup {p},
            !.eliminationOrder = Append(@, p)]
    IN  IF OneLeft(quit) THEN Decided(quit, LastPlayer(quit, next))
                         ELSE NextTurn(quit, next)

-----------------------------------------------------------------------------
(***************************************************************************)
(* The GameRoundCard rows a handler writes: the cards and their new owner. *)
(***************************************************************************)
RoundCards(st, w) ==
    {TopCard(st, p) : p \in {q \in RoundLosers(st, w) \cup {w} : st.cardIds[q] # <<>>}}
TimeoutCards(st) ==
    IF st.cardIds[st.currentPlayerId] = <<>> THEN {} ELSE {TopCard(st, st.currentPlayerId)}

\* Mutant: only the top card is accounted for.
ForfeitTopCard(st, p) == {TopCard(st, p)}

ForfeitCards(st, p) == {st.cardIds[p][i] : i \in 1..Len(st.cardIds[p])}

\* Mutant: the winner is not in the list.
RankedEliminations(st) ==
    [i \in 1..Len(st.eliminationOrder) |->
        st.eliminationOrder[Len(st.eliminationOrder) + 1 - i]]

\* finishGame: [winnerId, ...[...state.eliminationOrder].reverse()]
Ranked(st) ==
    [i \in 1..(Len(st.eliminationOrder) + 1) |->
        IF i = 1 THEN st.winnerId
                 ELSE st.eliminationOrder[Len(st.eliminationOrder) + 2 - i]]

\* The last finalRank written for each player, 0 when he is not in the list.
FinalRanks(st) ==
    LET Ranks(p) == {i \in DOMAIN Ranked(st) : Ranked(st)[i] = p}
    IN  [p \in Seat |->
            IF Ranks(p) = {} THEN 0 ELSE CHOOSE i \in Ranks(p) : \A j \in Ranks(p) : j <= i]
=============================================================================
