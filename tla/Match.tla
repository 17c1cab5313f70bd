------------------------------- MODULE Match --------------------------------
(***************************************************************************)
(* One match, each handler of GameEngineService as one step: what the      *)
(* engine promises when the per-game lock serialises the handlers and      *)
(* nothing fails.  MatchHistory adds the rows the handlers write,          *)
(* GameEngine opens the steps up.                                          *)
(*                                                                         *)
(* deck is the shuffled and cut list of cards doStartGame deals, state the *)
(* saved GameState.                                                        *)
(***************************************************************************)
EXTENDS GameState

CONSTANT MaxRound    \* bound: statistics are called up to this round only

ASSUME BoundAssumption == MaxRound \in Nat

VARIABLES deck, state

vars == <<deck, state>>

Init ==
    /\ deck \in Shuffled
    /\ state = InitialState(deck)

SelectStatistic(p, s) ==
    /\ state.roundNumber <= MaxRound
    /\ CanSelect(state, p, s)

\* doSelectStatistic, then handleTie.
SelectAndTie(p, s) ==
    /\ SelectStatistic(p, s)
    /\ IsTie(state, s)
    /\ state' = AfterTie(state, s)
    /\ UNCHANGED deck

\* doSelectStatistic, then handleRoundResolved.
SelectAndResolve(p, s) ==
    /\ SelectStatistic(p, s)
    /\ ~IsTie(state, s)
    /\ state' = AfterRound(state, RoundWinner(state, p, s))
    /\ UNCHANGED deck

\* Mutant: no timer is armed for the picks of a tie.
TurnTimeoutNotInTie ==
    /\ state.status # "GAME_FINISHED"
    /\ state.tieState = NoTie
    /\ state' = AfterTimeout(state)
    /\ UNCHANGED deck

TurnTimeout ==
    /\ state.status # "GAME_FINISHED"
    /\ state' = AfterTimeout(state)
    /\ UNCHANGED deck

ForfeitMatch(p) ==
    /\ CanForfeit(state, p)
    /\ state' = AfterForfeit(state, p)
    /\ UNCHANGED deck

Next ==
    \/ \E p \in Seat, s \in StatSchema : SelectAndTie(p, s)
    \/ \E p \in Seat, s \in StatSchema : SelectAndResolve(p, s)
    \/ TurnTimeout
    \/ \E p \in Seat : ForfeitMatch(p)

Spec == Init /\ [][Next]_vars

\* The server's timer goes off whatever the clients do.
FairSpec == Spec /\ WF_vars(TurnTimeout)

-----------------------------------------------------------------------------
Finished == state.status = "GAME_FINISHED"

\* Places on the table: <<p, i>> is the i-th card of p's pile.
Places == UNION {{<<p, i>> : i \in 1..Len(state.cardIds[p])} : p \in Seat}
CardAt(place) == state.cardIds[place[1]][place[2]]

\* Type invariant of the deal and of the saved GameState.
TypeOK ==
    /\ deck \in [1..NumDealt -> Card]
    /\ state \in StateType

\* No handler loses, duplicates or invents a card: every card dealt lies in
\* exactly one place, whatever was shifted, pushed and moved with a deck.
CardConservation ==
    /\ \A a, b \in Places : CardAt(a) = CardAt(b) => a = b
    /\ {CardAt(a) : a \in Places} = {deck[i] : i \in 1..NumDealt}

\* Whoever is out has no card and whoever is in has one: a comparison never
\* reads the top card of an empty pile.
EliminatedIffEmpty ==
    \A p \in Seat : p \in state.isEliminated <=> state.cardIds[p] = <<>>

\* While the match runs, the turn is with a player who is still in, at least two
\* are in, the round's players are exactly those, and a tie is contested by
\* some of them.
TurnIsPlayable ==
    ~Finished =>
        /\ state.currentPlayerId \in Remaining(state)
        /\ state.roundActivePlayerIds = Remaining(state)
        /\ ~OneLeft(state)
        /\ state.tieState.contestingPlayerIds \subseteq Remaining(state)

\* GAME_RULES "a player wins by owning all cards": whichever handler ends the
\* match, the declared winner holds every card dealt.
WinnerOwnsAllCards ==
    Finished => \A a \in Places : a[1] = state.winnerId

\* finishGame ranks every player, no two alike and the winner first, also when
\* several fell in one round or a player left in the middle.
RankingIsTotal ==
    Finished =>
        LET rank == FinalRanks(state)
        IN  /\ \A p \in Seat : rank[p] \in 1..NumPlayers
            /\ \A p, q \in Seat : rank[p] = rank[q] => p = q
            /\ rank[state.winnerId] = 1

\* A tie is always a genuine one: at least two players contest it, and on every
\* statistic used so far their top cards compare by the same value.
TieIsGenuine ==
    state.tieState # NoTie =>
        /\ \E p, q \in state.tieState.contestingPlayerIds : p # q
        /\ \A i \in 1..Len(state.tieState.usedStatistics) :
             LET s == state.tieState.usedStatistics[i]
                 Value(p) == comparisonValue(s, Statistics[TopCard(state, p)][s])
             IN  \A p, q \in state.tieState.contestingPlayerIds :
                    Value(p) = Value(q) /\ Value(p) # NoValue

\* GAME_RULES tie rule: while a tie goes on no card moves, the caller stays the
\* same, nobody joins the contest and the used statistics only grow.
TieKeepsTheTable ==
    [][ (state.tieState # NoTie /\ state'.tieState # NoTie) =>
          /\ state'.cardIds = state.cardIds
          /\ state'.currentPlayerId = state.currentPlayerId
          /\ state'.tieState.contestingPlayerIds \subseteq state.tieState.contestingPlayerIds
          /\ Len(state'.tieState.usedStatistics) > Len(state.tieState.usedStatistics) ]_vars

\* A timer armed for a decision can not match a later one: each step of a
\* running match moves to the key of a later round, or of a longer tie of the
\* same caller.
DecisionKeyAdvances ==
    [][ ~Finished' =>
          LET old == decisionKeyFor(state)
              new == decisionKeyFor(state')
          IN  new[2] > old[2] \/ (new[1] = old[1] /\ new[2] = old[2] /\ new[3] > old[3]) ]_vars

\* A called statistic decided the round: no timeout, no forfeit, no tie.
RoundResolvedStep ==
    /\ state'.eventSequence > state.eventSequence
    /\ state'.livesRemaining = state.livesRemaining
    /\ state'.tieState = NoTie

\* GAME_RULES comparison rule: the call that breaks a tie is won by one of the tied
\* players, and the caller, who need not be one of them, is not compared.  The one
\* exception is a statistic that he can call and none of their cards has: he takes the
\* round.  (The state does not keep the statistic, so that there is one has to do.)
TieIsWonByTied ==
    [][ (RoundResolvedStep /\ state.tieState # NoTie) =>
          LET tied == state.tieState.contestingPlayerIds
              winner == IF Finished' THEN state'.winnerId ELSE state'.currentPlayerId
          IN  \/ winner \in tied
              \/ /\ winner = state.currentPlayerId
                 /\ \E s \in StatSchema :
                       /\ CanSelect(state, winner, s)
                       /\ \A p \in tied :
                             comparisonValue(s, Statistics[TopCard(state, p)][s]) = NoValue ]_vars

\* If the players stop calling statistics the timeouts alone end the match.
StallEnds == <>Finished
=============================================================================
