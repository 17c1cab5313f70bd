---------------------------- MODULE MatchProofs -----------------------------
(***************************************************************************)
(* Match is correct for every number of players, every set of cards, every *)
(* deck size and every number of lives.                                    *)
(*                                                                         *)
(* The inductive invariant is GoodState(state): the type, piles empty      *)
(* exactly for the eliminated, a life left to everybody still in (else the *)
(* next timeout would take one that is not there), a playable turn while   *)
(* the match runs and the winner alone left when it is over.  None of its  *)
(* parts is inductive alone: a round reads top cards (type), which needs   *)
(* piles that are not empty, which needs the round's players to be those   *)
(* still in.                                                               *)
(*                                                                         *)
(* The second half adds what becomes of the cards, of the ranking and of a *)
(* tie: the piles are a partition of the cards dealt, the order of         *)
(* elimination lists the eliminated players each once, and the cards of    *)
(* tied players compare by the same values.                                *)
(***************************************************************************)
EXTENDS MatchHistory, GameStateLemmas, SequenceTheorems, FunctionTheorems

-----------------------------------------------------------------------------
IInv ==
    /\ deck \in Shuffled
    /\ GoodState(state)

\* A match starts in a good state, from a deck that is an order of the cards.
LEMMA InitHolds == Init => IInv
  BY StartIsGood DEF Init, IInv, InPlay

\* A statistic is called only in a running match.
LEMMA InPlayWhenCalled ==
    ASSUME IInv, NEW p \in Seat, NEW s \in StatSchema, SelectStatistic(p, s)
    PROVE  InPlay(state) /\ p = state.currentPlayerId
  BY DEF IInv, SelectStatistic, CanSelect, InPlay

\* Every handler, and every step of something else, keeps the invariant.
LEMMA StepHolds == IInv /\ [Next]_vars => IInv'
<1> SUFFICES ASSUME IInv, [Next]_vars PROVE IInv'
  OBVIOUS
<1>1. ASSUME NEW p \in Seat, NEW s \in StatSchema, SelectAndTie(p, s) PROVE IInv'
  <2>1. InPlay(state) BY <1>1, InPlayWhenCalled DEF SelectAndTie
  <2>2. GoodState(AfterTie(state, s)) BY <2>1, TieStep
  <2> QED BY <1>1, <2>2 DEF SelectAndTie, IInv
<1>2. ASSUME NEW p \in Seat, NEW s \in StatSchema, SelectAndResolve(p, s) PROVE IInv'
  <2>1. InPlay(state) /\ p = state.currentPlayerId
    BY <1>2, InPlayWhenCalled DEF SelectAndResolve
  <2>2. GoodState(AfterRound(state, RoundWinner(state, p, s)))
    BY <2>1, RoundWinnerRemains, RoundStep
  <2> QED BY <1>2, <2>2 DEF SelectAndResolve, IInv
<1>3. CASE TurnTimeout
  <2>1. GoodState(AfterTimeout(state)) BY <1>3, TimeoutStep DEF TurnTimeout, IInv, InPlay
  <2> QED BY <1>3, <2>1 DEF TurnTimeout, IInv
<1>4. ASSUME NEW p \in Seat, ForfeitMatch(p) PROVE IInv'
  <2>1. InPlay(state) /\ p \in Remaining(state)
    BY <1>4 DEF ForfeitMatch, CanForfeit, IInv, InPlay, Remaining
  <2>2. GoodState(AfterForfeit(state, p)) BY <2>1, ForfeitStep
  <2> QED BY <1>4, <2>2 DEF ForfeitMatch, IInv
<1>5. CASE UNCHANGED vars
  BY <1>5 DEF vars, IInv, GoodState, Remaining, OneLeft
<1> QED BY <1>1, <1>2, <1>3, <1>4, <1>5 DEF Next

\* The state every handler of game.state.ts finds is good, in every match.
THEOREM Inductive == Spec => []IInv
  BY InitHolds, StepHolds, PTL DEF Spec

\* Every state a match reaches is a GameState: piles of cards of the deck,
\* lives within what was dealt, a winner who is a player or nobody.
THEOREM TypeCorrect == Spec => []TypeOK
<1>1. IInv => TypeOK
  BY DEF IInv, GoodState, TypeOK, Shuffled
<1> QED BY <1>1, Inductive, PTL

\* In every match the eliminated players are exactly those without cards:
\* no handler forgets one, and none eliminates a player who still holds cards.
THEOREM EmptyPilesAreOut == Spec => []EliminatedIffEmpty
<1>1. IInv => EliminatedIffEmpty
  BY DEF IInv, GoodState, EliminatedIffEmpty
<1> QED BY <1>1, Inductive, PTL

\* In every running match the turn is with a player who is still in and
\* holds a card to call, and every player of the round has one to compare.
THEOREM TurnsArePlayable == Spec => []TurnIsPlayable
<1>1. IInv => TurnIsPlayable
  BY DEF IInv, GoodState, TurnIsPlayable, Finished
<1> QED BY <1>1, Inductive, PTL

\* A decided match has one player left, the winner, and every other pile is
\* empty.
THEOREM WinnerTakesAll == Spec => []WinnerOwnsAllCards
<1>1. IInv => WinnerOwnsAllCards
  <2> SUFFICES ASSUME IInv, Finished, NEW p \in Seat, NEW i \in 1..Len(state.cardIds[p])
               PROVE  p = state.winnerId
    BY DEF WinnerOwnsAllCards, Places
  <2>1. SUFFICES ASSUME p # state.winnerId PROVE FALSE OBVIOUS
  <2>2. p \in state.isEliminated
    BY <2>1 DEF IInv, GoodState, Finished, Remaining
  <2>3. state.cardIds[p] = <<>> BY <2>2 DEF IInv, GoodState
  <2> QED BY <2>3
<1> QED BY <1>1, Inductive, PTL

\* Every step of a match is a tie, or the end of the round.
LEMMA TieOrEnd ==
    ASSUME IInv, Next
    PROVE  \/ \E s \in StatSchema :
                InPlay(state) /\ IsTie(state, s) /\ state' = AfterTie(state, s)
           \/ EndsRound(state, state')
<1>1. state \in StateType BY DEF IInv, GoodState
<1>2. ASSUME NEW p \in Seat, NEW s \in StatSchema, SelectAndTie(p, s)
      PROVE  InPlay(state) /\ IsTie(state, s) /\ state' = AfterTie(state, s)
  BY <1>2, InPlayWhenCalled DEF SelectAndTie
<1>3. ASSUME NEW p \in Seat, NEW s \in StatSchema, SelectAndResolve(p, s)
      PROVE  EndsRound(state, state')
  <2>1. RoundWinner(state, p, s) \in Seat
    BY <1>3, InPlayWhenCalled, RoundWinnerRemains DEF SelectAndResolve, Remaining
  <2> QED BY <1>1, <1>3, <2>1, HandlersEndTheRound DEF SelectAndResolve
<1>4. CASE TurnTimeout
  BY <1>1, <1>4, HandlersEndTheRound DEF TurnTimeout
<1>5. ASSUME NEW p \in Seat, ForfeitMatch(p) PROVE EndsRound(state, state')
  BY <1>1, <1>5, HandlersEndTheRound DEF ForfeitMatch
<1> QED BY <1>2, <1>3, <1>4, <1>5 DEF Next

\* GAME_RULES tie rule, for every match: while a tie goes on no card moves, the
\* caller stays, nobody joins the contest and the used statistics grow.
THEOREM TiesKeepTheTable == Spec => TieKeepsTheTable
<1> DEFINE Keeps ==
        (state.tieState # NoTie /\ state'.tieState # NoTie) =>
          /\ state'.cardIds = state.cardIds
          /\ state'.currentPlayerId = state.currentPlayerId
          /\ state'.tieState.contestingPlayerIds \subseteq state.tieState.contestingPlayerIds
          /\ Len(state'.tieState.usedStatistics) > Len(state.tieState.usedStatistics)
<1>1. IInv /\ [Next]_vars => [Keeps]_vars
  <2> SUFFICES ASSUME IInv, Next, state.tieState # NoTie, state'.tieState # NoTie PROVE Keeps
    OBVIOUS
  <2>1. PICK s \in StatSchema : InPlay(state) /\ state' = AfterTie(state, s)
    BY TieOrEnd DEF EndsRound
  <2>2. ComparisonPlayers(state) = state.tieState.contestingPlayerIds
    BY DEF ComparisonPlayers
  <2>3. Len(state.tieState.usedStatistics) \in Nat
    BY DEF IInv, GoodState, StateType
  <2>4. /\ state'.cardIds = state.cardIds
        /\ state'.currentPlayerId = state.currentPlayerId
        /\ state'.tieState.contestingPlayerIds \subseteq ComparisonPlayers(state)
        /\ Len(state'.tieState.usedStatistics) = Len(state.tieState.usedStatistics) + 1
    BY <2>1, TieEffect
  <2> QED BY <2>2, <2>3, <2>4
<1> QED BY <1>1, Inductive, PTL DEF Spec, TieKeepsTheTable

\* Each step of a running match moves to the key of a later decision, so a timer
\* armed for a decision that is over matches no later one.
THEOREM KeysAdvance == Spec => DecisionKeyAdvances
<1> DEFINE Advances ==
        ~Finished' =>
          LET old == decisionKeyFor(state)
              new == decisionKeyFor(state')
          IN  new[2] > old[2] \/ (new[1] = old[1] /\ new[2] = old[2] /\ new[3] > old[3])
<1>1. IInv /\ [Next]_vars => [Advances]_vars
  <2> SUFFICES ASSUME IInv, Next, state'.status # "GAME_FINISHED" PROVE Advances
    BY DEF Finished
  <2>1. Len(state.tieState.usedStatistics) \in Nat /\ state.roundNumber \in Nat
    BY DEF IInv, GoodState, StateType
  <2>2. CASE EndsRound(state, state')
    BY <2>1, <2>2 DEF EndsRound, decisionKeyFor
  <2>3. CASE \E s \in StatSchema : InPlay(state) /\ state' = AfterTie(state, s)
    <3>1. /\ state'.currentPlayerId = state.currentPlayerId
          /\ state'.roundNumber = state.roundNumber
          /\ Len(state'.tieState.usedStatistics) = Len(state.tieState.usedStatistics) + 1
      BY <2>3, TieEffect
    <3> QED BY <2>1, <3>1 DEF decisionKeyFor
  <2> QED BY <2>2, <2>3, TieOrEnd
<1> QED BY <1>1, Inductive, PTL DEF Spec, DecisionKeyAdvances

-----------------------------------------------------------------------------
\* Two sequences without repetition and without a common element make one
\* without repetition.
LEMMA ConcatInjective ==
    ASSUME NEW S, NEW s \in Seq(S), NEW t \in Seq(S),
           IsInjective(s), IsInjective(t), Range(s) \cap Range(t) = {}
    PROVE  IsInjective(s \o t)
<1> DEFINE u == s \o t
<1>1. /\ u \in Seq(S) /\ Len(u) = Len(s) + Len(t)
      /\ \A i \in 1..(Len(s) + Len(t)) : u[i] = IF i <= Len(s) THEN s[i] ELSE t[i - Len(s)]
      /\ Len(s) \in Nat /\ Len(t) \in Nat /\ DOMAIN u = 1..Len(u)
  BY ConcatProperties, LenProperties
<1>2. DOMAIN s = 1..Len(s) /\ DOMAIN t = 1..Len(t)
  BY LenProperties
<1> HIDE DEF u
<1>3. SUFFICES ASSUME NEW i \in 1..Len(u), NEW j \in 1..Len(u), u[i] = u[j] PROVE i = j
  BY <1>1 DEF IsInjective, u
<1>4. ASSUME NEW k \in 1..Len(u)
      PROVE  \/ k \in 1..Len(s) /\ u[k] = s[k] /\ u[k] \in Range(s)
             \/ k - Len(s) \in 1..Len(t) /\ u[k] = t[k - Len(s)] /\ u[k] \in Range(t)
  <2>1. CASE k <= Len(s)
    <3>1. k \in 1..Len(s) /\ u[k] = s[k] BY <1>1, <2>1
    <3> QED BY <1>2, <3>1 DEF Range
  <2>2. CASE ~(k <= Len(s))
    <3>1. k - Len(s) \in 1..Len(t) /\ u[k] = t[k - Len(s)] BY <1>1, <2>2
    <3> QED BY <1>2, <3>1 DEF Range
  <2> QED BY <2>1, <2>2
<1>5. CASE u[i] \in Range(s)
  <2>1. u[i] \notin Range(t) /\ u[j] \notin Range(t) BY <1>3, <1>5
  <2>2. i \in 1..Len(s) /\ j \in 1..Len(s) /\ s[i] = s[j] BY <1>3, <1>4, <2>1
  <2> QED BY <1>2, <2>2 DEF IsInjective
<1>6. CASE u[i] \notin Range(s)
  <2>1. u[j] \notin Range(s) BY <1>3, <1>6
  <2>2. /\ i - Len(s) \in 1..Len(t) /\ j - Len(s) \in 1..Len(t)
        /\ t[i - Len(s)] = t[j - Len(s)]
    BY <1>3, <1>4, <1>6, <2>1
  <2>3. i - Len(s) = j - Len(s) BY <1>2, <2>2 DEF IsInjective
  <2> QED BY <1>1, <2>3
<1> QED BY <1>5, <1>6

\* Taking the head off a sequence without repetition takes its element away.
LEMMA TailRange ==
    ASSUME NEW S, NEW s \in Seq(S), s # <<>>, IsInjective(s)
    PROVE  /\ IsInjective(Tail(s))
           /\ Range(Tail(s)) = Range(s) \ {Head(s)}
           /\ Head(s) \in Range(s)
<1> DEFINE t == Tail(s)
<1>1. /\ t \in Seq(S) /\ Len(t) = Len(s) - 1 /\ Len(s) \in Nat /\ Len(s) >= 1
      /\ \A i \in 1..Len(t) : t[i] = s[i + 1]
      /\ Head(s) = s[1]
  BY HeadTailProperties, LenProperties, EmptySeq
<1>2. DOMAIN s = 1..Len(s) /\ DOMAIN t = 1..Len(t)
  BY <1>1, LenProperties
<1> HIDE DEF t
<1>3. IsInjective(t)
  <2> SUFFICES ASSUME NEW i \in 1..Len(t), NEW j \in 1..Len(t), t[i] = t[j] PROVE i = j
    BY <1>2 DEF IsInjective
  <2>1. i + 1 \in 1..Len(s) /\ j + 1 \in 1..Len(s) /\ s[i + 1] = s[j + 1] BY <1>1
  <2>2. i + 1 = j + 1 BY <1>2, <2>1 DEF IsInjective
  <2> QED BY <2>2
<1>4. ASSUME NEW x \in Range(t) PROVE x \in Range(s) \ {Head(s)}
  <2>1. PICK i \in 1..Len(t) : x = t[i] BY <1>2 DEF Range
  <2>2. i + 1 \in 1..Len(s) /\ x = s[i + 1] /\ 1 \in 1..Len(s) /\ i + 1 # 1 BY <1>1, <2>1
  <2>3. s[i + 1] # s[1] BY <1>2, <2>2 DEF IsInjective
  <2> QED BY <1>1, <1>2, <2>2, <2>3 DEF Range
<1>5. ASSUME NEW x \in Range(s) \ {Head(s)} PROVE x \in Range(t)
  <2>1. PICK i \in 1..Len(s) : x = s[i] BY <1>2 DEF Range
  <2>2. i # 1 BY <1>1, <2>1
  <2>3. i - 1 \in 1..Len(t) /\ t[i - 1] = s[(i - 1) + 1] BY <1>1, <2>2
  <2>4. x = t[i - 1] BY <2>1, <2>3
  <2> QED BY <1>2, <2>3, <2>4 DEF Range
<1>6. Head(s) \in Range(s)
  <2>1. 1 \in 1..Len(s) BY <1>1
  <2> QED BY <1>1, <1>2, <2>1 DEF Range
<1> QED BY <1>3, <1>4, <1>5, <1>6 DEF t

\* A single card.
LEMMA SingleRange ==
    ASSUME NEW S, NEW x \in S
    PROVE  <<x>> \in Seq(S) /\ IsInjective(<<x>>) /\ Range(<<x>>) = {x}
<1>1. <<x>> \in Seq(S) /\ Len(<<x>>) = 1 /\ <<x>>[1] = x OBVIOUS
<1>2. DOMAIN <<x>> = 1..1 BY <1>1, LenProperties
<1>3. \A i \in 1..1 : i = 1 OBVIOUS
<1> QED BY <1>1, <1>2, <1>3 DEF IsInjective, Range

\* Nothing.
LEMMA EmptyRange ==
    IsInjective(<<>>) /\ Range(<<>>) = {}
  BY DEF IsInjective, Range

-----------------------------------------------------------------------------
\* The piles are a partition of the cards dealt.
Partition(piles, cards) ==
    /\ piles \in [Seat -> Seq(Card)]
    /\ \A p \in Seat : IsInjective(piles[p])
    /\ \A p, q \in Seat : p # q => Range(piles[p]) \cap Range(piles[q]) = {}
    /\ UNION {Range(piles[p]) : p \in Seat} = cards

\* A card is on the table when it lies in somebody's pile.
LEMMA InUnion ==
    ASSUME NEW piles
    PROVE  \A c : c \in UNION {Range(piles[p]) : p \in Seat}
                    <=> \E p \in Seat : c \in Range(piles[p])
<1> DEFINE R(p) == Range(piles[p])
<1>1. \A c : c \in UNION {R(p) : p \in Seat} <=> \E p \in Seat : c \in R(p)
  <2> HIDE DEF R
  <2> QED OBVIOUS
<1> QED BY <1>1

\* Piles that hold the same cards.
LEMMA SameUnion ==
    ASSUME NEW piles, NEW n,
           \A c : (\E q \in Seat : c \in Range(n[q])) <=> (\E q \in Seat : c \in Range(piles[q]))
    PROVE  UNION {Range(n[q]) : q \in Seat} = UNION {Range(piles[q]) : q \in Seat}
<1> DEFINE A == UNION {Range(n[q]) : q \in Seat}
           B == UNION {Range(piles[q]) : q \in Seat}
<1>1. \A c : c \in A <=> \E q \in Seat : c \in Range(n[q]) BY InUnion
<1>2. \A c : c \in B <=> \E q \in Seat : c \in Range(piles[q]) BY InUnion
<1> HIDE DEF A, B
<1>3. \A c : c \in A <=> c \in B BY <1>1, <1>2
<1>4. A = B BY <1>3
<1> QED BY <1>4 DEF A, B

\* Splitting p's pile into what he keeps and what moves under next's keeps
\* the partition (doTurnTimeout, doForfeit).
LEMMA MoveKeepsPartition ==
    ASSUME NEW cards, NEW piles, Partition(piles, cards),
           NEW p \in Seat, NEW next \in Seat \ {p},
           NEW rest \in Seq(Card), NEW moved \in Seq(Card),
           IsInjective(rest), IsInjective(moved),
           Range(rest) \cap Range(moved) = {},
           Range(rest) \cup Range(moved) = Range(piles[p])
    PROVE  Partition(MoveCards(piles, p, rest, next, moved), cards)
<1> DEFINE n == MoveCards(piles, p, rest, next, moved)
<1>1. /\ piles \in [Seat -> Seq(Card)]
      /\ \A q \in Seat : IsInjective(piles[q])
      /\ \A q, r \in Seat : q # r => Range(piles[q]) \cap Range(piles[r]) = {}
      /\ UNION {Range(piles[q]) : q \in Seat} = cards
  BY DEF Partition
<1>2. /\ n \in [Seat -> Seq(Card)]
      /\ n[p] = rest
      /\ n[next] = piles[next] \o moved
      /\ Range(n[next]) = Range(piles[next]) \cup Range(moved)
      /\ \A q \in Seat \ {p, next} : n[q] = piles[q]
  <2>1. piles[next] \in Seq(Card) /\ piles[next] \o moved \in Seq(Card)
    BY <1>1, ConcatProperties
  <2>2. Range(piles[next] \o moved) = Range(piles[next]) \cup Range(moved)
    BY <2>1, RangeConcatenation
  <2>3. n \in [Seat -> Seq(Card)] /\ n[p] = rest /\ n[next] = piles[next] \o moved
        /\ \A q \in Seat \ {p, next} : n[q] = piles[q]
    BY <1>1, <2>1 DEF MoveCards
  <2> QED BY <2>2, <2>3
<1> HIDE DEF n
<1>3. IsInjective(n[next])
  <2>1. Range(piles[next]) \cap Range(moved) = {} BY <1>1
  <2>2. piles[next] \in Seq(Card) BY <1>1
  <2> QED BY <1>1, <1>2, <2>1, <2>2, ConcatInjective
<1>4. \A q \in Seat : IsInjective(n[q])
  BY <1>1, <1>2, <1>3
<1>5. ASSUME NEW q \in Seat \ {next}
      PROVE  Range(n[q]) \subseteq Range(piles[q]) /\ Range(n[q]) \cap Range(n[next]) = {}
  <2>1. CASE q = p
    <3>1. Range(n[q]) = Range(rest) BY <1>2, <2>1
    <3>2. Range(piles[p]) \cap Range(piles[next]) = {} BY <1>1
    <3> QED BY <1>2, <2>1, <3>1, <3>2
  <2>2. CASE q # p
    <3>1. Range(n[q]) = Range(piles[q]) BY <1>2, <2>2
    <3>2. Range(piles[q]) \cap Range(piles[next]) = {} BY <1>1
    <3>3. Range(piles[q]) \cap Range(piles[p]) = {} BY <1>1, <2>2
    <3> QED BY <1>2, <3>1, <3>2, <3>3
  <2> QED BY <2>1, <2>2
<1>6. ASSUME NEW q \in Seat, NEW r \in Seat, q # r PROVE Range(n[q]) \cap Range(n[r]) = {}
  <2>1. CASE q = next BY <1>5, <1>6, <2>1
  <2>2. CASE r = next BY <1>5, <1>6, <2>2
  <2>3. CASE q # next /\ r # next
    <3>1. Range(piles[q]) \cap Range(piles[r]) = {} BY <1>1, <1>6
    <3> QED BY <1>5, <2>3, <3>1
  <2> QED BY <2>1, <2>2, <2>3
<1>7. ASSUME NEW c
      PROVE  (\E q \in Seat : c \in Range(n[q])) <=> (\E q \in Seat : c \in Range(piles[q]))
  <2>1. ASSUME NEW q \in Seat, c \in Range(n[q]) PROVE \E r \in Seat : c \in Range(piles[r])
    <3>1. CASE q = next
      <4>1. c \in Range(piles[next]) \/ c \in Range(piles[p]) BY <1>2, <2>1, <3>1
      <4> QED BY <4>1
    <3>2. CASE q # next BY <1>5, <2>1, <3>2
    <3> QED BY <3>1, <3>2
  <2>2. ASSUME NEW q \in Seat, c \in Range(piles[q]) PROVE \E r \in Seat : c \in Range(n[r])
    <3>1. CASE q = p
      <4>1. c \in Range(n[p]) \/ c \in Range(n[next]) BY <1>2, <2>2, <3>1
      <4> QED BY <4>1
    <3>2. CASE q = next BY <1>2, <2>2, <3>2
    <3>3. CASE q # p /\ q # next BY <1>2, <2>2, <3>3
    <3> QED BY <3>1, <3>2, <3>3
  <2> QED BY <2>1, <2>2
<1>8. UNION {Range(n[q]) : q \in Seat} = UNION {Range(piles[q]) : q \in Seat}
  BY <1>7, SameUnion
<1> QED BY <1>1, <1>2, <1>4, <1>6, <1>8 DEF Partition, n

\* The cards collected in a round are the top cards of the losers, each once,
\* and the winner's pile ends with his own and those.
LEMMA RoundRanges ==
    ASSUME NEW st, InPlay(st), NEW cards, Partition(st.cardIds, cards), NEW w \in Remaining(st)
    PROVE  LET n == PilesAfterRound(st, w)
           IN  /\ n \in [Seat -> Seq(Card)]
               /\ \A p \in Seat : IsInjective(n[p])
               /\ Range(n[w]) = Range(st.cardIds[w])
                                   \cup {TopCard(st, p) : p \in Remaining(st) \ {w}}
               /\ \A p \in Remaining(st) \ {w} :
                     /\ Range(n[p]) = Range(st.cardIds[p]) \ {TopCard(st, p)}
                     /\ TopCard(st, p) \in Range(st.cardIds[p])
               /\ \A p \in Seat \ Remaining(st) : n[p] = <<>> /\ st.cardIds[p] = <<>>
<1> DEFINE piles == st.cardIds
           n == PilesAfterRound(st, w)
           losers == {p \in RoundLosers(st, w) : st.cardIds[p] # <<>>}
           order == SeatOrder(losers)
           collected == CollectedCards(st, w)
           top == TopCard(st, w)
           taken == {TopCard(st, p) : p \in Remaining(st) \ {w}}
<1>1. /\ piles \in [Seat -> Seq(Card)]
      /\ \A p \in Seat : IsInjective(piles[p])
      /\ \A p, q \in Seat : p # q => Range(piles[p]) \cap Range(piles[q]) = {}
  BY DEF Partition
<1>2. /\ Remaining(st) \subseteq Seat /\ w \in Seat
      /\ \A p \in Seat : p \in Remaining(st) <=> piles[p] # <<>>
      /\ losers = Remaining(st) \ {w}
  BY DEF InPlay, GoodState, Remaining, RoundLosers
<1>3. \A p \in Remaining(st) :
         /\ TopCard(st, p) \in Card /\ TopCard(st, p) \in Range(piles[p])
         /\ Tail(piles[p]) \in Seq(Card) /\ IsInjective(Tail(piles[p]))
         /\ Range(Tail(piles[p])) = Range(piles[p]) \ {TopCard(st, p)}
  <2> SUFFICES ASSUME NEW p \in Remaining(st)
               PROVE  /\ Head(piles[p]) \in Card /\ Head(piles[p]) \in Range(piles[p])
                      /\ Tail(piles[p]) \in Seq(Card) /\ IsInjective(Tail(piles[p]))
                      /\ Range(Tail(piles[p])) = Range(piles[p]) \ {Head(piles[p])}
    BY DEF TopCard
  <2>1. piles[p] \in Seq(Card) /\ piles[p] # <<>> /\ IsInjective(piles[p]) BY <1>1, <1>2
  <2> HIDE DEF piles
  <2> QED BY <2>1, HeadTailProperties, TailRange
<1>4. collected \in Seq(Card) /\ IsInjective(collected) /\ Range(collected) = taken
  <2> DEFINE k == Cardinality(losers)
  <2>1. /\ k \in Nat /\ order \in [1..k -> losers]
        /\ \A i, j \in 1..k : i < j => order[i] < order[j]
        /\ \A p \in losers : \E i \in 1..k : order[i] = p
    <3>1. losers \in SUBSET Seat BY <1>2
    <3> HIDE DEF losers
    <3> QED BY <3>1, SeatOrderProperties
  <2>2. collected = [i \in 1..k |-> TopCard(st, order[i])]
    BY <2>1 DEF CollectedCards
  <2> HIDE DEF collected, order, losers, k, piles
  <2>3. \A i \in 1..k : order[i] \in Remaining(st) \ {w} BY <1>2, <2>1
  <2>4. collected \in Seq(Card) /\ DOMAIN collected = 1..k
    BY <1>3, <2>1, <2>2, <2>3
  <2>5. \A i, j \in 1..k : order[i] = order[j] => i = j
    <3> SUFFICES ASSUME NEW i \in 1..k, NEW j \in 1..k, i < j PROVE order[i] # order[j]
      BY <2>1
    <3>1. order[i] < order[j] BY <2>1
    <3>2. order[i] \in Int BY <1>2, <2>3 DEF Seat
    <3> QED BY <3>1, <3>2
  <2>6. IsInjective(collected)
    <3> SUFFICES ASSUME NEW i \in 1..k, NEW j \in 1..k, collected[i] = collected[j] PROVE i = j
      BY <2>4 DEF IsInjective
    <3>1. TopCard(st, order[i]) = TopCard(st, order[j]) BY <2>2
    <3>2. order[i] = order[j] BY <1>1, <1>2, <1>3, <2>3, <3>1
    <3> QED BY <2>5, <3>2
  <2>7. Range(collected) = taken
    <3>1. ASSUME NEW c \in Range(collected) PROVE c \in taken
      <4>1. PICK i \in 1..k : c = collected[i] BY <2>4 DEF Range
      <4> QED BY <2>2, <2>3, <4>1
    <3>2. ASSUME NEW c \in taken PROVE c \in Range(collected)
      <4>1. PICK p \in Remaining(st) \ {w} : c = TopCard(st, p) OBVIOUS
      <4>2. PICK i \in 1..k : order[i] = p BY <1>2, <2>1, <4>1
      <4> QED BY <2>2, <2>4, <4>1, <4>2 DEF Range
    <3> QED BY <3>1, <3>2
  <2> QED BY <2>4, <2>6, <2>7
<1> HIDE DEF collected
<1>5. /\ n[w] \in Seq(Card) /\ IsInjective(n[w]) /\ Range(n[w]) = Range(piles[w]) \cup taken
  <2> DEFINE rest == Tail(piles[w])
             own == rest \o <<top>>
  <2>1. n[w] = own \o collected
    BY <1>2, PilesAfterRoundDef DEF collected
  <2>2. rest \in Seq(Card) /\ IsInjective(rest) /\ Range(rest) = Range(piles[w]) \ {top}
        /\ top \in Card /\ top \in Range(piles[w])
    BY <1>3
  <2>3. <<top>> \in Seq(Card) /\ IsInjective(<<top>>) /\ Range(<<top>>) = {top}
    <3> HIDE DEF top
    <3> QED BY <2>2, SingleRange
  <2> HIDE DEF rest, top, n
  <2>4. own \in Seq(Card) /\ Range(own) = Range(rest) \cup Range(<<top>>)
    <3> DEFINE one == <<top>>
    <3>1. rest \in Seq(Card) /\ one \in Seq(Card) BY <2>2, <2>3
    <3>2. own = rest \o one OBVIOUS
    <3> HIDE DEF one, own
    <3>3. own \in Seq(Card) BY <3>1, <3>2, ConcatProperties
    <3>4. Range(own) = Range(rest) \cup Range(one) BY <3>1, <3>2, RangeConcatenation
    <3> QED BY <3>3, <3>4 DEF one
  <2>5. IsInjective(own)
    <3>1. Range(rest) \cap Range(<<top>>) = {} BY <2>2, <2>3
    <3> QED BY <2>2, <2>3, <3>1, ConcatInjective
  <2>6. Range(own) = Range(piles[w]) BY <2>2, <2>3, <2>4
  <2>7. Range(own) \cap Range(collected) = {}
    <3>1. ASSUME NEW p \in Remaining(st) \ {w} PROVE TopCard(st, p) \notin Range(piles[w])
      BY <1>1, <1>2, <1>3
    <3> QED BY <1>4, <2>6, <3>1
  <2> HIDE DEF own
  <2>8. n[w] \in Seq(Card) /\ Range(n[w]) = Range(own) \cup Range(collected)
    BY <1>4, <2>1, <2>4, ConcatProperties, RangeConcatenation
  <2>9. IsInjective(n[w]) BY <1>4, <2>1, <2>4, <2>5, <2>7, ConcatInjective
  <2> QED BY <1>4, <2>6, <2>8, <2>9
<1>6. \A p \in Seat \ {w} : n[p] = IF p \in losers THEN Tail(piles[p]) ELSE piles[p]
  <2>1. \A p \in Seat : p \in losers <=> (p \in RoundLosers(st, w) /\ piles[p] # <<>>)
    BY <1>2 DEF RoundLosers
  <2> HIDE DEF losers
  <2> SUFFICES ASSUME NEW p \in Seat \ {w}
               PROVE  n[p] = IF p \in losers THEN Tail(piles[p]) ELSE piles[p]
    OBVIOUS
  <2>2. IF p \in losers THEN n[p] = Tail(piles[p]) ELSE n[p] = piles[p]
    <3>1. IF p \in RoundLosers(st, w) /\ piles[p] # <<>>
          THEN n[p] = Tail(piles[p]) ELSE n[p] = piles[p]
      BY <1>2, PilesAfterRoundDef
    <3> HIDE DEF n, piles
    <3> QED BY <2>1, <3>1
  <2> HIDE DEF n, piles
  <2> QED BY <2>2
<1>7. n = [p \in Seat |-> n[p]] BY DEF PilesAfterRound
<1> HIDE DEF n, piles, losers, taken
<1>8. \A p \in Remaining(st) \ {w} : n[p] = Tail(piles[p])
  BY <1>2, <1>6
<1>9. \A p \in Seat \ Remaining(st) : n[p] = <<>> /\ piles[p] = <<>>
  BY <1>2, <1>6
<1>10. \A p \in Seat : n[p] \in Seq(Card) /\ IsInjective(n[p])
  <2> SUFFICES ASSUME NEW p \in Seat PROVE n[p] \in Seq(Card) /\ IsInjective(n[p])
    OBVIOUS
  <2>1. CASE p = w BY <1>5, <2>1
  <2>2. CASE p \in Remaining(st) \ {w} BY <1>3, <1>8, <2>2
  <2>3. CASE p \notin Remaining(st)
    <3>1. n[p] = piles[p] BY <1>9, <2>3
    <3> QED BY <1>1, <3>1
  <2> QED BY <2>1, <2>2, <2>3
<1>11. n \in [Seat -> Seq(Card)] BY <1>7, <1>10
<1> QED BY <1>3, <1>5, <1>8, <1>9, <1>10, <1>11 DEF n, piles, taken

\* A round (doCompareRound) keeps the partition.
LEMMA RoundKeepsPartition ==
    ASSUME NEW st, InPlay(st), NEW cards, Partition(st.cardIds, cards), NEW w \in Remaining(st)
    PROVE  Partition(PilesAfterRound(st, w), cards)
<1> DEFINE piles == st.cardIds
           n == PilesAfterRound(st, w)
           Top(p) == TopCard(st, p)
<1>1. /\ n \in [Seat -> Seq(Card)]
      /\ \A p \in Seat : IsInjective(n[p])
      /\ Range(n[w]) = Range(piles[w]) \cup {Top(p) : p \in Remaining(st) \ {w}}
      /\ \A p \in Remaining(st) \ {w} :
            Range(n[p]) = Range(piles[p]) \ {Top(p)} /\ Top(p) \in Range(piles[p])
      /\ \A p \in Seat \ Remaining(st) : n[p] = <<>> /\ piles[p] = <<>>
  BY RoundRanges
<1>2. /\ \A p, q \in Seat : p # q => Range(piles[p]) \cap Range(piles[q]) = {}
      /\ UNION {Range(piles[p]) : p \in Seat} = cards
  BY DEF Partition
<1>3. Remaining(st) \subseteq Seat /\ w \in Seat /\ w \in Remaining(st)
  BY DEF Remaining
<1> HIDE DEF piles, n, Top
<1>4. ASSUME NEW p \in Seat \ {w}
      PROVE  Range(n[p]) \subseteq Range(piles[p]) /\ Range(n[p]) \cap Range(n[w]) = {}
  <2>1. CASE p \in Remaining(st)
    <3>1. Range(n[p]) = Range(piles[p]) \ {Top(p)} BY <1>1, <2>1
    <3>2. ASSUME NEW c \in Range(n[p]) PROVE c \notin Range(n[w])
      <4>1. c \in Range(piles[p]) /\ c # Top(p) BY <3>1
      <4>2. c \notin Range(piles[w]) BY <1>2, <1>3, <4>1
      <4>3. ASSUME NEW q \in Remaining(st) \ {w} PROVE c # Top(q)
        <5>1. CASE q = p BY <4>1, <5>1
        <5>2. CASE q # p
          <6>1. Top(q) \in Range(piles[q]) /\ q \in Seat BY <1>1, <1>3
          <6> QED BY <1>2, <4>1, <5>2, <6>1
        <5> QED BY <5>1, <5>2
      <4> QED BY <1>1, <4>2, <4>3
    <3> QED BY <3>1, <3>2
  <2>2. CASE p \notin Remaining(st)
    <3>1. Range(n[p]) = {} BY <1>1, <2>2, EmptyRange
    <3> QED BY <3>1
  <2> QED BY <2>1, <2>2
<1>5. ASSUME NEW q \in Seat, NEW r \in Seat, q # r PROVE Range(n[q]) \cap Range(n[r]) = {}
  <2>1. CASE q = w BY <1>4, <1>5, <2>1
  <2>2. CASE r = w BY <1>4, <1>5, <2>2
  <2>3. CASE q # w /\ r # w
    <3>1. Range(piles[q]) \cap Range(piles[r]) = {} BY <1>2, <1>5
    <3> QED BY <1>4, <2>3, <3>1
  <2> QED BY <2>1, <2>2, <2>3
<1>6. ASSUME NEW c
      PROVE  (\E q \in Seat : c \in Range(n[q])) <=> (\E q \in Seat : c \in Range(piles[q]))
  <2>1. ASSUME NEW q \in Seat, c \in Range(n[q]) PROVE \E r \in Seat : c \in Range(piles[r])
    <3>1. CASE q = w
      <4>1. CASE c \in Range(piles[w]) BY <1>3, <4>1
      <4>2. CASE c \notin Range(piles[w])
        <5>1. PICK p \in Remaining(st) \ {w} : c = Top(p) BY <1>1, <2>1, <3>1, <4>2
        <5> QED BY <1>1, <1>3, <5>1
      <4> QED BY <4>1, <4>2
    <3>2. CASE q # w BY <1>4, <2>1, <3>2
    <3> QED BY <3>1, <3>2
  <2>2. ASSUME NEW q \in Seat, c \in Range(piles[q]) PROVE \E r \in Seat : c \in Range(n[r])
    <3>1. CASE q = w BY <1>1, <1>3, <2>2, <3>1
    <3>2. CASE q \in Remaining(st) \ {w}
      <4>1. CASE c = Top(q) BY <1>1, <1>3, <3>2, <4>1
      <4>2. CASE c # Top(q) BY <1>1, <2>2, <3>2, <4>2
      <4> QED BY <4>1, <4>2
    <3>3. CASE q \notin Remaining(st) BY <1>1, <2>2, <3>3, EmptyRange
    <3> QED BY <3>1, <3>2, <3>3
  <2> QED BY <2>1, <2>2
<1>7. UNION {Range(n[q]) : q \in Seat} = cards
  <2>1. UNION {Range(n[q]) : q \in Seat} = UNION {Range(piles[q]) : q \in Seat}
    BY <1>6, SameUnion
  <2> QED BY <1>2, <2>1
<1> QED BY <1>1, <1>5, <1>7 DEF Partition, n

-----------------------------------------------------------------------------
\* The deal reaches every place of the deck, and each of them once.
LEMMA DealReaches ==
    ASSUME NEW k \in 1..NumDealt
    PROVE  \E p \in Seat : \E i \in 1..PileSize(p) : k = p + (i - 1) * NumPlayers
<1> DEFINE m == (k - 1) \div NumPlayers
           p == k - m * NumPlayers
<1>1. NumPlayers \in Nat \ {0} /\ k - 1 \in Nat
  BY PlayersAssumption, EnoughCards
<1>2. m \in Nat /\ m * NumPlayers <= k - 1 /\ k - 1 < m * NumPlayers + NumPlayers
  <2> DEFINE a == k - 1
  <2>1. a \in Nat BY <1>1
  <2> HIDE DEF a
  <2>2. a \div NumPlayers \in Nat /\ (a \div NumPlayers) * NumPlayers <= a
        /\ a < (a \div NumPlayers) * NumPlayers + NumPlayers
    BY <1>1, <2>1, Division
  <2> QED BY <2>2 DEF a
<1> HIDE DEF m
<1>3. m * NumPlayers \in Nat BY <1>1, <1>2, Multiples
<1>4. p \in Seat /\ k = p + m * NumPlayers
  BY <1>1, <1>2, <1>3 DEF Seat
<1> HIDE DEF p
<1>5. PileSize(p) \in Nat \ {0} /\ PileSize(p) * NumPlayers + p > NumDealt
  BY <1>4, PilePositions
<1>6. m < PileSize(p)
  <2> SUFFICES ASSUME PileSize(p) <= m PROVE FALSE
    BY <1>2, <1>5
  <2>1. PileSize(p) * NumPlayers <= m * NumPlayers /\ PileSize(p) * NumPlayers \in Nat
    BY <1>1, <1>2, <1>5, Multiples
  <2>2. p \in Int /\ k \in Int /\ k <= NumDealt /\ NumDealt \in Nat
    BY <1>4, EnoughCards DEF Seat
  <2> QED BY <1>3, <1>4, <1>5, <2>1, <2>2
<1>7. m + 1 \in 1..PileSize(p) /\ k = p + ((m + 1) - 1) * NumPlayers
  <2>1. (m + 1) - 1 = m BY <1>2
  <2> QED BY <1>2, <1>4, <1>5, <1>6, <2>1
<1> QED BY <1>4, <1>7

\* No place of the deck is dealt twice.
LEMMA DealIsOnce ==
    ASSUME NEW p \in Seat, NEW q \in Seat, NEW i \in Nat \ {0}, NEW j \in Nat \ {0},
           p + (i - 1) * NumPlayers = q + (j - 1) * NumPlayers
    PROVE  p = q /\ i = j
<1>1. /\ NumPlayers \in Nat \ {0} /\ i - 1 \in Nat /\ j - 1 \in Nat
      /\ p \in 1..NumPlayers /\ q \in 1..NumPlayers
  BY PlayersAssumption DEF Seat
<1>2. (i - 1) * NumPlayers \in Nat /\ (j - 1) * NumPlayers \in Nat
  BY <1>1, Multiples
<1>3. ~(i < j)
  <2> SUFFICES ASSUME i < j PROVE FALSE OBVIOUS
  <2>1. i <= j - 1 /\ (i - 1) + 1 = i BY <1>1
  <2>2. i * NumPlayers <= (j - 1) * NumPlayers /\ i * NumPlayers \in Nat
    BY <1>1, <2>1, Multiples
  <2>3. i * NumPlayers = (i - 1) * NumPlayers + NumPlayers
    BY <1>1, <2>1, Multiples
  <2> QED BY <1>1, <1>2, <2>2, <2>3
<1>4. ~(j < i)
  <2> SUFFICES ASSUME j < i PROVE FALSE OBVIOUS
  <2>1. j <= i - 1 /\ (j - 1) + 1 = j BY <1>1
  <2>2. j * NumPlayers <= (i - 1) * NumPlayers /\ j * NumPlayers \in Nat
    BY <1>1, <2>1, Multiples
  <2>3. j * NumPlayers = (j - 1) * NumPlayers + NumPlayers
    BY <1>1, <2>1, Multiples
  <2> QED BY <1>1, <1>2, <2>2, <2>3
<1>5. i = j BY <1>3, <1>4
<1> QED BY <1>1, <1>2, <1>5

\* doStartGame deals every card of the cut deck to exactly one player.
THEOREM DealIsPartition ==
    \A d \in Shuffled : Partition(Piles(d), {d[k] : k \in 1..NumDealt})
<1> SUFFICES ASSUME NEW d \in Shuffled
             PROVE  Partition(Piles(d), {d[k] : k \in 1..NumDealt})
  OBVIOUS
<1> DEFINE n == Piles(d)
           Place(p, i) == p + (i - 1) * NumPlayers
<1>1. /\ d \in [1..NumDealt -> Card]
      /\ \A i, j \in 1..NumDealt : d[i] = d[j] => i = j
  BY DEF Shuffled
<1>2. ASSUME NEW p \in Seat
      PROVE  /\ n[p] \in Seq(Card) /\ DOMAIN n[p] = 1..PileSize(p)
             /\ \A i \in 1..PileSize(p) : n[p][i] = d[Place(p, i)] /\ Place(p, i) \in 1..NumDealt
             /\ PileSize(p) \in Nat
  <2>1. PileSize(p) \in Nat /\ \A i \in 1..PileSize(p) : Place(p, i) \in 1..NumDealt
    BY PilePositions
  <2>2. n[p] = [i \in 1..PileSize(p) |-> d[Place(p, i)]] BY DEF Piles
  <2> HIDE DEF n, Place
  <2>3. \A i \in 1..PileSize(p) : d[Place(p, i)] \in Card BY <1>1, <2>1
  <2> QED BY <2>1, <2>2, <2>3
<1>3. n = [p \in Seat |-> n[p]] BY DEF Piles
<1>4. n \in [Seat -> Seq(Card)]
  <2> HIDE DEF n
  <2> QED BY <1>2, <1>3
<1>5. \A p, q \in Seat : \A i \in 1..PileSize(p), j \in 1..PileSize(q) :
         Place(p, i) = Place(q, j) => p = q /\ i = j
  <2> SUFFICES ASSUME NEW p \in Seat, NEW q \in Seat,
                      NEW i \in 1..PileSize(p), NEW j \in 1..PileSize(q),
                      Place(p, i) = Place(q, j)
               PROVE  p = q /\ i = j
    OBVIOUS
  <2>1. i \in Nat \ {0} /\ j \in Nat \ {0} BY <1>2
  <2> QED BY <2>1, DealIsOnce
<1> HIDE DEF n, Place
<1>6. ASSUME NEW p \in Seat, NEW q \in Seat, NEW i \in 1..PileSize(p), NEW j \in 1..PileSize(q),
             n[p][i] = n[q][j]
      PROVE  p = q /\ i = j
  <2>1. d[Place(p, i)] = d[Place(q, j)] /\ Place(p, i) \in 1..NumDealt /\ Place(q, j) \in 1..NumDealt
    BY <1>2, <1>6
  <2>2. Place(p, i) = Place(q, j) BY <1>1, <2>1
  <2> QED BY <1>5, <2>2
<1>7. \A p \in Seat : IsInjective(n[p])
  BY <1>2, <1>6 DEF IsInjective
<1>8. \A p, q \in Seat : p # q => Range(n[p]) \cap Range(n[q]) = {}
  BY <1>2, <1>6 DEF Range
<1>9. UNION {Range(n[p]) : p \in Seat} = {d[k] : k \in 1..NumDealt}
  <2>1. ASSUME NEW p \in Seat, NEW c \in Range(n[p]) PROVE \E k \in 1..NumDealt : c = d[k]
    <3>1. PICK i \in 1..PileSize(p) : c = n[p][i] BY <1>2 DEF Range
    <3> QED BY <1>2, <3>1
  <2>2. ASSUME NEW k \in 1..NumDealt PROVE \E p \in Seat : d[k] \in Range(n[p])
    <3>1. PICK p \in Seat : \E i \in 1..PileSize(p) : k = Place(p, i) BY DealReaches DEF Place
    <3>2. PICK i \in 1..PileSize(p) : k = Place(p, i) BY <3>1
    <3>3. d[k] = n[p][i] BY <1>2, <3>2
    <3> QED BY <1>2, <3>3 DEF Range
  <2>3. \A c : c \in UNION {Range(n[p]) : p \in Seat} <=> \E p \in Seat : c \in Range(n[p])
    BY InUnion
  <2> QED BY <2>1, <2>2, <2>3
<1> QED BY <1>4, <1>7, <1>8, <1>9 DEF Partition, n

-----------------------------------------------------------------------------
\* What each handler leaves in the piles; nothing else touches them.
LEMMA HandlersMovePiles ==
    ASSUME NEW st \in StateType
    PROVE  /\ \A s : AfterTie(st, s).cardIds = st.cardIds
           /\ \A w : AfterRound(st, w).cardIds = PilesAfterRound(st, w)
           /\ \A p : AfterForfeit(st, p).cardIds
                       = MoveCards(st.cardIds, p, <<>>, NextPlayer(st, p), st.cardIds[p])
<1>1. ASSUME NEW s PROVE AfterTie(st, s).cardIds = st.cardIds
  BY DEF AfterTie, StateType
<1>2. ASSUME NEW w PROVE AfterRound(st, w).cardIds = PilesAfterRound(st, w)
  BY DEF AfterRound, Decided, NextTurn, StateType
<1>3. ASSUME NEW p
      PROVE  AfterForfeit(st, p).cardIds
                = MoveCards(st.cardIds, p, <<>>, NextPlayer(st, p), st.cardIds[p])
  BY DEF AfterForfeit, Decided, NextTurn, StateType
<1> QED BY <1>1, <1>2, <1>3

\* A timeout moves the top card of the current player, and the rest of his pile
\* with it when he is out.
LEMMA TimeoutMovesPiles ==
    ASSUME NEW st, InPlay(st)
    PROVE  LET p == st.currentPlayerId
           IN  AfterTimeout(st).cardIds
                 = IF IsOut(st, p)
                   THEN MoveCards(st.cardIds, p, <<>>, NextPlayer(st, p),
                                  <<TopCard(st, p)>> \o Tail(st.cardIds[p]))
                   ELSE MoveCards(st.cardIds, p, Tail(st.cardIds[p]), NextPlayer(st, p),
                                  <<TopCard(st, p)>>)
<1>1. st \in StateType /\ st.cardIds[st.currentPlayerId] # <<>>
  BY DEF InPlay, GoodState, StateType, Remaining
<1> QED BY <1>1 DEF AfterTimeout, Decided, NextTurn, StateType

\* A forfeit keeps the partition: the whole pile moves.
LEMMA ForfeitKeepsPartition ==
    ASSUME NEW st, InPlay(st), NEW cards, Partition(st.cardIds, cards), NEW p \in Remaining(st)
    PROVE  Partition(AfterForfeit(st, p).cardIds, cards)
<1> DEFINE piles == st.cardIds
           none == <<>>
<1>1. st \in StateType /\ p \in Seat /\ NextPlayer(st, p) \in Seat \ {p}
  BY NextPlayerRemains DEF InPlay, GoodState, Remaining
<1>2. piles[p] \in Seq(Card) /\ IsInjective(piles[p]) /\ none \in Seq(Card)
      /\ IsInjective(none) /\ Range(none) = {}
  BY <1>1, EmptyRange DEF Partition
<1>3. AfterForfeit(st, p).cardIds = MoveCards(piles, p, none, NextPlayer(st, p), piles[p])
  BY <1>1, HandlersMovePiles
<1> HIDE DEF none
<1> QED BY <1>1, <1>2, <1>3, MoveKeepsPartition

\* A timeout keeps the partition, whether it costs a card or the whole pile.
LEMMA TimeoutKeepsPartition ==
    ASSUME NEW st, InPlay(st), NEW cards, Partition(st.cardIds, cards)
    PROVE  Partition(AfterTimeout(st).cardIds, cards)
<1> DEFINE p == st.currentPlayerId
           piles == st.cardIds
           top == TopCard(st, p)
           one == <<top>>
           rest == Tail(piles[p])
           none == <<>>
           next == NextPlayer(st, p)
<1>1. /\ p \in Remaining(st) /\ p \in Seat /\ piles[p] # <<>>
      /\ piles[p] \in Seq(Card) /\ IsInjective(piles[p])
  BY DEF InPlay, GoodState, Remaining, Partition
<1>2. next \in Seat \ {p}
  BY <1>1, NextPlayerRemains DEF Remaining
<1>3. /\ rest \in Seq(Card) /\ IsInjective(rest) /\ Range(rest) = Range(piles[p]) \ {top}
      /\ top \in Card /\ top \in Range(piles[p])
  <2> DEFINE pile == piles[p]
  <2>1. pile \in Seq(Card) /\ pile # <<>> /\ IsInjective(pile) BY <1>1
  <2> HIDE DEF pile
  <2>2. /\ Tail(pile) \in Seq(Card) /\ IsInjective(Tail(pile))
        /\ Range(Tail(pile)) = Range(pile) \ {Head(pile)}
        /\ Head(pile) \in Card /\ Head(pile) \in Range(pile)
    BY <2>1, HeadTailProperties, TailRange
  <2> QED BY <2>2 DEF pile, TopCard
<1>4. AfterTimeout(st).cardIds
        = IF IsOut(st, p) THEN MoveCards(piles, p, none, next, one \o rest)
                          ELSE MoveCards(piles, p, rest, next, one)
  BY TimeoutMovesPiles
<1> HIDE DEF next, piles, top, rest, p
<1>5. one \in Seq(Card) /\ IsInjective(one) /\ Range(one) = {top}
  BY <1>3, SingleRange
<1>6. none \in Seq(Card) /\ IsInjective(none) /\ Range(none) = {}
  BY EmptyRange
<1> HIDE DEF one, none
<1>7. one \o rest \in Seq(Card)
  BY <1>3, <1>5, ConcatProperties
<1>8. IsInjective(one \o rest)
  <2>1. Range(one) \cap Range(rest) = {} BY <1>3, <1>5
  <2> QED BY <1>3, <1>5, <2>1, ConcatInjective
<1>9. Range(one \o rest) = Range(piles[p])
  <2>1. Range(one \o rest) = Range(one) \cup Range(rest) BY <1>3, <1>5, RangeConcatenation
  <2> QED BY <1>3, <1>5, <2>1
<1>10. Partition(piles, cards) BY DEF piles
<1>11. CASE IsOut(st, p)
  <2> DEFINE moved == one \o rest
  <2>1. moved \in Seq(Card) /\ IsInjective(moved) /\ Range(moved) = Range(piles[p])
    BY <1>7, <1>8, <1>9
  <2>2. AfterTimeout(st).cardIds = MoveCards(piles, p, none, next, moved) BY <1>4, <1>11
  <2> HIDE DEF moved
  <2>3. Range(none) \cap Range(moved) = {} /\ Range(none) \cup Range(moved) = Range(piles[p])
    BY <1>6, <2>1
  <2> QED BY <1>1, <1>2, <1>6, <1>10, <2>1, <2>2, <2>3, MoveKeepsPartition
<1>12. CASE ~IsOut(st, p)
  <2>1. AfterTimeout(st).cardIds = MoveCards(piles, p, rest, next, one) BY <1>4, <1>12
  <2>2. Range(rest) \cap Range(one) = {} /\ Range(rest) \cup Range(one) = Range(piles[p])
    BY <1>3, <1>5
  <2> QED BY <1>1, <1>2, <1>3, <1>5, <1>10, <2>1, <2>2, MoveKeepsPartition
<1> QED BY <1>11, <1>12

-----------------------------------------------------------------------------
Dealt == {deck[i] : i \in 1..NumDealt}

CardsInv == Partition(state.cardIds, Dealt)

\* Every handler keeps the piles a partition of the cards dealt.
LEMMA CardsStep == IInv /\ CardsInv /\ [Next]_vars => CardsInv'
<1> SUFFICES ASSUME IInv, CardsInv, [Next]_vars PROVE CardsInv'
  OBVIOUS
<1>1. state \in StateType BY DEF IInv, GoodState
<1>2. Partition(state.cardIds, Dealt) BY DEF CardsInv
<1>3. ASSUME deck' = deck, Partition(state'.cardIds, Dealt) PROVE CardsInv'
  BY <1>3 DEF CardsInv, Dealt
<1>4. ASSUME NEW p \in Seat, NEW s \in StatSchema, SelectAndTie(p, s) PROVE CardsInv'
  <2>1. state'.cardIds = state.cardIds /\ deck' = deck
    BY <1>1, <1>4, HandlersMovePiles DEF SelectAndTie
  <2> QED BY <1>2, <1>3, <2>1
<1>5. ASSUME NEW p \in Seat, NEW s \in StatSchema, SelectAndResolve(p, s) PROVE CardsInv'
  <2> DEFINE w == RoundWinner(state, p, s)
  <2>1. InPlay(state) /\ w \in Remaining(state)
    BY <1>5, InPlayWhenCalled, RoundWinnerRemains DEF SelectAndResolve
  <2>2. state'.cardIds = PilesAfterRound(state, w) /\ deck' = deck
    BY <1>1, <1>5, HandlersMovePiles DEF SelectAndResolve
  <2> HIDE DEF w
  <2>3. Partition(PilesAfterRound(state, w), Dealt) BY <1>2, <2>1, RoundKeepsPartition
  <2> QED BY <1>3, <2>2, <2>3
<1>6. CASE TurnTimeout
  <2>1. InPlay(state) /\ state' = AfterTimeout(state) /\ deck' = deck
    BY <1>6 DEF TurnTimeout, IInv, InPlay
  <2>2. Partition(AfterTimeout(state).cardIds, Dealt) BY <1>2, <2>1, TimeoutKeepsPartition
  <2> QED BY <1>3, <2>1, <2>2
<1>7. ASSUME NEW p \in Seat, ForfeitMatch(p) PROVE CardsInv'
  <2>1. InPlay(state) /\ p \in Remaining(state) /\ state' = AfterForfeit(state, p) /\ deck' = deck
    BY <1>7 DEF ForfeitMatch, CanForfeit, IInv, InPlay, Remaining
  <2>2. Partition(AfterForfeit(state, p).cardIds, Dealt) BY <1>2, <2>1, ForfeitKeepsPartition
  <2> QED BY <1>3, <2>1, <2>2
<1>8. CASE UNCHANGED vars
  BY <1>2, <1>3, <1>8 DEF vars
<1> QED BY <1>4, <1>5, <1>6, <1>7, <1>8 DEF Next

\* The deal is such a partition.
LEMMA CardsInit == Init => CardsInv
<1> SUFFICES ASSUME Init PROVE CardsInv
  OBVIOUS
<1>1. deck \in Shuffled /\ state.cardIds = Piles(deck) BY DEF Init, InitialState
<1>2. Partition(Piles(deck), {deck[k] : k \in 1..NumDealt}) BY <1>1, DealIsPartition
<1> QED BY <1>1, <1>2 DEF CardsInv, Dealt

\* In every match the piles are a partition of the cards dealt.
THEOREM CardsInductive == Spec => []CardsInv
  BY CardsInit, CardsStep, Inductive, PTL DEF Spec

\* No handler loses, duplicates or invents a card, in any match: every card
\* dealt lies in exactly one place of one pile.
THEOREM CardsAreKept == Spec => []CardConservation
<1>1. CardsInv => CardConservation
  <2> SUFFICES ASSUME CardsInv PROVE CardConservation
    OBVIOUS
  <2> DEFINE piles == state.cardIds
  <2>1. /\ piles \in [Seat -> Seq(Card)]
        /\ \A p \in Seat : IsInjective(piles[p])
        /\ \A p, q \in Seat : p # q => Range(piles[p]) \cap Range(piles[q]) = {}
        /\ UNION {Range(piles[p]) : p \in Seat} = Dealt
    BY DEF CardsInv, Partition
  <2>2. \A p \in Seat : DOMAIN piles[p] = 1..Len(piles[p])
    BY <2>1, LenProperties
  <2>3. \A a : a \in Places <=> \E p \in Seat : \E i \in 1..Len(piles[p]) : a = <<p, i>>
    <3> DEFINE P(p) == {<<p, i>> : i \in 1..Len(piles[p])}
    <3>1. Places = UNION {P(p) : p \in Seat} BY DEF Places
    <3>2. \A a : a \in UNION {P(p) : p \in Seat} <=> \E p \in Seat : a \in P(p)
      <4> HIDE DEF P
      <4> QED OBVIOUS
    <3>3. \A a, p : a \in P(p) <=> \E i \in 1..Len(piles[p]) : a = <<p, i>>
      OBVIOUS
    <3> HIDE DEF P, piles
    <3> QED BY <3>1, <3>2, <3>3
  <2>4. \A p, i : CardAt(<<p, i>>) = piles[p][i] BY DEF CardAt
  <2> HIDE DEF piles
  <2>5. ASSUME NEW a \in Places, NEW b \in Places, CardAt(a) = CardAt(b) PROVE a = b
    <3>1. PICK p \in Seat : \E i \in 1..Len(piles[p]) : a = <<p, i>> BY <2>3
    <3>2. PICK i \in 1..Len(piles[p]) : a = <<p, i>> BY <3>1
    <3>3. PICK q \in Seat : \E j \in 1..Len(piles[q]) : b = <<q, j>> BY <2>3
    <3>4. PICK j \in 1..Len(piles[q]) : b = <<q, j>> BY <3>3
    <3>5. piles[p][i] = piles[q][j] BY <2>4, <2>5, <3>2, <3>4
    <3>6. piles[p][i] \in Range(piles[p]) /\ piles[q][j] \in Range(piles[q])
      BY <2>2 DEF Range
    <3>7. p = q BY <2>1, <3>5, <3>6
    <3>8. i = j BY <2>1, <2>2, <3>5, <3>7 DEF IsInjective
    <3> QED BY <3>2, <3>4, <3>7, <3>8
  <2>6. ASSUME NEW c PROVE c \in {CardAt(a) : a \in Places} <=> \E p \in Seat : c \in Range(piles[p])
    <3>1. ASSUME NEW a \in Places, c = CardAt(a) PROVE \E p \in Seat : c \in Range(piles[p])
      <4>1. PICK p \in Seat : \E i \in 1..Len(piles[p]) : a = <<p, i>> BY <2>3
      <4>2. PICK i \in 1..Len(piles[p]) : a = <<p, i>> BY <4>1
      <4> QED BY <2>2, <2>4, <3>1, <4>2 DEF Range
    <3>2. ASSUME NEW p \in Seat, c \in Range(piles[p]) PROVE \E a \in Places : c = CardAt(a)
      <4>1. PICK i \in 1..Len(piles[p]) : c = piles[p][i] BY <2>2, <3>2 DEF Range
      <4>2. <<p, i>> \in Places /\ CardAt(<<p, i>>) = c BY <2>3, <2>4, <4>1
      <4> QED BY <4>2
    <3> QED BY <3>1, <3>2
  <2>7. \A c : c \in UNION {Range(piles[p]) : p \in Seat} <=> \E p \in Seat : c \in Range(piles[p])
    BY InUnion
  <2>8. {CardAt(a) : a \in Places} = Dealt
    BY <2>1, <2>6, <2>7
  <2> QED BY <2>5, <2>8 DEF CardConservation, Dealt
<1> QED BY <1>1, CardsInductive, PTL

-----------------------------------------------------------------------------
\* Each card is owned by the player in whose pile it lies.
OwnersHold(piles, own) == \A p \in Seat : \A c \in Range(piles[p]) : own[c] = p

\* The rows written for the cards that move keep the owners true.
LEMMA OwnersFollow ==
    ASSUME NEW cards, NEW piles, Partition(piles, cards), NEW own, OwnersHold(piles, own),
           NEW p \in Seat, NEW next \in Seat \ {p},
           NEW rest \in Seq(Card), NEW moved \in Seq(Card),
           Range(rest) \cap Range(moved) = {},
           Range(rest) \cup Range(moved) = Range(piles[p]),
           NEW new, new = [c \in cards |-> IF c \in Range(moved) THEN next ELSE own[c]]
    PROVE  OwnersHold(MoveCards(piles, p, rest, next, moved), new)
<1> DEFINE n == MoveCards(piles, p, rest, next, moved)
<1>1. /\ piles \in [Seat -> Seq(Card)]
      /\ \A q, r \in Seat : q # r => Range(piles[q]) \cap Range(piles[r]) = {}
      /\ UNION {Range(piles[q]) : q \in Seat} = cards
  BY DEF Partition
<1>2. /\ n[p] = rest /\ \A q \in Seat \ {p, next} : n[q] = piles[q]
      /\ Range(n[next]) = Range(piles[next]) \cup Range(moved)
  <2>1. piles[next] \in Seq(Card) /\ piles[next] \o moved \in Seq(Card)
    BY <1>1, ConcatProperties
  <2>2. Range(piles[next] \o moved) = Range(piles[next]) \cup Range(moved)
    BY <2>1, RangeConcatenation
  <2>3. n[p] = rest /\ n[next] = piles[next] \o moved
        /\ \A q \in Seat \ {p, next} : n[q] = piles[q]
    BY <1>1, <2>1 DEF MoveCards
  <2> QED BY <2>2, <2>3
<1>3. \A q \in Seat : \A c \in Range(piles[q]) : c \in cards
  BY <1>1, InUnion
<1> HIDE DEF n
<1>4. ASSUME NEW q \in Seat, NEW c \in Range(n[q]) PROVE new[c] = q
  <2>1. CASE q = next
    <3>1. CASE c \in Range(moved)
      <4>1. c \in Range(piles[p]) BY <3>1
      <4> QED BY <1>3, <2>1, <3>1, <4>1
    <3>2. CASE c \notin Range(moved)
      <4>1. c \in Range(piles[next]) BY <1>2, <1>4, <2>1, <3>2
      <4> QED BY <1>3, <2>1, <3>2, <4>1 DEF OwnersHold
    <3> QED BY <3>1, <3>2
  <2>2. CASE q = p
    <3>1. c \in Range(rest) BY <1>2, <1>4, <2>2
    <3>2. c \notin Range(moved) /\ c \in Range(piles[p]) BY <3>1
    <3> QED BY <1>3, <2>2, <3>2 DEF OwnersHold
  <2>3. CASE q # p /\ q # next
    <3>1. c \in Range(piles[q]) BY <1>2, <1>4, <2>3
    <3>2. c \notin Range(piles[p]) BY <1>1, <2>3, <3>1
    <3>3. c \notin Range(moved) BY <3>2
    <3> QED BY <1>3, <3>1, <3>3 DEF OwnersHold
  <2> QED BY <2>1, <2>2, <2>3
<1> QED BY <1>4 DEF OwnersHold, n

\* Likewise for the rows of a round.
LEMMA OwnersFollowRound ==
    ASSUME NEW st, InPlay(st), NEW cards, Partition(st.cardIds, cards), NEW own,
           OwnersHold(st.cardIds, own), NEW w \in Remaining(st),
           NEW new, new = [c \in cards |-> IF c \in RoundCards(st, w) THEN w ELSE own[c]]
    PROVE  OwnersHold(PilesAfterRound(st, w), new)
<1> DEFINE piles == st.cardIds
           n == PilesAfterRound(st, w)
           Top(p) == TopCard(st, p)
<1>1. /\ n \in [Seat -> Seq(Card)]
      /\ \A p \in Seat : IsInjective(n[p])
      /\ Range(n[w]) = Range(piles[w]) \cup {Top(p) : p \in Remaining(st) \ {w}}
      /\ \A p \in Remaining(st) \ {w} :
            Range(n[p]) = Range(piles[p]) \ {Top(p)} /\ Top(p) \in Range(piles[p])
      /\ \A p \in Seat \ Remaining(st) : n[p] = <<>> /\ piles[p] = <<>>
  BY RoundRanges
<1>2. /\ \A p, q \in Seat : p # q => Range(piles[p]) \cap Range(piles[q]) = {}
      /\ UNION {Range(piles[p]) : p \in Seat} = cards
      /\ piles[w] \in Seq(Card) /\ piles[w] # <<>> /\ IsInjective(piles[w])
      /\ Remaining(st) \subseteq Seat /\ w \in Remaining(st) /\ w \in Seat
  BY DEF Partition, InPlay, GoodState, Remaining
<1>3. Top(w) \in Range(piles[w])
  <2> DEFINE pile == piles[w]
  <2>1. pile \in Seq(Card) /\ pile # <<>> /\ IsInjective(pile) BY <1>2
  <2> HIDE DEF pile
  <2>2. Head(pile) \in Range(pile) BY <2>1, TailRange
  <2> QED BY <2>2 DEF TopCard, pile
<1>4. RoundCards(st, w) = {Top(p) : p \in Remaining(st)}
  <2>1. {q \in RoundLosers(st, w) \cup {w} : st.cardIds[q] # <<>>} = Remaining(st)
    BY DEF RoundLosers, InPlay, GoodState, Remaining
  <2> QED BY <2>1 DEF RoundCards
<1>5. \A q \in Seat : \A c \in Range(piles[q]) : c \in cards /\ own[c] = q
  BY <1>2, InUnion DEF OwnersHold
<1> HIDE DEF n, piles, Top
<1>6. ASSUME NEW q \in Seat, NEW c \in Range(n[q]) PROVE new[c] = q
  <2>1. CASE q = w
    <3>1. CASE c \in Range(piles[w]) BY <1>5, <2>1, <3>1
    <3>2. CASE c \notin Range(piles[w])
      <4>1. PICK p \in Remaining(st) \ {w} : c = Top(p) BY <1>1, <1>6, <2>1, <3>2
      <4>2. c \in cards /\ c \in RoundCards(st, w) BY <1>1, <1>2, <1>4, <1>5, <4>1
      <4> QED BY <2>1, <4>2
    <3> QED BY <3>1, <3>2
  <2>2. CASE q \in Remaining(st) \ {w}
    <3>1. c \in Range(piles[q]) /\ c # Top(q) BY <1>1, <1>6, <2>2
    <3>2. ASSUME NEW r \in Remaining(st) PROVE c # Top(r)
      <4>1. CASE r = q BY <3>1, <4>1
      <4>2. CASE r # q
        <5>1. Top(r) \in Range(piles[r]) /\ r \in Seat BY <1>1, <1>2, <1>3
        <5> QED BY <1>2, <3>1, <4>2, <5>1
      <4> QED BY <4>1, <4>2
    <3>3. c \notin RoundCards(st, w) BY <1>4, <3>2
    <3> QED BY <1>5, <3>1, <3>3
  <2>3. CASE q \notin Remaining(st) BY <1>1, <1>6, <2>3, EmptyRange
  <2> QED BY <1>2, <2>1, <2>2, <2>3
<1> QED BY <1>6 DEF OwnersHold, n

\* And for the row of a timeout, while nobody has run out of lives: only a player
\* out of lives loses more than his top card.
LEMMA OwnersFollowTimeout ==
    ASSUME NEW st, InPlay(st), NEW cards, Partition(st.cardIds, cards), NEW own,
           OwnersHold(st.cardIds, own), st.livesRemaining[st.currentPlayerId] > 1,
           NEW new, new = [c \in cards |-> IF c \in TimeoutCards(st)
                                           THEN NextPlayer(st, st.currentPlayerId) ELSE own[c]]
    PROVE  OwnersHold(AfterTimeout(st).cardIds, new)
<1> DEFINE p == st.currentPlayerId
           piles == st.cardIds
           top == TopCard(st, p)
           one == <<top>>
           rest == Tail(piles[p])
           none == <<>>
           next == NextPlayer(st, p)
<1>1. /\ p \in Remaining(st) /\ p \in Seat /\ piles[p] # <<>>
      /\ piles[p] \in Seq(Card) /\ IsInjective(piles[p])
      /\ st.livesRemaining[p] \in Nat
  BY LivesAssumption DEF InPlay, GoodState, Remaining, Partition, StateType
<1>2. next \in Seat \ {p}
  BY <1>1, NextPlayerRemains DEF Remaining
<1>3. /\ rest \in Seq(Card) /\ Range(rest) = Range(piles[p]) \ {top}
      /\ top \in Card /\ top \in Range(piles[p])
      /\ Len(rest) = Len(piles[p]) - 1 /\ Len(piles[p]) \in Nat \ {0}
  <2> DEFINE pile == piles[p]
  <2>1. pile \in Seq(Card) /\ pile # <<>> /\ IsInjective(pile) BY <1>1
  <2> HIDE DEF pile
  <2>2. /\ Tail(pile) \in Seq(Card)
        /\ Range(Tail(pile)) = Range(pile) \ {Head(pile)}
        /\ Head(pile) \in Card /\ Head(pile) \in Range(pile)
        /\ Len(Tail(pile)) = Len(pile) - 1 /\ Len(pile) \in Nat \ {0}
    BY <2>1, HeadTailProperties, TailRange, EmptySeq
  <2> QED BY <2>2 DEF pile, TopCard
<1>4. AfterTimeout(st).cardIds
        = IF IsOut(st, p) THEN MoveCards(piles, p, none, next, one \o rest)
                          ELSE MoveCards(piles, p, rest, next, one)
  BY TimeoutMovesPiles
<1>5. IsOut(st, p) => Len(piles[p]) <= 1
  BY <1>1 DEF IsOut
<1>6. new = [c \in cards |-> IF c \in {top} THEN next ELSE own[c]]
  BY <1>1 DEF TimeoutCards
<1> HIDE DEF next, piles, top, rest, p
<1>7. one \in Seq(Card) /\ Range(one) = {top}
  BY <1>3, SingleRange
<1>8. none \in Seq(Card) /\ Range(none) = {}
  BY EmptyRange
<1>9. AfterTimeout(st).cardIds = MoveCards(piles, p, rest, next, one)
  <2> SUFFICES ASSUME IsOut(st, p) PROVE rest = none /\ one \o rest = one
    BY <1>4
  <2>1. Len(rest) = 0
    <3> DEFINE k == Len(piles[p])
               m == Len(rest)
    <3>1. m = k - 1 /\ k \in Nat \ {0} /\ k <= 1 BY <1>3, <1>5
    <3> HIDE DEF k, m
    <3>2. m = 0 BY <3>1
    <3> QED BY <3>2 DEF m
  <2>2. rest = none BY <1>3, <2>1
  <2> HIDE DEF one
  <2> QED BY <1>7, <2>2, ConcatEmptySeq
<1> HIDE DEF one, none
<1>10. Range(rest) \cap Range(one) = {} /\ Range(rest) \cup Range(one) = Range(piles[p])
  BY <1>3, <1>7
<1>11. new = [c \in cards |-> IF c \in Range(one) THEN next ELSE own[c]]
  BY <1>6, <1>7
<1>12. Partition(piles, cards) /\ OwnersHold(piles, own) BY DEF piles
<1> QED BY <1>1, <1>2, <1>3, <1>7, <1>9, <1>10, <1>11, <1>12, OwnersFollow

LivesLast == \A p \in Seat : state.livesRemaining[p] > 0

HistoryInv ==
    /\ DOMAIN owner = Dealt
    /\ LivesLast => OwnersHold(state.cardIds, owner)

\* Before the first row every card is owned by the player it was dealt to.
LEMMA HistoryStart == HistoryInit => HistoryInv
<1> SUFFICES ASSUME HistoryInit PROVE OwnersHold(state.cardIds, owner) /\ DOMAIN owner = Dealt
  BY DEF HistoryInv
<1> DEFINE piles == Piles(deck)
<1>1. /\ deck \in Shuffled /\ state.cardIds = piles
      /\ owner = [c \in Dealt |-> DealtTo(c)]
  BY DEF HistoryInit, Init, InitialState, Dealt
<1>2. Partition(piles, Dealt)
  BY <1>1, DealIsPartition DEF Dealt
<1>3. \A p \in Seat : DOMAIN piles[p] = 1..PileSize(p)
  BY DEF Piles
<1>4. ASSUME NEW p \in Seat, NEW c \in Range(piles[p]) PROVE owner[c] = p
  <2>1. c \in Dealt BY <1>2, InUnion DEF Partition
  <2>2. \A q \in Seat : (\E i \in 1..PileSize(q) : piles[q][i] = c) <=> c \in Range(piles[q])
    <3> HIDE DEF piles
    <3> QED BY <1>3 DEF Range
  <2>3. \A q \in Seat : c \in Range(piles[q]) => q = p
    <3> HIDE DEF piles
    <3> QED BY <1>2 DEF Partition
  <2>4. DealtTo(c) = CHOOSE q \in Seat : \E i \in 1..PileSize(q) : piles[q][i] = c
    BY DEF DealtTo
  <2> HIDE DEF piles
  <2>5. DealtTo(c) = p BY <1>4, <2>2, <2>3, <2>4
  <2> QED BY <1>1, <2>1, <2>5
<1> HIDE DEF piles
<1> QED BY <1>1, <1>4 DEF OwnersHold

\* A handler with its history rows is the handler.
LEMMA HistoryIsMatch == [HistoryNext]_historyVars => [Next]_vars
  BY DEF HistoryNext, historyVars, vars, Next, TieHistory, RoundHistory, TimeoutHistory,
         ForfeitHistory

\* Every handler's rows keep the owners true while nobody has run out of lives.
LEMMA HistoryStep ==
    IInv /\ CardsInv /\ HistoryInv /\ [HistoryNext]_historyVars => HistoryInv'
<1> SUFFICES ASSUME IInv, CardsInv, HistoryInv, [HistoryNext]_historyVars PROVE HistoryInv'
  OBVIOUS
<1>1. state \in StateType /\ state.livesRemaining \in [Seat -> 0..StartingLives]
  BY DEF IInv, GoodState, StateType
<1>2. Partition(state.cardIds, Dealt) BY DEF CardsInv
<1>3. ASSUME deck' = deck, DOMAIN owner' = Dealt,
             LivesLast' => OwnersHold(state'.cardIds, owner')
      PROVE  HistoryInv'
  BY <1>3 DEF HistoryInv, Dealt
<1>4. ASSUME NEW S, NEW p, WriteRoundCards(S, p)
      PROVE  /\ owner' = [c \in Dealt |-> IF c \in S THEN p ELSE owner[c]]
             /\ DOMAIN owner' = Dealt
  BY <1>4 DEF WriteRoundCards, HistoryInv
<1>5. CASE TieHistory
  <2>1. PICK p \in Seat, s \in StatSchema : SelectAndTie(p, s) BY <1>5 DEF TieHistory
  <2>2. state' = AfterTie(state, s) /\ deck' = deck /\ owner' = owner
    BY <1>5, <2>1 DEF SelectAndTie, TieHistory
  <2>3. state'.livesRemaining = state.livesRemaining BY <1>1, <2>2, HandlersCount
  <2>4. state'.cardIds = state.cardIds BY <1>1, <2>2, HandlersMovePiles
  <2> QED BY <1>3, <2>2, <2>3, <2>4 DEF HistoryInv, LivesLast
<1>6. CASE RoundHistory
  <2>1. PICK p \in Seat, s \in StatSchema :
           /\ SelectAndResolve(p, s)
           /\ WriteRoundCards(RoundCards(state, RoundWinner(state, p, s)), RoundWinner(state, p, s))
    BY <1>6 DEF RoundHistory
  <2> DEFINE w == RoundWinner(state, p, s)
  <2>2. InPlay(state) /\ w \in Remaining(state)
    BY <2>1, InPlayWhenCalled, RoundWinnerRemains DEF SelectAndResolve
  <2>3. state' = AfterRound(state, w) /\ deck' = deck BY <2>1 DEF SelectAndResolve
  <2>4. /\ owner' = [c \in Dealt |-> IF c \in RoundCards(state, w) THEN w ELSE owner[c]]
        /\ DOMAIN owner' = Dealt
    BY <1>4, <2>1
  <2> HIDE DEF w
  <2>5. w \in Seat BY <2>2 DEF Remaining
  <2>6. state'.livesRemaining = state.livesRemaining BY <1>1, <2>3, <2>5, HandlersCount
  <2>7. state'.cardIds = PilesAfterRound(state, w) BY <1>1, <2>3, HandlersMovePiles
  <2>8. ASSUME OwnersHold(state.cardIds, owner) PROVE OwnersHold(PilesAfterRound(state, w), owner')
    BY <1>2, <2>2, <2>4, <2>8, OwnersFollowRound
  <2> QED BY <1>3, <2>3, <2>4, <2>6, <2>7, <2>8 DEF HistoryInv, LivesLast
<1>7. CASE TimeoutHistory
  <2> DEFINE p == state.currentPlayerId
  <2>1. /\ InPlay(state) /\ state' = AfterTimeout(state) /\ deck' = deck
        /\ WriteRoundCards(TimeoutCards(state), NextPlayer(state, p))
    BY <1>7 DEF TimeoutHistory, TurnTimeout, IInv, InPlay
  <2>2. /\ owner' = [c \in Dealt |-> IF c \in TimeoutCards(state)
                                      THEN NextPlayer(state, p) ELSE owner[c]]
        /\ DOMAIN owner' = Dealt
    BY <1>4, <2>1
  <2>3. state'.livesRemaining = [state.livesRemaining EXCEPT ![p] = @ - 1] /\ p \in Seat
    BY <1>1, <2>1, HandlersCount DEF StateType
  <2>4. ASSUME LivesLast' PROVE LivesLast /\ state.livesRemaining[p] > 1
    <3> DEFINE lives == state.livesRemaining
    <3>1. \A q \in Seat : lives[q] \in Int BY <1>1, LivesAssumption
    <3>2. \A q \in Seat : [lives EXCEPT ![p] = @ - 1][q] > 0 BY <2>3, <2>4 DEF LivesLast
    <3>3. \A q \in Seat \ {p} : lives[q] > 0 BY <1>1, <3>2
    <3>4. lives[p] - 1 > 0 BY <1>1, <2>3, <3>2
    <3>5. lives[p] > 1
      <4> HIDE DEF lives, p
      <4> QED BY <2>3, <3>1, <3>4
    <3>6. \A q \in Seat : lives[q] > 0
      <4> HIDE DEF lives, p
      <4> QED BY <2>3, <3>1, <3>3, <3>5
    <3> QED BY <3>5, <3>6 DEF LivesLast
  <2>5. ASSUME LivesLast' PROVE OwnersHold(AfterTimeout(state).cardIds, owner')
    <3>1. OwnersHold(state.cardIds, owner) /\ state.livesRemaining[p] > 1
      BY <2>4, <2>5 DEF HistoryInv
    <3> QED BY <1>2, <2>1, <2>2, <3>1, OwnersFollowTimeout
  <2> QED BY <1>3, <2>1, <2>2, <2>5
<1>8. CASE ForfeitHistory
  <2>1. PICK p \in Seat : /\ ForfeitMatch(p)
                         /\ WriteRoundCards(ForfeitCards(state, p), NextPlayer(state, p))
    BY <1>8 DEF ForfeitHistory
  <2> DEFINE next == NextPlayer(state, p)
             pile == state.cardIds[p]
             none == <<>>
  <2>2. InPlay(state) /\ p \in Remaining(state) /\ state' = AfterForfeit(state, p) /\ deck' = deck
    BY <2>1 DEF ForfeitMatch, CanForfeit, IInv, InPlay, Remaining
  <2>3. next \in Seat \ {p} BY <2>2, NextPlayerRemains DEF Remaining
  <2>4. pile \in Seq(Card) BY <1>1 DEF StateType
  <2>5. ForfeitCards(state, p) = Range(pile)
    <3>1. DOMAIN pile = 1..Len(pile)
      <4> HIDE DEF pile
      <4> QED BY <2>4, LenProperties
    <3> QED BY <3>1 DEF ForfeitCards, Range
  <2>6. /\ owner' = [c \in Dealt |-> IF c \in Range(pile) THEN next ELSE owner[c]]
        /\ DOMAIN owner' = Dealt
    BY <1>4, <2>1, <2>5
  <2>7. state'.livesRemaining = state.livesRemaining BY <1>1, <2>2, HandlersCount
  <2>8. state'.cardIds = MoveCards(state.cardIds, p, none, next, pile)
    BY <1>1, <2>2, HandlersMovePiles
  <2>9. none \in Seq(Card) /\ Range(none) = {} BY EmptyRange
  <2> HIDE DEF next, none
  <2>10. Range(none) \cap Range(pile) = {} /\ Range(none) \cup Range(pile) = Range(state.cardIds[p])
    BY <2>9
  <2>11. ASSUME OwnersHold(state.cardIds, owner) PROVE OwnersHold(state'.cardIds, owner')
    <3> QED BY <1>2, <2>3, <2>4, <2>6, <2>8, <2>9, <2>10, <2>11, OwnersFollow
  <2> QED BY <1>3, <2>2, <2>6, <2>7, <2>11 DEF HistoryInv, LivesLast
<1>9. CASE UNCHANGED historyVars
  <2>1. deck' = deck /\ state' = state /\ owner' = owner BY <1>9 DEF historyVars
  <2> QED BY <1>3, <2>1 DEF HistoryInv, LivesLast
<1> QED BY <1>5, <1>6, <1>7, <1>8, <1>9 DEF HistoryNext

\* While nobody has run out of lives the newest rows of the card-collection
\* history name the holder of every card, in every match.
THEOREM AuditHolds == HistorySpec => []AuditNamesHoldersWhileLivesLast
<1>1. HistorySpec => [](IInv /\ CardsInv /\ HistoryInv)
  <2>1. HistoryInit => IInv /\ CardsInv /\ HistoryInv
    BY InitHolds, CardsInit, HistoryStart DEF HistoryInit
  <2>2. IInv /\ CardsInv /\ HistoryInv /\ [HistoryNext]_historyVars
          => (IInv /\ CardsInv /\ HistoryInv)'
    BY StepHolds, CardsStep, HistoryStep, HistoryIsMatch
  <2> QED BY <2>1, <2>2, PTL DEF HistorySpec
<1>2. IInv /\ HistoryInv => AuditNamesHoldersWhileLivesLast
  <2> SUFFICES ASSUME IInv, OwnersHold(state.cardIds, owner), NEW a \in Places
               PROVE  owner[CardAt(a)] = a[1]
    BY DEF HistoryInv, AuditNamesHoldersWhileLivesLast, AuditNamesHolders, LivesLast
  <2> DEFINE P(p) == {<<p, i>> : i \in 1..Len(state.cardIds[p])}
  <2>1. PICK p \in Seat : a \in P(p)
    <3>1. a \in UNION {P(p) : p \in Seat} BY DEF Places
    <3> HIDE DEF P
    <3> QED BY <3>1
  <2>2. PICK i \in 1..Len(state.cardIds[p]) : a = <<p, i>> BY <2>1
  <2>3. state.cardIds[p] \in Seq(Card) BY DEF IInv, GoodState, StateType
  <2>4. CardAt(a) \in Range(state.cardIds[p])
    BY <2>2, <2>3, LenProperties DEF CardAt, Range
  <2> QED BY <2>2, <2>4 DEF OwnersHold
<1> QED BY <1>1, <1>2, PTL

-----------------------------------------------------------------------------
\* The order of elimination lists the eliminated players, each once.
Listed(order, out) == order \in Seq(Seat) /\ IsInjective(order) /\ Range(order) = out

OrderInv == Listed(state.eliminationOrder, state.isEliminated)

\* It still does when players who were in are added to both.
LEMMA ListedMore ==
    ASSUME NEW order, NEW out, Listed(order, out),
           NEW more \in Seq(Seat), IsInjective(more), Range(more) \cap out = {}
    PROVE  Listed(order \o more, out \cup Range(more))
<1>1. order \in Seq(Seat) /\ IsInjective(order) /\ Range(order) = out BY DEF Listed
<1>2. order \o more \in Seq(Seat) BY <1>1, ConcatProperties
<1>3. Range(order \o more) = Range(order) \cup Range(more) BY <1>1, RangeConcatenation
<1>4. IsInjective(order \o more) BY <1>1, ConcatInjective
<1> QED BY <1>1, <1>2, <1>3, <1>4 DEF Listed

\* What each handler adds to the eliminated and to their order.
LEMMA HandlersEliminate ==
    ASSUME NEW st \in StateType
    PROVE  /\ \A s : /\ AfterTie(st, s).isEliminated = st.isEliminated
                    /\ AfterTie(st, s).eliminationOrder = st.eliminationOrder
           /\ \A w : /\ AfterRound(st, w).isEliminated = st.isEliminated \cup Fallen(st, w)
                    /\ AfterRound(st, w).eliminationOrder
                         = st.eliminationOrder \o SeatOrder(Fallen(st, w))
           /\ \A p : /\ AfterForfeit(st, p).isEliminated = st.isEliminated \cup {p}
                    /\ AfterForfeit(st, p).eliminationOrder = Append(st.eliminationOrder, p)
           /\ IF IsOut(st, st.currentPlayerId)
              THEN /\ AfterTimeout(st).isEliminated = st.isEliminated \cup {st.currentPlayerId}
                   /\ AfterTimeout(st).eliminationOrder
                        = Append(st.eliminationOrder, st.currentPlayerId)
              ELSE /\ AfterTimeout(st).isEliminated = st.isEliminated
                   /\ AfterTimeout(st).eliminationOrder = st.eliminationOrder
<1>1. ASSUME NEW s
      PROVE  /\ AfterTie(st, s).isEliminated = st.isEliminated
             /\ AfterTie(st, s).eliminationOrder = st.eliminationOrder
  BY DEF AfterTie, StateType
<1>2. ASSUME NEW w
      PROVE  /\ AfterRound(st, w).isEliminated = st.isEliminated \cup Fallen(st, w)
             /\ AfterRound(st, w).eliminationOrder
                  = st.eliminationOrder \o SeatOrder(Fallen(st, w))
  BY DEF AfterRound, Decided, NextTurn, StateType
<1>3. ASSUME NEW p
      PROVE  /\ AfterForfeit(st, p).isEliminated = st.isEliminated \cup {p}
             /\ AfterForfeit(st, p).eliminationOrder = Append(st.eliminationOrder, p)
  BY DEF AfterForfeit, Decided, NextTurn, StateType
<1>4. IF IsOut(st, st.currentPlayerId)
      THEN /\ AfterTimeout(st).isEliminated = st.isEliminated \cup {st.currentPlayerId}
           /\ AfterTimeout(st).eliminationOrder = Append(st.eliminationOrder, st.currentPlayerId)
      ELSE /\ AfterTimeout(st).isEliminated = st.isEliminated
           /\ AfterTimeout(st).eliminationOrder = st.eliminationOrder
  BY DEF AfterTimeout, Decided, NextTurn, StateType
<1> QED BY <1>1, <1>2, <1>3, <1>4

\* Every handler that eliminates players adds them to the order, those who fell
\* in the same round in seat order.
LEMMA OrderStep == IInv /\ OrderInv /\ [Next]_vars => OrderInv'
<1> SUFFICES ASSUME IInv, OrderInv, [Next]_vars PROVE OrderInv'
  OBVIOUS
<1> DEFINE order == state.eliminationOrder
           out == state.isEliminated
<1>1. state \in StateType /\ Listed(order, out) /\ order \in Seq(Seat)
  BY DEF IInv, GoodState, OrderInv, Listed
<1>2. ASSUME NEW p \in Seat, p \notin out PROVE Listed(Append(order, p), out \cup {p})
  <2> DEFINE more == <<p>>
  <2>1. more \in Seq(Seat) /\ IsInjective(more) /\ Range(more) = {p} BY SingleRange
  <2>2. Append(order, p) = order \o more
    <3> HIDE DEF order
    <3> QED BY <1>1, AppendIsConcat
  <2> HIDE DEF more, order, out
  <2>3. Listed(order \o more, out \cup Range(more)) BY <1>1, <1>2, <2>1, ListedMore
  <2> QED BY <2>1, <2>2, <2>3
<1>3. ASSUME NEW p \in Seat, NEW s \in StatSchema, SelectAndTie(p, s) PROVE OrderInv'
  BY <1>1, <1>3, HandlersEliminate DEF SelectAndTie, OrderInv
<1>4. ASSUME NEW p \in Seat, NEW s \in StatSchema, SelectAndResolve(p, s) PROVE OrderInv'
  <2> DEFINE w == RoundWinner(state, p, s)
             fallen == Fallen(state, w)
             k == Cardinality(fallen)
             more == SeatOrder(fallen)
  <2>1. /\ state'.isEliminated = out \cup fallen
        /\ state'.eliminationOrder = order \o more
    BY <1>1, <1>4, HandlersEliminate DEF SelectAndResolve
  <2>2. fallen \in SUBSET Seat /\ fallen \cap out = {}
    BY <1>1 DEF Fallen, RoundLosers, StateType
  <2> HIDE DEF fallen
  <2>3. /\ more \in [1..k -> fallen] /\ more \in Seq(Seat) /\ k \in Nat
        /\ \A i, j \in 1..k : i < j => more[i] < more[j]
        /\ \A q \in fallen : \E i \in 1..k : more[i] = q
    <3>1. /\ more \in [1..k -> fallen] /\ more \in Seq(fallen) /\ k \in Nat
          /\ \A i, j \in 1..k : i < j => more[i] < more[j]
          /\ \A q \in fallen : \E i \in 1..k : more[i] = q
      BY <2>2, SeatOrderProperties
    <3> HIDE DEF more
    <3>2. more \in Seq(Seat) BY <2>2, <3>1, SeqMonotonic
    <3> QED BY <3>1, <3>2
  <2> HIDE DEF more, k, order, out
  <2>4. Range(more) = fallen BY <2>3 DEF Range
  <2>5. IsInjective(more)
    <3> SUFFICES ASSUME NEW i \in 1..k, NEW j \in 1..k, i < j PROVE more[i] # more[j]
      BY <2>3 DEF IsInjective
    <3>1. more[i] < more[j] /\ more[i] \in fallen BY <2>3
    <3>2. more[i] \in Seat BY <2>2, <3>1
    <3>3. more[i] \in Int BY <3>2, PlayersAssumption DEF Seat
    <3> QED BY <3>1, <3>3
  <2>6. Listed(order \o more, out \cup Range(more))
    <3>1. Range(more) \cap out = {} BY <2>2, <2>4
    <3> QED BY <1>1, <2>3, <2>5, <3>1, ListedMore
  <2> QED BY <2>1, <2>4, <2>6 DEF OrderInv
<1>5. CASE TurnTimeout
  <2> DEFINE p == state.currentPlayerId
  <2>1. state' = AfterTimeout(state) /\ p \in Seat /\ p \notin out
    BY <1>1, <1>5 DEF TurnTimeout, IInv, GoodState, Remaining
  <2>2. CASE IsOut(state, p)
    <3>1. state'.isEliminated = out \cup {p} /\ state'.eliminationOrder = Append(order, p)
      BY <1>1, <2>1, <2>2, HandlersEliminate
    <3> QED BY <1>2, <2>1, <3>1 DEF OrderInv
  <2>3. CASE ~IsOut(state, p)
    <3>1. state'.isEliminated = out /\ state'.eliminationOrder = order
      BY <1>1, <2>1, <2>3, HandlersEliminate
    <3> QED BY <1>1, <3>1 DEF OrderInv
  <2> QED BY <2>2, <2>3
<1>6. ASSUME NEW p \in Seat, ForfeitMatch(p) PROVE OrderInv'
  <2>1. state' = AfterForfeit(state, p) /\ p \notin out
    BY <1>6 DEF ForfeitMatch, CanForfeit
  <2>2. state'.isEliminated = out \cup {p} /\ state'.eliminationOrder = Append(order, p)
    BY <1>1, <2>1, HandlersEliminate
  <2> QED BY <1>2, <2>1, <2>2 DEF OrderInv
<1>7. CASE UNCHANGED vars
  BY <1>7 DEF vars, OrderInv
<1> QED BY <1>3, <1>4, <1>5, <1>6, <1>7 DEF Next

\* Nobody is eliminated at the start.
LEMMA OrderStart == Init => OrderInv
<1>1. Listed(<<>>, {}) BY EmptyRange DEF Listed
<1> QED BY <1>1 DEF Init, InitialState, OrderInv

\* finishGame's list [winner, ...eliminationOrder reversed] ranks everybody once.
LEMMA RanksAreTotal ==
    ASSUME NEW st \in StateType, Remaining(st) = {st.winnerId},
           Listed(st.eliminationOrder, st.isEliminated)
    PROVE  /\ \A p \in Seat : FinalRanks(st)[p] \in 1..NumPlayers
           /\ \A p, q \in Seat : FinalRanks(st)[p] = FinalRanks(st)[q] => p = q
           /\ FinalRanks(st)[st.winnerId] = 1
<1> DEFINE order == st.eliminationOrder
           w == st.winnerId
           n == Len(order)
           list == Ranked(st)
<1>1. /\ order \in Seq(Seat) /\ IsInjective(order) /\ Range(order) = Seat \ {w}
      /\ w \in Seat
  BY DEF Listed, Remaining, StateType
<1>2. n \in Nat /\ DOMAIN order = 1..n /\ order \in [1..n -> Seat]
  BY <1>1, LenProperties
<1>3. list = [i \in 1..(n + 1) |-> IF i = 1 THEN w ELSE order[n + 2 - i]]
  BY DEF Ranked
<1>4. n + 1 = NumPlayers
  <2>1. order \in Bijection(1..n, Seat \ {w})
    <3>1. order \in [1..n -> Seat \ {w}] BY <1>1, <1>2 DEF Range
    <3>2. \A t \in Seat \ {w} : \E i \in 1..n : order[i] = t BY <1>1, <1>2 DEF Range
    <3>3. \A i, j \in 1..n : order[i] = order[j] => i = j BY <1>1, <1>2 DEF IsInjective
    <3> HIDE DEF order, n
    <3>4. order \in Injection(1..n, Seat \ {w}) BY <3>1, <3>3 DEF Injection, IsInjective
    <3>5. order \in Surjection(1..n, Seat \ {w}) BY <3>1, <3>2 DEF Surjection
    <3> QED BY <3>4, <3>5 DEF Bijection
  <2> HIDE DEF order, n
  <2>2. Cardinality(Seat \ {w}) = n
    BY <1>2, <2>1, FS_CountingElements DEF ExistsBijection
  <2>3. IsFiniteSet(Seat) /\ Cardinality(Seat) = NumPlayers
    BY FS_Interval, PlayersAssumption DEF Seat
  <2>4. Cardinality(Seat \ {w}) = NumPlayers - 1
    BY <1>1, <2>3, FS_RemoveElement
  <2> QED BY <1>2, <2>2, <2>4, PlayersAssumption
<1> HIDE DEF order, n, w, list
<1>5. DOMAIN list = 1..NumPlayers BY <1>3, <1>4
<1>6. \A i, j \in 1..NumPlayers : list[i] = list[j] => i = j
  <2> SUFFICES ASSUME NEW i \in 1..NumPlayers, NEW j \in 1..NumPlayers, list[i] = list[j]
               PROVE  i = j
    OBVIOUS
  <2>1. ASSUME NEW k \in 1..NumPlayers, k # 1
        PROVE  n + 2 - k \in 1..n /\ list[k] = order[n + 2 - k] /\ list[k] # w
    <3>1. n + 2 - k \in 1..n /\ list[k] = order[n + 2 - k] BY <1>2, <1>3, <1>4, <2>1
    <3>2. order[n + 2 - k] \in Range(order) BY <1>2, <3>1 DEF Range
    <3> QED BY <1>1, <3>1, <3>2
  <2>2. 1 \in 1..NumPlayers /\ list[1] = w BY <1>2, <1>3, <1>4
  <2>3. CASE i = 1 \/ j = 1 BY <2>1, <2>2, <2>3
  <2>4. CASE i # 1 /\ j # 1
    <3>1. n + 2 - i = n + 2 - j BY <1>1, <1>2, <2>1, <2>4 DEF IsInjective
    <3> QED BY <1>2, <3>1
  <2> QED BY <2>3, <2>4
<1>7. \A p \in Seat : \E i \in 1..NumPlayers : list[i] = p
  <2> SUFFICES ASSUME NEW p \in Seat PROVE \E i \in 1..NumPlayers : list[i] = p
    OBVIOUS
  <2>1. CASE p = w
    <3>1. 1 \in 1..NumPlayers /\ list[1] = w BY <1>2, <1>3, <1>4
    <3> QED BY <2>1, <3>1
  <2>2. CASE p # w
    <3>1. PICK k \in 1..n : order[k] = p BY <1>1, <1>2, <2>2 DEF Range
    <3>2. n + 2 - k \in 1..NumPlayers /\ n + 2 - k # 1 /\ n + 2 - (n + 2 - k) = k
      BY <1>2, <1>4
    <3>3. list[n + 2 - k] = p BY <1>3, <1>4, <3>1, <3>2
    <3> QED BY <3>2, <3>3
  <2> QED BY <2>1, <2>2
<1>8. ASSUME NEW p \in Seat
      PROVE  FinalRanks(st)[p] \in 1..NumPlayers /\ list[FinalRanks(st)[p]] = p
  <2> DEFINE ranks == {i \in DOMAIN list : list[i] = p}
  <2>1. PICK i \in 1..NumPlayers : list[i] = p BY <1>7
  <2>2. ranks = {i} BY <1>5, <1>6, <2>1
  <2>3. FinalRanks(st)[p]
          = IF ranks = {} THEN 0 ELSE CHOOSE k \in ranks : \A j \in ranks : j <= k
    BY DEF FinalRanks, list
  <2> HIDE DEF ranks
  <2>4. FinalRanks(st)[p] = CHOOSE k \in {i} : \A j \in {i} : j <= k BY <2>2, <2>3
  <2>5. \A j \in {i} : j <= i OBVIOUS
  <2>6. FinalRanks(st)[p] \in {i} BY <2>4, <2>5
  <2> QED BY <2>1, <2>6
<1>9. FinalRanks(st)[w] = 1
  <2>1. list[1] = w /\ 1 \in 1..NumPlayers BY <1>2, <1>3, <1>4
  <2> QED BY <1>1, <1>6, <1>8, <2>1
<1> QED BY <1>8, <1>9 DEF w

\* Every match that ends ranks all its players, no two alike, the winner first,
\* also when several fall in one round or a player forfeits.
THEOREM RankingHolds == Spec => []RankingIsTotal
<1>1. Spec => [](IInv /\ OrderInv)
  BY InitHolds, OrderStart, StepHolds, OrderStep, PTL DEF Spec
<1>2. IInv /\ OrderInv => RankingIsTotal
  <2> SUFFICES ASSUME IInv, OrderInv, Finished PROVE RankingIsTotal
    BY DEF RankingIsTotal
  <2>1. state \in StateType /\ Remaining(state) = {state.winnerId}
    BY DEF IInv, GoodState, Finished
  <2>2. Listed(state.eliminationOrder, state.isEliminated) BY DEF OrderInv
  <2> QED BY <2>1, <2>2, RanksAreTotal DEF RankingIsTotal
<1> QED BY <1>1, <1>2, PTL

-----------------------------------------------------------------------------
\* Every value a card is compared by is a number, or no value.
LEMMA ValueType ==
    ASSUME NEW c \in Card, NEW s \in StatSchema
    PROVE  comparisonValue(s, Statistics[c][s]) \in Int \cup {NoValue}
<1> DEFINE raw == Statistics[c][s]
<1>1. IsRaw(raw) BY StatisticsAssumption
<1> HIDE DEF raw
<1>2. raw.type = "number" => raw.value \in Int
  <2> SUFFICES ASSUME raw.type = "number" PROVE raw.value \in Int
    OBVIOUS
  <2> QED BY <1>1 DEF IsRaw
<1>3. raw.type = "figure" => bowlingFigureScore(raw) \in Int
  <2> SUFFICES ASSUME raw.type = "figure" PROVE raw.wickets * 1000 - raw.runs \in Int
    BY DEF bowlingFigureScore
  <2>1. raw.wickets \in Nat /\ raw.runs \in Nat BY <1>1 DEF IsRaw
  <2> QED BY <2>1
<1>4. comparisonValue(s, raw) \in Int \cup {NoValue}
  <2>1. CASE s = "bestBowling" /\ ParsesAsBowlingFigure(raw)
    <3>1. comparisonValue(s, raw) = bowlingFigureScore(raw) BY <2>1 DEF comparisonValue
    <3>2. raw.type = "figure" BY <2>1 DEF ParsesAsBowlingFigure
    <3> QED BY <1>3, <3>1, <3>2
  <2>2. CASE s # "bestBowling" /\ raw.type = "number"
    <3>1. comparisonValue(s, raw) = raw.value BY <2>2 DEF comparisonValue
    <3> QED BY <1>2, <2>2, <3>1
  <2>3. CASE ~(s = "bestBowling" /\ ParsesAsBowlingFigure(raw))
             /\ ~(s # "bestBowling" /\ raw.type = "number")
    BY <2>3 DEF comparisonValue
  <2> QED BY <2>1, <2>2, <2>3
<1> QED BY <1>4 DEF raw

\* Math.max or Math.min of at least one number is one of the numbers.
LEMMA BestExists ==
    ASSUME NEW D \in SUBSET Seat, D # {}, NEW v, \A p \in D : v[p] \in Int, NEW s
    PROVE  \E p \in D : \A q \in D : AtLeastAsGood(s, v[p], v[q])
<1> DEFINE HasBest(S) == \E p \in S : \A q \in S : AtLeastAsGood(s, v[p], v[q])
           Bad == {S \in SUBSET D : S # {} /\ ~HasBest(S)}
           Sizes == {Cardinality(S) : S \in Bad}
<1> SUFFICES ASSUME D \in Bad PROVE FALSE
  OBVIOUS
<1>1. Sizes \in SUBSET Nat /\ Sizes # {}
  <2>1. \A S \in Bad : S \in SUBSET Seat OBVIOUS
  <2> HIDE DEF Bad
  <2> QED BY <2>1, SeatsFinite
<1>2. PICK z \in Sizes : \A y \in Sizes : z <= y
  BY <1>1, LeastNatural
<1>3. PICK S \in Bad : z = Cardinality(S)
  OBVIOUS
<1>4. PICK m \in S : TRUE
  OBVIOUS
<1>5. Cardinality(S \ {m}) = z - 1 /\ z \in Nat
  <2>1. S \in SUBSET Seat OBVIOUS
  <2> QED BY <1>3, <1>4, <2>1, SeatsFinite, FS_RemoveElement
<1>6. S \ {m} \notin Bad
  <2> HIDE DEF Bad
  <2> QED BY <1>2, <1>5
<1>7. m \in D /\ v[m] \in Int
  BY <1>4
<1>8. CASE S \ {m} = {}
  <2>1. S = {m} BY <1>4, <1>8
  <2>2. AtLeastAsGood(s, v[m], v[m]) BY <1>7 DEF AtLeastAsGood
  <2> QED BY <2>1, <2>2
<1>9. CASE S \ {m} # {}
  <2>1. PICK b \in S \ {m} : \A q \in S \ {m} : AtLeastAsGood(s, v[b], v[q])
    BY <1>6, <1>9
  <2>2. v[b] \in Int /\ v[m] \in Int /\ \A q \in S : v[q] \in Int BY <1>7
  <2>3. CASE AtLeastAsGood(s, v[m], v[b])
    <3>1. ASSUME NEW q \in S PROVE AtLeastAsGood(s, v[m], v[q])
      <4>1. CASE q = m
        <5>1. AtLeastAsGood(s, v[m], v[m]) BY <2>2 DEF AtLeastAsGood
        <5> QED BY <4>1, <5>1
      <4>2. CASE q # m
        <5>1. AtLeastAsGood(s, v[b], v[q]) /\ v[q] \in Int BY <2>1, <2>2, <4>2
        <5> QED BY <2>2, <2>3, <5>1 DEF AtLeastAsGood
      <4> QED BY <4>1, <4>2
    <3> QED BY <1>4, <3>1
  <2>4. CASE ~AtLeastAsGood(s, v[m], v[b])
    <3>1. AtLeastAsGood(s, v[b], v[m]) BY <2>2, <2>4 DEF AtLeastAsGood
    <3>2. \A q \in S : AtLeastAsGood(s, v[b], v[q]) BY <2>1, <3>1
    <3> QED BY <2>1, <3>2
  <2> QED BY <2>3, <2>4
<1> QED BY <1>8, <1>9

\* What determineWinners says of a round: the winners' values are equal, and
\* nobody wins only when nobody compared has a value.
LEMMA WinnersAgree ==
    ASSUME NEW st, InPlay(st), NEW s \in StatSchema
    PROVE  LET Value(p) == comparisonValue(s, Statistics[TopCard(st, p)][s])
           IN  /\ \A p, q \in Winners(st, s) : Value(p) = Value(q) /\ Value(p) # NoValue
               /\ Winners(st, s) = {} => \A p \in ComparisonPlayers(st) : Value(p) = NoValue
<1> DEFINE Value(p) == comparisonValue(s, Statistics[TopCard(st, p)][s])
           v == Values(st, s)
           D == ComparisonPlayers(st)
           entries == {p \in D : v[p] # NoValue}
<1>1. D \subseteq Remaining(st) /\ D \in SUBSET Seat
  BY ComparisonPlayersRemain DEF Remaining
<1>2. \A p \in D : v[p] = Value(p) BY DEF Values
<1>3. \A p \in D : TopCard(st, p) \in Card
  BY <1>1, HeadAndTail DEF TopCard, InPlay, GoodState, StateType, Remaining
<1>4. \A p \in D : Value(p) \in Int \cup {NoValue}
  BY <1>3, ValueType
<1>5. Winners(st, s) = {p \in entries : \A q \in entries : AtLeastAsGood(s, v[p], v[q])}
  <2>1. DOMAIN v = D BY DEF Values
  <2> HIDE DEF v, D
  <2> QED BY <2>1 DEF Winners, determineWinners, v
<1> HIDE DEF Value, v, D
<1>6. entries \in SUBSET Seat /\ \A p \in entries : v[p] \in Int /\ v[p] = Value(p)
  BY <1>1, <1>2, <1>4
<1>7. ASSUME NEW p \in Winners(st, s), NEW q \in Winners(st, s)
      PROVE  Value(p) = Value(q) /\ Value(p) # NoValue
  <2>1. /\ p \in entries /\ q \in entries
        /\ AtLeastAsGood(s, v[p], v[q]) /\ AtLeastAsGood(s, v[q], v[p])
    BY <1>5
  <2>2. v[p] \in Int /\ v[q] \in Int /\ v[p] # NoValue
    BY <1>6, <2>1
  <2>3. v[p] = v[q] BY <2>1, <2>2 DEF AtLeastAsGood
  <2> QED BY <1>6, <2>1, <2>2, <2>3
<1>8. ASSUME Winners(st, s) = {}, NEW p \in D PROVE Value(p) = NoValue
  <2>1. entries = {}
    <3> SUFFICES ASSUME entries # {} PROVE FALSE
      OBVIOUS
    <3> HIDE DEF entries
    <3>1. \E q \in entries : \A r \in entries : AtLeastAsGood(s, v[q], v[r])
      BY <1>6, BestExists
    <3> QED BY <1>5, <1>8, <3>1
  <2> QED BY <1>2, <2>1
<1> QED BY <1>7, <1>8 DEF Value, D

-----------------------------------------------------------------------------
\* A tie is recorded between players whose cards compare by the same value, also
\* on every statistic used before in the same tie.
LEMMA TieStaysGenuine == IInv /\ TieIsGenuine /\ [Next]_vars => TieIsGenuine'
<1> SUFFICES ASSUME IInv, TieIsGenuine, Next PROVE TieIsGenuine'
  BY DEF vars, TieIsGenuine, TopCard
<1>1. CASE EndsRound(state, state')
  BY <1>1 DEF EndsRound, TieIsGenuine
<1>2. ASSUME NEW s \in StatSchema, InPlay(state), IsTie(state, s), state' = AfterTie(state, s)
      PROVE  TieIsGenuine'
  <2> DEFINE Value(t, p) == comparisonValue(t, Statistics[TopCard(state, p)][t])
             used == state.tieState.usedStatistics
             W == Winners(state, s)
             used2 == Append(used, s)
  <2>1. state \in StateType BY DEF IInv, GoodState
  <2>2. used \in Seq(StatSchema) BY <2>1 DEF StateType
  <2>3. /\ state'.tieState = [contestingPlayerIds |-> W, usedStatistics |-> used2]
        /\ state'.cardIds = state.cardIds
    BY <1>2, <2>1 DEF AfterTie, StateType
  <2>4. \A t, p : comparisonValue(t, Statistics[TopCard(state', p)][t]) = Value(t, p)
    BY <2>3 DEF TopCard
  <2>5. W \subseteq ComparisonPlayers(state) /\ \E p, q \in W : p # q
    BY <1>2, WinnersCompared DEF IsTie
  <2>6. \A p, q \in W : Value(s, p) = Value(s, q) /\ Value(s, p) # NoValue
    <3> HIDE DEF W
    <3> QED BY <1>2, WinnersAgree DEF W
  <2>7. \A i \in 1..Len(used) : \A p, q \in W :
           Value(used[i], p) = Value(used[i], q) /\ Value(used[i], p) # NoValue
    <3>1. CASE state.tieState = NoTie
      <4>1. Len(used) = 0 BY <3>1 DEF NoTie
      <4> QED BY <4>1
    <3>2. CASE state.tieState # NoTie
      <4>1. ComparisonPlayers(state) = state.tieState.contestingPlayerIds
        BY <3>2 DEF ComparisonPlayers
      <4> QED BY <2>5, <3>2, <4>1 DEF TieIsGenuine
    <3> QED BY <3>1, <3>2
  <2>8. /\ Len(used2) = Len(used) + 1 /\ Len(used) \in Nat
        /\ \A i \in 1..Len(used) : used2[i] = used[i]
        /\ used2[Len(used) + 1] = s
    <3> HIDE DEF used
    <3> QED BY <2>2, AppendProperties, LenProperties
  <2> HIDE DEF Value, used, W, used2
  <2>9. ASSUME NEW i \in 1..Len(used2), NEW p \in W, NEW q \in W
        PROVE  Value(used2[i], p) = Value(used2[i], q) /\ Value(used2[i], p) # NoValue
    <3>1. CASE i = Len(used) + 1 BY <2>6, <2>8, <3>1
    <3>2. CASE i # Len(used) + 1
      <4>1. i \in 1..Len(used) BY <2>8, <3>2
      <4> QED BY <2>7, <2>8, <4>1
    <3> QED BY <3>1, <3>2
  <2>10. /\ state'.tieState.contestingPlayerIds = W
         /\ state'.tieState.usedStatistics = used2
    BY <2>3
  <2> QED BY <2>4, <2>5, <2>9, <2>10 DEF TieIsGenuine
<1> QED BY <1>1, <1>2, TieOrEnd

\* In every match a tie is contested by at least two players, whose top cards have
\* the same value in every statistic used so far.
THEOREM TiesAreGenuine == Spec => []TieIsGenuine
<1>1. Init => TieIsGenuine
  BY DEF Init, InitialState, TieIsGenuine
<1> QED BY <1>1, InitHolds, StepHolds, TieStaysGenuine, PTL DEF Spec

\* Whom a round's end names: the winner of the match, or the next to call.
LEMMA RoundNamesWinner ==
    ASSUME NEW st \in StateType, st.status = "PLAYER_TURN", NEW w
    PROVE  LET n == AfterRound(st, w)
           IN  IF n.status = "GAME_FINISHED" THEN n.winnerId = w ELSE n.currentPlayerId = w
  BY DEF AfterRound, Decided, NextTurn, StateType

\* In every match the call that breaks a tie is won by one of the tied players;
\* the caller takes the round only when there is a statistic that he can call and none
\* of their cards has.
THEOREM TiesAreWonByTied == Spec => TieIsWonByTied
<1> DEFINE Won ==
        (RoundResolvedStep /\ state.tieState # NoTie) =>
          LET tied == state.tieState.contestingPlayerIds
              winner == IF Finished' THEN state'.winnerId ELSE state'.currentPlayerId
          IN  \/ winner \in tied
              \/ /\ winner = state.currentPlayerId
                 /\ \E s \in StatSchema :
                       /\ CanSelect(state, winner, s)
                       /\ \A p \in tied :
                             comparisonValue(s, Statistics[TopCard(state, p)][s]) = NoValue
<1>1. IInv /\ [Next]_vars => [Won]_vars
  <2> SUFFICES ASSUME IInv, Next, RoundResolvedStep, state.tieState # NoTie PROVE Won
    OBVIOUS
  <2> DEFINE tied == state.tieState.contestingPlayerIds
             winner == IF Finished' THEN state'.winnerId ELSE state'.currentPlayerId
  <2>1. state \in StateType BY DEF IInv, GoodState
  <2>2. ASSUME NEW p \in Seat, NEW s \in StatSchema, SelectAndTie(p, s) PROVE FALSE
    <3> DEFINE used == state.tieState.usedStatistics
    <3>1. used \in Seq(StatSchema) BY <2>1 DEF StateType
    <3>2. state'.tieState = [contestingPlayerIds |-> Winners(state, s),
                             usedStatistics |-> Append(used, s)]
      BY <2>1, <2>2 DEF SelectAndTie, AfterTie, StateType
    <3>3. Append(used, s) # <<>>
      <4> HIDE DEF used
      <4> QED BY <3>1, AppendProperties
    <3>4. state'.tieState = NoTie BY DEF RoundResolvedStep
    <3>5. NoTie.usedStatistics = <<>> BY DEF NoTie
    <3>6. state'.tieState.usedStatistics = Append(used, s) BY <3>2
    <3> HIDE DEF used
    <3> QED BY <3>3, <3>4, <3>5, <3>6
  <2>3. ASSUME NEW p \in Seat, NEW s \in StatSchema, SelectAndResolve(p, s) PROVE Won
    <3> DEFINE w == RoundWinner(state, p, s)
    <3>1. InPlay(state) /\ p = state.currentPlayerId /\ CanSelect(state, p, s)
      BY <2>3, InPlayWhenCalled DEF SelectAndResolve, SelectStatistic, CanSelect
    <3>2. state' = AfterRound(state, w) /\ state.status = "PLAYER_TURN"
      BY <2>1, <2>3, <3>1 DEF SelectAndResolve, InPlay, StateType
    <3>3. winner = w
      <4> HIDE DEF w
      <4> QED BY <2>1, <3>2, RoundNamesWinner DEF Finished
    <3>4. ComparisonPlayers(state) = tied BY DEF ComparisonPlayers
    <3>5. CASE Winners(state, s) = {}
      <4>1. w = state.currentPlayerId BY <3>1, <3>5 DEF RoundWinner
      <4>2. \A q \in tied : comparisonValue(s, Statistics[TopCard(state, q)][s]) = NoValue
        BY <3>1, <3>4, <3>5, WinnersAgree
      <4> HIDE DEF w
      <4> QED BY <3>1, <3>3, <4>1, <4>2
    <3>6. CASE Winners(state, s) # {}
      <4>1. w \in Winners(state, s) BY <3>6 DEF RoundWinner
      <4>2. w \in tied BY <3>4, <4>1, WinnersCompared
      <4> HIDE DEF w
      <4> QED BY <3>3, <4>2
    <3> QED BY <3>5, <3>6
  <2>4. CASE TurnTimeout
    <3> DEFINE p == state.currentPlayerId
    <3>1. state'.livesRemaining = [state.livesRemaining EXCEPT ![p] = @ - 1]
      BY <2>1, <2>4, HandlersCount DEF TurnTimeout
    <3>2. state'.livesRemaining = state.livesRemaining BY DEF RoundResolvedStep
    <3>3. p \in Seat /\ state.livesRemaining \in [Seat -> 0..StartingLives]
      BY <2>1 DEF StateType
    <3>4. state.livesRemaining[p] \in Int BY <3>3, LivesAssumption
    <3>5. state.livesRemaining[p] = state.livesRemaining[p] - 1 BY <3>1, <3>2, <3>3
    <3> QED BY <3>4, <3>5
  <2>5. ASSUME NEW p \in Seat, ForfeitMatch(p) PROVE FALSE
    <3>1. state'.eventSequence = state.eventSequence
      BY <2>1, <2>5, HandlersCount DEF ForfeitMatch
    <3>2. state.eventSequence \in Nat BY <2>1 DEF StateType
    <3> QED BY <3>1, <3>2 DEF RoundResolvedStep
  <2> HIDE DEF Won
  <2> QED BY <2>2, <2>3, <2>4, <2>5 DEF Next
<1> QED BY <1>1, Inductive, PTL DEF Spec, TieIsWonByTied
=============================================================================
