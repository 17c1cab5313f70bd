-------------------------- MODULE GameStateLemmas ---------------------------
(***************************************************************************)
(* Facts about the operators of GameState that hold for every number of    *)
(* players and every set of cards: seats in order, the next player, the    *)
(* sizes of the piles dealt.                                               *)
(***************************************************************************)
EXTENDS GameState, TLAPS, FiniteSetTheorems, WellFoundedInduction

Less == {pair \in Nat \X Nat : pair[1] < pair[2]}

\* The order of the naturals is well-founded.
LEMMA LessWellFounded == IsWellFoundedOn(Less, Nat)
<1> DEFINE R == OpToRel(<, Nat)
<1>1. IsWellFoundedOn(R, Nat) BY NatLessThanWellFounded
<1>2. R = Less BY DEF OpToRel, Less
<1> QED BY <1>1, <1>2

\* Every set of naturals that has a member has a least one.
LEMMA LeastNatural ==
    ASSUME NEW S \in SUBSET Nat, S # {}
    PROVE  \E x \in S : \A y \in S : x <= y
<1>1. PICK x \in S : \A y \in S : ~(<<y, x>> \in Less)
  <2> HIDE DEF Less
  <2> QED BY WFMin, LessWellFounded
<1>2. ASSUME NEW y \in S PROVE x <= y
  <2>1. ~(<<y, x>> \in Less) BY <1>1
  <2>2. y \in Nat /\ x \in Nat OBVIOUS
  <2>3. <<y, x>>[1] = y /\ <<y, x>>[2] = x OBVIOUS
  <2>4. <<y, x>> \in Nat \X Nat BY <2>2
  <2>5. ~(y < x) BY <2>1, <2>3, <2>4 DEF Less
  <2> QED BY <2>5, <2>2
<1> QED BY <1>2

\* A set of seats that is not empty has a last one.
LEMMA LastSeat ==
    ASSUME NEW S \in SUBSET Seat, S # {}
    PROVE  \E x \in S : \A y \in S : y <= x
<1> DEFINE T == {NumPlayers - y : y \in S}
<1>1. T \in SUBSET Nat /\ T # {}
  BY PlayersAssumption DEF Seat
<1>2. PICK z \in T : \A t \in T : z <= t
  BY <1>1, LeastNatural
<1>3. PICK x \in S : z = NumPlayers - x
  OBVIOUS
<1>4. ASSUME NEW y \in S PROVE y <= x
  BY <1>2, <1>3, PlayersAssumption DEF Seat
<1> QED BY <1>4

\* Any set of seats is finite.
LEMMA SeatsFinite ==
    ASSUME NEW S \in SUBSET Seat
    PROVE  IsFiniteSet(S) /\ Cardinality(S) \in Nat
<1>1. IsFiniteSet(Seat) BY FS_Interval, PlayersAssumption DEF Seat
<1>2. IsFiniteSet(S) BY <1>1, FS_Subset
<1> QED BY <1>2, FS_CardinalityType

\* A larger last seat extends an order of seats.
LEMMA SeatOrderExtends ==
    ASSUME NEW S \in SUBSET Seat, NEW m \in S, \A y \in S : y <= m,
           NEW o \in SeatOrders(S \ {m})
    PROVE  SeatOrders(S) # {}
<1> DEFINE k == Cardinality(S)
           n == [i \in 1..k |-> IF i = k THEN m ELSE o[i]]
<1>1. k \in Nat /\ k >= 1 /\ Cardinality(S \ {m}) = k - 1
  <2>1. IsFiniteSet(S) /\ k \in Nat BY SeatsFinite
  <2>2. Cardinality(S \ {m}) = k - 1 BY <2>1, FS_RemoveElement
  <2>3. Cardinality(S \ {m}) \in Nat BY SeatsFinite
  <2> QED BY <2>1, <2>2, <2>3
<1>2. o \in [1..(k - 1) -> S \ {m}]
      /\ (\A i, j \in 1..(k - 1) : i < j => o[i] < o[j])
      /\ (\A p \in S \ {m} : \E i \in 1..(k - 1) : o[i] = p)
  BY <1>1 DEF SeatOrders
<1>3. n \in [1..k -> S]
  BY <1>1, <1>2
<1>4. ASSUME NEW i \in 1..k, NEW j \in 1..k, i < j PROVE n[i] < n[j]
  <2>1. i \in 1..(k - 1) /\ n[i] = o[i] BY <1>1, <1>4
  <2>2. n[i] \in S \ {m} BY <1>2, <2>1
  <2>3. CASE j = k
    <3>1. n[j] = m /\ n[i] <= m /\ n[i] # m BY <2>2, <2>3
    <3>2. S \subseteq Int BY PlayersAssumption DEF Seat
    <3>3. n[i] \in Int /\ m \in Int
      <4> HIDE DEF n
      <4> QED BY <2>2, <3>2
    <3> QED BY <3>1, <3>3
  <2>4. CASE j # k
    <3>1. j \in 1..(k - 1) /\ n[j] = o[j] BY <1>1, <2>4
    <3> QED BY <1>2, <1>4, <2>1, <3>1
  <2> QED BY <2>3, <2>4
<1>5. ASSUME NEW p \in S PROVE \E i \in 1..k : n[i] = p
  <2>1. CASE p = m
    <3>1. k \in 1..k /\ n[k] = m BY <1>1
    <3> QED BY <2>1, <3>1
  <2>2. CASE p # m
    <3>1. PICK i \in 1..(k - 1) : o[i] = p BY <1>2, <2>2
    <3>2. i \in 1..k /\ n[i] = p BY <1>1, <3>1
    <3> QED BY <3>2
  <2> QED BY <2>1, <2>2
<1>6. n \in SeatOrders(S)
  BY <1>3, <1>4, <1>5 DEF SeatOrders
<1> QED BY <1>6

\* Every set of seats can be listed in seat order.
LEMMA SeatOrderExists ==
    ASSUME NEW A \in SUBSET Seat
    PROVE  SeatOrders(A) # {}
<1> DEFINE Bad == {S \in SUBSET Seat : SeatOrders(S) = {}}
           Sizes == {Cardinality(S) : S \in Bad}
<1> SUFFICES ASSUME A \in Bad PROVE FALSE
  OBVIOUS
<1>1. Sizes \in SUBSET Nat /\ Sizes # {}
  BY SeatsFinite
<1>2. PICK z \in Sizes : \A y \in Sizes : z <= y
  BY <1>1, LeastNatural
<1>3. PICK S \in Bad : z = Cardinality(S)
  OBVIOUS
<1>4. S # {}
  <2>1. SUFFICES ASSUME S = {} PROVE FALSE OBVIOUS
  <2>2. Cardinality(S) = 0 BY <2>1, FS_EmptySet
  <2>3. [i \in 1..0 |-> i] \in SeatOrders(S)
    BY <2>1, <2>2 DEF SeatOrders
  <2> QED BY <2>3
<1>5. PICK m \in S : \A y \in S : y <= m
  BY <1>4, LastSeat
<1>6. Cardinality(S \ {m}) = z - 1 /\ z \in Nat
  BY <1>3, SeatsFinite, FS_RemoveElement
<1>7. S \ {m} \notin Bad
  BY <1>2, <1>6
<1>8. PICK o : o \in SeatOrders(S \ {m})
  BY <1>7
<1> QED BY <1>5, <1>8, SeatOrderExtends

\* SeatOrder lists the members of a set of seats, each once.
LEMMA SeatOrderProperties ==
    ASSUME NEW S \in SUBSET Seat
    PROVE  /\ SeatOrder(S) \in [1..Cardinality(S) -> S]
           /\ SeatOrder(S) \in Seq(S)
           /\ Len(SeatOrder(S)) = Cardinality(S)
           /\ Cardinality(S) \in Nat
           /\ \A i, j \in 1..Cardinality(S) : i < j => SeatOrder(S)[i] < SeatOrder(S)[j]
           /\ \A p \in S : \E i \in 1..Cardinality(S) : SeatOrder(S)[i] = p
<1>1. SeatOrder(S) \in SeatOrders(S)
  BY SeatOrderExists DEF SeatOrder
<1>2. SeatOrder(S) \in [1..Cardinality(S) -> S]
  BY <1>1 DEF SeatOrders
<1>3. Cardinality(S) \in Nat
  BY SeatsFinite
<1>4. SeatOrder(S) \in Seq(S) /\ Len(SeatOrder(S)) = Cardinality(S)
  BY <1>2, <1>3
<1> QED BY <1>1, <1>2, <1>3, <1>4 DEF SeatOrders

\* The player a card or a deck moves to is another one who is still in.
LEMMA NextPlayerIsAnother ==
    ASSUME NEW st, NEW p \in Remaining(st), NEW q \in Remaining(st), p # q
    PROVE  NextPlayer(st, p) \in Remaining(st) \ {p}
<1> DEFINE others == Remaining(st) \ {p}
           later == {r \in others : r > p}
<1>1. others \in SUBSET Nat /\ others # {} /\ later \in SUBSET Nat
  BY DEF Remaining, Seat
<1>2. CASE later # {}
  <2>1. \E x \in later : \A y \in later : x <= y BY <1>1, <1>2, LeastNatural
  <2> QED BY <1>2, <2>1 DEF NextPlayer
<1>3. CASE later = {}
  <2>1. PICK x \in others : \A y \in others : x <= y BY <1>1, LeastNatural
  <2>2. x \in Int /\ p \in Int /\ x # p /\ ~(x > p)
    BY <1>1, <1>3 DEF Remaining, Seat
  <2>3. \A y \in others \cup {p} : x <= y BY <2>1, <2>2
  <2>4. NextPlayer(st, p) = CHOOSE r \in others \cup {p} : \A y \in others \cup {p} : r <= y
    BY <1>3 DEF NextPlayer
  <2>5. NextPlayer(st, p) \in others \cup {p} /\ (\A y \in others \cup {p} : NextPlayer(st, p) <= y)
    BY <2>1, <2>3, <2>4
  <2>6. NextPlayer(st, p) <= x BY <2>1, <2>5
  <2>7. NextPlayer(st, p) # p BY <2>2, <2>6
  <2> QED BY <2>5, <2>7
<1> QED BY <1>2, <1>3

-----------------------------------------------------------------------------
\* The number of cards dealt is a natural number, at least one for each player.
LEMMA EnoughCards ==
    NumDealt \in Nat /\ NumDealt >= NumPlayers
<1>1. Cardinality(Card) \in Nat BY CardsAssumption, FS_CardinalityType
<1>2. CASE DeckSize # NoDeckSize /\ DeckSize < Cardinality(Card)
  <2>1. DeckSize \in Nat /\ DeckSize >= NumPlayers BY <1>2, DeckAssumption
  <2> QED BY <1>2, <2>1 DEF NumDealt
<1>3. CASE ~(DeckSize # NoDeckSize /\ DeckSize < Cardinality(Card))
  BY <1>1, <1>3, CardsAssumption DEF NumDealt
<1> QED BY <1>2, <1>3

\* Integer division leaves a remainder smaller than the divisor.
LEMMA Division ==
    ASSUME NEW a \in Nat, NEW n \in Nat \ {0}
    PROVE  /\ a \div n \in Nat
           /\ (a \div n) * n <= a
           /\ a < (a \div n) * n + n
  OBVIOUS

\* Multiplication by a larger natural gives no smaller product.
LEMMA Multiples ==
    ASSUME NEW i \in Nat, NEW j \in Nat, i <= j, NEW n \in Nat
    PROVE  i * n <= j * n /\ i * n \in Nat /\ (j + 1) * n = j * n + n
  OBVIOUS

\* Each player is dealt at least one card, and the places of the deck his cards
\* come from are places of the deck.
LEMMA PilePositions ==
    ASSUME NEW p \in Seat
    PROVE  /\ PileSize(p) \in Nat \ {0}
           /\ \A i \in 1..PileSize(p) : p + (i - 1) * NumPlayers \in 1..NumDealt
           /\ PileSize(p) * NumPlayers + p > NumDealt
<1> DEFINE n == NumPlayers
           a == NumDealt - p + n
           k == a \div n
<1>1. n \in Nat \ {0} /\ p \in Nat /\ p >= 1 /\ p <= n
  BY PlayersAssumption DEF Seat
<1>2. NumDealt \in Nat /\ NumDealt >= n
  BY EnoughCards
<1>3. a \in Nat /\ a >= n
  BY <1>1, <1>2
<1>4. k \in Nat /\ k * n <= a /\ a < k * n + n
  BY <1>1, <1>3, Division
<1>5. k # 0
  BY <1>1, <1>3, <1>4
<1> HIDE DEF k
<1>6. ASSUME NEW i \in 1..k PROVE p + (i - 1) * n \in 1..NumDealt
  <2>1. i - 1 \in Nat /\ k - 1 \in Nat /\ i - 1 <= k - 1 BY <1>4
  <2>2. (i - 1) * n <= (k - 1) * n /\ (i - 1) * n \in Nat /\ (k - 1) * n \in Nat
        /\ ((k - 1) + 1) * n = (k - 1) * n + n
    <3> HIDE DEF n
    <3> QED BY <1>1, <2>1, Multiples
  <2>4. (k - 1) + 1 = k BY <1>4
  <2>3. (k - 1) * n <= NumDealt - p BY <1>1, <1>2, <1>4, <2>2, <2>4
  <2> QED BY <1>1, <1>2, <2>2, <2>3
<1>7. k * n + p > NumDealt
  BY <1>1, <1>2, <1>4, Multiples
<1> QED BY <1>4, <1>5, <1>6, <1>7 DEF PileSize, k

\* doStartGame deals as equally as possible: no two piles differ by more than one.
THEOREM DealIsEven ==
    \A p, q \in Seat : PileSize(p) <= PileSize(q) + 1
<1> SUFFICES ASSUME NEW p \in Seat, NEW q \in Seat PROVE PileSize(p) <= PileSize(q) + 1
  OBVIOUS
<1> DEFINE n == NumPlayers
           k == PileSize(p)
           l == PileSize(q)
<1>1. n \in Nat \ {0} /\ p \in 1..n /\ q \in 1..n
  BY PlayersAssumption DEF Seat
<1>2. k \in Nat \ {0} /\ l \in Nat \ {0} /\ l * n + q > NumDealt
      /\ p + (k - 1) * n \in 1..NumDealt
  BY PilePositions
<1>3. SUFFICES ASSUME k - 1 >= l + 1 PROVE FALSE
  BY <1>2
<1>4. (l + 1) * n <= (k - 1) * n /\ (l + 1) * n = l * n + n /\ l * n \in Nat /\ (k - 1) * n \in Nat
  BY <1>1, <1>2, <1>3, Multiples
<1>5. NumDealt \in Nat BY EnoughCards
<1> QED BY <1>1, <1>2, <1>4, <1>5

-----------------------------------------------------------------------------
GoodState(st) ==
    /\ st \in StateType
    /\ \A p \in Seat : p \in st.isEliminated <=> st.cardIds[p] = <<>>
    /\ \A p \in Remaining(st) : st.livesRemaining[p] >= 1
    /\ st.status # "GAME_FINISHED" =>
         /\ st.currentPlayerId \in Remaining(st)
         /\ st.roundActivePlayerIds = Remaining(st)
         /\ ~OneLeft(st)
         /\ st.tieState.contestingPlayerIds \subseteq Remaining(st)
    /\ st.status = "GAME_FINISHED" => Remaining(st) = {st.winnerId}

InPlay(st) == GoodState(st) /\ st.status # "GAME_FINISHED"

\* No tie, as it is stored, is of the type of a tie.
LEMMA NoTieType ==
    NoTie \in [contestingPlayerIds : SUBSET Seat, usedStatistics : Seq(StatSchema)]
  BY DEF NoTie

\* The common end of the handlers: from a state in which the cards have moved
\* and the eliminations are noted, the match is decided for w or q plays next.
LEMMA EndOfHandler ==
    ASSUME NEW st \in StateType, NEW q \in Remaining(st), NEW w \in Remaining(st),
           \A p \in Seat : p \in st.isEliminated <=> st.cardIds[p] = <<>>,
           \A p \in Remaining(st) : st.livesRemaining[p] >= 1,
           st.status = "PLAYER_TURN"
    PROVE  GoodState(IF OneLeft(st) THEN Decided(st, w) ELSE NextTurn(st, q))
<1>1. CASE OneLeft(st)
  <2> DEFINE d == Decided(st, w)
  <2>1. d \in StateType
    BY NoTieType DEF Decided, StateType, Remaining
  <2>2. d.isEliminated = st.isEliminated /\ d.cardIds = st.cardIds
        /\ d.livesRemaining = st.livesRemaining
        /\ d.status = "GAME_FINISHED" /\ d.winnerId = w
    BY DEF Decided, StateType
  <2>3. Remaining(d) = {w}
    BY <1>1, <2>2 DEF Remaining, OneLeft
  <2> QED BY <1>1, <2>1, <2>2, <2>3 DEF GoodState
<1>2. CASE ~OneLeft(st)
  <2> DEFINE n == NextTurn(st, q)
  <2>1. n \in StateType
    <3>1. Remaining(st) \in SUBSET Seat BY DEF Remaining
    <3>2. st.roundNumber + 1 \in Nat \ {0} BY DEF StateType
    <3> QED BY NoTieType, <3>1, <3>2 DEF NextTurn, StateType
  <2>2. /\ n.isEliminated = st.isEliminated
        /\ n.cardIds = st.cardIds
        /\ n.livesRemaining = st.livesRemaining
        /\ n.status = "PLAYER_TURN"
        /\ n.currentPlayerId = q
        /\ n.roundActivePlayerIds = Remaining(st)
        /\ n.tieState.contestingPlayerIds = {}
    BY DEF NextTurn, StateType, NoTie
  <2>3. Remaining(n) = Remaining(st) /\ ~OneLeft(n)
    BY <1>2, <2>2 DEF Remaining, OneLeft
  <2> QED BY <1>2, <2>1, <2>2, <2>3 DEF GoodState
<1> QED BY <1>1, <1>2

-----------------------------------------------------------------------------
\* Only players who are still in have a card compared.
LEMMA ComparisonPlayersRemain ==
    ASSUME NEW st, InPlay(st)
    PROVE  ComparisonPlayers(st) \subseteq Remaining(st)
  BY DEF InPlay, GoodState, ComparisonPlayers

\* determineWinners names nobody whose card was not compared.
LEMMA WinnersCompared ==
    ASSUME NEW st, NEW s
    PROVE  Winners(st, s) \subseteq ComparisonPlayers(st)
  BY DEF Winners, determineWinners, Values

\* Recording a tie (doCompareRound's early return) keeps a state good.
LEMMA TieStep ==
    ASSUME NEW st, InPlay(st), NEW s \in StatSchema
    PROVE  GoodState(AfterTie(st, s)) /\ AfterTie(st, s).status # "GAME_FINISHED"
<1> DEFINE n == AfterTie(st, s)
<1>1. st \in StateType BY DEF InPlay, GoodState
<1>2. Winners(st, s) \in SUBSET Remaining(st)
  BY WinnersCompared, ComparisonPlayersRemain
<1>3. [contestingPlayerIds |-> Winners(st, s),
       usedStatistics |-> Append(st.tieState.usedStatistics, s)]
         \in [contestingPlayerIds : SUBSET Seat, usedStatistics : Seq(StatSchema)]
  BY <1>1, <1>2 DEF StateType, Remaining
<1>4. st.eventSequence + 1 \in Nat BY <1>1 DEF StateType
<1>5. n \in StateType
  BY <1>1, <1>3, <1>4 DEF AfterTie, StateType
<1>6. /\ n.isEliminated = st.isEliminated
      /\ n.cardIds = st.cardIds
      /\ n.livesRemaining = st.livesRemaining
      /\ n.status = st.status
      /\ n.currentPlayerId = st.currentPlayerId
      /\ n.roundActivePlayerIds = st.roundActivePlayerIds
      /\ n.tieState.contestingPlayerIds = Winners(st, s)
  BY <1>1 DEF AfterTie, StateType
<1>7. Remaining(n) = Remaining(st) /\ (OneLeft(n) <=> OneLeft(st))
  BY <1>6 DEF Remaining, OneLeft
<1> QED BY <1>2, <1>5, <1>6, <1>7 DEF InPlay, GoodState

\* The winner of a round is still in: one of those compared, or the caller.
LEMMA RoundWinnerRemains ==
    ASSUME NEW st, InPlay(st), NEW s
    PROVE  RoundWinner(st, st.currentPlayerId, s) \in Remaining(st)
  BY WinnersCompared, ComparisonPlayersRemain DEF RoundWinner, InPlay, GoodState

\* A card can be taken off the top of any pile that is not empty.
LEMMA HeadAndTail ==
    ASSUME NEW T, NEW q \in Seq(T), q # <<>>
    PROVE  Head(q) \in T /\ Tail(q) \in Seq(T)
  OBVIOUS

\* What each pile holds after a round, player by player: the winner's grows,
\* the others still in lose their top card, the rest are as they were.
LEMMA PilesAfterRoundDef ==
    ASSUME NEW st, NEW w \in Seat
    PROVE  /\ PilesAfterRound(st, w)[w]
                = Tail(st.cardIds[w]) \o <<TopCard(st, w)>> \o CollectedCards(st, w)
           /\ \A p \in Seat \ {w} :
                IF p \in RoundLosers(st, w) /\ st.cardIds[p] # <<>>
                THEN PilesAfterRound(st, w)[p] = Tail(st.cardIds[p])
                ELSE PilesAfterRound(st, w)[p] = st.cardIds[p]
<1> DEFINE own == Tail(st.cardIds[w]) \o <<TopCard(st, w)>> \o CollectedCards(st, w)
           Loses(p) == p \in RoundLosers(st, w) /\ st.cardIds[p] # <<>>
           F(p) == CASE p = w -> own
                     [] Loses(p) -> Tail(st.cardIds[p])
                     [] OTHER -> st.cardIds[p]
<1>1. PilesAfterRound(st, w) = [p \in Seat |-> F(p)]
  BY DEF PilesAfterRound
<1>2. w \notin RoundLosers(st, w) BY DEF RoundLosers
<1>3. F(w) = own
  <2> HIDE DEF own
  <2> QED BY <1>2
<1>4. ASSUME NEW p \in Seat \ {w}
      PROVE  F(p) = IF Loses(p) THEN Tail(st.cardIds[p]) ELSE st.cardIds[p]
  <2> HIDE DEF own, Loses
  <2> QED BY <1>4
<1>5. \A p \in Seat : PilesAfterRound(st, w)[p] = F(p)
  <2> HIDE DEF F
  <2> QED BY <1>1
<1>6. PilesAfterRound(st, w)[w] = own
  <2> HIDE DEF F, own
  <2> QED BY <1>3, <1>5
<1>7. ASSUME NEW p \in Seat \ {w}
      PROVE  PilesAfterRound(st, w)[p] = IF Loses(p) THEN Tail(st.cardIds[p]) ELSE st.cardIds[p]
  <2> HIDE DEF F, Loses
  <2> QED BY <1>4, <1>5
<1> QED BY <1>6, <1>7

\* Ending a round for one of the players still in (the rest of
\* doCompareRound) keeps a state good.
LEMMA RoundStep ==
    ASSUME NEW st, InPlay(st), NEW w \in Remaining(st)
    PROVE  GoodState(AfterRound(st, w))
<1> DEFINE losers == {p \in RoundLosers(st, w) : st.cardIds[p] # <<>>}
           collected == CollectedCards(st, w)
           piles == PilesAfterRound(st, w)
           fallen == Fallen(st, w)
           out == st.isEliminated \cup fallen
<1>1. st \in StateType /\ st.status = "PLAYER_TURN" /\ w \in Seat
  BY DEF InPlay, GoodState, StateType, Remaining
<1>2. \A p \in Remaining(st) : st.cardIds[p] \in Seq(Card) /\ st.cardIds[p] # <<>>
  BY <1>1 DEF InPlay, GoodState, StateType, Remaining
<1>3. losers \in SUBSET Seat /\ losers \subseteq Remaining(st)
  BY DEF RoundLosers, InPlay, GoodState, Remaining
<1>4. collected \in Seq(Card) /\ Len(collected) \in Nat
  <2>1. SeatOrder(losers) \in [1..Cardinality(losers) -> losers] /\ Cardinality(losers) \in Nat
    BY <1>3, SeatOrderProperties
  <2>2. ASSUME NEW i \in 1..Cardinality(losers)
        PROVE  TopCard(st, SeatOrder(losers)[i]) \in Card
    <3>1. SeatOrder(losers)[i] \in Remaining(st)
      <4> HIDE DEF losers
      <4> QED BY <1>3, <2>1
    <3> QED BY <1>2, <3>1, HeadAndTail DEF TopCard
  <2>3. collected = [i \in 1..Cardinality(losers) |-> TopCard(st, SeatOrder(losers)[i])]
    BY <2>1 DEF CollectedCards
  <2> QED BY <2>1, <2>2, <2>3
<1>5. /\ piles \in [Seat -> Seq(Card)]
      /\ piles[w] # <<>>
      /\ \A p \in Seat \ Remaining(st) : piles[p] = st.cardIds[p]
  <2>1. piles[w] \in Seq(Card) /\ piles[w] # <<>>
    <3>1. piles[w] = Tail(st.cardIds[w]) \o <<TopCard(st, w)>> \o collected
      BY <1>1, PilesAfterRoundDef
    <3>2. Tail(st.cardIds[w]) \in Seq(Card) /\ TopCard(st, w) \in Card
      BY <1>2 DEF TopCard
    <3>3. <<TopCard(st, w)>> \in Seq(Card) /\ Len(<<TopCard(st, w)>>) = 1 BY <3>2
    <3>4. Tail(st.cardIds[w]) \o <<TopCard(st, w)>> \in Seq(Card)
          /\ Len(Tail(st.cardIds[w]) \o <<TopCard(st, w)>>) >= 1
      BY <3>2, <3>3
    <3>5. piles[w] \in Seq(Card) /\ Len(piles[w]) >= 1
      <4> HIDE DEF piles, collected
      <4> QED BY <1>4, <3>1, <3>4
    <3> QED BY <3>5
  <2>2. ASSUME NEW p \in Seat \ {w}
        PROVE  piles[p] = IF p \in losers THEN Tail(st.cardIds[p]) ELSE st.cardIds[p]
    <3>1. p \in losers <=> (p \in RoundLosers(st, w) /\ st.cardIds[p] # <<>>)
      BY <1>1 DEF RoundLosers, InPlay, GoodState, Remaining
    <3> HIDE DEF piles, losers
    <3> QED BY <1>1, <3>1, PilesAfterRoundDef DEF piles
  <2>3. ASSUME NEW p \in Seat \ {w} PROVE piles[p] \in Seq(Card)
    <3>1. st.cardIds[p] \in Seq(Card) BY <1>1 DEF StateType
    <3>2. CASE p \in losers
      <4>1. st.cardIds[p] # <<>> BY <3>2
      <4>2. piles[p] = Tail(st.cardIds[p])
        <5> HIDE DEF piles, losers
        <5> QED BY <2>2, <3>2
      <4> HIDE DEF piles
      <4> QED BY <3>1, <4>1, <4>2, HeadAndTail
    <3>3. CASE p \notin losers
      <4>1. piles[p] = st.cardIds[p]
        <5> HIDE DEF piles, losers
        <5> QED BY <2>2, <3>3
      <4> HIDE DEF piles
      <4> QED BY <3>1, <4>1
    <3> QED BY <3>2, <3>3
  <2>4. piles = [p \in Seat |-> piles[p]] BY DEF PilesAfterRound
  <2>5. w \in Remaining(st) OBVIOUS
  <2> HIDE DEF piles, losers
  <2> QED BY <1>3, <2>1, <2>2, <2>3, <2>4, <2>5
<1>6. fallen \in SUBSET Seat /\ w \notin fallen
  BY <1>1 DEF Fallen, RoundLosers, StateType
<1>7. \A p \in Seat : p \in out <=> piles[p] = <<>>
  <2>1. ASSUME NEW p \in Seat, p \notin Remaining(st) PROVE p \in out <=> piles[p] = <<>>
    <3>1. p \in st.isEliminated /\ st.cardIds[p] = <<>>
      BY <2>1 DEF Remaining, InPlay, GoodState
    <3> QED BY <1>5, <2>1, <3>1
  <2>2. ASSUME NEW p \in Remaining(st), p # w PROVE p \in out <=> piles[p] = <<>>
    BY <2>2 DEF Fallen, RoundLosers, InPlay, GoodState, Remaining
  <2>3. w \notin out /\ piles[w] # <<>>
    BY <1>5, <1>6 DEF Remaining
  <2> QED BY <2>1, <2>2, <2>3
<1>8. st.eliminationOrder \o SeatOrder(fallen) \in Seq(Seat)
  <2>1. SeatOrder(fallen) \in Seq(Seat) BY <1>6, SeatOrderProperties
  <2> QED BY <1>1, <2>1 DEF StateType
<1>9. [st.cardsWonCount EXCEPT ![w] = @ + Len(collected)] \in [Seat -> Nat]
  BY <1>1, <1>4 DEF StateType
<1>10. st.eventSequence + 1 \in Nat /\ st.livesRemaining \in [Seat -> 0..StartingLives]
  BY <1>1 DEF StateType
<1> DEFINE mid == [st EXCEPT !.cardIds = piles,
                             !.cardsWonCount[w] = @ + Len(collected),
                             !.isEliminated = @ \cup fallen,
                             !.eliminationOrder = @ \o SeatOrder(fallen),
                             !.eventSequence = @ + 1]
<1>11. mid \in StateType /\ mid.cardIds = piles /\ mid.isEliminated = out
       /\ mid.status = "PLAYER_TURN"
  <2> HIDE DEF piles, collected, fallen
  <2> QED BY <1>1, <1>5, <1>6, <1>8, <1>9, <1>10 DEF StateType
<1>12. w \in Remaining(mid)
  BY <1>1, <1>6, <1>11 DEF Remaining
<1>14. \A p \in Remaining(mid) : mid.livesRemaining[p] >= 1
  <2>1. mid.livesRemaining = st.livesRemaining BY <1>1 DEF StateType
  <2> HIDE DEF mid, fallen
  <2> QED BY <1>11, <2>1 DEF InPlay, GoodState, Remaining
<1>13. AfterRound(st, w) = IF OneLeft(mid) THEN Decided(mid, w) ELSE NextTurn(mid, w)
  BY DEF AfterRound
<1> HIDE DEF mid, piles, fallen
<1> QED BY <1>7, <1>11, <1>12, <1>13, <1>14, EndOfHandler

-----------------------------------------------------------------------------
\* Two players are in while the match runs, so there is a next player.
LEMMA NextPlayerRemains ==
    ASSUME NEW st, InPlay(st), NEW p \in Remaining(st)
    PROVE  NextPlayer(st, p) \in Remaining(st) \ {p}
<1>1. PICK q \in Remaining(st) : q # p
  BY DEF InPlay, GoodState, OneLeft
<1> QED BY <1>1, NextPlayerIsAnother

\* Cards move from p's pile under next's: nobody but p can be left without.
LEMMA MovedPiles ==
    ASSUME NEW st, InPlay(st), NEW p \in Remaining(st), NEW next \in Remaining(st) \ {p},
           NEW rest \in Seq(Card), NEW moved \in Seq(Card)
    PROVE  /\ MoveCards(st.cardIds, p, rest, next, moved) \in [Seat -> Seq(Card)]
           /\ MoveCards(st.cardIds, p, rest, next, moved)[p] = rest
           /\ \A q \in Seat \ {p} : q \in st.isEliminated
                <=> MoveCards(st.cardIds, p, rest, next, moved)[q] = <<>>
<1> DEFINE piles == MoveCards(st.cardIds, p, rest, next, moved)
<1>1. /\ st.cardIds \in [Seat -> Seq(Card)] /\ p \in Seat /\ next \in Seat /\ p # next
      /\ \A q \in Seat : q \in st.isEliminated <=> st.cardIds[q] = <<>>
      /\ next \notin st.isEliminated
  BY DEF InPlay, GoodState, StateType, Remaining
<1>2. st.cardIds[next] \o moved \in Seq(Card) /\ st.cardIds[next] \o moved # <<>>
  <2> DEFINE pile == st.cardIds[next]
  <2>1. pile \in Seq(Card) /\ pile # <<>> BY <1>1
  <2> HIDE DEF pile
  <2>2. Len(pile) >= 1 /\ Len(moved) \in Nat /\ Len(pile) \in Nat BY <2>1
  <2>3. pile \o moved \in Seq(Card) /\ Len(pile \o moved) = Len(pile) + Len(moved) BY <2>1
  <2>4. pile \o moved # <<>> BY <2>2, <2>3
  <2> QED BY <2>3, <2>4 DEF pile
<1>3. /\ piles[p] = rest
      /\ piles[next] = st.cardIds[next] \o moved
      /\ \A q \in Seat \ {p, next} : piles[q] = st.cardIds[q]
  BY <1>1 DEF MoveCards
<1>4. piles \in [Seat -> Seq(Card)]
  BY <1>1, <1>2 DEF MoveCards
<1>5. ASSUME NEW q \in Seat \ {p} PROVE q \in st.isEliminated <=> piles[q] = <<>>
  <2> HIDE DEF piles
  <2>1. CASE q = next BY <1>1, <1>2, <1>3, <2>1
  <2>2. CASE q # next BY <1>1, <1>3, <2>2
  <2> QED BY <2>1, <2>2
<1> QED BY <1>3, <1>4, <1>5

\* A forfeit (doForfeit) by a player who is still in keeps a state good.
LEMMA ForfeitStep ==
    ASSUME NEW st, InPlay(st), NEW p \in Remaining(st)
    PROVE  GoodState(AfterForfeit(st, p))
<1> DEFINE next == NextPlayer(st, p)
           none == <<>>
           piles == MoveCards(st.cardIds, p, none, next, st.cardIds[p])
           won == [st.cardsWonCount EXCEPT ![next] = @ + Len(st.cardIds[p])]
           out == st.isEliminated \cup {p}
           order == Append(st.eliminationOrder, p)
           mid == [st EXCEPT !.cardIds = piles, !.cardsWonCount = won,
                             !.isEliminated = out, !.eliminationOrder = order]
<1>1. st \in StateType /\ st.status = "PLAYER_TURN" /\ p \in Seat
  BY DEF InPlay, GoodState, StateType, Remaining
<1>2. next \in Remaining(st) \ {p} /\ next \in Seat
  BY NextPlayerRemains DEF Remaining
<1>3. st.cardIds[p] \in Seq(Card) /\ Len(st.cardIds[p]) \in Nat /\ none \in Seq(Card)
  BY <1>1 DEF StateType
<1>9. AfterForfeit(st, p) = IF OneLeft(mid) THEN Decided(mid, LastPlayer(mid, next))
                                            ELSE NextTurn(mid, next)
  BY <1>1 DEF AfterForfeit, next, StateType
<1> HIDE DEF next, none
<1>4. /\ piles \in [Seat -> Seq(Card)]
      /\ piles[p] = none
      /\ \A q \in Seat \ {p} : q \in st.isEliminated <=> piles[q] = <<>>
  <2>1. piles \in [Seat -> Seq(Card)] BY <1>2, <1>3, MovedPiles
  <2>2. piles[p] = none BY <1>2, <1>3, MovedPiles
  <2>3. \A q \in Seat \ {p} : q \in st.isEliminated <=> piles[q] = <<>>
    BY <1>2, <1>3, MovedPiles
  <2> QED BY <2>1, <2>2, <2>3
<1>5. won \in [Seat -> Nat]
  BY <1>1, <1>2, <1>3 DEF StateType
<1>6. out \in SUBSET Seat /\ order \in Seq(Seat)
  BY <1>1 DEF StateType
<1>7. mid \in StateType /\ mid.cardIds = piles /\ mid.isEliminated = out
      /\ mid.status = "PLAYER_TURN" /\ mid.livesRemaining = st.livesRemaining
  <2> HIDE DEF piles, won, out, order
  <2> QED BY <1>1, <1>4, <1>5, <1>6 DEF StateType
<1>8. next \in Remaining(mid) /\ LastPlayer(mid, next) \in Remaining(mid)
  <2>1. next \in Remaining(mid) BY <1>2, <1>7 DEF Remaining
  <2> HIDE DEF mid
  <2> QED BY <2>1 DEF LastPlayer
<1>10. \A q \in Seat : q \in mid.isEliminated <=> mid.cardIds[q] = <<>>
  <2> HIDE DEF piles, mid
  <2> QED BY <1>4, <1>7 DEF none
<1>11. \A q \in Remaining(mid) : mid.livesRemaining[q] >= 1
  <2> HIDE DEF mid
  <2> QED BY <1>7 DEF InPlay, GoodState, Remaining
<1> HIDE DEF mid
<1> QED BY <1>7, <1>8, <1>9, <1>10, <1>11, EndOfHandler

\* A turn timeout (doTurnTimeout), whether it costs a life or the last one,
\* keeps a state good.
LEMMA TimeoutStep ==
    ASSUME NEW st, InPlay(st)
    PROVE  GoodState(AfterTimeout(st))
<1> DEFINE p == st.currentPlayerId
           next == NextPlayer(st, p)
           pile == st.cardIds[p]
           isOut == IsOut(st, p)
           rest == IF isOut THEN <<>> ELSE Tail(pile)
           moved == IF isOut THEN <<Head(pile)>> \o Tail(pile) ELSE <<Head(pile)>>
           piles == MoveCards(st.cardIds, p, rest, next, moved)
           fallen == IF isOut THEN {p} ELSE {}
           won == [st.cardsWonCount EXCEPT ![next] = @ + 1]
           lives == [st.livesRemaining EXCEPT ![p] = @ - 1]
           out == st.isEliminated \cup fallen
           order == IF isOut THEN Append(st.eliminationOrder, p) ELSE st.eliminationOrder
           mid == [st EXCEPT !.cardIds = piles, !.cardsWonCount = won,
                             !.livesRemaining = lives, !.eventSequence = @ + 1,
                             !.isEliminated = out, !.eliminationOrder = order]
<1>1. st \in StateType /\ st.status = "PLAYER_TURN" /\ p \in Remaining(st) /\ p \in Seat
      /\ st.livesRemaining[p] \in 1..StartingLives
  BY LivesAssumption DEF InPlay, GoodState, StateType, Remaining
<1>2. next \in Remaining(st) \ {p} /\ next \in Seat
  BY <1>1, NextPlayerRemains DEF Remaining
<1>3. pile \in Seq(Card) /\ pile # <<>>
  BY <1>1 DEF InPlay, GoodState, StateType, Remaining
<1>4. Head(pile) \in Card /\ Tail(pile) \in Seq(Card) /\ Len(Tail(pile)) = Len(pile) - 1
      /\ Len(pile) \in Nat
  <2> HIDE DEF pile
  <2> QED BY <1>3
<1>5. isOut <=> (st.livesRemaining[p] <= 1 \/ Len(pile) = 1)
  <2>1. Len(pile) >= 1
    <3> HIDE DEF pile
    <3> QED BY <1>3
  <2>2. isOut <=> (st.livesRemaining[p] - 1 <= 0 \/ Len(pile) <= 1)
    BY DEF IsOut
  <2> HIDE DEF isOut, pile, p
  <2> QED BY <1>1, <1>4, <2>1, <2>2
<1>6. rest \in Seq(Card) /\ moved \in Seq(Card)
  <2>1. <<Head(pile)>> \in Seq(Card)
    <3> HIDE DEF pile
    <3> QED BY <1>4
  <2> HIDE DEF pile, isOut
  <2> QED BY <1>4, <2>1
<1>7. rest = <<>> <=> isOut
  <2>1. CASE isOut BY <2>1
  <2>2. CASE ~isOut
    <3>1. rest = Tail(pile) /\ Len(pile) # 1 BY <1>5, <2>2
    <3>2. Len(Tail(pile)) # 0
      <4> HIDE DEF pile
      <4> QED BY <1>4, <3>1
    <3>3. rest # <<>>
      <4>1. Len(<<>>) = 0 OBVIOUS
      <4>2. Len(rest) # 0 BY <3>1, <3>2, Zenon
      <4> HIDE DEF rest, pile
      <4> QED BY <4>1, <4>2
    <3> QED BY <2>2, <3>3
  <2> QED BY <2>1, <2>2
<1>8. /\ piles \in [Seat -> Seq(Card)]
      /\ piles[p] = rest
      /\ \A q \in Seat \ {p} : q \in st.isEliminated <=> piles[q] = <<>>
  <2> HIDE DEF next, rest, moved, p
  <2>1. piles \in [Seat -> Seq(Card)] BY <1>1, <1>2, <1>6, MovedPiles
  <2>2. piles[p] = rest BY <1>1, <1>2, <1>6, MovedPiles
  <2>3. \A q \in Seat \ {p} : q \in st.isEliminated <=> piles[q] = <<>>
    BY <1>1, <1>2, <1>6, MovedPiles
  <2> QED BY <2>1, <2>2, <2>3
<1>9. won \in [Seat -> Nat] /\ lives \in [Seat -> 0..StartingLives]
  <2>1. won \in [Seat -> Nat] BY <1>1, <1>2 DEF StateType
  <2>2. st.livesRemaining \in [Seat -> 0..StartingLives] BY <1>1 DEF StateType
  <2>3. st.livesRemaining[p] - 1 \in 0..StartingLives BY <1>1, LivesAssumption
  <2> QED BY <1>1, <2>1, <2>2, <2>3
<1>10. out \in SUBSET Seat /\ order \in Seq(Seat) /\ st.eventSequence + 1 \in Nat
  BY <1>1 DEF StateType
<1>11. /\ mid \in StateType /\ mid.cardIds = piles /\ mid.isEliminated = out
       /\ mid.status = "PLAYER_TURN" /\ mid.livesRemaining = lives
  <2> HIDE DEF piles, won, lives, out, order
  <2> QED BY <1>1, <1>8, <1>9, <1>10 DEF StateType
<1>12. next \in Remaining(mid) /\ LastPlayer(mid, next) \in Remaining(mid)
  <2>1. next \in Remaining(mid)
    <3> HIDE DEF mid, next, isOut
    <3> QED BY <1>2, <1>11 DEF Remaining
  <2> HIDE DEF mid
  <2> QED BY <2>1 DEF LastPlayer
<1>13. \A q \in Seat : q \in mid.isEliminated <=> mid.cardIds[q] = <<>>
  <2>1. p \notin st.isEliminated BY <1>1 DEF Remaining
  <2> HIDE DEF piles, mid, rest, isOut, p
  <2> QED BY <1>7, <1>8, <1>11, <2>1
<1>14. \A q \in Remaining(mid) : mid.livesRemaining[q] >= 1
  <2>1. ASSUME NEW q \in Remaining(mid) PROVE mid.livesRemaining[q] >= 1
    <3> HIDE DEF mid
    <3>1. q \in Remaining(st) /\ (q = p => ~isOut)
      <4> HIDE DEF isOut, p
      <4> QED BY <1>11, <2>1 DEF Remaining
    <3>2. lives[q] = IF q = p THEN st.livesRemaining[p] - 1 ELSE st.livesRemaining[q]
      BY <1>1, <3>1 DEF StateType, Remaining
    <3>3. st.livesRemaining[q] >= 1 BY <3>1 DEF InPlay, GoodState
    <3> HIDE DEF lives, isOut, p
    <3> QED BY <1>1, <1>5, <1>11, <3>1, <3>2, <3>3
  <2> QED BY <2>1
<1>15. AfterTimeout(st) = IF OneLeft(mid) THEN Decided(mid, LastPlayer(mid, next))
                                         ELSE NextTurn(mid, next)
  <2> QED BY <1>1, <1>3 DEF AfterTimeout, TopCard, StateType
<1>16. mid \in StateType /\ mid.status = "PLAYER_TURN" BY <1>11
<1> HIDE DEF mid, next
<1> QED BY <1>12, <1>13, <1>14, <1>15, <1>16, EndOfHandler

\* The state doStartGame deals from any deck is good.
LEMMA StartIsGood ==
    ASSUME NEW d \in Shuffled
    PROVE  InPlay(InitialState(d))
<1> DEFINE st == InitialState(d)
<1>1. d \in [1..NumDealt -> Card]
  BY DEF Shuffled
<1>2. ASSUME NEW p \in Seat PROVE Piles(d)[p] \in Seq(Card) /\ Piles(d)[p] # <<>>
  <2> DEFINE k == PileSize(p)
             pile == [i \in 1..k |-> d[p + (i - 1) * NumPlayers]]
  <2>1. k \in Nat \ {0} /\ \A i \in 1..k : p + (i - 1) * NumPlayers \in 1..NumDealt
    BY PilePositions
  <2>2. \A i \in 1..k : d[p + (i - 1) * NumPlayers] \in Card
    <3> HIDE DEF k
    <3> QED BY <1>1, <2>1
  <2>3. pile \in Seq(Card) /\ Len(pile) = k
    <3> HIDE DEF k
    <3> QED BY <2>1, <2>2
  <2>4. pile # <<>>
    <3> HIDE DEF k, pile
    <3> QED BY <2>1, <2>3
  <2>5. Piles(d)[p] = pile BY DEF Piles
  <2> QED BY <2>3, <2>4, <2>5
<1>3. Piles(d) \in [Seat -> Seq(Card)]
  <2>1. Piles(d) = [p \in Seat |-> Piles(d)[p]] BY DEF Piles
  <2> QED BY <1>2, <2>1
<1>4. 1 \in Seat /\ 2 \in Seat
  BY PlayersAssumption DEF Seat
<1>5. st \in StateType
  BY <1>3, <1>4, NoTieType, LivesAssumption DEF InitialState, StateType
<1>6. Remaining(st) = Seat
  BY DEF Remaining, InitialState
<1>7. ~OneLeft(st)
  BY <1>4, <1>6 DEF OneLeft
<1>8. \A p \in Seat : p \in st.isEliminated <=> st.cardIds[p] = <<>>
  <2>1. st.isEliminated = {} /\ st.cardIds = Piles(d) BY DEF InitialState
  <2> HIDE DEF st
  <2> QED BY <1>2, <2>1
<1>9. \A p \in Seat : st.livesRemaining[p] >= 1
  BY LivesAssumption DEF InitialState
<1>10. /\ st.currentPlayerId \in Remaining(st)
       /\ st.roundActivePlayerIds = Remaining(st)
       /\ st.tieState.contestingPlayerIds \subseteq Remaining(st)
       /\ st.status = "PLAYER_TURN"
  BY <1>4, <1>6 DEF InitialState, NoTie
<1>11. InPlay(st)
  <2> HIDE DEF st
  <2> QED BY <1>5, <1>6, <1>7, <1>8, <1>9, <1>10 DEF InPlay, GoodState
<1> QED BY <1>11

-----------------------------------------------------------------------------
\* What every handler but handleTie does to the tie and to the round.
EndsRound(st, n) ==
    /\ n.tieState = NoTie
    /\ n.status # "GAME_FINISHED" => n.roundNumber = st.roundNumber + 1

\* Deciding a round, a timeout and a forfeit all clear the tie and, unless
\* they decide the match, open the next round.
LEMMA HandlersEndTheRound ==
    ASSUME NEW st \in StateType
    PROVE  /\ \A w \in Seat : EndsRound(st, AfterRound(st, w))
           /\ EndsRound(st, AfterTimeout(st))
           /\ \A p \in Seat : EndsRound(st, AfterForfeit(st, p))
<1>1. \A w \in Seat : EndsRound(st, AfterRound(st, w))
  BY DEF EndsRound, AfterRound, Decided, NextTurn, StateType
<1>2. EndsRound(st, AfterTimeout(st))
  BY DEF EndsRound, AfterTimeout, Decided, NextTurn, StateType
<1>3. \A p \in Seat : EndsRound(st, AfterForfeit(st, p))
  BY DEF EndsRound, AfterForfeit, Decided, NextTurn, StateType
<1> QED BY <1>1, <1>2, <1>3

\* Recording a tie leaves cards, caller and round as they are, brings nobody
\* into the contest and adds the statistic just used.
LEMMA TieEffect ==
    ASSUME NEW st, InPlay(st), NEW s \in StatSchema
    PROVE  LET n == AfterTie(st, s)
           IN  /\ n.cardIds = st.cardIds
               /\ n.currentPlayerId = st.currentPlayerId
               /\ n.roundNumber = st.roundNumber
               /\ n.tieState.contestingPlayerIds \subseteq ComparisonPlayers(st)
               /\ Len(n.tieState.usedStatistics) = Len(st.tieState.usedStatistics) + 1
<1>1. st \in StateType BY DEF InPlay, GoodState
<1>2. st.tieState.usedStatistics \in Seq(StatSchema) BY <1>1 DEF StateType
<1>3. AfterTie(st, s).tieState = [contestingPlayerIds |-> Winners(st, s),
                                  usedStatistics |-> Append(st.tieState.usedStatistics, s)]
  BY <1>1 DEF AfterTie, StateType
<1>4. /\ AfterTie(st, s).cardIds = st.cardIds
      /\ AfterTie(st, s).currentPlayerId = st.currentPlayerId
      /\ AfterTie(st, s).roundNumber = st.roundNumber
  BY <1>1 DEF AfterTie, StateType
<1> QED BY <1>2, <1>3, <1>4, WinnersCompared

\* What a handler adds to the log, what it takes from the lives and how far it counts
\* the rounds.
LEMMA HandlersCount ==
    ASSUME NEW st \in StateType
    PROVE  /\ \A s : LET n == AfterTie(st, s)
                     IN  /\ n.eventSequence = st.eventSequence + 1
                         /\ n.livesRemaining = st.livesRemaining
                         /\ n.roundNumber = st.roundNumber
           /\ \A w \in Seat : LET n == AfterRound(st, w)
                              IN  /\ n.eventSequence = st.eventSequence + 1
                                  /\ n.livesRemaining = st.livesRemaining
                                  /\ n.roundNumber \in {st.roundNumber, st.roundNumber + 1}
           /\ LET n == AfterTimeout(st)
              IN  /\ n.eventSequence = st.eventSequence + 1
                  /\ n.livesRemaining = [st.livesRemaining EXCEPT ![st.currentPlayerId] = @ - 1]
                  /\ n.roundNumber \in {st.roundNumber, st.roundNumber + 1}
           /\ \A p \in Seat : LET n == AfterForfeit(st, p)
                              IN  /\ n.eventSequence = st.eventSequence
                                  /\ n.livesRemaining = st.livesRemaining
                                  /\ n.roundNumber \in {st.roundNumber, st.roundNumber + 1}
<1>1. ASSUME NEW s
      PROVE  /\ AfterTie(st, s).eventSequence = st.eventSequence + 1
             /\ AfterTie(st, s).livesRemaining = st.livesRemaining
             /\ AfterTie(st, s).roundNumber = st.roundNumber
  BY DEF AfterTie, StateType
<1>2. ASSUME NEW w \in Seat
      PROVE  /\ AfterRound(st, w).eventSequence = st.eventSequence + 1
             /\ AfterRound(st, w).livesRemaining = st.livesRemaining
             /\ AfterRound(st, w).roundNumber \in {st.roundNumber, st.roundNumber + 1}
  BY DEF AfterRound, Decided, NextTurn, StateType
<1>3. /\ AfterTimeout(st).eventSequence = st.eventSequence + 1
      /\ AfterTimeout(st).livesRemaining = [st.livesRemaining EXCEPT ![st.currentPlayerId] = @ - 1]
      /\ AfterTimeout(st).roundNumber \in {st.roundNumber, st.roundNumber + 1}
  BY DEF AfterTimeout, Decided, NextTurn, StateType
<1>4. ASSUME NEW p \in Seat
      PROVE  /\ AfterForfeit(st, p).eventSequence = st.eventSequence
             /\ AfterForfeit(st, p).livesRemaining = st.livesRemaining
             /\ AfterForfeit(st, p).roundNumber \in {st.roundNumber, st.roundNumber + 1}
  BY DEF AfterForfeit, Decided, NextTurn, StateType
<1> QED BY <1>1, <1>2, <1>3, <1>4
=============================================================================
