--------------------------- MODULE CatalogueProofs ---------------------------
(***************************************************************************)
(* From the archives to the called statistic, for every set of people,     *)
(* formats, squads and spells, every number of workers and of seeds at     *)
(* once.                                                                   *)
(*                                                                         *)
(* Four invariants of the scripts: how far the one seed that got past the  *)
(* first card set has come (SeedInv); who is still to be looked up and     *)
(* what the file does not have yet (LookupInv); what every career has      *)
(* added up on its own (ExtractionInv); and, given that, that batters and  *)
(* bowlers add up to the same, within an innings too (BallsInv).  The last *)
(* needs that a sum over all people exists and does not depend on who is   *)
(* added first: by the least counterexample, a set of people of which no   *)
(* smaller one is wrong.                                                   *)
(***************************************************************************)
EXTENDS Catalogue, MCStatComparison, FiniteSetTheorems, SequenceTheorems, TLAPS

-----------------------------------------------------------------------------
(***************************************************************************)
(* The comparison of statistics.                                           *)
(***************************************************************************)
FewRuns == {n \in Nat : n < 1000}

\* A single number orders two figures by wickets, then by runs.
LEMMA ScoreOrders ==
    ASSUME NEW v \in Nat, NEW w \in Nat, NEW r \in FewRuns, NEW s \in FewRuns
    PROVE  v * 1000 - r >= w * 1000 - s <=> v > w \/ (v = w /\ r <= s)
<1>1. CASE v > w
  <2>1. v * 1000 >= w * 1000 + 1000 BY <1>1
  <2> QED BY <1>1, <2>1 DEF FewRuns
<1>2. CASE w > v
  <2>1. w * 1000 >= v * 1000 + 1000 BY <1>2
  <2> QED BY <1>2, <2>1 DEF FewRuns
<1>3. CASE v = w BY <1>3 DEF FewRuns
<1> QED BY <1>1, <1>2, <1>3

\* Any value of any statistic may be on top.
ComparisonType == statistic \in Schema /\ raws \in [Players -> {Null} \cup Raws]

\* Whatever is called and turned up.
LEMMA ComparisonTypeHolds == ComparisonSpec => []ComparisonType
<1>1. ComparisonInit => ComparisonType BY DEF ComparisonInit, ComparisonType
<1>2. ComparisonType /\ [ComparisonNext]_<<statistic, raws>> => ComparisonType'
  BY DEF ComparisonType, ComparisonNext, TurnUp, Call
<1> QED BY <1>1, <1>2, PTL DEF ComparisonSpec

\* A card has no value or one of the modelled shapes.
LEMMA RawIsRaw == ASSUME ComparisonType, NEW p \in Players PROVE IsRaw(raws[p])
<1>1. IsRaw(Null) BY DEF IsRaw, Null, Number, Figure
<1> QED BY <1>1, RawsAssumption DEF ComparisonType

\* GAME_RULES' order of bowling figures holds in every comparison: bowlingFigureScore and
\* determineWinners let one player alone win exactly when his figure is the better one,
\* whatever the wickets and as long as nobody conceded a thousand runs.
THEOREM FiguresFollowTheRule == ComparisonSpec => []FiguresFollowCricket
<1>1. ASSUME ComparisonType PROVE FiguresFollowCricket
  <2> SUFFICES ASSUME NEW p \in Players, NEW q \in Players, statistic = "bestBowling",
                      raws[p].type = "figure", raws[q].type = "figure"
               PROVE  Beats(p, q) <=> \/ raws[p].wickets > raws[q].wickets
                                      \/ /\ raws[p].wickets = raws[q].wickets
                                         /\ raws[p].runs < raws[q].runs
    BY DEF FiguresFollowCricket
  <2>1. ASSUME NEW x \in {p, q}
        PROVE  /\ raws[x].wickets \in Nat /\ raws[x].runs \in FewRuns
               /\ values[x] = raws[x].wickets * 1000 - raws[x].runs
    <3>1. IsRaw(raws[x]) /\ raws[x].type = "figure" BY <1>1, RawIsRaw
    <3>2. raws[x] \in {Null} \cup Raws BY <1>1 DEF ComparisonType
    <3>3. raws[x] # Null BY <3>1 DEF Null
    <3>4. raws[x].runs < 1000 BY <3>1, <3>2, <3>3, RawsAssumption DEF ParsesAsBowlingFigure
    <3>5. raws[x].wickets \in Nat /\ raws[x].runs \in Nat BY <3>1 DEF IsRaw
    <3>6. values[x] = bowlingFigureScore(raws[x])
      BY <3>1 DEF values, comparisonValue, ParsesAsBowlingFigure
    <3> QED BY <3>4, <3>5, <3>6 DEF FewRuns, bowlingFigureScore
  <2>2. ASSUME NEW x \in {p, q} PROVE values[x] \in Int /\ values[x] # NoValue
    BY <2>1, NoValueAssumption DEF FewRuns
  <2> DEFINE two == [r \in {p, q} |-> values[r]]
  <2>3. DOMAIN two = {p, q} /\ \A x \in {p, q} : two[x] = values[x] OBVIOUS
  <2>4. {x \in DOMAIN two : two[x] # NoValue} = {p, q} BY <2>2, <2>3
  <2>5. determineWinners(two, statistic)
           = {x \in {p, q} : \A y \in {p, q} : values[x] >= values[y]}
    BY <2>3, <2>4 DEF determineWinners, AtLeastAsGood, LOWER_IS_BETTER
  <2>6. Beats(p, q) <=> /\ p \in determineWinners(two, statistic)
                        /\ q \notin determineWinners(two, statistic)
    BY DEF Beats
  <2> HIDE DEF two
  <2>7. Beats(p, q) <=> ~(values[q] >= values[p]) BY <2>2, <2>5, <2>6
  <2>8. values[q] >= values[p] <=> \/ raws[q].wickets > raws[p].wickets
                                   \/ /\ raws[q].wickets = raws[p].wickets
                                      /\ raws[q].runs <= raws[p].runs
    BY <2>1, ScoreOrders
  <2> QED BY <2>1, <2>7, <2>8 DEF FewRuns
<1> QED BY <1>1, ComparisonTypeHolds, PTL

\* Whatever may be called on a card has a number to compare, for every schema and every raw
\* value: isSelectableStatistic looks at the field, extractComparisonValue at the value, and
\* they agree, so the caller of a round is among those who can win it.
LEMMA CallableIsComparable ==
    ASSUME NEW schema, NEW stats, NEW s, IsRaw(stats[s]),
           isSelectableStatistic(s, schema, stats)
    PROVE  comparisonValue(s, stats[s]) \in Int /\ s # "dateOfBirth"
<1>1. s # "dateOfBirth"
  BY DEF isSelectableStatistic, NON_SELECTABLE_FIELDS
<1>2. CASE s = "bestBowling"
  <2>1. stats[s].type = "figure"
    BY <1>2 DEF isSelectableStatistic, ParsesAsBowlingFigure
  <2>2. stats[s].wickets \in Nat /\ stats[s].runs \in Nat
    BY <2>1 DEF IsRaw
  <2>3. comparisonValue(s, stats[s]) = stats[s].wickets * 1000 - stats[s].runs
    BY <1>2, <2>1 DEF comparisonValue, ParsesAsBowlingFigure, bowlingFigureScore
  <2> QED BY <1>1, <2>2, <2>3
<1>3. CASE s # "bestBowling"
  <2>1. stats[s].type = "number"
    BY <1>3 DEF isSelectableStatistic
  <2>2. stats[s].value \in Int
    BY <2>1 DEF IsRaw
  <2>3. comparisonValue(s, stats[s]) = stats[s].value
    BY <1>3, <2>1 DEF comparisonValue
  <2> QED BY <1>1, <2>2, <2>3
<1> QED BY <1>2, <1>3

\* The caller of a round is among those who can win it, whatever is on his card.
THEOREM SelectableIsComparableHolds == ComparisonSpec => []SelectableIsComparable
<1>1. ASSUME ComparisonType PROVE SelectableIsComparable
  <2> SUFFICES ASSUME NEW p \in Players, Selectable(p)
               PROVE  values[p] # NoValue /\ statistic # "dateOfBirth"
    BY DEF SelectableIsComparable
  <2> DEFINE stats == [f \in Schema |-> raws[p]]
  <2>1. stats[statistic] = raws[p] BY <1>1 DEF ComparisonType
  <2>2. IsRaw(stats[statistic]) BY <1>1, <2>1, RawIsRaw
  <2>3. isSelectableStatistic(statistic, Schema, stats) BY DEF Selectable
  <2>4. values[p] = comparisonValue(statistic, stats[statistic]) BY <2>1 DEF values
  <2> HIDE DEF stats
  <2> QED BY <2>2, <2>3, <2>4, CallableIsComparable, NoValueAssumption
<1> QED BY <1>1, ComparisonTypeHolds, PTL

-----------------------------------------------------------------------------
(***************************************************************************)
(* The seed.  Only one run gets past the first card set (Progressed); what *)
(* is in the database tells how far it came (DbAt), also when it was       *)
(* killed on the way.                                                      *)
(***************************************************************************)
SeedStep == {"sets", "players", "statistics", "cards"}
AllSets == {CARD_SETS[i] : i \in 1..Len(CARD_SETS)}

Progressed(s) == seeder[s] # NotRunning /\ (seeder[s].step # "sets" \/ seeder[s].set > 1)

\* The database of the run s in front of a step, and in front of its n-th card set.
DbAt(s, step, n) ==
    /\ db.cardSets = IF step = "sets" THEN {CARD_SETS[i] : i \in 1..n - 1} ELSE AllSets
    /\ db.players = IF step \in {"sets", "players"} THEN {} ELSE {s} \X SeedPlayers
    /\ db.statistics = IF step \in {"cards", "done"} THEN {s} \X SeedCards ELSE {}
    /\ db.cards = IF step = "done" THEN {s} \X SeedCards ELSE {}

SeedInv ==
    /\ seeder \in [Seeder -> {NotRunning} \cup [step : SeedStep, set : 1..Len(CARD_SETS)]]
    /\ db = [cardSets |-> db.cardSets, players |-> db.players,
             statistics |-> db.statistics, cards |-> db.cards]
    /\ ~NobodySeeds \/ db.cardSets # {} => file # NoFile /\ fetch = NotRunning
    /\ db.cardSets = {} =>
          /\ db.players = {} /\ db.statistics = {} /\ db.cards = {}
          /\ \A s \in Seeder : ~Progressed(s)
    /\ \A s, t \in Seeder : Progressed(s) /\ Progressed(t) => s = t
    /\ \A s \in Seeder : Progressed(s) => DbAt(s, seeder[s].step, seeder[s].set)
    /\ (db.cardSets # {} /\ \A s \in Seeder : ~Progressed(s)) =>
          \E s \in Seeder, step \in SeedStep \cup {"done"}, n \in 1..Len(CARD_SETS) :
             DbAt(s, step, n) /\ (step # "done" => stopped)

\* There is a first card set and no two have the same code.
LEMMA CardSetsFacts ==
    /\ Len(CARD_SETS) \in Nat /\ Len(CARD_SETS) >= 1
    /\ \A i, j \in 1..Len(CARD_SETS) : CARD_SETS[i] = CARD_SETS[j] => i = j
    /\ AllSets = ToSet(CARD_SETS)
<1>1. Len(CARD_SETS) \in Nat /\ DOMAIN CARD_SETS = 1..Len(CARD_SETS)
  BY CatalogueAssumption
<1>2. Len(CARD_SETS) # 0 BY CatalogueAssumption
<1> QED BY <1>1, <1>2, CatalogueAssumption DEF IsInjective, AllSets, ToSet

\* What the database has makes the catalogue whole.
LEMMA SeedInvMakesWhole == SeedInv => CatalogueIsWhole
<1> SUFFICES ASSUME SeedInv PROVE CatalogueIsWhole OBVIOUS
<1>1. AllSets = ToSet(CARD_SETS) BY CardSetsFacts
<1>2. SeedPlayers = {c[1] : c \in SeedCards}
  <2>1. ASSUME NEW p \in SeedPlayers PROVE \E c \in SeedCards : c[1] = p
    <3>1. PICK f : f \in SeedFormats(p) BY DEF SeedPlayers
    <3>2. <<p, f>> \in SeedCards BY <3>1 DEF SeedCards
    <3> QED BY <3>2
  <2>2. \A c \in SeedCards : c[1] \in SeedPlayers BY DEF SeedCards
  <2> QED BY <2>1, <2>2
<1>3. \A c \in SeedCards : c[1] \in SeedPlayers /\ c[2] \in AllSets
  BY <1>1 DEF SeedCards, SeedPlayers, SeedFormats
<1>4. CASE db.cardSets = {}
  BY <1>4 DEF SeedInv, CatalogueIsWhole
<1>5. CASE db.cardSets # {}
  <2>1. PICK s \in Seeder, step \in SeedStep \cup {"done"}, n \in 1..Len(CARD_SETS) :
          /\ DbAt(s, step, n)
          /\ (step # "done" /\ \A t \in Seeder : ~Progressed(t)) => stopped
    <3>1. CASE \A t \in Seeder : ~Progressed(t) BY <1>5, <3>1 DEF SeedInv
    <3>2. CASE \E t \in Seeder : Progressed(t)
      <4>1. PICK t \in Seeder : Progressed(t) BY <3>2
      <4>2. seeder[t].step \in SeedStep /\ seeder[t].set \in 1..Len(CARD_SETS)
        BY <4>1 DEF SeedInv, Progressed
      <4> QED BY <4>1, <4>2 DEF SeedInv
    <3> QED BY <3>1, <3>2
  <2>2. NobodySeeds /\ ~stopped => step = "done"
    BY <2>1 DEF NobodySeeds, Progressed
  <2>3. \A c, d \in db.cards : c[2] = d[2] => c = d BY <2>1 DEF DbAt
  <2>4. db.cards \subseteq db.statistics BY <2>1 DEF DbAt
  <2>5. \A row \in db.statistics :
           <<row[1], row[2][1]>> \in db.players /\ row[2][2] \in db.cardSets
    BY <1>3, <2>1 DEF DbAt
  <2>6. ASSUME step = "done"
        PROVE  /\ db.cardSets = ToSet(CARD_SETS)
               /\ {c[2] : c \in db.cards} = SeedCards
               /\ {row[2] : row \in db.players} = SeedPlayers
    <3>1. db.cards = {s} \X SeedCards /\ db.players = {s} \X SeedPlayers
      BY <2>1, <2>6 DEF DbAt
    <3>2. ASSUME NEW S PROVE {c[2] : c \in {s} \X S} = S
      <4>1. \A x \in S : <<s, x>> \in {s} \X S /\ <<s, x>>[2] = x OBVIOUS
      <4> QED BY <4>1
    <3> QED BY <1>1, <2>1, <2>6, <3>1, <3>2 DEF DbAt
  <2>7. {c[2][1] : c \in db.cards} = {c[1] : c \in {d[2] : d \in db.cards}} OBVIOUS
  <2> QED BY <1>2, <2>2, <2>3, <2>4, <2>5, <2>6, <2>7 DEF CatalogueIsWhole
<1> QED BY <1>4, <1>5

\* Steps of the other scripts come before any seed, or leave the file alone.
LEMMA OthersKeepSeeds ==
    ASSUME SeedInv, UNCHANGED <<seeder, db, stopped>>,
           UNCHANGED <<file, fetch>> \/ (NobodySeeds /\ db.cardSets = {})
    PROVE  SeedInv'
<1>1. NobodySeeds' <=> NobodySeeds BY DEF NobodySeeds
<1>2. \A s \in Seeder : Progressed(s)' <=> Progressed(s) BY DEF Progressed
<1>3. CASE NobodySeeds /\ db.cardSets = {} BY <1>1, <1>2, <1>3 DEF SeedInv
<1>4. CASE UNCHANGED <<file, fetch>>
  <2>1. \A s, step, n : DbAt(s, step, n)' <=> DbAt(s, step, n)
    BY <1>4 DEF DbAt, SeedPlayers, SeedCards, SeedFormats
  <2> QED BY <1>1, <1>2, <1>4, <2>1 DEF SeedInv
<1> QED BY <1>3, <1>4

\* A run that is killed leaves behind what it has written.
LEMMA SeedStopsKeep ==
    ASSUME SeedInv, NEW s \in Seeder, StopSeed(s) PROVE SeedInv'
<1>1. /\ seeder' = [seeder EXCEPT ![s] = NotRunning] /\ stopped'
      /\ UNCHANGED <<file, fetch, db>>
  BY DEF StopSeed
<1>2. \A q, step, n : DbAt(q, step, n)' <=> DbAt(q, step, n)
  BY <1>1 DEF DbAt, SeedPlayers, SeedCards, SeedFormats
<1>3. \A q \in Seeder : Progressed(q)' <=> q # s /\ Progressed(q)
  BY <1>1 DEF Progressed, SeedInv
<1>4. ~NobodySeeds' => ~NobodySeeds BY <1>1 DEF NobodySeeds, SeedInv
<1>5. ASSUME db.cardSets # {}, \A q \in Seeder : ~Progressed(q)'
      PROVE  \E q \in Seeder, step \in SeedStep \cup {"done"}, n \in 1..Len(CARD_SETS) :
                DbAt(q, step, n)
  <2>1. CASE Progressed(s)
    <3>1. seeder[s].step \in SeedStep /\ seeder[s].set \in 1..Len(CARD_SETS)
      BY <2>1 DEF SeedInv, Progressed
    <3> QED BY <2>1, <3>1 DEF SeedInv
  <2>2. CASE ~Progressed(s)
    <3>1. \A q \in Seeder : ~Progressed(q) BY <1>3, <1>5, <2>2
    <3> QED BY <1>5, <3>1 DEF SeedInv
  <2> QED BY <2>1, <2>2
<1> QED BY <1>1, <1>2, <1>3, <1>4, <1>5 DEF SeedInv

\* A run that begins has not written anything.
LEMMA SeedBeginsKeep ==
    ASSUME SeedInv, NEW s \in Seeder, BeginSeed(s) PROVE SeedInv'
<1>1. /\ seeder' = [seeder EXCEPT ![s] = Running("sets")]
      /\ UNCHANGED <<file, fetch, db, stopped>> /\ db.cardSets = {}
      /\ file # NoFile /\ fetch = NotRunning
  BY DEF BeginSeed, SeedGoes
<1>2. Running("sets") \in [step : SeedStep, set : 1..Len(CARD_SETS)]
  BY CardSetsFacts DEF Running, SeedStep
<1>3. \A q \in Seeder : ~Progressed(q)'
  BY <1>1 DEF Progressed, SeedInv, Running
<1> QED BY <1>1, <1>2, <1>3 DEF SeedInv

\* Writing the first card set leaves all other runs behind.
LEMMA SetCreated ==
    ASSUME SeedInv, NEW s \in Seeder, CreateCardSet(s) PROVE SeedInv'
<1> DEFINE code == CARD_SETS[seeder[s].set]
<1>1. /\ seeder[s] # NotRunning /\ seeder[s].step = "sets"
      /\ seeder[s].set \in 1..Len(CARD_SETS)
      /\ UNCHANGED <<file, fetch, stopped>>
  BY DEF CreateCardSet, Seeds, SeedGoes, SeedInv
<1>2. file # NoFile /\ fetch = NotRunning /\ ~NobodySeeds
  BY <1>1 DEF SeedInv, NobodySeeds
<1>3. CASE Progressed(s) \/ db.cardSets = {}
  <2>1. /\ db.cardSets = {CARD_SETS[i] : i \in 1..seeder[s].set - 1}
        /\ db.players = {} /\ db.statistics = {} /\ db.cards = {}
    <3>1. CASE Progressed(s) BY <1>1, <3>1 DEF SeedInv, DbAt
    <3>2. CASE ~Progressed(s) BY <1>1, <1>3, <3>2 DEF SeedInv, Progressed
    <3> QED BY <3>1, <3>2
  <2>2. code \notin db.cardSets BY <1>1, <2>1, CardSetsFacts
  <2>3. /\ db' = [db EXCEPT !.cardSets = @ \cup {code}]
        /\ seeder' = [seeder EXCEPT ![s] = NextSet(s)]
    BY <2>2 DEF CreateCardSet, SeedGoes
  <2>4. \A q \in Seeder : q # s => ~Progressed(q)
    BY <1>3 DEF SeedInv
  <2>5. db'.cardSets = {CARD_SETS[i] : i \in 1..seeder[s].set}
    BY <1>1, <2>1, <2>3 DEF SeedInv
  <2>6. db' = [cardSets |-> db'.cardSets, players |-> {}, statistics |-> {}, cards |-> {}]
    BY <2>1, <2>3 DEF SeedInv
  <2>7. seeder[s].set = Len(CARD_SETS) =>
           seeder'[s] = Running("players") /\ db'.cardSets = AllSets
    BY <2>3, <2>5 DEF NextSet, SeedInv, AllSets
  <2>8. seeder[s].set # Len(CARD_SETS) =>
           seeder'[s] = [step |-> "sets", set |-> seeder[s].set + 1]
    BY <1>1, <2>3 DEF NextSet, SeedInv
  <2>9. seeder'[s] \in [step : SeedStep, set : 1..Len(CARD_SETS)]
    BY <1>1, <2>7, <2>8, CardSetsFacts DEF Running, SeedStep
  <2>10. seeder'[s] # NotRunning
    BY <2>9, CatalogueAssumption, CardSetsFacts DEF SeedStep
  <2>11. Progressed(s)'
    BY <1>1, <2>7, <2>8, <2>10 DEF Progressed, Running
  <2>12. \A q \in Seeder : q # s => ~Progressed(q)'
    BY <2>3, <2>4 DEF Progressed, SeedInv
  <2>13. DbAt(s, seeder[s].step, seeder[s].set)'
    BY <1>1, <2>5, <2>6, <2>7, <2>8 DEF DbAt, Running
  <2>14. seeder' \in [Seeder -> {NotRunning} \cup [step : SeedStep, set : 1..Len(CARD_SETS)]]
    BY <2>3, <2>9 DEF SeedInv
  <2>15. db'.cardSets # {}
    <3>1. code \in db'.cardSets BY <1>1, <2>5
    <3> QED BY <3>1
  <2> QED BY <1>1, <1>2, <2>6, <2>11, <2>12, <2>13, <2>14, <2>15 DEF SeedInv
<1>4. CASE ~Progressed(s) /\ db.cardSets # {}
  <2>1. seeder[s].set = 1 BY <1>1, <1>4 DEF Progressed
  <2>2. CARD_SETS[1] \in db.cardSets
    <3>1. PICK q \in Seeder, step \in SeedStep \cup {"done"}, n \in 1..Len(CARD_SETS) :
            DbAt(q, step, n)
      <4>1. CASE \A q \in Seeder : ~Progressed(q) BY <1>4, <4>1 DEF SeedInv
      <4>2. CASE \E q \in Seeder : Progressed(q)
        <5>1. PICK q \in Seeder : Progressed(q) BY <4>2
        <5>2. seeder[q].step \in SeedStep /\ seeder[q].set \in 1..Len(CARD_SETS)
          BY <5>1 DEF SeedInv, Progressed
        <5> QED BY <5>1, <5>2 DEF SeedInv
      <4> QED BY <4>1, <4>2
    <3>2. \E m \in Nat : m >= 1 /\ db.cardSets = {CARD_SETS[i] : i \in 1..m}
      <4>1. CASE step = "sets"
        <5>1. db.cardSets = {CARD_SETS[i] : i \in 1..n - 1} BY <3>1, <4>1 DEF DbAt
        <5>2. n - 1 \in Nat /\ n - 1 # 0 BY <1>4, <5>1, CardSetsFacts
        <5> QED BY <5>1, <5>2
      <4>2. CASE step # "sets" BY <3>1, <4>2, CardSetsFacts DEF DbAt, AllSets
      <4> QED BY <4>1, <4>2
    <3> QED BY <3>2
  <2>3. seeder' = [seeder EXCEPT ![s] = NotRunning] /\ UNCHANGED db
    BY <2>1, <2>2 DEF CreateCardSet, SeedGoes
  <2>4. \A q, step, n : DbAt(q, step, n)' <=> DbAt(q, step, n)
    BY <1>1, <2>3 DEF DbAt, SeedPlayers, SeedCards, SeedFormats
  <2>5. \A q \in Seeder : Progressed(q)' <=> Progressed(q)
    BY <1>4, <2>3 DEF Progressed, SeedInv
  <2>6. \A q \in Seeder : Progressed(q) => seeder'[q] = seeder[q]
    BY <1>4, <2>3 DEF SeedInv
  <2> QED BY <1>1, <1>2, <2>3, <2>4, <2>5, <2>6 DEF SeedInv
<1> QED BY <1>3, <1>4

\* The one run that has all card sets goes on alone.
LEMMA RowsCreated ==
    ASSUME SeedInv, NEW s \in Seeder,
           CreatePlayers(s) \/ CreateStatistics(s) \/ CreateCards(s)
    PROVE  SeedInv'
<1> DEFINE step == seeder[s].step
<1> PICK next : next = CASE step = "players" -> "statistics"
                         [] step = "statistics" -> "cards"
                         [] OTHER -> "done"
  OBVIOUS
<1>1. /\ seeder[s] # NotRunning /\ step \in {"players", "statistics", "cards"}
      /\ UNCHANGED <<file, fetch, stopped>>
  BY DEF CreatePlayers, CreateStatistics, CreateCards, Seeds, SeedGoes
<1>2. /\ Progressed(s) /\ seeder[s].set \in 1..Len(CARD_SETS)
      /\ file # NoFile /\ fetch = NotRunning
  BY <1>1 DEF Progressed, SeedInv, NobodySeeds
<1>3. DbAt(s, step, seeder[s].set) /\ \A q \in Seeder : q # s => ~Progressed(q)
  BY <1>2 DEF SeedInv
<1>4. UNCHANGED <<SeedPlayers, SeedCards>>
  BY <1>1 DEF SeedPlayers, SeedCards, SeedFormats
<1>5. DbAt(s, next, 1)'
  <2>1. CASE CreatePlayers(s)
    <3>1. step = "players" /\ db' = [db EXCEPT !.players = @ \cup ({s} \X SeedPlayers)]
      BY <2>1 DEF CreatePlayers, Seeds
    <3> QED BY <1>3, <1>4, <3>1 DEF DbAt, SeedInv
  <2>2. CASE CreateStatistics(s)
    <3>1. step = "statistics" /\ db' = [db EXCEPT !.statistics = @ \cup ({s} \X SeedCards)]
      BY <2>2 DEF CreateStatistics, Seeds
    <3> QED BY <1>3, <1>4, <3>1 DEF DbAt, SeedInv
  <2>3. CASE CreateCards(s)
    <3>1. step = "cards" /\ db' = [db EXCEPT !.cards = @ \cup ({s} \X SeedCards)]
      BY <2>3 DEF CreateCards, Seeds
    <3> QED BY <1>3, <1>4, <3>1 DEF DbAt, SeedInv
  <2> QED BY <2>1, <2>2, <2>3
<1>6. db' = [cardSets |-> db'.cardSets, players |-> db'.players,
             statistics |-> db'.statistics, cards |-> db'.cards]
  BY DEF CreatePlayers, CreateStatistics, CreateCards, SeedInv
<1>7. seeder' = [seeder EXCEPT ![s] = IF next = "done" THEN NotRunning ELSE Running(next)]
  BY <1>1 DEF CreatePlayers, CreateStatistics, CreateCards, SeedGoes, Seeds
<1>8. Running(next) = [step |-> next, set |-> 1] /\ 1 \in 1..Len(CARD_SETS)
  BY CardSetsFacts DEF Running
<1>9. next \in {"statistics", "cards", "done"} BY <1>1
<1> HIDE DEF step
<1>10. next # "done" => Running(next) \in [step : SeedStep, set : 1..Len(CARD_SETS)]
  BY <1>8, <1>9 DEF SeedStep
<1>11. next # "done" => Running(next) # NotRunning
  BY <1>10, CatalogueAssumption, CardSetsFacts DEF SeedStep
<1>12. seeder' \in [Seeder -> {NotRunning} \cup [step : SeedStep, set : 1..Len(CARD_SETS)]]
  BY <1>7, <1>10 DEF SeedInv
<1>13. \A q \in Seeder : Progressed(q)' <=> q = s /\ next # "done"
  BY <1>3, <1>7, <1>8, <1>9, <1>11 DEF Progressed, SeedInv
<1>14. next # "done" => DbAt(s, seeder[s].step, seeder[s].set)'
  BY <1>5, <1>7, <1>8, <1>9 DEF SeedInv, DbAt
<1>15. db'.cardSets # {}
  <2>1. CARD_SETS[1] \in db'.cardSets BY <1>5, <1>8, <1>9 DEF DbAt, AllSets
  <2> QED BY <2>1
<1> QED BY <1>1, <1>2, <1>5, <1>6, <1>8, <1>9, <1>12, <1>13, <1>14, <1>15 DEF SeedInv

\* Every step of every script keeps what the seeds know.
LEMMA NextKeepsSeeds == SeedInv /\ [Next]_vars => SeedInv'
<1> SUFFICES ASSUME SeedInv, [Next]_vars PROVE SeedInv' OBVIOUS
<1>1. CASE UNCHANGED vars BY <1>1, OthersKeepSeeds DEF vars
<1>2. CASE ExtractionNext /\ UNCHANGED scripts BY <1>2, OthersKeepSeeds DEF scripts
<1>3. CASE WriteFile
  <2>1. NobodySeeds /\ db.cardSets = {} BY <1>3 DEF WriteFile, SeedInv
  <2> QED BY <1>3, <2>1, OthersKeepSeeds DEF WriteFile
<1>4. CASE \E force \in BOOLEAN : BeginFetch(force) BY <1>4, OthersKeepSeeds DEF BeginFetch
<1>5. ASSUME fetch # NotRunning, UNCHANGED <<seeder, db, stopped>> PROVE SeedInv'
  <2>1. NobodySeeds /\ db.cardSets = {} BY <1>5 DEF SeedInv
  <2> QED BY <1>5, <2>1, OthersKeepSeeds
<1>6. CASE EndFetch \/ StopFetch BY <1>5, <1>6 DEF EndFetch, StopFetch
<1>7. CASE \E w \in Worker : Take(w) BY <1>5, <1>7 DEF Take
<1>8. CASE \E w \in Worker, found \in LookupFinds : FindMatch(w, found)
  BY <1>5, <1>8 DEF FindMatch
<1>9. ASSUME NEW s \in Seeder,
             \/ BeginSeed(s) \/ CreateCardSet(s)
             \/ CreatePlayers(s) \/ CreateStatistics(s) \/ CreateCards(s)
             \/ StopSeed(s)
      PROVE  SeedInv'
  BY <1>9, SeedBeginsKeep, SetCreated, RowsCreated, SeedStopsKeep
<1> QED BY <1>1, <1>2, <1>3, <1>4, <1>6, <1>7, <1>8, <1>9 DEF Next

\* The database gets one catalogue or none, for every number of deployments that seed it at
\* once and every number of runs killed between the statements of seed.ts: no player has two
\* cards of a set, no card hangs in the air, and unless a run was killed all cards of the
\* file are there and nobody in players is without one.
THEOREM CatalogueIsWholeHolds == Spec => []CatalogueIsWhole
<1>1. Init => SeedInv
  BY DEF Init, SeedInv, NobodySeeds, Progressed
<1> QED BY <1>1, NextKeepsSeeds, SeedInvMakesWhole, PTL DEF Spec

-----------------------------------------------------------------------------
(***************************************************************************)
(* The image script.  Whoever is being looked up, or still to be looked    *)
(* up (Unchecked), is not yet found unless the run is forced, and of those *)
(* whose result is not yet in the file there are at most as many as        *)
(* results since the last checkpoint.                                      *)
(***************************************************************************)
\* Counting on, a remainder goes up by one or starts again.
LEMMA NextRemainder ==
    ASSUME NEW n \in Nat, NEW c \in Nat \ {0}
    PROVE  n % c \in 0..c - 1 /\ ((n + 1) % c = 0 \/ (n + 1) % c = (n % c) + 1)
<1>1. PICK q \in Nat, r \in 0..c - 1 : q = n \div c /\ r = n % c OBVIOUS
<1>2. n = c * q + r BY <1>1
<1>3. ASSUME NEW k \in Nat, NEW s \in 0..c - 1 PROVE (c * k + s) % c = s OBVIOUS
<1>4. CASE r + 1 < c
  <2>1. n + 1 = c * q + (r + 1) /\ r + 1 \in 0..c - 1 BY <1>2, <1>4
  <2> QED BY <1>1, <1>3, <2>1
<1>5. CASE r + 1 = c
  <2>1. n + 1 = c * (q + 1) + 0 /\ 0 \in 0..c - 1 BY <1>2, <1>5
  <2> QED BY <1>1, <1>3, <2>1
<1> QED BY <1>1, <1>4, <1>5

\* The players to look up are listed once each.
LEMMA SetToSeqEnumerates ==
    ASSUME NEW S, IsFiniteSet(S)
    PROVE  /\ SetToSeq(S) \in Seq(S) /\ IsInjective(SetToSeq(S))
           /\ DOMAIN SetToSeq(S) = 1..Len(SetToSeq(S)) /\ Len(SetToSeq(S)) \in Nat
<1>1. Cardinality(S) \in Nat /\ ExistsBijection(1..Cardinality(S), S)
  BY FS_CardinalityType
<1>2. PICK f \in [1..Cardinality(S) -> S] : IsInjective(f)
  BY <1>1 DEF ExistsBijection, Bijection, Injection
<1>3. SetToSeq(S) \in [1..Cardinality(S) -> S] /\ IsInjective(SetToSeq(S))
  BY <1>2 DEF SetToSeq
<1>4. SetToSeq(S) \in Seq(S) BY <1>1, <1>3, SeqDef
<1> QED BY <1>3, <1>4, LenProperties

FileRow == [cards : SUBSET Format, found : BOOLEAN]
FileType(data) ==
    data \in [DOMAIN data -> FileRow] /\ DOMAIN data \subseteq Person /\ data # NoFile

\* The places of the list without a result.
Unchecked ==
    {i \in 1..Len(fetch.pending) :
        i >= fetch.next \/ \E w \in Worker : fetch.looksUp[w] = i}

Unsaved == {p \in DOMAIN file : fetch.data[p] # file[p]}

FetchType ==
    /\ fetch = [force |-> fetch.force, data |-> fetch.data, pending |-> fetch.pending,
                next |-> fetch.next, looksUp |-> fetch.looksUp, checked |-> fetch.checked]
    /\ FileType(file) /\ FileType(fetch.data) /\ DOMAIN fetch.data = DOMAIN file
    /\ fetch.pending \in Seq(DOMAIN file) /\ IsInjective(fetch.pending)
    /\ fetch.next \in 1..Len(fetch.pending) + 1
    /\ fetch.looksUp \in [Worker -> 0..fetch.next - 1]
    /\ fetch.checked \in Nat

FetchInv ==
    /\ FetchType
    /\ ~fetch.force => \A i \in Unchecked : ~fetch.data[fetch.pending[i]].found
    /\ ~fetch.force => \A p \in DOMAIN file : file[p].found => fetch.data[p].found
    /\ \A v, w \in Looking : fetch.looksUp[v] = fetch.looksUp[w] => v = w
    /\ fetch.checked + Cardinality(Looking) = fetch.next - 1
    /\ Cardinality(Unsaved) <= fetch.checked % CheckpointEvery

LookupInv ==
    /\ file = NoFile \/ FileType(file)
    /\ fetch # NotRunning => FetchInv

\* What the workers know makes the index shared.
LEMMA LookupInvShares == LookupInv => LookupsAreShared
<1> SUFFICES ASSUME LookupInv, fetch # NotRunning PROVE LookupsAreShared
  BY DEF LookupsAreShared
<1>1. FetchInv BY DEF LookupInv
<1>2. fetch.checked % CheckpointEvery \in 0..CheckpointEvery - 1
  BY <1>1, NextRemainder, CatalogueAssumption DEF FetchInv, FetchType
<1>3. IsFiniteSet(Unsaved)
  BY <1>1, SquadsAssumption, FS_Subset DEF Unsaved, FetchInv, FetchType, FileType
<1>4. Cardinality(Unsaved) < CheckpointEvery
  BY <1>1, <1>2, <1>3, FS_CardinalityType, CatalogueAssumption DEF FetchInv
<1> QED BY <1>1, <1>4 DEF LookupsAreShared, FetchInv, Unsaved

\* Nobody in a new file is found.
LEMMA FileWritten == ASSUME LookupInv, WriteFile PROVE LookupInv'
<1>1. PICK pool \in [Format -> UNION {Pools(f) : f \in Format}] :
         /\ \A f \in Format : pool[f] \in Pools(f)
         /\ file' = [p \in UNION {pool[f] : f \in Format} |->
                       [cards |-> {f \in Format : p \in pool[f]}, found |-> FALSE]]
  BY DEF WriteFile
<1>2. \A f \in Format : pool[f] \subseteq Person BY <1>1 DEF Pools
<1>3. DOMAIN file' \subseteq Person /\ file' \in [DOMAIN file' -> FileRow]
  BY <1>1, <1>2 DEF FileRow
<1>4. file' # NoFile BY <1>3, CatalogueAssumption DEF FileRow
<1>5. fetch' = fetch /\ file = NoFile BY DEF WriteFile
<1>6. fetch = NotRunning BY <1>5 DEF LookupInv, FetchInv, FetchType, FileType
<1> QED BY <1>3, <1>4, <1>5, <1>6 DEF LookupInv, FileType

\* A new run of the image script has looked nobody up.
LEMMA FetchBegun ==
    ASSUME LookupInv, NEW force \in BOOLEAN, BeginFetch(force)
    PROVE  LookupInv'
<1>1. file # NoFile /\ file' = file /\ FileType(file)
  BY DEF BeginFetch, LookupInv
<1> DEFINE list == SetToSeq(Pending(file, force))
<1>2. fetch' = [force |-> force, data |-> file, pending |-> list, next |-> 1,
                looksUp |-> [w \in Worker |-> 0], checked |-> 0]
  BY DEF BeginFetch
<1>3. IsFiniteSet(Pending(file, force)) /\ Pending(file, force) \subseteq DOMAIN file
  BY <1>1, FS_Subset, SquadsAssumption DEF Pending, FileType
<1>4. /\ list \in Seq(Pending(file, force)) /\ IsInjective(list)
      /\ DOMAIN list = 1..Len(list) /\ Len(list) \in Nat
  BY <1>3, SetToSeqEnumerates
<1> HIDE DEF list
<1>5. \A i \in 1..Len(list) : list[i] \in Pending(file, force) BY <1>4, ElementOfSeq
<1>6. list \in Seq(DOMAIN file) BY <1>3, <1>4, SeqMonotonic
<1>7. FetchType' BY <1>1, <1>2, <1>4, <1>6 DEF FetchType, FileType
<1>8. Looking' = {} /\ Unsaved' = {} BY <1>1, <1>2 DEF Looking, Unsaved
<1>9. ~force => \A i \in Unchecked' : ~file[list[i]].found
  BY <1>2, <1>5 DEF Unchecked, Pending
<1>10. 0 % CheckpointEvery \in 0..CheckpointEvery - 1
  BY NextRemainder, CatalogueAssumption
<1>11. FetchInv'
  BY <1>1, <1>2, <1>7, <1>8, <1>9, <1>10, FS_EmptySet, CatalogueAssumption DEF FetchInv
<1> QED BY <1>1, <1>11 DEF LookupInv

\* What is looked up next was not found before.
LEMMA Taken == ASSUME LookupInv, NEW w \in Worker, Take(w) PROVE LookupInv'
<1>1. /\ FetchInv /\ FetchType /\ fetch.looksUp[w] = 0 /\ fetch.next <= Len(fetch.pending)
      /\ file' = file
  BY DEF Take, LookupInv, FetchInv
<1>2. fetch' = [force |-> fetch.force, data |-> fetch.data, pending |-> fetch.pending,
                next |-> fetch.next + 1,
                looksUp |-> [fetch.looksUp EXCEPT ![w] = fetch.next], checked |-> fetch.checked]
  BY <1>1 DEF Take, FetchType
<1>3. Len(fetch.pending) \in Nat /\ fetch.next \in Nat /\ fetch.next >= 1
  BY <1>1, LenProperties DEF FetchType
<1>4. FetchType' BY <1>1, <1>2, <1>3 DEF FetchType, FileType
<1>5. Unchecked' \subseteq Unchecked
  BY <1>1, <1>2, <1>3 DEF Unchecked, FetchType
<1>6. Looking' = Looking \cup {w} /\ w \notin Looking
  BY <1>1, <1>2, <1>3 DEF Looking, FetchType
<1>7. IsFiniteSet(Looking) BY FS_Subset, CatalogueAssumption DEF Looking
<1>8. Cardinality(Looking') = Cardinality(Looking) + 1 /\ Cardinality(Looking) \in Nat
  BY <1>6, <1>7, FS_AddElement, FS_CardinalityType
<1>9. Unsaved' = Unsaved BY <1>1, <1>2 DEF Unsaved
<1>10. \A u, v \in Looking' : fetch'.looksUp[u] = fetch'.looksUp[v] => u = v
  BY <1>1, <1>2, <1>3, <1>6 DEF FetchInv, FetchType, Looking
<1>11. fetch'.checked + Cardinality(Looking') = fetch'.next - 1
  <2>1. fetch'.checked = fetch.checked /\ fetch'.next = fetch.next + 1 BY <1>2
  <2>2. fetch.checked \in Nat BY <1>1 DEF FetchType
  <2>3. fetch.checked + Cardinality(Looking) = fetch.next - 1 BY <1>1 DEF FetchInv
  <2> QED BY <1>3, <1>8, <2>1, <2>2, <2>3
<1>12. FetchInv'
  BY <1>1, <1>2, <1>4, <1>5, <1>9, <1>10, <1>11 DEF FetchInv
<1> QED BY <1>1, <1>12 DEF LookupInv

\* A lookup finds name and photo or not.
LEMMA FindsAreBoolean == \A found \in LookupFinds : found \in BOOLEAN
BY DEF LookupFinds

\* A result is in the file at the next checkpoint.
LEMMA Found ==
    ASSUME LookupInv, NEW w \in Worker, NEW found \in BOOLEAN, FindMatch(w, found)
    PROVE  LookupInv'
<1> DEFINE i == fetch.looksUp[w]
           p == fetch.pending[i]
           data == [fetch.data EXCEPT ![p].found = found]
           checked == fetch.checked + 1
<1>1. /\ FetchInv /\ FetchType /\ i # 0
      /\ file' = IF checked % CheckpointEvery = 0 THEN data ELSE file
  BY DEF FindMatch, LookupInv, FetchInv
<1>2. fetch' = [force |-> fetch.force, data |-> data, pending |-> fetch.pending,
                next |-> fetch.next,
                looksUp |-> [fetch.looksUp EXCEPT ![w] = 0], checked |-> checked]
  BY <1>1 DEF FindMatch, FetchType
<1>3. Len(fetch.pending) \in Nat /\ DOMAIN fetch.pending = 1..Len(fetch.pending)
  BY <1>1, LenProperties DEF FetchType
<1>4. i \in 1..Len(fetch.pending) BY <1>1, <1>3 DEF FetchType
<1>5. p \in DOMAIN file BY <1>1, <1>4, ElementOfSeq DEF FetchType
<1>6. FileType(data) /\ DOMAIN data = DOMAIN file
  <2>1. data \in [DOMAIN file -> FileRow]
    BY <1>1, <1>5 DEF FetchType, FileType, FileRow
  <2>2. DOMAIN file \subseteq Person BY <1>1 DEF FetchType, FileType
  <2> QED BY <2>1, <2>2, CatalogueAssumption DEF FileType, FileRow
<1>7. FileType(file') /\ DOMAIN file' = DOMAIN file
  BY <1>1, <1>6 DEF FetchType
<1> HIDE DEF checked
<1>8. checked \in Nat /\ checked = fetch.checked + 1 BY <1>1 DEF FetchType, checked
<1>9. FetchType' BY <1>1, <1>2, <1>6, <1>7, <1>8 DEF FetchType
<1>10. \A q \in DOMAIN file : q # p => data[q] = fetch.data[q]
  BY <1>1 DEF FetchType
<1>11. \A j \in Unchecked' : j \in Unchecked /\ j # i
  BY <1>1, <1>2, <1>4 DEF Unchecked, FetchInv, FetchType, Looking
<1>12. \A j \in Unchecked' : fetch.pending[j] # p /\ fetch.pending[j] \in DOMAIN file
  BY <1>1, <1>3, <1>4, <1>11, ElementOfSeq DEF Unchecked, FetchType, IsInjective
<1>13. i \in Unchecked BY <1>4 DEF Unchecked
<1>14. ~fetch.force => ~fetch.data[p].found BY <1>1, <1>13 DEF FetchInv
<1>15. ~fetch.force => \A q \in DOMAIN file : file[q].found => data[q].found
  BY <1>1, <1>10, <1>14 DEF FetchInv
<1> HIDE DEF data
<1>16. Looking' = Looking \ {w} /\ w \in Looking
  BY <1>1, <1>2 DEF Looking, FetchType
<1>17. IsFiniteSet(Looking) BY FS_Subset, CatalogueAssumption DEF Looking
<1>18. Cardinality(Looking') = Cardinality(Looking) - 1 /\ Cardinality(Looking) \in Nat
  BY <1>16, <1>17, FS_RemoveElement, FS_CardinalityType
<1>19. fetch'.checked + Cardinality(Looking') = fetch'.next - 1
  BY <1>1, <1>2, <1>8, <1>18 DEF FetchInv, FetchType
<1>20. \A u, v \in Looking' : fetch'.looksUp[u] = fetch'.looksUp[v] => u = v
  BY <1>1, <1>2, <1>16 DEF FetchInv, FetchType, Looking
<1>21. Cardinality(Unsaved') <= checked % CheckpointEvery
  <2>1. CASE checked % CheckpointEvery = 0
    <3>1. Unsaved' = {} BY <1>1, <1>2, <2>1 DEF Unsaved
    <3> QED BY <2>1, <3>1, FS_EmptySet
  <2>2. CASE checked % CheckpointEvery # 0
    <3>1. Unsaved' \subseteq Unsaved \cup {p}
      BY <1>1, <1>2, <1>10, <2>2 DEF Unsaved
    <3>2. IsFiniteSet(Unsaved)
      BY <1>1, SquadsAssumption, FS_Subset DEF Unsaved, FetchType, FileType
    <3>3. /\ IsFiniteSet(Unsaved \cup {p}) /\ Cardinality(Unsaved) \in Nat
          /\ Cardinality(Unsaved \cup {p}) <= Cardinality(Unsaved) + 1
      <4>1. Cardinality(Unsaved) \in Nat BY <3>2, FS_CardinalityType
      <4>2. /\ IsFiniteSet(Unsaved \cup {p})
            /\ Cardinality(Unsaved \cup {p})
                  = IF p \in Unsaved THEN Cardinality(Unsaved) ELSE Cardinality(Unsaved) + 1
        BY <3>2, FS_AddElement
      <4> QED BY <4>1, <4>2
    <3>4. Cardinality(Unsaved') <= Cardinality(Unsaved \cup {p}) /\ IsFiniteSet(Unsaved')
      BY <3>1, <3>3, FS_Subset
    <3>5. checked % CheckpointEvery = (fetch.checked % CheckpointEvery) + 1
          /\ fetch.checked % CheckpointEvery \in 0..CheckpointEvery - 1
      BY <1>1, <1>8, <2>2, NextRemainder, CatalogueAssumption DEF FetchType
    <3>6. Cardinality(Unsaved) <= fetch.checked % CheckpointEvery BY <1>1 DEF FetchInv
    <3>7. Cardinality(Unsaved') \in Nat /\ Cardinality(Unsaved \cup {p}) \in Nat
      BY <3>3, <3>4, FS_CardinalityType
    <3> QED BY <3>3, <3>4, <3>5, <3>6, <3>7
  <2> QED BY <2>1, <2>2
<1>22. ~fetch.force => \A q \in DOMAIN file' : file'[q].found => data[q].found BY <1>1, <1>7, <1>15
<1>23. ~fetch.force => \A j \in Unchecked' : ~data[fetch.pending[j]].found
  BY <1>1, <1>10, <1>11, <1>12 DEF FetchInv
<1>24. FetchInv'
  BY <1>2, <1>9, <1>19, <1>20, <1>21, <1>22, <1>23 DEF FetchInv
<1> QED BY <1>7, <1>24 DEF LookupInv

\* Every step of every script keeps what the workers know.
LEMMA NextKeepsLookups == LookupInv /\ [Next]_vars => LookupInv'
<1> SUFFICES ASSUME LookupInv, [Next]_vars PROVE LookupInv' OBVIOUS
<1>1. ASSUME UNCHANGED <<file, fetch>> PROVE LookupInv'
  BY <1>1 DEF LookupInv, FetchInv, FetchType, Unchecked, Unsaved, Looking
<1>2. CASE UNCHANGED vars BY <1>1, <1>2 DEF vars
<1>3. CASE ExtractionNext /\ UNCHANGED scripts BY <1>1, <1>3 DEF scripts
<1>4. CASE WriteFile BY <1>4, FileWritten
<1>5. CASE \E force \in BOOLEAN : BeginFetch(force) BY <1>5, FetchBegun
<1>6. CASE EndFetch
  BY <1>6 DEF EndFetch, LookupInv, FetchInv, FetchType
<1>7. CASE StopFetch BY <1>7 DEF StopFetch, LookupInv
<1>8. CASE \E w \in Worker : Take(w) BY <1>8, Taken
<1>9. CASE \E w \in Worker, found \in LookupFinds : FindMatch(w, found)
  BY <1>9, Found, FindsAreBoolean
<1>10. ASSUME NEW s \in Seeder,
              \/ BeginSeed(s) \/ CreateCardSet(s)
              \/ CreatePlayers(s) \/ CreateStatistics(s) \/ CreateCards(s)
              \/ StopSeed(s)
       PROVE  LookupInv'
  <2>1. UNCHANGED <<file, fetch>>
    BY <1>10 DEF BeginSeed, CreateCardSet, CreatePlayers, CreateStatistics, CreateCards,
                 StopSeed, SeedGoes
  <2> QED BY <1>1, <2>1
<1> QED BY <1>2, <1>3, <1>4, <1>5, <1>6, <1>7, <1>8, <1>9, <1>10 DEF Next

\* The workers of the image script share their index without a lock, for every number of
\* workers, players and scripts stopped: nobody is looked up twice or left out, a stopped
\* script has lost fewer results than there are between two checkpoints, and whoever was
\* found by an earlier run stays found unless the script is told to look everybody up again.
THEOREM LookupsAreSharedHolds == Spec => []LookupsAreShared
<1>1. Init => LookupInv BY DEF Init, LookupInv
<1> QED BY <1>1, NextKeepsLookups, LookupInvShares, PTL DEF Spec

-----------------------------------------------------------------------------
(***************************************************************************)
(* The careers.  What one career has added up fits together on its own     *)
(* (CareerInv); its best bowling figure is one of those returned and none  *)
(* of them is better (BestInv).                                            *)
(***************************************************************************)
FigureOf == [wickets : Nat, runs : Nat]

Career ==
    [matches : Nat, inningsBatted : Nat, notOuts : Nat, runs : Nat, highestScore : Nat,
     ballsFaced : Nat, centuries : Nat, halfCenturies : Nat, inningsBowled : Nat,
     ballsBowled : Nat, runsConceded : Nat, wickets : Nat, bestBowling : {NoFigure} \cup FigureOf,
     catches : Nat, stumpings : Nat]

BatLine == [runs : Nat, balls : Nat, dismissed : BOOLEAN]
BowlLine == [runs : Nat, balls : Nat, wickets : Nat]

NoBatLine == [runs |-> 0, balls |-> 0, dismissed |-> FALSE]
NoBowlLine == [runs |-> 0, balls |-> 0, wickets |-> 0]

\* The lines of those who have one.
BatLines(lines) == lines \in [DOMAIN lines -> BatLine] /\ DOMAIN lines \subseteq Person
BowlLines(lines) == lines \in [DOMAIN lines -> BowlLine] /\ DOMAIN lines \subseteq Person

InningsType(inn) ==
    /\ inn = [format |-> inn.format, squad |-> inn.squad,
              batting |-> inn.batting, bowling |-> inn.bowling]
    /\ inn.format \in Format /\ BatLines(inn.batting) /\ BowlLines(inn.bowling)

ExtractionType ==
    /\ agg \in [Format -> [Person -> Career]]
    /\ innings = NoInnings \/ InningsType(innings)
    /\ DOMAIN figures = Format /\ \A f \in Format : DOMAIN figures[f] = Person

BatLineOf(lines, p) == IF p \in DOMAIN lines THEN lines[p] ELSE NoBatLine
BowlLineOf(lines, p) == IF p \in DOMAIN lines THEN lines[p] ELSE NoBowlLine

GetsOut(s, p) == s.wicket # NoWicket /\ s.wicket.out = p
TakesWicket(s, p) ==
    s.bowler = p /\ s.wicket # NoWicket /\ s.wicket.kind \notin NOT_BOWLER_WICKET

\* A spell adds to the lines of its batter, of who gets out and of its bowler.
BatsOn(line, old, s, p) ==
    /\ line.runs = old.runs + (IF p = s.batter THEN s.runs ELSE 0)
    /\ line.balls = old.balls + (IF p = s.batter THEN s.legal ELSE 0)
    /\ IF GetsOut(s, p) THEN line.dismissed ELSE line.dismissed = old.dismissed

\* Who faces, who is out and who only stands there, also if two of them are one.
LEMMA BattingLineIs ==
    ASSUME NEW lines, BatLines(lines), NEW s \in Spells
    PROVE  /\ BatLines(BattingLine(lines, s))
           /\ \A p : BatsOn(BatLineOf(BattingLine(lines, s), p), BatLineOf(lines, p), s, p)
<1>1. /\ s.batter \in Person /\ s.nonStriker \in Person /\ s.runs \in Nat /\ s.legal \in Nat
      /\ s.wicket # NoWicket => s.wicket.out \in {s.batter, s.nonStriker}
  BY SpellsAssumption
<1> DEFINE there == ensureBatting(ensureBatting(lines, s.batter), s.nonStriker)
           faced == [there EXCEPT ![s.batter].runs = @ + s.runs, ![s.batter].balls = @ + s.legal]
           new == BattingLine(lines, s)
<1>2. /\ DOMAIN there = DOMAIN lines \cup {s.batter, s.nonStriker}
      /\ \A p \in DOMAIN there : there[p] = BatLineOf(lines, p)
  BY DEF ensureBatting, Ensured, BatLineOf, NoBatLine
<1>3. \A p : BatLineOf(lines, p) \in BatLine
  BY DEF BatLines, BatLineOf, BatLine, NoBatLine
<1>4. there \in [DOMAIN there -> BatLine]
  <2>1. there = [p \in DOMAIN there |-> there[p]] BY DEF ensureBatting, Ensured
  <2> QED BY <1>2, <1>3, <2>1
<1> HIDE DEF there
<1>5. /\ DOMAIN faced = DOMAIN there /\ faced \in [DOMAIN there -> BatLine]
      /\ \A p \in DOMAIN there :
            /\ faced[p].runs = there[p].runs + (IF p = s.batter THEN s.runs ELSE 0)
            /\ faced[p].balls = there[p].balls + (IF p = s.batter THEN s.legal ELSE 0)
            /\ faced[p].dismissed = there[p].dismissed
  <2>1. s.batter \in DOMAIN there /\ there[s.batter] \in BatLine BY <1>2, <1>3
  <2>2. /\ DOMAIN faced = DOMAIN there
        /\ \A p \in DOMAIN there : p # s.batter => faced[p] = there[p]
    OBVIOUS
  <2>3. faced[s.batter] = [runs |-> there[s.batter].runs + s.runs,
                           balls |-> there[s.batter].balls + s.legal,
                           dismissed |-> there[s.batter].dismissed]
    BY <2>1 DEF BatLine
  <2>4. faced \in [DOMAIN there -> BatLine]
    <3>1. faced = [p \in DOMAIN there |-> faced[p]] OBVIOUS
    <3> HIDE DEF faced
    <3>2. faced[s.batter] \in BatLine BY <1>1, <2>1, <2>3 DEF BatLine
    <3>3. \A p \in DOMAIN there : faced[p] \in BatLine BY <1>4, <2>2, <3>2
    <3> QED BY <3>1, <3>3
  <2> HIDE DEF faced
  <2>5. \A p \in DOMAIN there : there[p].runs \in Nat /\ there[p].balls \in Nat
    BY <1>4 DEF BatLine
  <2> QED BY <2>2, <2>3, <2>4, <2>5
<1> HIDE DEF faced
<1>6. /\ DOMAIN new = DOMAIN there /\ new \in [DOMAIN there -> BatLine]
      /\ \A p \in DOMAIN there : BatsOn(new[p], there[p], s, p)
  <2>1. CASE s.wicket = NoWicket
    <3>1. new = faced BY <2>1 DEF BattingLine, faced, there
    <3>2. \A p : ~GetsOut(s, p) BY <2>1 DEF GetsOut
    <3> QED BY <1>5, <3>1, <3>2 DEF BatsOn
  <2>2. CASE s.wicket # NoWicket
    <3>1. s.wicket.out \in DOMAIN faced BY <1>1, <1>2, <1>5, <2>2
    <3>2. ensureBatting(faced, s.wicket.out) = faced
      BY <1>5, <3>1 DEF ensureBatting, Ensured
    <3>3. new = [ensureBatting(faced, s.wicket.out) EXCEPT ![s.wicket.out].dismissed = TRUE]
      BY <2>2 DEF BattingLine, faced, there
    <3>4. new = [faced EXCEPT ![s.wicket.out].dismissed = TRUE] BY <3>2, <3>3
    <3>5. \A p : GetsOut(s, p) <=> p = s.wicket.out BY <2>2 DEF GetsOut
    <3>6. \A p \in DOMAIN there : p # s.wicket.out => new[p] = faced[p]
      BY <1>5, <3>4
    <3>7. faced[s.wicket.out] \in BatLine BY <1>5, <3>1
    <3>8. new[s.wicket.out] = [faced[s.wicket.out] EXCEPT !.dismissed = TRUE]
      BY <3>1, <3>4
    <3>9. DOMAIN new = DOMAIN there /\ new \in [DOMAIN there -> BatLine]
      BY <1>5, <3>1, <3>4, <3>7 DEF BatLine
    <3>10. /\ new[s.wicket.out].runs = faced[s.wicket.out].runs
           /\ new[s.wicket.out].balls = faced[s.wicket.out].balls
           /\ new[s.wicket.out].dismissed
      BY <3>7, <3>8 DEF BatLine
    <3> QED BY <1>5, <3>5, <3>6, <3>9, <3>10 DEF BatsOn
  <2> QED BY <2>1, <2>2
<1> HIDE DEF new
<1>7. BatLines(new) BY <1>1, <1>2, <1>6 DEF BatLines
<1>8. ASSUME NEW p PROVE BatsOn(BatLineOf(new, p), BatLineOf(lines, p), s, p)
  <2>1. CASE p \in DOMAIN new
    <3>1. BatLineOf(new, p) = new[p] BY <2>1 DEF BatLineOf
    <3> QED BY <1>2, <1>6, <2>1, <3>1
  <2>2. CASE p \notin DOMAIN new
    <3>1. p \notin DOMAIN lines /\ p # s.batter /\ ~GetsOut(s, p)
      BY <1>1, <1>2, <1>6, <2>2 DEF GetsOut
    <3>2. BatLineOf(new, p) = NoBatLine /\ BatLineOf(lines, p) = NoBatLine
      BY <2>2, <3>1 DEF BatLineOf
    <3> QED BY <3>1, <3>2 DEF BatsOn, NoBatLine
  <2> QED BY <2>1, <2>2
<1> QED BY <1>7, <1>8 DEF new

\* A spell adds its balls, runs and wicket to the line of its bowler only.
LEMMA BowlingLineIs ==
    ASSUME NEW lines, BowlLines(lines), NEW s \in Spells
    PROVE  /\ BowlLines(BowlingLine(lines, s))
           /\ \A p : BowlLineOf(BowlingLine(lines, s), p) =
                 [runs |-> BowlLineOf(lines, p).runs
                             + (IF p = s.bowler THEN s.total - s.byes ELSE 0),
                  balls |-> BowlLineOf(lines, p).balls + (IF p = s.bowler THEN s.legal ELSE 0),
                  wickets |-> BowlLineOf(lines, p).wickets
                                + (IF TakesWicket(s, p) THEN 1 ELSE 0)]
<1>1. /\ s.bowler \in Person /\ s.legal \in Nat /\ s.total - s.byes \in Nat
      /\ s.total \in Nat /\ s.byes \in Nat
  BY SpellsAssumption
<1> DEFINE there == ensureBowling(lines, s.bowler)
           new == BowlingLine(lines, s)
<1>2. /\ DOMAIN there = DOMAIN lines \cup {s.bowler}
      /\ \A p \in DOMAIN there : there[p] = BowlLineOf(lines, p)
  BY DEF ensureBowling, Ensured, BowlLineOf, NoBowlLine
<1>3. \A p : BowlLineOf(lines, p) \in BowlLine
  BY DEF BowlLines, BowlLineOf, BowlLine, NoBowlLine
<1>4. there = [p \in DOMAIN there |-> there[p]] BY DEF ensureBowling, Ensured
<1>5. new = [there EXCEPT ![s.bowler].balls = @ + s.legal,
                          ![s.bowler].runs = @ + s.total - s.byes,
                          ![s.bowler].wickets =
                              IF s.wicket # NoWicket /\ s.wicket.kind \notin NOT_BOWLER_WICKET
                              THEN @ + 1 ELSE @]
  BY DEF BowlingLine
<1> HIDE DEF there, new
<1>6. TakesWicket(s, s.bowler)
         <=> s.wicket # NoWicket /\ s.wicket.kind \notin NOT_BOWLER_WICKET
  BY DEF TakesWicket
<1>7. \A p : p # s.bowler => ~TakesWicket(s, p) BY DEF TakesWicket
<1>8. /\ DOMAIN new = DOMAIN there /\ new = [p \in DOMAIN there |-> new[p]]
      /\ \A p \in DOMAIN there : p # s.bowler => new[p] = there[p]
  BY <1>4, <1>5
<1>9. s.bowler \in DOMAIN there /\ there[s.bowler] \in BowlLine BY <1>2, <1>3
<1>10. new[s.bowler] =
          [runs |-> there[s.bowler].runs + s.total - s.byes,
           balls |-> there[s.bowler].balls + s.legal,
           wickets |-> IF TakesWicket(s, s.bowler) THEN there[s.bowler].wickets + 1
                       ELSE there[s.bowler].wickets]
  BY <1>5, <1>6, <1>9 DEF BowlLine
<1>11. ASSUME NEW p \in DOMAIN new
       PROVE  new[p] =
                 [runs |-> BowlLineOf(lines, p).runs
                             + (IF p = s.bowler THEN s.total - s.byes ELSE 0),
                  balls |-> BowlLineOf(lines, p).balls + (IF p = s.bowler THEN s.legal ELSE 0),
                  wickets |-> BowlLineOf(lines, p).wickets
                                + (IF TakesWicket(s, p) THEN 1 ELSE 0)]
  <2>1. CASE p = s.bowler
    BY <1>1, <1>2, <1>3, <1>9, <1>10, <2>1 DEF BowlLine
  <2>2. CASE p # s.bowler
    BY <1>2, <1>3, <1>7, <1>8, <2>2 DEF BowlLine
  <2> QED BY <2>1, <2>2
<1>12. \A p \in DOMAIN new : new[p] \in BowlLine BY <1>1, <1>3, <1>11 DEF BowlLine
<1>13. DOMAIN new \subseteq Person BY <1>1, <1>2, <1>8 DEF BowlLines
<1>14. BowlLines(new) BY <1>8, <1>12, <1>13 DEF BowlLines
<1>15. ASSUME NEW p, p \notin DOMAIN new
       PROVE  /\ BowlLineOf(lines, p) = NoBowlLine /\ p # s.bowler
              /\ BowlLineOf(new, p) = NoBowlLine
  BY <1>2, <1>8, <1>15 DEF BowlLineOf
<1>16. ASSUME NEW p
       PROVE  BowlLineOf(new, p) =
                 [runs |-> BowlLineOf(lines, p).runs
                             + (IF p = s.bowler THEN s.total - s.byes ELSE 0),
                  balls |-> BowlLineOf(lines, p).balls + (IF p = s.bowler THEN s.legal ELSE 0),
                  wickets |-> BowlLineOf(lines, p).wickets
                                + (IF TakesWicket(s, p) THEN 1 ELSE 0)]
  <2>1. CASE p \in DOMAIN new BY <1>11, <2>1 DEF BowlLineOf
  <2>2. CASE p \notin DOMAIN new BY <1>7, <1>15, <2>2 DEF NoBowlLine
  <2> QED BY <2>1, <2>2
<1> QED BY <1>14, <1>16 DEF new

CareerInv(a) ==
    /\ a.centuries + a.halfCenturies <= a.inningsBatted
    /\ 100 * a.centuries + 50 * a.halfCenturies <= a.runs
    /\ a.highestScore <= a.runs /\ a.runs <= a.highestScore * a.inningsBatted
    /\ a.centuries > 0 <=> a.highestScore >= 100
    /\ a.notOuts <= a.inningsBatted
    /\ a.wickets > 0 => a.inningsBowled > 0
    /\ a.wickets > 0 <=> a.bestBowling # NoFigure

BestInv(a, returned) ==
    IF a.bestBowling = NoFigure THEN returned = {}
    ELSE /\ Figure(a.bestBowling.wickets, a.bestBowling.runs) \in returned
         /\ \A x \in returned :
               /\ x.wickets \in Nat /\ x.wickets > 0 /\ x.runs \in Nat
               /\ ~isBetterBowling(x, a.bestBowling)

CareerFields ==
    {"matches", "inningsBatted", "notOuts", "runs", "highestScore", "ballsFaced", "centuries",
     "halfCenturies", "inningsBowled", "ballsBowled", "runsConceded", "wickets", "bestBowling",
     "catches", "stumpings"}

\* A record with these fields is a career, whatever it was made from.
LEMMA CareerHasFields ==
    ASSUME NEW b, b = [x \in CareerFields |-> b[x]],
           b.bestBowling \in {NoFigure} \cup FigureOf,
           \A x \in CareerFields \ {"bestBowling"} : b[x] \in Nat
    PROVE  b \in Career
<1>1. /\ b.matches \in Nat /\ b.inningsBatted \in Nat /\ b.notOuts \in Nat /\ b.runs \in Nat
      /\ b.highestScore \in Nat /\ b.ballsFaced \in Nat /\ b.centuries \in Nat
      /\ b.halfCenturies \in Nat /\ b.inningsBowled \in Nat /\ b.ballsBowled \in Nat
      /\ b.runsConceded \in Nat /\ b.wickets \in Nat /\ b.catches \in Nat
      /\ b.stumpings \in Nat
  BY DEF CareerFields
<1> QED BY <1>1 DEF Career, CareerFields

\* What an innings at bat adds to a career.
LEMMA BattedIs ==
    ASSUME NEW a \in Career, NEW line \in BatLine
    PROVE  LET b == Batted(a, line)
           IN  /\ b \in Career
               /\ b.inningsBatted = a.inningsBatted + 1 /\ b.runs = a.runs + line.runs
               /\ b.ballsFaced = a.ballsFaced + line.balls
               /\ b.highestScore = IF line.runs > a.highestScore THEN line.runs
                                   ELSE a.highestScore
               /\ b.centuries = IF line.runs >= 100 THEN a.centuries + 1 ELSE a.centuries
               /\ b.halfCenturies = IF line.runs \in 50..99 THEN a.halfCenturies + 1
                                    ELSE a.halfCenturies
               /\ b.notOuts = IF line.dismissed THEN a.notOuts ELSE a.notOuts + 1
               /\ b.inningsBowled = a.inningsBowled /\ b.ballsBowled = a.ballsBowled
               /\ b.wickets = a.wickets /\ b.bestBowling = a.bestBowling
<1>1. {line.runs, line.balls} \subseteq Nat BY DEF BatLine
<1> DEFINE b == Batted(a, line)
<1>2. /\ b.inningsBatted \in Nat /\ b.notOuts \in Nat /\ b.runs \in Nat
      /\ b.highestScore \in Nat /\ b.ballsFaced \in Nat /\ b.centuries \in Nat
      /\ b.halfCenturies \in Nat
  BY <1>1 DEF Batted, Career
<1>3. /\ b.matches \in Nat /\ b.inningsBowled \in Nat /\ b.ballsBowled \in Nat
      /\ b.runsConceded \in Nat /\ b.wickets \in Nat /\ b.catches \in Nat
      /\ b.stumpings \in Nat /\ b.bestBowling \in {NoFigure} \cup FigureOf
  BY DEF Batted, Career
<1>4. DOMAIN a = CareerFields BY DEF Career, CareerFields
<1>5. b = [x \in CareerFields |-> b[x]] BY <1>4 DEF Batted
<1> HIDE DEF b
<1>6. b \in Career BY <1>2, <1>3, <1>5, CareerHasFields DEF CareerFields
<1> QED BY <1>6 DEF Batted, Career, b

\* The runs of all innings are at most the highest score in each of them.
LEMMA HighestBounds ==
    ASSUME NEW r \in Nat, NEW h \in Nat, NEW n \in Nat, NEW l \in Nat, NEW k \in Nat,
           r <= h * n, k >= h, k >= l
    PROVE  r + l <= k * (n + 1)
<1>1. (k - h) * n >= 0
  <2>1. k - h \in Nat OBVIOUS
  <2>2. \A x, y \in Nat : x * y >= 0 OBVIOUS
  <2> QED BY <2>1, <2>2
<1>2. k * (n + 1) = h * n + (k - h) * n + k OBVIOUS
<1>3. h * n \in Int /\ (k - h) * n \in Int OBVIOUS
<1> QED BY <1>1, <1>2, <1>3

\* A career still fits together after an innings at bat.
LEMMA BattedKeeps ==
    ASSUME NEW a \in Career, CareerInv(a), NEW line \in BatLine
    PROVE  Batted(a, line) \in Career /\ CareerInv(Batted(a, line))
<1> DEFINE b == Batted(a, line)
<1>1. b \in Career BY BattedIs
<1>2. /\ b.inningsBatted = a.inningsBatted + 1 /\ b.runs = a.runs + line.runs
      /\ b.highestScore = IF line.runs > a.highestScore THEN line.runs ELSE a.highestScore
      /\ b.centuries = IF line.runs >= 100 THEN a.centuries + 1 ELSE a.centuries
      /\ b.halfCenturies = IF line.runs \in 50..99 THEN a.halfCenturies + 1 ELSE a.halfCenturies
      /\ b.notOuts = IF line.dismissed THEN a.notOuts ELSE a.notOuts + 1
      /\ b.wickets = a.wickets /\ b.inningsBowled = a.inningsBowled
      /\ b.bestBowling = a.bestBowling
  BY BattedIs
<1> HIDE DEF b
<1>3. /\ {a.inningsBatted, a.runs, a.highestScore, a.centuries, a.halfCenturies, a.notOuts,
          line.runs} \subseteq Nat
  BY DEF Career, BatLine
<1>4. b.runs <= b.highestScore * b.inningsBatted
  <2>1. /\ b.highestScore \in Nat /\ b.highestScore >= a.highestScore
        /\ b.highestScore >= line.runs
    BY <1>2, <1>3
  <2>2. a.runs + line.runs <= b.highestScore * (a.inningsBatted + 1)
    BY <1>3, <2>1, HighestBounds DEF CareerInv
  <2> QED BY <1>2, <2>2
<1>5. /\ b.centuries + b.halfCenturies <= b.inningsBatted
      /\ 100 * b.centuries + 50 * b.halfCenturies <= b.runs
  <2>1. /\ a.centuries + a.halfCenturies <= a.inningsBatted
        /\ 100 * a.centuries + 50 * a.halfCenturies <= a.runs
    BY DEF CareerInv
  <2>2. CASE line.runs >= 100 BY <1>2, <1>3, <2>1, <2>2
  <2>3. CASE line.runs \in 50..99 BY <1>2, <1>3, <2>1, <2>3
  <2>4. CASE line.runs < 50 BY <1>2, <1>3, <2>1, <2>4
  <2> QED BY <1>3, <2>2, <2>3, <2>4
<1>6. b.highestScore <= b.runs /\ (b.centuries > 0 <=> b.highestScore >= 100)
      /\ b.notOuts <= b.inningsBatted
  BY <1>2, <1>3 DEF CareerInv
<1>7. /\ b.wickets > 0 => b.inningsBowled > 0
      /\ b.wickets > 0 <=> b.bestBowling # NoFigure
  BY <1>2 DEF CareerInv
<1>8. CareerInv(b) BY <1>4, <1>5, <1>6, <1>7 DEF CareerInv
<1> QED BY <1>1, <1>8 DEF b

\* What bowling in an innings adds to a career.
LEMMA BowledIs ==
    ASSUME NEW a \in Career, NEW line \in BowlLine
    PROVE  LET b == Bowled(a, line)
           IN  /\ b \in Career
               /\ \A field \in {"inningsBatted", "runs", "ballsFaced", "highestScore",
                                "centuries", "halfCenturies", "notOuts"} :
                     b[field] = a[field]
               /\ b.inningsBowled = a.inningsBowled + 1
               /\ b.ballsBowled = a.ballsBowled + line.balls
               /\ b.wickets = a.wickets + line.wickets
               /\ b.bestBowling = IF isBetterBowling(line, a.bestBowling)
                                  THEN [wickets |-> line.wickets, runs |-> line.runs]
                                  ELSE a.bestBowling
<1>1. {line.runs, line.balls, line.wickets} \subseteq Nat BY DEF BowlLine
<1>2. [wickets |-> line.wickets, runs |-> line.runs] \in FigureOf BY <1>1 DEF FigureOf
<1> DEFINE b == Bowled(a, line)
<1>3. /\ b.inningsBatted \in Nat /\ b.notOuts \in Nat /\ b.runs \in Nat
      /\ b.highestScore \in Nat /\ b.ballsFaced \in Nat /\ b.centuries \in Nat
      /\ b.halfCenturies \in Nat /\ b.matches \in Nat /\ b.catches \in Nat
      /\ b.stumpings \in Nat
  BY DEF Bowled, Career
<1>4. /\ b.inningsBowled \in Nat /\ b.ballsBowled \in Nat /\ b.runsConceded \in Nat
      /\ b.wickets \in Nat /\ b.bestBowling \in {NoFigure} \cup FigureOf
  BY <1>1, <1>2 DEF Bowled, Career
<1>5. DOMAIN a = CareerFields BY DEF Career, CareerFields
<1>6. b = [x \in CareerFields |-> b[x]] BY <1>5 DEF Bowled
<1> HIDE DEF b
<1>7. b \in Career BY <1>3, <1>4, <1>6, CareerHasFields DEF CareerFields
<1> QED BY <1>7 DEF Bowled, Career, b

\* A career still fits together after its owner has bowled.
LEMMA BowledKeeps ==
    ASSUME NEW a \in Career, CareerInv(a), NEW line \in BowlLine
    PROVE  Bowled(a, line) \in Career /\ CareerInv(Bowled(a, line))
<1> DEFINE b == Bowled(a, line)
           best == IF isBetterBowling(line, a.bestBowling)
                   THEN [wickets |-> line.wickets, runs |-> line.runs] ELSE a.bestBowling
<1>1. a.bestBowling \in {NoFigure} \cup FigureOf /\ a.wickets \in Nat /\ a.inningsBowled \in Nat
  BY DEF Career
<1>2. line.wickets \in Nat /\ line.runs \in Nat BY DEF BowlLine
<1>3. [wickets |-> line.wickets, runs |-> line.runs] \in FigureOf BY <1>2 DEF FigureOf
<1>4. NoFigure \notin FigureOf BY NoFigureAssumption DEF FigureOf
<1>5. best \in {NoFigure} \cup FigureOf BY <1>1, <1>3
<1>6. best # NoFigure <=> a.wickets + line.wickets > 0
  <2>1. CASE line.wickets > 0
    <3>1. a.bestBowling = NoFigure => isBetterBowling(line, a.bestBowling)
      BY <2>1 DEF isBetterBowling
    <3> QED BY <1>1, <1>2, <1>3, <1>4, <2>1, <3>1
  <2>2. CASE line.wickets = 0
    <3>1. ~isBetterBowling(line, a.bestBowling) BY <2>2 DEF isBetterBowling
    <3> QED BY <1>1, <2>2, <3>1 DEF CareerInv
  <2> QED BY <1>2, <2>1, <2>2
<1>7. /\ b \in Career /\ b.wickets = a.wickets + line.wickets /\ b.bestBowling = best
      /\ b.inningsBowled = a.inningsBowled + 1
      /\ b.inningsBatted = a.inningsBatted /\ b.runs = a.runs /\ b.notOuts = a.notOuts
      /\ b.highestScore = a.highestScore /\ b.centuries = a.centuries
      /\ b.halfCenturies = a.halfCenturies
  BY BowledIs
<1> HIDE DEF b, best
<1>8. /\ b.wickets > 0 => b.inningsBowled > 0
      /\ b.wickets > 0 <=> b.bestBowling # NoFigure
  BY <1>1, <1>6, <1>7
<1>9. CareerInv(b) BY <1>7, <1>8 DEF CareerInv
<1> QED BY <1>7, <1>9 DEF b

\* A better figure is better than all that were no better than the one it beats.
LEMMA BowledKeepsBest ==
    ASSUME NEW a \in Career, NEW returned, BestInv(a, returned), NEW line \in BowlLine
    PROVE  BestInv(Bowled(a, line),
                   IF line.wickets > 0
                   THEN returned \cup {Figure(line.wickets, line.runs)} ELSE returned)
<1> DEFINE now == Figure(line.wickets, line.runs)
<1>1. Bowled(a, line).bestBowling = IF isBetterBowling(line, a.bestBowling)
                                    THEN [wickets |-> line.wickets, runs |-> line.runs]
                                    ELSE a.bestBowling
  BY BowledIs
<1>2. line.wickets \in Nat /\ line.runs \in Nat BY DEF BowlLine
<1>3. a.bestBowling \in {NoFigure} \cup FigureOf BY DEF Career
<1>4. now.wickets = line.wickets /\ now.runs = line.runs BY DEF Figure
<1>5. CASE line.wickets = 0
  <2>1. ~isBetterBowling(line, a.bestBowling) BY <1>5 DEF isBetterBowling
  <2> QED BY <1>1, <1>5, <2>1 DEF BestInv
<1>6. CASE line.wickets > 0 /\ isBetterBowling(line, a.bestBowling)
  <2> DEFINE best == [wickets |-> line.wickets, runs |-> line.runs]
  <2>1. best # NoFigure BY <1>2, NoFigureAssumption
  <2>2. best.wickets = line.wickets /\ best.runs = line.runs OBVIOUS
  <2> HIDE DEF best
  <2>3. ASSUME NEW x \in returned
        PROVE  /\ x.wickets \in Nat /\ x.wickets > 0 /\ x.runs \in Nat
               /\ ~isBetterBowling(x, best)
    <3>1. /\ a.bestBowling # NoFigure /\ ~isBetterBowling(x, a.bestBowling)
          /\ x.wickets \in Nat /\ x.wickets > 0 /\ x.runs \in Nat
      BY <2>3 DEF BestInv
    <3>2. a.bestBowling.wickets \in Nat /\ a.bestBowling.runs \in Nat
      BY <1>3, <3>1 DEF FigureOf
    <3> QED BY <1>2, <1>6, <2>1, <2>2, <3>1, <3>2 DEF isBetterBowling
  <2>4. ~isBetterBowling(now, best)
    BY <1>2, <1>4, <2>1, <2>2 DEF isBetterBowling
  <2>5. Bowled(a, line).bestBowling = best BY <1>1, <1>6 DEF best
  <2> HIDE DEF now
  <2>6. Figure(best.wickets, best.runs) = now BY <2>2 DEF now
  <2> QED BY <1>2, <1>4, <1>6, <2>1, <2>3, <2>4, <2>5, <2>6 DEF BestInv, now
<1>7. CASE line.wickets > 0 /\ ~isBetterBowling(line, a.bestBowling)
  <2>1. a.bestBowling # NoFigure BY <1>7 DEF isBetterBowling
  <2>2. ~isBetterBowling(now, a.bestBowling)
    BY <1>4, <1>7 DEF isBetterBowling
  <2> HIDE DEF now
  <2> QED BY <1>1, <1>2, <1>4, <1>7, <2>1, <2>2 DEF BestInv, now
<1> QED BY <1>2, <1>5, <1>6, <1>7

\* A match played or a catch changes nothing else.
Counted == CareerFields \ {"matches", "catches", "stumpings"}
SameCounts(a, b) == b \in Career /\ \A x \in Counted : b[x] = a[x]

\* Who has counted the same fits together and has the same best figure.
LEMMA SameCountsKeep ==
    ASSUME NEW a, NEW b, SameCounts(a, b), CareerInv(a), NEW returned, BestInv(a, returned)
    PROVE  CareerInv(b) /\ BestInv(b, returned)
<1>1. /\ b.inningsBatted = a.inningsBatted /\ b.notOuts = a.notOuts /\ b.runs = a.runs
      /\ b.highestScore = a.highestScore /\ b.centuries = a.centuries
      /\ b.halfCenturies = a.halfCenturies /\ b.inningsBowled = a.inningsBowled
      /\ b.wickets = a.wickets /\ b.bestBowling = a.bestBowling
  BY DEF SameCounts, Counted, CareerFields
<1> QED BY <1>1 DEF CareerInv, BestInv

\* One match, catch or stumping more.
LEMMA OneFieldMore ==
    ASSUME NEW a \in Career, NEW x \in {"matches", "catches", "stumpings"}
    PROVE  SameCounts(a, [a EXCEPT ![x] = @ + 1])
<1> DEFINE b == [a EXCEPT ![x] = @ + 1]
<1>1. a = [y \in CareerFields |-> a[y]] /\ x \in CareerFields
  BY DEF Career, CareerFields
<1>2. \A y \in CareerFields \ {"bestBowling"} : a[y] \in Nat
  BY DEF Career, CareerFields
<1>3. a.bestBowling \in {NoFigure} \cup FigureOf BY DEF Career
<1>4. b = [y \in CareerFields |-> b[y]] BY <1>1
<1>5. \A y \in CareerFields : b[y] = IF y = x THEN a[y] + 1 ELSE a[y] BY <1>1
<1> HIDE DEF b
<1>6. \A y \in CareerFields \ {"bestBowling"} : b[y] \in Nat BY <1>1, <1>2, <1>5
<1>7. b.bestBowling = a.bestBowling BY <1>5 DEF CareerFields
<1>8. b \in Career BY <1>3, <1>4, <1>6, <1>7, CareerHasFields
<1>9. SameCounts(a, b) BY <1>5, <1>8 DEF SameCounts, Counted
<1> QED BY <1>9 DEF b

\* Fielding counts nothing of batting and bowling.
LEMMA FieldedIs ==
    ASSUME NEW a \in Career, NEW s, NEW p
    PROVE  SameCounts(a, Fielded(a, s, p))
<1>1. SameCounts(a, a) BY DEF SameCounts
<1>2. Fielded(a, s, p) \in {a, [a EXCEPT !.catches = @ + 1], [a EXCEPT !.stumpings = @ + 1]}
  BY DEF Fielded
<1> QED BY <1>1, <1>2, OneFieldMore

\* A career after an innings.
AfterBatting(lines, a, p) == IF p \in DOMAIN lines THEN Batted(a, lines[p]) ELSE a
AfterBowling(lines, a, p) ==
    IF p \in DOMAIN lines /\ DidBowl(lines[p]) THEN Bowled(a, lines[p]) ELSE a
AfterInnings(a, p) == AfterBowling(innings.bowling, AfterBatting(innings.batting, a, p), p)

Returned(p) ==
    IF p \in DOMAIN innings.bowling /\ innings.bowling[p].wickets > 0
    THEN {Figure(innings.bowling[p].wickets, innings.bowling[p].runs)} ELSE {}

\* The end of an innings adds its lines to the careers of its format only.
LEMMA EndInningsIs ==
    ASSUME ExtractionType, EndInnings, NEW f \in Format, NEW p \in Person
    PROVE  /\ agg'[f][p] = IF f = innings.format THEN AfterInnings(agg[f][p], p) ELSE agg[f][p]
           /\ figures'[f][p] = IF f = innings.format THEN figures[f][p] \cup Returned(p)
                               ELSE figures[f][p]
BY DEF EndInnings, ExtractionType, AfterInnings, AfterBowling, AfterBatting, Returned

CareersInv ==
    \A f \in Format, p \in Person :
        CareerInv(agg[f][p]) /\ BestInv(agg[f][p], figures[f][p])

ExtractionInv == ExtractionType /\ CareersInv

\* A career starts with nothing, which fits together.
LEMMA FirstCareer ==
    newBattingAgg \in Career /\ CareerInv(newBattingAgg) /\ BestInv(newBattingAgg, {})
BY DEF newBattingAgg, Career, CareerInv, BestInv

\* So do all of them.
LEMMA CareersBegin ==
    ASSUME agg = [f \in Format |-> [p \in Person |-> newBattingAgg]],
           figures = [f \in Format |-> [p \in Person |-> {}]], innings = NoInnings
    PROVE  ExtractionInv
BY FirstCareer DEF ExtractionInv, ExtractionType, CareersInv

\* Whatever else an innings changes, no career loses what it has added up.
LEMMA SameCountsEverywhere ==
    ASSUME ExtractionInv, figures' = figures,
           agg' = [f \in Format |-> [p \in Person |-> agg'[f][p]]],
           \A f \in Format, p \in Person : SameCounts(agg[f][p], agg'[f][p])
    PROVE  agg' \in [Format -> [Person -> Career]] /\ CareersInv'
<1>1. agg' \in [Format -> [Person -> Career]] BY DEF SameCounts
<1>2. CareersInv' BY SameCountsKeep DEF CareersInv, ExtractionInv
<1> QED BY <1>1, <1>2

\* The first ball of an innings finds no lines and the careers as they were.
LEMMA InningsBegun ==
    ASSUME ExtractionInv, NEW i \in DOMAIN FORMATS, NEW squad, BeginInnings(i, squad)
    PROVE  /\ ExtractionInv' /\ innings' = [format |-> FORMATS[i], squad |-> squad,
                                            batting |-> Empty, bowling |-> Empty]
           /\ \A f \in Format, p \in Person : SameCounts(agg[f][p], agg'[f][p])
<1> DEFINE called == [p \in Person |-> IF p \in squad THEN Capped(agg[FORMATS[i]][p])
                                     ELSE agg[FORMATS[i]][p]]
<1>1. FORMATS[i] \in Format BY DEF Format
<1>2. /\ innings' = [format |-> FORMATS[i], squad |-> squad,
                     batting |-> Empty, bowling |-> Empty]
      /\ figures' = figures
      /\ agg' = [agg EXCEPT ![FORMATS[i]] = called]
  BY DEF BeginInnings
<1>3. agg \in [Format -> [Person -> Career]] BY DEF ExtractionInv, ExtractionType
<1>4. called = [p \in Person |-> called[p]] OBVIOUS
<1>5. \A p \in Person :
         called[p] \in {agg[FORMATS[i]][p], Capped(agg[FORMATS[i]][p])}
  OBVIOUS
<1> HIDE DEF called
<1>6. agg' = [f \in Format |-> [p \in Person |-> agg'[f][p]]]
  BY <1>1, <1>2, <1>3, <1>4
<1>7. \A f \in Format : agg'[f] = IF f = FORMATS[i] THEN called ELSE agg[f]
  BY <1>1, <1>2, <1>3
<1>8. ASSUME NEW f \in Format, NEW p \in Person PROVE SameCounts(agg[f][p], agg'[f][p])
  <2>1. agg[f][p] \in Career BY <1>3
  <2>2. SameCounts(agg[f][p], agg[f][p]) BY <2>1 DEF SameCounts
  <2>3. SameCounts(agg[f][p], Capped(agg[f][p])) BY <2>1, OneFieldMore DEF Capped
  <2>4. CASE f = FORMATS[i] BY <1>5, <1>7, <2>2, <2>3, <2>4
  <2>5. CASE f # FORMATS[i] BY <1>7, <2>2, <2>5
  <2> QED BY <2>4, <2>5
<1>9. agg' \in [Format -> [Person -> Career]] /\ CareersInv'
  BY <1>2, <1>6, <1>8, SameCountsEverywhere
<1>10. InningsType(innings')
  <2>1. BatLines(Empty) /\ BowlLines(Empty) BY DEF Empty, BatLines, BowlLines
  <2> QED BY <1>1, <1>2, <2>1 DEF InningsType
<1> QED BY <1>2, <1>8, <1>9, <1>10 DEF ExtractionInv, ExtractionType

\* A spell changes the lines of the innings and no counter of a career.
LEMMA SpellDelivered ==
    ASSUME ExtractionInv, NEW s \in Spells, Deliver(s)
    PROVE  /\ ExtractionInv'
           /\ innings' = [format |-> innings.format, squad |-> innings.squad,
                          batting |-> BattingLine(innings.batting, s),
                          bowling |-> BowlingLine(innings.bowling, s)]
           /\ \A f \in Format, p \in Person : SameCounts(agg[f][p], agg'[f][p])
<1>1. /\ InningsType(innings) /\ figures' = figures
      /\ innings' = [innings EXCEPT !.batting = BattingLine(@, s), !.bowling = BowlingLine(@, s)]
      /\ agg' = [agg EXCEPT ![innings.format] = [p \in Person |-> Fielded(@[p], s, p)]]
  BY DEF Deliver, ExtractionInv, ExtractionType
<1>2. innings' = [format |-> innings.format, squad |-> innings.squad,
                  batting |-> BattingLine(innings.batting, s),
                  bowling |-> BowlingLine(innings.bowling, s)]
  BY <1>1 DEF InningsType
<1>3. agg \in [Format -> [Person -> Career]] /\ innings.format \in Format
  BY <1>1 DEF ExtractionInv, ExtractionType, InningsType
<1>4. agg' = [f \in Format |-> [p \in Person |-> agg'[f][p]]] BY <1>1, <1>3
<1>5. \A f \in Format, p \in Person : agg'[f][p] \in {agg[f][p], Fielded(agg[f][p], s, p)}
  BY <1>1, <1>3
<1>6. ASSUME NEW f \in Format, NEW p \in Person PROVE SameCounts(agg[f][p], agg'[f][p])
  <2>1. agg[f][p] \in Career BY <1>3
  <2>2. SameCounts(agg[f][p], agg[f][p]) BY <2>1 DEF SameCounts
  <2> QED BY <1>5, <2>1, <2>2, FieldedIs
<1>7. agg' \in [Format -> [Person -> Career]] /\ CareersInv'
  BY <1>1, <1>4, <1>6, SameCountsEverywhere
<1>8. InningsType(innings')
  <2>1. BatLines(BattingLine(innings.batting, s)) /\ BowlLines(BowlingLine(innings.bowling, s))
    BY <1>1, BattingLineIs, BowlingLineIs DEF InningsType
  <2>2. innings.format \in Format BY <1>1 DEF InningsType
  <2> QED BY <1>2, <2>1, <2>2 DEF InningsType
<1> QED BY <1>1, <1>2, <1>6, <1>7, <1>8 DEF ExtractionInv, ExtractionType

\* All careers still fit together after an innings.
LEMMA InningsEnded == ASSUME ExtractionInv, EndInnings PROVE ExtractionInv'
<1>1. InningsType(innings) /\ agg \in [Format -> [Person -> Career]] /\ innings' = NoInnings
  BY DEF EndInnings, ExtractionInv, ExtractionType
<1>2. ASSUME NEW f \in Format, NEW p \in Person
      PROVE  /\ agg'[f][p] \in Career /\ CareerInv(agg'[f][p])
             /\ BestInv(agg'[f][p], figures'[f][p])
  <2> DEFINE a == agg[f][p]
             b == AfterBatting(innings.batting, a, p)
  <2>1. a \in Career /\ CareerInv(a) /\ BestInv(a, figures[f][p])
    BY <1>1 DEF ExtractionInv, CareersInv
  <2>2. CASE f # innings.format
    BY <2>1, <2>2, EndInningsIs DEF ExtractionInv
  <2>3. CASE f = innings.format
    <3>1. agg'[f][p] = AfterBowling(innings.bowling, b, p)
          /\ figures'[f][p] = figures[f][p] \cup Returned(p)
      BY <2>3, EndInningsIs DEF ExtractionInv, AfterInnings
    <3>2. b \in Career /\ CareerInv(b) /\ b.bestBowling = a.bestBowling
      <4>1. CASE p \in DOMAIN innings.batting
        <5>1. innings.batting[p] \in BatLine BY <1>1, <4>1 DEF InningsType, BatLines
        <5>2. b = Batted(a, innings.batting[p]) BY <4>1 DEF AfterBatting
        <5> QED BY <2>1, <5>1, <5>2, BattedKeeps, BattedIs
      <4>2. CASE p \notin DOMAIN innings.batting BY <2>1, <4>2 DEF AfterBatting
      <4> QED BY <4>1, <4>2
    <3> HIDE DEF b
    <3>3. BestInv(b, figures[f][p]) BY <2>1, <3>2 DEF BestInv
    <3>4. CASE p \in DOMAIN innings.bowling /\ DidBowl(innings.bowling[p])
      <4> DEFINE line == innings.bowling[p]
      <4>1. line \in BowlLine BY <1>1, <3>4 DEF InningsType, BowlLines
      <4>2. agg'[f][p] = Bowled(b, line) BY <3>1, <3>4 DEF AfterBowling
      <4>3. figures'[f][p] =
               IF line.wickets > 0 THEN figures[f][p] \cup {Figure(line.wickets, line.runs)}
               ELSE figures[f][p]
        BY <3>1, <3>4 DEF Returned
      <4> HIDE DEF line
      <4>4. BestInv(Bowled(b, line), figures'[f][p])
        BY <3>2, <3>3, <4>1, <4>3, BowledKeepsBest
      <4> QED BY <3>2, <4>1, <4>2, <4>4, BowledKeeps
    <3>5. CASE ~(p \in DOMAIN innings.bowling /\ DidBowl(innings.bowling[p]))
      <4>1. agg'[f][p] = b BY <3>1, <3>5 DEF AfterBowling
      <4>2. Returned(p) = {} BY <3>5 DEF Returned, DidBowl
      <4> QED BY <3>1, <3>2, <3>3, <4>1, <4>2
    <3> QED BY <3>4, <3>5
  <2> QED BY <2>2, <2>3
<1>3. agg' = [f \in Format |-> [p \in Person |-> agg'[f][p]]]
  <2>1. DOMAIN agg' = Format /\ agg' = [f \in Format |-> agg'[f]]
    BY <1>1 DEF EndInnings
  <2>2. \A f \in Format : agg'[f] = [p \in Person |-> agg'[f][p]]
    BY <1>1 DEF EndInnings
  <2> QED BY <2>1, <2>2
<1>4. agg' \in [Format -> [Person -> Career]] BY <1>2, <1>3
<1>5. DOMAIN figures' = Format /\ \A f \in Format : DOMAIN figures'[f] = Person
  BY DEF EndInnings, ExtractionInv, ExtractionType
<1> QED BY <1>1, <1>2, <1>4, <1>5 DEF ExtractionInv, ExtractionType, CareersInv

\* The scripts after the extraction leave the careers alone.
LEMMA OthersKeepCareers ==
    ASSUME Next, ~ExtractionNext, ~WriteFile PROVE UNCHANGED extraction
BY DEF Next, BeginFetch, EndFetch, StopFetch, Take, FindMatch, BeginSeed, CreateCardSet,
       CreatePlayers, CreateStatistics, CreateCards, StopSeed, SeedGoes

\* No step of a script breaks a career.
LEMMA NextKeepsCareers == ExtractionInv /\ [Next]_vars => ExtractionInv'
<1> SUFFICES ASSUME ExtractionInv, [Next]_vars PROVE ExtractionInv' OBVIOUS
<1>1. CASE UNCHANGED extraction
  BY <1>1 DEF extraction, ExtractionInv, ExtractionType, CareersInv, InningsType
<1>2. CASE ExtractionNext
  BY <1>2, InningsBegun, SpellDelivered, InningsEnded DEF ExtractionNext
<1>3. CASE WriteFile
  <2>1. /\ agg' = [f \in Format |-> [p \in Person |-> newBattingAgg]]
        /\ figures' = [f \in Format |-> [p \in Person |-> {}]] /\ innings' = NoInnings
    BY <1>3 DEF WriteFile
  <2> QED BY <2>1, FirstCareer DEF ExtractionInv, ExtractionType, CareersInv
<1> QED BY <1>1, <1>2, <1>3, OthersKeepCareers DEF vars, extraction

\* All careers fit together at any time.
LEMMA CareersHold == Spec => []ExtractionInv
<1>1. Init => ExtractionInv BY CareersBegin DEF Init, ExtractionInit
<1> QED BY <1>1, NextKeepsCareers, PTL DEF Spec

\* Overs in cricket's notation are no decimal number and yet in the order of the balls.
LEMMA OversFollowBalls ==
    ASSUME NEW b \in Nat, NEW c \in Nat
    PROVE  ballsToOversNotation(b) < ballsToOversNotation(c) <=> b < c
BY DEF ballsToOversNotation

\* The balls are read off them again.
LEMMA OversTellBalls ==
    ASSUME NEW b \in Nat PROVE BallsIn(ballsToOversNotation(b)) = b
BY DEF BallsIn, ballsToOversNotation

\* Every card has something to call, for any careers the archives may add up to; overs
\* tell the balls bowled and compare as these do, and what depends on the same count is on the card or
\* missing together.
THEOREM CardsAreComparableHolds == Spec => []CardsAreComparable
<1>1. ASSUME ExtractionInv PROVE CardsAreComparable
  <2> SUFFICES ASSUME NEW f \in Format, NEW p \in Person, NEW q \in Person
               PROVE  LET a == agg[f][p]
                          card == buildCardStats(a)
                          other == buildCardStats(agg[f][q])
                          Calls(s) == isSelectableStatistic(s, StatFields, card)
                      IN  /\ \E s \in StatFields : Calls(s)
                          /\ Calls("overs") <=> Calls("economyRate")
                          /\ Calls("bestBowling") <=> Calls("bowlingAverage")
                          /\ Calls("bestBowling") => Calls("wickets") /\ Calls("runsConceded")
                          /\ Calls("overs") => BallsIn(card.overs.value) = a.ballsBowled
                          /\ (Calls("overs") /\ isSelectableStatistic("overs", StatFields, other)) =>
                                (comparisonValue("overs", card.overs)
                                   < comparisonValue("overs", other.overs)
                                   <=> a.ballsBowled < agg[f][q].ballsBowled)
    BY DEF CardsAreComparable
  <2> DEFINE a == agg[f][p]
             b == agg[f][q]
             card == buildCardStats(a)
             other == buildCardStats(b)
             Calls(s) == isSelectableStatistic(s, StatFields, card)
  <2>1. a \in Career /\ b \in Career /\ CareerInv(a)
    BY <1>1 DEF ExtractionInv, ExtractionType, CareersInv
  <2>2. /\ a.ballsBowled \in Nat /\ b.ballsBowled \in Nat /\ a.wickets \in Nat
        /\ a.inningsBowled \in Nat
    BY <2>1 DEF Career
  <2>3. /\ a.wickets > 0 => a.inningsBowled > 0
        /\ a.wickets > 0 <=> a.bestBowling # NoFigure
    BY <2>1 DEF CareerInv
  <2>4. /\ card.matchesPlayed = Number(a.matches)
        /\ card.overs = IF a.ballsBowled > 0 THEN Number(ballsToOversNotation(a.ballsBowled))
                        ELSE Null
        /\ card.economyRate = Rate(a.runsConceded * 6, a.ballsBowled, 100)
        /\ card.runsConceded = IF a.inningsBowled > 0 THEN Number(a.runsConceded) ELSE Null
        /\ card.wickets = IF a.inningsBowled > 0 THEN Number(a.wickets) ELSE Null
        /\ card.bestBowling = IF a.bestBowling = NoFigure THEN Null
                              ELSE Figure(a.bestBowling.wickets, a.bestBowling.runs)
        /\ card.bowlingAverage = Rate(a.runsConceded, a.wickets, 10)
        /\ other.overs = IF b.ballsBowled > 0 THEN Number(ballsToOversNotation(b.ballsBowled))
                         ELSE Null
    BY DEF buildCardStats
  <2> HIDE DEF a, b, card, other
  <2>5. \A n : Number(n).type = "number" /\ Number(n).value = n BY DEF Number
  <2>6. Null.type = "null" /\ \A w, r : Figure(w, r).type = "figure" BY DEF Null, Figure
  <2>7. /\ Calls("matchesPlayed") <=> card.matchesPlayed.type = "number"
        /\ Calls("overs") <=> card.overs.type = "number"
        /\ Calls("economyRate") <=> card.economyRate.type = "number"
        /\ Calls("runsConceded") <=> card.runsConceded.type = "number"
        /\ Calls("wickets") <=> card.wickets.type = "number"
        /\ Calls("bowlingAverage") <=> card.bowlingAverage.type = "number"
        /\ Calls("bestBowling") <=> card.bestBowling.type = "figure"
        /\ isSelectableStatistic("overs", StatFields, other) <=> other.overs.type = "number"
    BY DEF isSelectableStatistic, NON_SELECTABLE_FIELDS, StatFields, ParsesAsBowlingFigure
  <2> HIDE DEF Calls
  <2>8. card.economyRate.type = "number" <=> a.ballsBowled > 0
    BY <2>4, <2>5, <2>6 DEF Rate
  <2>9. card.overs.type = "number" <=> a.ballsBowled > 0
    BY <2>4, <2>5, <2>6
  <2>10. card.bowlingAverage.type = "number" <=> a.wickets > 0
    BY <2>4, <2>5, <2>6 DEF Rate
  <2>11. card.bestBowling.type = "figure" <=> a.wickets > 0
    BY <2>3, <2>4, <2>5, <2>6
  <2>12. a.wickets > 0 => card.wickets.type = "number" /\ card.runsConceded.type = "number"
    BY <2>3, <2>4, <2>5, <2>6
  <2>13. Calls("matchesPlayed") /\ "matchesPlayed" \in StatFields
    BY <2>4, <2>5, <2>7 DEF StatFields
  <2>14. ASSUME card.overs.type = "number", other.overs.type = "number"
         PROVE  comparisonValue("overs", card.overs) < comparisonValue("overs", other.overs)
                   <=> a.ballsBowled < b.ballsBowled
    <3>1. /\ card.overs = Number(ballsToOversNotation(a.ballsBowled))
          /\ other.overs = Number(ballsToOversNotation(b.ballsBowled))
      BY <2>4, <2>6, <2>14
    <3>2. \A n : comparisonValue("overs", Number(n)) = n
      BY <2>5 DEF comparisonValue
    <3> QED BY <2>2, <3>1, <3>2, OversFollowBalls
  <2>15. card.overs.type = "number" => BallsIn(card.overs.value) = a.ballsBowled
    <3>1. card.overs.type = "number" => card.overs = Number(ballsToOversNotation(a.ballsBowled))
      BY <2>4, <2>6
    <3> QED BY <2>2, <2>5, <3>1, OversTellBalls
  <2> QED BY <2>7, <2>8, <2>9, <2>10, <2>11, <2>12, <2>13, <2>14, <2>15
          DEF Calls, a, b, card, other
<1> QED BY <1>1, CareersHold, PTL

\* Nobody who took a wicket conceded a thousand runs in an innings.
FewRunsConceded ==
    \A f \in Format, p \in Person : \A x \in figures[f][p] : x.runs < 1000

\* The figure isBetterBowling leaves on a card is one the bowler returned and is beaten by
\* none of them in the game, whatever innings he bowled in, as long as nobody concedes a
\* thousand runs in one.
THEOREM BestFigureWinsHolds == Spec /\ []FewRunsConceded => []BestFigureWins
<1>1. ASSUME ExtractionInv, FewRunsConceded PROVE BestFigureWins
  <2> SUFFICES ASSUME NEW f \in Format, NEW p \in Person
               PROVE  LET best == buildCardStats(agg[f][p]).bestBowling
                      IN  IF figures[f][p] = {} THEN best = Null
                          ELSE /\ best \in figures[f][p]
                               /\ \A other \in figures[f][p] :
                                     bowlingFigureScore(best) >= bowlingFigureScore(other)
    BY DEF BestFigureWins
  <2> DEFINE a == agg[f][p]
             best == buildCardStats(a).bestBowling
  <2>1. a \in Career /\ BestInv(a, figures[f][p])
    BY <1>1 DEF ExtractionInv, ExtractionType, CareersInv
  <2>2. best = IF a.bestBowling = NoFigure THEN Null
               ELSE Figure(a.bestBowling.wickets, a.bestBowling.runs)
    BY DEF buildCardStats
  <2> HIDE DEF a, best
  <2>3. CASE a.bestBowling = NoFigure
    BY <2>1, <2>2, <2>3 DEF BestInv, a, best
  <2>4. CASE a.bestBowling # NoFigure
    <3>1. a.bestBowling.wickets \in Nat /\ a.bestBowling.runs \in Nat
      BY <2>1, <2>4 DEF Career, FigureOf
    <3>2. best.wickets = a.bestBowling.wickets /\ best.runs = a.bestBowling.runs
      BY <2>2, <2>4 DEF Figure
    <3>3. best \in figures[f][p] BY <2>1, <2>2, <2>4 DEF BestInv
    <3>4. ASSUME NEW other \in figures[f][p]
          PROVE  bowlingFigureScore(best) >= bowlingFigureScore(other)
      <4>1. /\ other.wickets \in Nat /\ other.wickets > 0 /\ other.runs \in Nat
            /\ ~isBetterBowling(other, a.bestBowling)
        BY <2>1, <2>4 DEF BestInv
      <4>2. other.runs \in FewRuns /\ best.runs \in FewRuns
        BY <1>1, <3>1, <3>2, <3>3, <4>1 DEF FewRunsConceded, FewRuns
      <4>3. best.wickets > other.wickets
              \/ (best.wickets = other.wickets /\ best.runs <= other.runs)
        BY <2>4, <3>1, <3>2, <4>1 DEF isBetterBowling
      <4> QED BY <3>1, <3>2, <4>1, <4>2, <4>3, ScoreOrders DEF bowlingFigureScore
    <3> QED BY <3>3, <3>4 DEF a, best
  <2> QED BY <2>3, <2>4
<1> QED BY <1>1, CareersHold, PTL

-----------------------------------------------------------------------------
(***************************************************************************)
(* Sums over all people.  The sum of g is what a running sum over the      *)
(* subsets, taken in the order of CHOOSE, comes to.                        *)
(***************************************************************************)
Less == {pair \in Nat \X Nat : pair[1] < pair[2]}

\* Naturals do not fall for ever.
LEMMA LessWellFounded == IsWellFoundedOn(Less, Nat)
<1> DEFINE R == OpToRel(<, Nat)
<1>1. IsWellFoundedOn(R, Nat) BY NatLessThanWellFounded
<1>2. R = Less BY DEF OpToRel, Less
<1> QED BY <1>1, <1>2

\* Every set of naturals that has a member has a least one.
LEMMA LeastNatural ==
    ASSUME NEW S \in SUBSET Nat, S # {}
    PROVE  \E x \in S : \A y \in S : x <= y
<1>1. PICK x \in S : \A y \in S : ~(<<y, x>> \in Less)
  <2> HIDE DEF Less
  <2> QED BY WFMin, LessWellFounded
<1>2. ASSUME NEW y \in S PROVE x <= y
  <2>1. ~(<<y, x>> \in Less) BY <1>1
  <2>2. y \in Nat /\ x \in Nat OBVIOUS
  <2>3. <<y, x>>[1] = y /\ <<y, x>>[2] = x /\ <<y, x>> \in Nat \X Nat BY <2>2
  <2> QED BY <2>1, <2>2, <2>3 DEF Less
<1> QED BY <1>2

PickOf(s) == CHOOSE x \in s : TRUE
Rest(s) == s \ {PickOf(s)}

IsSum(g, h) ==
    /\ h \in [SUBSET Person -> Int]
    /\ \A s \in SUBSET Person : h[s] = IF s = {} THEN 0 ELSE g[PickOf(s)] + h[Rest(s)]

\* Without the one picked there is one less.
LEMMA RestIsSmaller ==
    ASSUME NEW s \in SUBSET Person, s # {}
    PROVE  /\ PickOf(s) \in s /\ PickOf(s) \in Person /\ Rest(s) \in SUBSET Person
           /\ Cardinality(s) \in Nat /\ Cardinality(s) > 0
           /\ Cardinality(Rest(s)) = Cardinality(s) - 1
<1>1. PickOf(s) \in s BY DEF PickOf
<1>2. IsFiniteSet(s) BY SquadsAssumption, FS_Subset
<1>3. Cardinality(Rest(s)) = Cardinality(s) - 1
  BY <1>1, <1>2, FS_RemoveElement DEF Rest
<1>4. Cardinality(s) \in Nat /\ Cardinality(s) # 0
  BY <1>2, FS_CardinalityType, FS_EmptySet
<1> QED BY <1>1, <1>3, <1>4 DEF Rest

\* Nothing is wrong with any set of people that is not wrong with the empty one or goes
\* wrong with one of them.
LEMMA SubsetInduction ==
    ASSUME NEW Bad \in SUBSET SUBSET Person,
           \A s \in Bad : s # {} /\ Rest(s) \in Bad
    PROVE  Bad = {}
<1> SUFFICES ASSUME Bad # {} PROVE FALSE OBVIOUS
<1> DEFINE Sizes == {n \in Nat : \E s \in Bad : Cardinality(s) = n}
<1>1. PICK s0 \in Bad : TRUE OBVIOUS
<1>2. Cardinality(s0) \in Sizes BY <1>1, RestIsSmaller
<1>3. PICK n \in Sizes : \A m \in Sizes : n <= m
  <2>1. Sizes \in SUBSET Nat /\ Sizes # {} BY <1>2
  <2> HIDE DEF Sizes
  <2> QED BY <2>1, LeastNatural
<1>4. PICK s \in Bad : Cardinality(s) = n BY <1>3
<1>5. s # {} /\ Rest(s) \in Bad OBVIOUS
<1>6. Cardinality(Rest(s)) = n - 1 /\ n \in Nat /\ n > 0 BY <1>4, <1>5, RestIsSmaller
<1>7. n - 1 \in Sizes BY <1>5, <1>6
<1> QED BY <1>3, <1>6, <1>7

\* Every function can be summed up: from the running sum over the sets of at most n people
\* comes the one over the sets of n + 1.
LEMMA SumExists == ASSUME NEW g \in [Person -> Int] PROVE \E h : IsSum(g, h)
<1> DEFINE Upto(n) == {s \in SUBSET Person : Cardinality(s) <= n}
           Sums(n, h) == /\ h \in [Upto(n) -> Int]
                         /\ \A s \in Upto(n) :
                               h[s] = IF s = {} THEN 0 ELSE g[PickOf(s)] + h[Rest(s)]
           Bad == {n \in Nat : ~\E h : Sums(n, h)}
<1>1. \E h : Sums(0, h)
  <2>1. \A s \in Upto(0) : s = {} BY RestIsSmaller
  <2>2. Sums(0, [s \in Upto(0) |-> 0]) BY <2>1
  <2> QED BY <2>2
<1>2. ASSUME NEW n \in Nat, NEW h, Sums(n, h) PROVE \E k : Sums(n + 1, k)
  <2> DEFINE k == [s \in Upto(n + 1) |-> IF s = {} THEN 0 ELSE g[PickOf(s)] + h[Rest(s)]]
  <2>1. \A s \in Upto(n + 1) : s # {} => Rest(s) \in Upto(n) /\ PickOf(s) \in Person
    BY RestIsSmaller
  <2>2. k \in [Upto(n + 1) -> Int] BY <1>2, <2>1
  <2>3. \A s \in Upto(n) : s \in Upto(n + 1) /\ k[s] = h[s]
    <3>1. \A s \in Upto(n) : s \in Upto(n + 1)
      BY RestIsSmaller, FS_EmptySet
    <3> QED BY <1>2, <3>1
  <2>4. \A s \in Upto(n + 1) : k[s] = IF s = {} THEN 0 ELSE g[PickOf(s)] + k[Rest(s)]
    BY <2>1, <2>3
  <2> QED BY <2>2, <2>4
<1>3. Bad = {}
  <2> SUFFICES ASSUME Bad # {} PROVE FALSE OBVIOUS
  <2>1. PICK n \in Bad : \A m \in Bad : n <= m
    <3>1. Bad \in SUBSET Nat OBVIOUS
    <3> HIDE DEF Bad
    <3> QED BY <3>1, LeastNatural
  <2> HIDE DEF Sums
  <2>2. n # 0 /\ n \in Nat BY <1>1
  <2>3. n - 1 \in Nat /\ n - 1 \notin Bad /\ n = (n - 1) + 1
    <3>1. n - 1 \in Nat /\ n - 1 < n BY <2>2
    <3> HIDE DEF Bad
    <3> QED BY <2>1, <2>2, <3>1
  <2>4. \E h : Sums(n - 1, h) BY <2>3
  <2> QED BY <1>2, <2>3, <2>4
<1>4. Cardinality(Person) \in Nat BY SquadsAssumption, FS_CardinalityType
<1>5. Upto(Cardinality(Person)) = SUBSET Person
  <2>1. \A s \in SUBSET Person : Cardinality(s) <= Cardinality(Person)
    BY SquadsAssumption, FS_Subset
  <2> QED BY <2>1
<1>6. PICK h : Sums(Cardinality(Person), h) BY <1>3, <1>4
<1>7. IsSum(g, h) BY <1>5, <1>6 DEF IsSum
<1> QED BY <1>7

\* There is one sum.
LEMMA SumIsUnique ==
    ASSUME NEW g \in [Person -> Int], NEW h, IsSum(g, h), NEW k, IsSum(g, k)
    PROVE  h = k
<1> DEFINE Bad == {s \in SUBSET Person : h[s] # k[s]}
<1>1. \A s \in Bad : s # {} /\ Rest(s) \in Bad
  <2> SUFFICES ASSUME NEW s \in Bad PROVE s # {} /\ Rest(s) \in Bad OBVIOUS
  <2>1. s # {} BY DEF IsSum
  <2>2. Rest(s) \in SUBSET Person BY <2>1, RestIsSmaller
  <2> QED BY <2>1, <2>2 DEF IsSum
<1>2. Bad = {} BY <1>1, SubsetInduction
<1> QED BY <1>2 DEF IsSum

SumUp(g) == (CHOOSE h : IsSum(g, h))[Person]

\* Any running sum that fits ends with it.
LEMMA TotalIs ==
    ASSUME NEW g \in [Person -> Int], NEW h, IsSum(g, h)
    PROVE  SumUp(g) = h[Person] /\ SumUp(g) \in Int
<1>1. IsSum(g, CHOOSE k : IsSum(g, k)) OBVIOUS
<1>2. h = CHOOSE k : IsSum(g, k) BY <1>1, SumIsUnique
<1> QED BY <1>2 DEF SumUp, IsSum

\* Sums add up.
LEMMA TotalAdds ==
    ASSUME NEW f \in [Person -> Int], NEW g \in [Person -> Int], NEW k \in [Person -> Int],
           \A p \in Person : k[p] = f[p] + g[p]
    PROVE  SumUp(k) = SumUp(f) + SumUp(g)
<1>1. PICK x : IsSum(f, x) BY SumExists
<1>2. PICK y : IsSum(g, y) BY SumExists
<1> DEFINE z == [s \in SUBSET Person |-> x[s] + y[s]]
<1>3. z \in [SUBSET Person -> Int] BY <1>1, <1>2 DEF IsSum
<1>4. ASSUME NEW s \in SUBSET Person
      PROVE  z[s] = IF s = {} THEN 0 ELSE k[PickOf(s)] + z[Rest(s)]
  <2>1. CASE s = {}
    <3>1. x[s] = 0 /\ y[s] = 0 BY <1>1, <1>2, <2>1 DEF IsSum
    <3> QED BY <2>1, <3>1
  <2>2. CASE s # {}
    <3>1. PickOf(s) \in Person /\ Rest(s) \in SUBSET Person BY <2>2, RestIsSmaller
    <3>2. /\ x[s] = f[PickOf(s)] + x[Rest(s)] /\ y[s] = g[PickOf(s)] + y[Rest(s)]
          /\ x[Rest(s)] \in Int /\ y[Rest(s)] \in Int
      BY <1>1, <1>2, <2>2, <3>1 DEF IsSum
    <3> QED BY <2>2, <3>1, <3>2
  <2> QED BY <2>1, <2>2
<1>5. IsSum(k, z) BY <1>3, <1>4 DEF IsSum
<1> QED BY <1>1, <1>2, <1>5, TotalIs

\* A single one makes all of the sum.
LEMMA TotalOfOne ==
    ASSUME NEW p \in Person, NEW n \in Int
    PROVE  SumUp([q \in Person |-> IF q = p THEN n ELSE 0]) = n
<1> DEFINE g == [q \in Person |-> IF q = p THEN n ELSE 0]
           h == [s \in SUBSET Person |-> IF p \in s THEN n ELSE 0]
<1>1. h \in [SUBSET Person -> Int] /\ g \in [Person -> Int] OBVIOUS
<1>2. ASSUME NEW s \in SUBSET Person
      PROVE  h[s] = IF s = {} THEN 0 ELSE g[PickOf(s)] + h[Rest(s)]
  <2>1. CASE s # {}
    <3>1. PickOf(s) \in s /\ PickOf(s) \in Person /\ Rest(s) \in SUBSET Person
      BY <2>1, RestIsSmaller
    <3>2. p \in Rest(s) <=> p \in s /\ p # PickOf(s) BY DEF Rest
    <3> QED BY <2>1, <3>1, <3>2
  <2> QED BY <2>1
<1>3. IsSum(g, h) BY <1>1, <1>2 DEF IsSum
<1> HIDE DEF g, h
<1>4. SumUp(g) = h[Person] BY <1>1, <1>3, TotalIs
<1> QED BY <1>4 DEF g, h

\* Nothing adds up to nothing.
LEMMA TotalOfNone == SumUp([q \in Person |-> 0]) = 0
<1> DEFINE g == [q \in Person |-> 0]
<1>1. g \in [Person -> Int] OBVIOUS
<1> HIDE DEF g
<1>2. \A p \in Person : g[p] = g[p] + g[p] BY DEF g
<1>3. SumUp(g) = SumUp(g) + SumUp(g) BY <1>1, <1>2, TotalAdds
<1>4. SumUp(g) \in Int BY <1>1, SumExists, TotalIs
<1>5. SumUp(g) = 0 BY <1>3, <1>4
<1> QED BY <1>5 DEF g

\* What one of them gets more, all of them get.
LEMMA TotalGrows ==
    ASSUME NEW f \in [Person -> Int], NEW k \in [Person -> Int], NEW q \in Person, NEW n \in Int,
           \A p \in Person : k[p] = f[p] + (IF p = q THEN n ELSE 0)
    PROVE  SumUp(k) = SumUp(f) + n
<1> DEFINE g == [p \in Person |-> IF p = q THEN n ELSE 0]
<1>1. g \in [Person -> Int] OBVIOUS
<1>2. \A p \in Person : k[p] = f[p] + g[p] OBVIOUS
<1>3. SumUp(g) = n BY TotalOfOne
<1> HIDE DEF g
<1> QED BY <1>1, <1>2, <1>3, TotalAdds

\* A sum is a number.
LEMMA SumIsNumber == ASSUME NEW g \in [Person -> Int] PROVE SumUp(g) \in Int
BY SumExists, TotalIs

-----------------------------------------------------------------------------
(***************************************************************************)
(* Balls and wickets balance.  In the running innings the lines of the     *)
(* batters and those of the bowlers add up to the same, and so do the      *)
(* careers the lines are added to.                                         *)
(***************************************************************************)
BallsFaced(careers) == [p \in Person |-> careers[p].ballsFaced]
BallsBowled(careers) == [p \in Person |-> careers[p].ballsBowled]
WicketsTaken(careers) == [p \in Person |-> careers[p].wickets]
TimesOut(careers) == [p \in Person |-> Dismissals(careers[p])]

LinesFaced(lines) == [p \in Person |-> BatLineOf(lines, p).balls]
LinesBowled(lines) == [p \in Person |-> BowlLineOf(lines, p).balls]
LinesTaken(lines) == [p \in Person |-> BowlLineOf(lines, p).wickets]
LinesOut(lines) == [p \in Person |-> IF BatLineOf(lines, p).dismissed THEN 1 ELSE 0]

CareersTogether(careers) ==
    /\ SumUp(BallsFaced(careers)) = SumUp(BallsBowled(careers))
    /\ SumUp(WicketsTaken(careers)) <= SumUp(TimesOut(careers))

LinesTogether(batting, bowling) ==
    /\ SumUp(LinesFaced(batting)) = SumUp(LinesBowled(bowling))
    /\ SumUp(LinesTaken(bowling)) <= SumUp(LinesOut(batting))

BallsInv ==
    /\ \A f \in Format : CareersTogether(agg[f])
    /\ innings # NoInnings => LinesTogether(innings.batting, innings.bowling)

\* What careers have counted can be summed up.
LEMMA CountsAreNumbers ==
    ASSUME NEW careers \in [Person -> Career]
    PROVE  {BallsFaced(careers), BallsBowled(careers), WicketsTaken(careers),
            TimesOut(careers)} \subseteq [Person -> Int]
<1>1. ASSUME NEW p \in Person
      PROVE  /\ careers[p].ballsFaced \in Int /\ careers[p].ballsBowled \in Int
             /\ careers[p].wickets \in Int /\ Dismissals(careers[p]) \in Int
  <2>1. careers[p] \in Career OBVIOUS
  <2> QED BY <2>1 DEF Career, Dismissals
<1> QED BY <1>1 DEF BallsFaced, BallsBowled, WicketsTaken, TimesOut

\* So can the lines of an innings.
LEMMA LinesAreNumbers ==
    ASSUME NEW batting, NEW bowling, BatLines(batting), BowlLines(bowling)
    PROVE  {LinesFaced(batting), LinesOut(batting), LinesBowled(bowling), LinesTaken(bowling)}
              \subseteq [Person -> Int]
<1>1. \A p : BatLineOf(batting, p) \in BatLine /\ BowlLineOf(bowling, p) \in BowlLine
  BY DEF BatLines, BowlLines, BatLineOf, BowlLineOf, BatLine, BowlLine, NoBatLine, NoBowlLine
<1>2. \A p : /\ BatLineOf(batting, p).balls \in Int /\ BowlLineOf(bowling, p).balls \in Int
             /\ BowlLineOf(bowling, p).wickets \in Int
  BY <1>1 DEF BatLine, BowlLine
<1> QED BY <1>2 DEF LinesFaced, LinesOut, LinesBowled, LinesTaken

\* Careers that have counted the same are as much together.
LEMMA SameCountsSameSums ==
    ASSUME NEW old, NEW new, \A p \in Person : SameCounts(old[p], new[p]), CareersTogether(old)
    PROVE  CareersTogether(new)
<1>1. \A p \in Person :
         /\ new[p].ballsFaced = old[p].ballsFaced /\ new[p].ballsBowled = old[p].ballsBowled
         /\ new[p].wickets = old[p].wickets /\ new[p].inningsBatted = old[p].inningsBatted
         /\ new[p].notOuts = old[p].notOuts
  BY DEF SameCounts, Counted, CareerFields
<1>2. /\ BallsFaced(new) = BallsFaced(old) /\ BallsBowled(new) = BallsBowled(old)
      /\ WicketsTaken(new) = WicketsTaken(old) /\ TimesOut(new) = TimesOut(old)
  BY <1>1 DEF BallsFaced, BallsBowled, WicketsTaken, TimesOut, Dismissals
<1> QED BY <1>2 DEF CareersTogether

\* Careers that have counted nothing are together.
LEMMA NewCareersTogether == CareersTogether([p \in Person |-> newBattingAgg])
<1> DEFINE new == [p \in Person |-> newBattingAgg]
<1>1. /\ BallsFaced(new) = [p \in Person |-> 0] /\ BallsBowled(new) = [p \in Person |-> 0]
      /\ WicketsTaken(new) = [p \in Person |-> 0] /\ TimesOut(new) = [p \in Person |-> 0]
  BY DEF BallsFaced, BallsBowled, WicketsTaken, TimesOut, Dismissals, newBattingAgg
<1> HIDE DEF new
<1>2. CareersTogether(new) BY <1>1, TotalOfNone DEF CareersTogether
<1> QED BY <1>2 DEF new

\* So are the lines before the first ball.
LEMMA EmptyLinesTogether == LinesTogether(Empty, Empty)
<1>1. /\ LinesFaced(Empty) = [p \in Person |-> 0] /\ LinesBowled(Empty) = [p \in Person |-> 0]
      /\ LinesTaken(Empty) = [p \in Person |-> 0] /\ LinesOut(Empty) = [p \in Person |-> 0]
  BY DEF LinesFaced, LinesBowled, LinesTaken, LinesOut, BatLineOf, BowlLineOf, Empty,
         NoBatLine, NoBowlLine
<1> QED BY <1>1, TotalOfNone DEF LinesTogether

\* A spell's balls are faced by one and bowled by one; who it gets out was still in.
LEMMA SpellKeepsLines ==
    ASSUME NEW batting, NEW bowling, BatLines(batting), BowlLines(bowling),
           LinesTogether(batting, bowling), NEW s \in Spells,
           GetsOut(s, s.wicket.out) => ~BatLineOf(batting, s.wicket.out).dismissed
    PROVE  LinesTogether(BattingLine(batting, s), BowlingLine(bowling, s))
<1> DEFINE bat == BattingLine(batting, s)
           bowl == BowlingLine(bowling, s)
<1>1. /\ {s.batter, s.bowler} \subseteq Person /\ s.legal \in Int
      /\ s.wicket # NoWicket => s.wicket.out \in Person
  BY SpellsAssumption
<1>2. /\ BatLines(bat) /\ \A p : BatsOn(BatLineOf(bat, p), BatLineOf(batting, p), s, p)
      /\ BowlLines(bowl)
      /\ \A p : /\ BowlLineOf(bowl, p).balls = BowlLineOf(bowling, p).balls
                                                 + (IF p = s.bowler THEN s.legal ELSE 0)
                /\ BowlLineOf(bowl, p).wickets = BowlLineOf(bowling, p).wickets
                                                   + (IF TakesWicket(s, p) THEN 1 ELSE 0)
  <2>1. BowlLines(bowl) /\ \A p : BowlLineOf(bowl, p) =
           [runs |-> BowlLineOf(bowling, p).runs
                       + (IF p = s.bowler THEN s.total - s.byes ELSE 0),
            balls |-> BowlLineOf(bowling, p).balls + (IF p = s.bowler THEN s.legal ELSE 0),
            wickets |-> BowlLineOf(bowling, p).wickets + (IF TakesWicket(s, p) THEN 1 ELSE 0)]
    BY BowlingLineIs
  <2>2. BatLines(bat) /\ \A p : BatsOn(BatLineOf(bat, p), BatLineOf(batting, p), s, p)
    BY BattingLineIs
  <2> HIDE DEF bat, bowl
  <2> QED BY <2>1, <2>2
<1> HIDE DEF bat, bowl
<1>3. {LinesFaced(batting), LinesOut(batting), LinesBowled(bowling), LinesTaken(bowling),
       LinesFaced(bat), LinesOut(bat), LinesBowled(bowl), LinesTaken(bowl)}
         \subseteq [Person -> Int]
  BY <1>2, LinesAreNumbers
<1>4. SumUp(LinesFaced(bat)) = SumUp(LinesFaced(batting)) + s.legal
  <2>1. \A p \in Person : LinesFaced(bat)[p]
                            = LinesFaced(batting)[p] + (IF p = s.batter THEN s.legal ELSE 0)
    BY <1>2 DEF LinesFaced, BatsOn
  <2> QED BY <1>1, <1>3, <2>1, TotalGrows
<1>5. SumUp(LinesBowled(bowl)) = SumUp(LinesBowled(bowling)) + s.legal
  <2>1. \A p \in Person : LinesBowled(bowl)[p]
                            = LinesBowled(bowling)[p] + (IF p = s.bowler THEN s.legal ELSE 0)
    BY <1>2 DEF LinesBowled
  <2> QED BY <1>1, <1>3, <2>1, TotalGrows
<1>6. SumUp(LinesTaken(bowl))
        = SumUp(LinesTaken(bowling)) + (IF TakesWicket(s, s.bowler) THEN 1 ELSE 0)
  <2> DEFINE n == IF TakesWicket(s, s.bowler) THEN 1 ELSE 0
  <2>1. \A p \in Person : LinesTaken(bowl)[p]
                            = LinesTaken(bowling)[p] + (IF p = s.bowler THEN n ELSE 0)
    BY <1>2 DEF LinesTaken, TakesWicket
  <2>2. n \in Int OBVIOUS
  <2> HIDE DEF n
  <2>3. SumUp(LinesTaken(bowl)) = SumUp(LinesTaken(bowling)) + n
    BY <1>1, <1>3, <2>1, <2>2, TotalGrows
  <2> QED BY <2>3 DEF n
<1>7. SumUp(LinesOut(bat)) = SumUp(LinesOut(batting)) + (IF s.wicket # NoWicket THEN 1 ELSE 0)
  <2>1. CASE s.wicket = NoWicket
    <3>1. LinesOut(bat) = LinesOut(batting)
      <4>1. \A p \in Person : BatLineOf(bat, p).dismissed = BatLineOf(batting, p).dismissed
        BY <1>2, <2>1 DEF BatsOn, GetsOut
      <4> QED BY <4>1 DEF LinesOut
    <3>2. SumUp(LinesOut(batting)) \in Int BY <1>3, SumIsNumber
    <3> QED BY <2>1, <3>1, <3>2
  <2>2. CASE s.wicket # NoWicket
    <3>1. GetsOut(s, s.wicket.out) /\ s.wicket.out \in Person BY <1>1, <2>2 DEF GetsOut
    <3>2. ASSUME NEW p \in Person
          PROVE  LinesOut(bat)[p] = LinesOut(batting)[p] + (IF p = s.wicket.out THEN 1 ELSE 0)
      <4>1. CASE p = s.wicket.out
        <5>1. BatLineOf(bat, p).dismissed /\ ~BatLineOf(batting, p).dismissed
          BY <1>2, <3>1, <4>1 DEF BatsOn
        <5> QED BY <4>1, <5>1 DEF LinesOut
      <4>2. CASE p # s.wicket.out
        <5>1. ~GetsOut(s, p) BY <4>2 DEF GetsOut
        <5>2. BatLineOf(bat, p).dismissed = BatLineOf(batting, p).dismissed
          BY <1>2, <5>1 DEF BatsOn
        <5> QED BY <4>2, <5>2 DEF LinesOut
      <4> QED BY <4>1, <4>2
    <3>3. SumUp(LinesOut(bat)) = SumUp(LinesOut(batting)) + 1
      <4> DEFINE old == LinesOut(batting)
                 new == LinesOut(bat)
                 q == s.wicket.out
      <4>1. old \in [Person -> Int] /\ new \in [Person -> Int] /\ q \in Person BY <1>3, <3>1
      <4>2. \A p \in Person : new[p] = old[p] + (IF p = q THEN 1 ELSE 0) BY <3>2
      <4> HIDE DEF old, new, q
      <4>3. SumUp(new) = SumUp(old) + 1 BY <4>1, <4>2, TotalGrows
      <4> QED BY <4>3 DEF old, new
    <3> QED BY <2>2, <3>3
  <2> QED BY <2>1, <2>2
<1>8. TakesWicket(s, s.bowler) => s.wicket # NoWicket BY DEF TakesWicket
<1>9. /\ SumUp(LinesTaken(bowling)) \in Int /\ SumUp(LinesOut(batting)) \in Int
  BY <1>3, SumIsNumber
<1>10. LinesTogether(bat, bowl)
  BY <1>4, <1>5, <1>6, <1>7, <1>8, <1>9 DEF LinesTogether
<1> QED BY <1>10 DEF bat, bowl

\* The end of an innings adds its lines to the careers.
LEMMA AfterInningsAdds ==
    ASSUME InningsType(innings), NEW a \in Career, NEW p
    PROVE  LET b == AfterInnings(a, p)
               bat == BatLineOf(innings.batting, p)
               bowl == BowlLineOf(innings.bowling, p)
           IN  /\ b.ballsFaced = a.ballsFaced + bat.balls
               /\ b.ballsBowled = a.ballsBowled + bowl.balls
               /\ b.wickets = a.wickets + bowl.wickets
               /\ Dismissals(b) = Dismissals(a) + (IF bat.dismissed THEN 1 ELSE 0)
<1> DEFINE c == AfterBatting(innings.batting, a, p)
           b == AfterInnings(a, p)
           bat == BatLineOf(innings.batting, p)
           bowl == BowlLineOf(innings.bowling, p)
<1>1. bat \in BatLine /\ bowl \in BowlLine
  BY DEF InningsType, BatLines, BowlLines, BatLineOf, BowlLineOf, BatLine, BowlLine,
         NoBatLine, NoBowlLine
<1>2. /\ a.ballsFaced \in Int /\ a.ballsBowled \in Int /\ a.wickets \in Int
      /\ a.inningsBatted \in Int /\ a.notOuts \in Int
  BY DEF Career
<1>3. /\ c \in Career /\ c.ballsFaced = a.ballsFaced + bat.balls
      /\ c.ballsBowled = a.ballsBowled /\ c.wickets = a.wickets
      /\ Dismissals(c) = Dismissals(a) + (IF bat.dismissed THEN 1 ELSE 0)
  <2>1. CASE p \in DOMAIN innings.batting
    <3>1. c = Batted(a, bat) BY <2>1 DEF AfterBatting, BatLineOf
    <3> HIDE DEF c, bat
    <3>2. /\ c \in Career /\ c.ballsFaced = a.ballsFaced + bat.balls
          /\ c.ballsBowled = a.ballsBowled /\ c.wickets = a.wickets
          /\ c.inningsBatted = a.inningsBatted + 1
          /\ c.notOuts = IF bat.dismissed THEN a.notOuts ELSE a.notOuts + 1
      BY <1>1, <3>1, BattedIs
    <3> QED BY <1>2, <3>2 DEF Dismissals
  <2>2. CASE p \notin DOMAIN innings.batting
    <3>1. c = a /\ bat = NoBatLine BY <2>2 DEF AfterBatting, BatLineOf
    <3>2. bat.balls = 0 /\ ~bat.dismissed BY <3>1 DEF NoBatLine
    <3>3. Dismissals(a) \in Int BY <1>2 DEF Dismissals
    <3> HIDE DEF c, bat
    <3> QED BY <1>2, <3>1, <3>2, <3>3
  <2> QED BY <2>1, <2>2
<1>4. b = AfterBowling(innings.bowling, c, p) BY DEF AfterInnings
<1>5. /\ b.ballsFaced = c.ballsFaced /\ b.inningsBatted = c.inningsBatted
      /\ b.notOuts = c.notOuts
      /\ b.ballsBowled = c.ballsBowled + bowl.balls /\ b.wickets = c.wickets + bowl.wickets
  <2>1. CASE p \in DOMAIN innings.bowling /\ DidBowl(innings.bowling[p])
    <3>1. b = Bowled(c, bowl) BY <1>4, <2>1 DEF AfterBowling, BowlLineOf
    <3> HIDE DEF b, c, bowl
    <3>2. /\ b.inningsBatted = c.inningsBatted /\ b.ballsFaced = c.ballsFaced
          /\ b.notOuts = c.notOuts
      BY <1>1, <1>3, <3>1, BowledIs
    <3>3. b.ballsBowled = c.ballsBowled + bowl.balls /\ b.wickets = c.wickets + bowl.wickets
      BY <1>1, <1>3, <3>1, BowledIs
    <3> QED BY <3>2, <3>3
  <2>2. CASE ~(p \in DOMAIN innings.bowling /\ DidBowl(innings.bowling[p]))
    <3>1. b = c BY <1>4, <2>2 DEF AfterBowling
    <3>2. bowl.balls = 0 /\ bowl.wickets = 0
      <4>1. CASE p \in DOMAIN innings.bowling
        <5>1. bowl = innings.bowling[p] BY <4>1 DEF BowlLineOf
        <5> HIDE DEF bowl
        <5> QED BY <1>1, <2>2, <4>1, <5>1 DEF DidBowl, BowlLine
      <4>2. CASE p \notin DOMAIN innings.bowling BY <4>2 DEF BowlLineOf, NoBowlLine
      <4> QED BY <4>1, <4>2
    <3>3. c.ballsBowled \in Int /\ c.wickets \in Int BY <1>3 DEF Career
    <3> HIDE DEF b, c, bowl
    <3> QED BY <3>1, <3>2, <3>3
  <2> QED BY <2>1, <2>2
<1>6. Dismissals(b) = Dismissals(c) BY <1>5 DEF Dismissals
<1> HIDE DEF b, c, bat, bowl
<1>7. /\ b.ballsFaced = a.ballsFaced + bat.balls /\ b.ballsBowled = a.ballsBowled + bowl.balls
      /\ b.wickets = a.wickets + bowl.wickets
      /\ Dismissals(b) = Dismissals(a) + (IF bat.dismissed THEN 1 ELSE 0)
  BY <1>3, <1>5, <1>6
<1> QED BY <1>7 DEF b, bat, bowl

\* Careers are together after the lines of an innings, which were, were added.
LEMMA InningsEndsTogether ==
    ASSUME ExtractionInv, BallsInv, EndInnings, NEW f \in Format, f = innings.format,
           NEW after, after = agg'[f], after \in [Person -> Career]
    PROVE  CareersTogether(after)
<1> DEFINE before == agg[f]
           batting == innings.batting
           bowling == innings.bowling
<1>1. /\ InningsType(innings) /\ before \in [Person -> Career]
      /\ CareersTogether(before) /\ LinesTogether(batting, bowling)
  BY DEF ExtractionInv, ExtractionType, BallsInv, EndInnings
<1>2. \A p \in Person : after[p] = AfterInnings(before[p], p)
  BY EndInningsIs DEF ExtractionInv
<1>3. \A p \in Person :
         /\ BallsFaced(after)[p] = BallsFaced(before)[p] + LinesFaced(batting)[p]
         /\ BallsBowled(after)[p] = BallsBowled(before)[p] + LinesBowled(bowling)[p]
         /\ WicketsTaken(after)[p] = WicketsTaken(before)[p] + LinesTaken(bowling)[p]
         /\ TimesOut(after)[p] = TimesOut(before)[p] + LinesOut(batting)[p]
  <2> HIDE DEF before, batting, bowling
  <2> SUFFICES ASSUME NEW p \in Person
               PROVE  /\ BallsFaced(after)[p] = BallsFaced(before)[p] + LinesFaced(batting)[p]
                      /\ BallsBowled(after)[p]
                           = BallsBowled(before)[p] + LinesBowled(bowling)[p]
                      /\ WicketsTaken(after)[p]
                           = WicketsTaken(before)[p] + LinesTaken(bowling)[p]
                      /\ TimesOut(after)[p] = TimesOut(before)[p] + LinesOut(batting)[p]
    OBVIOUS
  <2>1. before[p] \in Career BY <1>1
  <2>2. /\ after[p].ballsFaced = before[p].ballsFaced + BatLineOf(batting, p).balls
        /\ after[p].ballsBowled = before[p].ballsBowled + BowlLineOf(bowling, p).balls
        /\ after[p].wickets = before[p].wickets + BowlLineOf(bowling, p).wickets
        /\ Dismissals(after[p]) = Dismissals(before[p])
              + (IF BatLineOf(batting, p).dismissed THEN 1 ELSE 0)
    BY <1>1, <1>2, <2>1, AfterInningsAdds DEF batting, bowling
  <2> QED BY <2>2 DEF BallsFaced, BallsBowled, WicketsTaken, TimesOut,
                     LinesFaced, LinesBowled, LinesTaken, LinesOut
<1>4. /\ BatLines(batting) /\ BowlLines(bowling) BY <1>1 DEF InningsType
<1> HIDE DEF before, batting, bowling
<1>5. {BallsFaced(after), BallsBowled(after), WicketsTaken(after), TimesOut(after),
       BallsFaced(before), BallsBowled(before), WicketsTaken(before), TimesOut(before),
       LinesFaced(batting), LinesOut(batting), LinesBowled(bowling), LinesTaken(bowling)}
         \subseteq [Person -> Int]
  BY <1>1, <1>4, CountsAreNumbers, LinesAreNumbers
<1>6. SumUp(BallsFaced(after)) = SumUp(BallsFaced(before)) + SumUp(LinesFaced(batting))
  <2>1. \A p \in Person : BallsFaced(after)[p] = BallsFaced(before)[p] + LinesFaced(batting)[p]
    BY <1>3
  <2>2. /\ BallsFaced(after) \in [Person -> Int] /\ BallsFaced(before) \in [Person -> Int]
        /\ LinesFaced(batting) \in [Person -> Int]
    BY <1>5
  <2> QED BY <2>1, <2>2, TotalAdds
<1>7. SumUp(BallsBowled(after)) = SumUp(BallsBowled(before)) + SumUp(LinesBowled(bowling))
  <2>1. \A p \in Person : BallsBowled(after)[p] = BallsBowled(before)[p] + LinesBowled(bowling)[p]
    BY <1>3
  <2>2. /\ BallsBowled(after) \in [Person -> Int] /\ BallsBowled(before) \in [Person -> Int]
        /\ LinesBowled(bowling) \in [Person -> Int]
    BY <1>5
  <2> QED BY <2>1, <2>2, TotalAdds
<1>8. SumUp(WicketsTaken(after)) = SumUp(WicketsTaken(before)) + SumUp(LinesTaken(bowling))
  <2>1. \A p \in Person : WicketsTaken(after)[p] = WicketsTaken(before)[p] + LinesTaken(bowling)[p]
    BY <1>3
  <2>2. /\ WicketsTaken(after) \in [Person -> Int] /\ WicketsTaken(before) \in [Person -> Int]
        /\ LinesTaken(bowling) \in [Person -> Int]
    BY <1>5
  <2> QED BY <2>1, <2>2, TotalAdds
<1>9. SumUp(TimesOut(after)) = SumUp(TimesOut(before)) + SumUp(LinesOut(batting))
  <2>1. \A p \in Person : TimesOut(after)[p] = TimesOut(before)[p] + LinesOut(batting)[p]
    BY <1>3
  <2>2. /\ TimesOut(after) \in [Person -> Int] /\ TimesOut(before) \in [Person -> Int]
        /\ LinesOut(batting) \in [Person -> Int]
    BY <1>5
  <2> QED BY <2>1, <2>2, TotalAdds
<1>10. /\ SumUp(WicketsTaken(before)) \in Int /\ SumUp(LinesTaken(bowling)) \in Int
       /\ SumUp(TimesOut(before)) \in Int /\ SumUp(LinesOut(batting)) \in Int
  BY <1>5, SumIsNumber
<1> QED BY <1>1, <1>6, <1>7, <1>8, <1>9, <1>10 DEF CareersTogether, LinesTogether

\* No step of a script loses a ball or a wicket.
LEMMA NextKeepsBalls ==
    ExtractionInv /\ ExtractionInv' /\ BallsInv /\ [Next]_vars => BallsInv'
<1> SUFFICES ASSUME ExtractionInv, ExtractionInv', BallsInv, [Next]_vars PROVE BallsInv'
  OBVIOUS
<1>1. CASE UNCHANGED extraction BY <1>1 DEF extraction, BallsInv
<1>2. ASSUME NEW i \in DOMAIN FORMATS, NEW squad \in Squads, BeginInnings(i, squad)
      PROVE  BallsInv'
  <2>1. /\ innings'.batting = Empty /\ innings'.bowling = Empty
        /\ \A f \in Format, p \in Person : SameCounts(agg[f][p], agg'[f][p])
    BY <1>2, InningsBegun
  <2>2. \A f \in Format : CareersTogether(agg'[f])
    BY <2>1, SameCountsSameSums DEF BallsInv
  <2> QED BY <2>1, <2>2, EmptyLinesTogether DEF BallsInv
<1>3. ASSUME NEW s \in Spells, Deliver(s) PROVE BallsInv'
  <2>1. /\ innings'.batting = BattingLine(innings.batting, s)
        /\ innings'.bowling = BowlingLine(innings.bowling, s)
        /\ \A f \in Format, p \in Person : SameCounts(agg[f][p], agg'[f][p])
    BY <1>3, SpellDelivered
  <2>2. \A f \in Format : CareersTogether(agg'[f])
    BY <2>1, SameCountsSameSums DEF BallsInv
  <2>3. /\ BatLines(innings.batting) /\ BowlLines(innings.bowling)
        /\ LinesTogether(innings.batting, innings.bowling)
    BY <1>3 DEF Deliver, ExtractionInv, ExtractionType, InningsType, BallsInv
  <2>4. GetsOut(s, s.wicket.out) => ~BatLineOf(innings.batting, s.wicket.out).dismissed
    <3>1. GetsOut(s, s.wicket.out) => s.wicket.out \in {s.batter, s.nonStriker}
      BY SpellsAssumption DEF GetsOut
    <3>2. \A p \in {s.batter, s.nonStriker} :
             p \in DOMAIN innings.batting => ~innings.batting[p].dismissed
      BY <1>3 DEF Deliver, MayFollow
    <3> QED BY <3>1, <3>2 DEF BatLineOf, NoBatLine
  <2>5. LinesTogether(innings'.batting, innings'.bowling)
    BY <2>1, <2>3, <2>4, SpellKeepsLines
  <2> QED BY <2>2, <2>5 DEF BallsInv
<1>4. CASE EndInnings
  <2>1. innings' = NoInnings BY <1>4 DEF EndInnings
  <2>2. ASSUME NEW f \in Format PROVE CareersTogether(agg'[f])
    <3>1. agg'[f] \in [Person -> Career] BY DEF ExtractionInv, ExtractionType
    <3>2. CASE f = innings.format BY <1>4, <3>1, <3>2, InningsEndsTogether
    <3>3. CASE f # innings.format
      <4>1. agg'[f] = agg[f] BY <1>4, <3>3 DEF EndInnings, ExtractionInv, ExtractionType
      <4> QED BY <4>1 DEF BallsInv
    <3> QED BY <3>2, <3>3
  <2> QED BY <2>1, <2>2 DEF BallsInv
<1>5. CASE WriteFile
  <2>1. /\ agg' = [f \in Format |-> [p \in Person |-> newBattingAgg]] /\ innings' = NoInnings
    BY <1>5 DEF WriteFile
  <2>2. \A f \in Format : agg'[f] = [p \in Person |-> newBattingAgg] BY <2>1
  <2> QED BY <2>1, <2>2, NewCareersTogether DEF BallsInv
<1> QED BY <1>1, <1>2, <1>3, <1>4, <1>5, OthersKeepCareers
    DEF ExtractionNext, vars, extraction

\* MapThenSumSet sums up the same way.
AddingUp(g, h) ==
    [s \in SUBSET Person |-> IF s = {} THEN 0 ELSE g[PickOf(s)] + h[Rest(s)]]

\* There is such a sum, and it is the one over all people.
LEMMA AddingUpIsSum ==
    ASSUME NEW g \in [Person -> Int]
    PROVE  /\ \E h : h = AddingUp(g, h)
           /\ \A k : k = AddingUp(g, k) => k[Person] = SumUp(g)
<1>1. PICK h : IsSum(g, h) BY SumExists
<1>2. h = AddingUp(g, h) BY <1>1 DEF IsSum, AddingUp
<1>3. ASSUME NEW k, k = AddingUp(g, k) PROVE k[Person] = SumUp(g)
  <2> DEFINE Bad == {s \in SUBSET Person : k[s] # h[s]}
  <2>1. \A s \in SUBSET Person : k[s] = IF s = {} THEN 0 ELSE g[PickOf(s)] + k[Rest(s)]
    BY <1>3 DEF AddingUp
  <2>2. \A s \in Bad : s # {} /\ Rest(s) \in Bad
    <3> SUFFICES ASSUME NEW s \in Bad PROVE s # {} /\ Rest(s) \in Bad OBVIOUS
    <3>1. s # {} BY <1>1, <2>1 DEF IsSum
    <3>2. Rest(s) \in SUBSET Person BY <3>1, RestIsSmaller
    <3> QED BY <1>1, <2>1, <3>1, <3>2 DEF IsSum
  <2>3. Bad = {} BY <2>2, SubsetInduction
  <2>4. k[Person] = h[Person] BY <2>3
  <2> QED BY <1>1, <2>4, TotalIs
<1> QED BY <1>2, <1>3

\* The four sums the balance is about.
LEMMA SumsAreSums ==
    ASSUME ExtractionInv, NEW f \in Format
    PROVE  /\ SumOver(f, LAMBDA a : a.ballsFaced) = SumUp(BallsFaced(agg[f]))
           /\ SumOver(f, LAMBDA a : a.ballsBowled) = SumUp(BallsBowled(agg[f]))
           /\ SumOver(f, LAMBDA a : a.wickets) = SumUp(WicketsTaken(agg[f]))
           /\ SumOver(f, Dismissals) = SumUp(TimesOut(agg[f]))
<1>1. {BallsFaced(agg[f]), BallsBowled(agg[f]), WicketsTaken(agg[f]), TimesOut(agg[f])}
         \subseteq [Person -> Int]
  BY CountsAreNumbers DEF ExtractionInv, ExtractionType
<1>2. SumOver(f, LAMBDA a : a.ballsFaced) = SumUp(BallsFaced(agg[f]))
  <2> DEFINE g == BallsFaced(agg[f])
             Adds(h) == [s \in SUBSET Person |->
                           IF s = {} THEN 0
                           ELSE agg[f][CHOOSE x \in s : TRUE].ballsFaced
                                  + h[s \ {CHOOSE x \in s : TRUE}]]
             iter == CHOOSE h : h = Adds(h)
  <2>1. SumOver(f, LAMBDA a : a.ballsFaced) = iter[Person]
    BY DEF SumOver, MapThenSumSet, MapThenFoldSet
  <2>2. ASSUME NEW h PROVE Adds(h) = AddingUp(g, h)
    BY DEF AddingUp, PickOf, Rest, BallsFaced
  <2> HIDE DEF g, Adds
  <2>3. \E h : h = Adds(h) BY <1>1, <2>2, AddingUpIsSum DEF g
  <2>4. iter = Adds(iter) BY <2>3
  <2> HIDE DEF iter
  <2>5. iter = AddingUp(g, iter) BY <2>2, <2>4
  <2>6. iter[Person] = SumUp(g) BY <1>1, <2>5, AddingUpIsSum DEF g
  <2> QED BY <2>1, <2>6 DEF g
<1>3. SumOver(f, LAMBDA a : a.ballsBowled) = SumUp(BallsBowled(agg[f]))
  <2> DEFINE g == BallsBowled(agg[f])
             Adds(h) == [s \in SUBSET Person |->
                           IF s = {} THEN 0
                           ELSE agg[f][CHOOSE x \in s : TRUE].ballsBowled
                                  + h[s \ {CHOOSE x \in s : TRUE}]]
             iter == CHOOSE h : h = Adds(h)
  <2>1. SumOver(f, LAMBDA a : a.ballsBowled) = iter[Person]
    BY DEF SumOver, MapThenSumSet, MapThenFoldSet
  <2>2. ASSUME NEW h PROVE Adds(h) = AddingUp(g, h)
    BY DEF AddingUp, PickOf, Rest, BallsBowled
  <2> HIDE DEF g, Adds
  <2>3. \E h : h = Adds(h) BY <1>1, <2>2, AddingUpIsSum DEF g
  <2>4. iter = Adds(iter) BY <2>3
  <2> HIDE DEF iter
  <2>5. iter = AddingUp(g, iter) BY <2>2, <2>4
  <2>6. iter[Person] = SumUp(g) BY <1>1, <2>5, AddingUpIsSum DEF g
  <2> QED BY <2>1, <2>6 DEF g
<1>4. SumOver(f, LAMBDA a : a.wickets) = SumUp(WicketsTaken(agg[f]))
  <2> DEFINE g == WicketsTaken(agg[f])
             Adds(h) == [s \in SUBSET Person |->
                           IF s = {} THEN 0
                           ELSE agg[f][CHOOSE x \in s : TRUE].wickets
                                  + h[s \ {CHOOSE x \in s : TRUE}]]
             iter == CHOOSE h : h = Adds(h)
  <2>1. SumOver(f, LAMBDA a : a.wickets) = iter[Person]
    BY DEF SumOver, MapThenSumSet, MapThenFoldSet
  <2>2. ASSUME NEW h PROVE Adds(h) = AddingUp(g, h)
    BY DEF AddingUp, PickOf, Rest, WicketsTaken
  <2> HIDE DEF g, Adds
  <2>3. \E h : h = Adds(h) BY <1>1, <2>2, AddingUpIsSum DEF g
  <2>4. iter = Adds(iter) BY <2>3
  <2> HIDE DEF iter
  <2>5. iter = AddingUp(g, iter) BY <2>2, <2>4
  <2>6. iter[Person] = SumUp(g) BY <1>1, <2>5, AddingUpIsSum DEF g
  <2> QED BY <2>1, <2>6 DEF g
<1>5. SumOver(f, Dismissals) = SumUp(TimesOut(agg[f]))
  <2> DEFINE g == TimesOut(agg[f])
             Adds(h) == [s \in SUBSET Person |->
                           IF s = {} THEN 0
                           ELSE Dismissals(agg[f][CHOOSE x \in s : TRUE])
                                  + h[s \ {CHOOSE x \in s : TRUE}]]
             iter == CHOOSE h : h = Adds(h)
  <2>1. SumOver(f, Dismissals) = iter[Person]
    BY DEF SumOver, MapThenSumSet, MapThenFoldSet
  <2>2. ASSUME NEW h PROVE Adds(h) = AddingUp(g, h)
    BY DEF AddingUp, PickOf, Rest, TimesOut
  <2> HIDE DEF g, Adds
  <2>3. \E h : h = Adds(h) BY <1>1, <2>2, AddingUpIsSum DEF g
  <2>4. iter = Adds(iter) BY <2>3
  <2> HIDE DEF iter
  <2>5. iter = AddingUp(g, iter) BY <2>2, <2>4
  <2>6. iter[Person] = SumUp(g) BY <1>1, <2>5, AddingUpIsSum DEF g
  <2> QED BY <2>1, <2>6 DEF g
<1> QED BY <1>2, <1>3, <1>4, <1>5

\* Every ball somebody faced somebody bowled, in every format, for all squads, spells and
\* numbers of innings; no bowlers' wicket is without a batter who was out; and the counters
\* of every career fit together, although the script adds them up in different maps.
THEOREM CareersBalanceHolds == Spec => []CareersBalance
<1>1. ASSUME ExtractionInv, BallsInv PROVE CareersBalance
  <2>1. BallsBalance
    <3> SUFFICES ASSUME NEW f \in Format
                 PROVE  /\ SumOver(f, LAMBDA a : a.ballsFaced)
                             = SumOver(f, LAMBDA a : a.ballsBowled)
                        /\ SumOver(f, LAMBDA a : a.wickets) <= SumOver(f, Dismissals)
      BY DEF BallsBalance
    <3>1. CareersTogether(agg[f]) BY <1>1 DEF BallsInv
    <3> QED BY <1>1, <3>1, SumsAreSums DEF CareersTogether
  <2>2. CareerAddsUp
    <3> SUFFICES ASSUME NEW f \in Format, NEW p \in Person
                 PROVE  LET a == agg[f][p]
                        IN  /\ a.centuries + a.halfCenturies <= a.inningsBatted
                            /\ 100 * a.centuries + 50 * a.halfCenturies <= a.runs
                            /\ a.highestScore <= a.runs
                            /\ a.runs <= a.highestScore * a.inningsBatted
                            /\ a.centuries > 0 <=> a.highestScore >= 100
                            /\ a.notOuts \in 0..a.inningsBatted
      BY DEF CareerAddsUp
    <3> DEFINE a == agg[f][p]
    <3>1. a \in Career /\ CareerInv(a)
      BY <1>1 DEF ExtractionInv, ExtractionType, CareersInv
    <3> HIDE DEF a
    <3>2. a.notOuts \in Nat /\ a.inningsBatted \in Nat BY <3>1 DEF Career
    <3>3. a.notOuts <= a.inningsBatted BY <3>1 DEF CareerInv
    <3>4. a.notOuts \in 0..a.inningsBatted BY <3>2, <3>3
    <3>5. /\ a.centuries + a.halfCenturies <= a.inningsBatted
          /\ 100 * a.centuries + 50 * a.halfCenturies <= a.runs
          /\ a.highestScore <= a.runs
          /\ a.runs <= a.highestScore * a.inningsBatted
          /\ a.centuries > 0 <=> a.highestScore >= 100
      BY <3>1 DEF CareerInv
    <3> QED BY <3>4, <3>5 DEF a
  <2> QED BY <2>1, <2>2 DEF CareersBalance
<1>2. Init => BallsInv
  <2> SUFFICES ASSUME Init PROVE BallsInv OBVIOUS
  <2>1. \A f \in Format : agg[f] = [p \in Person |-> newBattingAgg]
    BY DEF Init, ExtractionInit
  <2>2. innings = NoInnings BY DEF Init, ExtractionInit
  <2> QED BY <2>1, <2>2, NewCareersTogether DEF BallsInv
<1> QED BY <1>1, <1>2, CareersHold, NextKeepsBalls, PTL DEF Spec

-----------------------------------------------------------------------------
(***************************************************************************)
(* Ratings.  A score is a share between 0 and 1 of two ranks; all ranks in *)
(* one pool have the same denominator, so that only the numbers of careers *)
(* at most as good have to be compared.                                    *)
(***************************************************************************)
IsRate(x) == x.n \in Nat /\ x.d \in Nat \ {0}
IsShare(x) == IsRate(x) /\ x.n <= x.d

\* A product grows with its factor.
LEMMA TimesKeepsOrder ==
    ASSUME NEW x \in Int, NEW y \in Int, x <= y, NEW c \in Nat
    PROVE  x * c <= y * c
<1>1. \A k \in Nat : k * c >= 0 OBVIOUS
<1>2. y - x \in Nat OBVIOUS
<1>3. y * c = x * c + (y - x) * c OBVIOUS
<1>4. (y - x) * c >= 0 BY <1>1, <1>2
<1>5. x * c \in Int /\ (y - x) * c \in Int OBVIOUS
<1> QED BY <1>3, <1>4, <1>5

\* A factor that is not 0 cancels.
LEMMA TimesCancels ==
    ASSUME NEW x \in Int, NEW y \in Int, NEW c \in Nat \ {0}, x * c <= y * c
    PROVE  x <= y
<1> SUFFICES ASSUME y + 1 <= x PROVE FALSE OBVIOUS
<1>1. (y + 1) * c <= x * c BY TimesKeepsOrder
<1>2. (y + 1) * c = y * c + c OBVIOUS
<1>3. y * c \in Int /\ x * c \in Int OBVIOUS
<1> QED BY <1>1, <1>2, <1>3

\* Fractions compared by cross multiplication are in one order.
LEMMA RatesAreOrdered ==
    ASSUME NEW x, NEW y, NEW z, IsRate(x), IsRate(y), IsRate(z), AtMost(x, y), AtMost(y, z)
    PROVE  AtMost(x, z)
<1>1. PICK xn \in Nat, xd \in Nat \ {0}, yn \in Nat, yd \in Nat \ {0}, zn \in Nat,
           zd \in Nat \ {0} :
        xn = x.n /\ xd = x.d /\ yn = y.n /\ yd = y.d /\ zn = z.n /\ zd = z.d
  BY DEF IsRate
<1>2. xn * yd <= yn * xd /\ yn * zd <= zn * yd BY <1>1 DEF AtMost
<1>3. /\ xn * yd \in Int /\ yn * xd \in Int /\ yn * zd \in Int /\ zn * yd \in Int
      /\ xn * zd \in Int /\ zn * xd \in Int
  OBVIOUS
<1>4. (xn * yd) * zd <= (yn * xd) * zd BY <1>2, <1>3, TimesKeepsOrder
<1>5. (yn * zd) * xd <= (zn * yd) * xd BY <1>2, <1>3, TimesKeepsOrder
<1>6. /\ (xn * yd) * zd = (xn * zd) * yd /\ (yn * xd) * zd = (yn * zd) * xd
      /\ (zn * yd) * xd = (zn * xd) * yd
  OBVIOUS
<1>7. (xn * zd) * yd <= (zn * xd) * yd
  <2>1. /\ (xn * zd) * yd \in Int /\ (yn * zd) * xd \in Int /\ (zn * xd) * yd \in Int
    OBVIOUS
  <2> QED BY <1>4, <1>5, <1>6, <2>1
<1>8. xn * zd <= zn * xd BY <1>3, <1>7, TimesCancels
<1> QED BY <1>1, <1>8 DEF AtMost

\* The quotient is the only number of whole divisors in it.
LEMMA QuotientIs ==
    ASSUME NEW m \in Nat, NEW d \in Nat \ {0}
    PROVE  /\ m \div d \in Nat /\ (m \div d) * d <= m
           /\ m + 1 <= ((m \div d) + 1) * d
<1>1. PICK q \in Nat, r \in 0..d - 1 : q = m \div d /\ r = m % d OBVIOUS
<1>2. m = d * q + r BY <1>1
<1>3. d * q = q * d /\ (q + 1) * d = q * d + d /\ q * d \in Int OBVIOUS
<1>4. q * d <= m /\ m + 1 <= (q + 1) * d BY <1>2, <1>3
<1> QED BY <1>1, <1>4

\* A quotient grows with what is divided.
LEMMA QuotientGrows ==
    ASSUME NEW m \in Nat, NEW n \in Nat, m <= n, NEW d \in Nat \ {0}
    PROVE  m \div d <= n \div d
<1>1. PICK p \in Nat : p = m \div d /\ p * d <= m BY QuotientIs
<1>2. PICK q \in Nat : q = n \div d /\ n + 1 <= (q + 1) * d BY QuotientIs
<1> SUFFICES ASSUME q + 1 <= p PROVE FALSE BY <1>1, <1>2
<1>3. (q + 1) * d <= p * d BY TimesKeepsOrder
<1>4. (q + 1) * d \in Int /\ p * d \in Int OBVIOUS
<1> QED BY <1>1, <1>2, <1>3, <1>4

\* What Rating makes of a share.
Rated(x) == round(40 * x.d + 59 * x.n, x.d, 1)

\* 40 and 59 times a share is rounded to at least 40 and at most 99.
LEMMA RatedInRange == ASSUME NEW x, IsShare(x) PROVE Rated(x) \in 40..99
<1>1. PICK n \in Nat, d \in Nat \ {0} : n = x.n /\ d = x.d /\ n <= d
  BY DEF IsShare, IsRate
<1> DEFINE m == 2 * (40 * d + 59 * n) * 1 + d
<1>2. Rated(x) = m \div (2 * d) BY <1>1 DEF Rated, round
<1>3. m \in Nat /\ 2 * d \in Nat \ {0} /\ 81 * d <= m /\ m <= 199 * d BY <1>1
<1> HIDE DEF m
<1>4. PICK q \in Nat : q = m \div (2 * d) /\ q * (2 * d) <= m /\ m + 1 <= (q + 1) * (2 * d)
  BY <1>3, QuotientIs
<1>5. q >= 40
  <2> SUFFICES ASSUME q + 1 <= 40 PROVE FALSE BY <1>4
  <2>1. (q + 1) * (2 * d) <= 40 * (2 * d) BY <1>3, TimesKeepsOrder
  <2> QED BY <1>3, <1>4, <2>1
<1>6. q <= 99
  <2> SUFFICES ASSUME 100 <= q PROVE FALSE BY <1>4
  <2>1. 100 * (2 * d) <= q * (2 * d) BY <1>3, TimesKeepsOrder
  <2> QED BY <1>3, <1>4, <2>1
<1> QED BY <1>2, <1>4, <1>5, <1>6

\* Rounding keeps the order.
LEMMA RatedGrows ==
    ASSUME NEW x, NEW y, IsShare(x), IsShare(y), x.d = y.d, x.n <= y.n
    PROVE  Rated(x) <= Rated(y)
<1>1. PICK n \in Nat, k \in Nat, d \in Nat \ {0} :
        n = x.n /\ k = y.n /\ d = x.d /\ d = y.d /\ n <= k
  BY DEF IsShare, IsRate
<1> DEFINE low == 2 * (40 * d + 59 * n) * 1 + d
           high == 2 * (40 * d + 59 * k) * 1 + d
<1>2. Rated(x) = low \div (2 * d) /\ Rated(y) = high \div (2 * d) BY <1>1 DEF Rated, round
<1>3. low \in Nat /\ high \in Nat /\ low <= high /\ 2 * d \in Nat \ {0} BY <1>1
<1> HIDE DEF low, high
<1> QED BY <1>2, <1>3, QuotientGrows

\* A weighted mean of shares is a share, and grows with them.
LEMMA WeightedIsShare ==
    ASSUME NEW x, NEW y, IsShare(x), IsShare(y), NEW v \in Nat, NEW w \in Nat, v + w = 20
    PROVE  IsShare(Weighted(v, x, w, y))
<1>1. PICK xn \in Nat, xd \in Nat \ {0}, yn \in Nat, yd \in Nat \ {0} :
        xn = x.n /\ xd = x.d /\ yn = y.n /\ yd = y.d /\ xn <= xd /\ yn <= yd
  BY DEF IsShare, IsRate
<1>2. xn * yd <= xd * yd /\ yn * xd <= yd * xd BY <1>1, TimesKeepsOrder
<1>3. PICK a \in Nat, b \in Nat, c \in Nat : a = xn * yd /\ b = yn * xd /\ c = xd * yd
  OBVIOUS
<1>4. c # 0 /\ a <= c /\ b <= c
  <2>1. xd >= 1 /\ yd >= 1 OBVIOUS
  <2>2. 1 * yd <= xd * yd BY <2>1, TimesKeepsOrder
  <2>3. yd * xd = xd * yd OBVIOUS
  <2> QED BY <1>2, <1>3, <2>1, <2>2, <2>3
<1>5. a * v <= c * v /\ b * w <= c * w BY <1>4, TimesKeepsOrder
<1>6. /\ v * xn * yd = a * v /\ w * yn * xd = b * w /\ 20 * xd * yd = 20 * c
      /\ a * v \in Nat /\ b * w \in Nat /\ c * v \in Nat /\ c * w \in Nat
  BY <1>3
<1>7. c * v + c * w = 20 * c
  <2>1. c * v + c * w = c * (v + w) OBVIOUS
  <2> QED BY <2>1
<1>8. Weighted(v, x, w, y) = [n |-> a * v + b * w, d |-> 20 * c]
  BY <1>1, <1>6 DEF Weighted, Fraction
<1>9. a * v + b * w \in Nat /\ a * v + b * w <= 20 * c /\ 20 * c \in Nat \ {0}
  BY <1>4, <1>5, <1>6, <1>7
<1> QED BY <1>8, <1>9 DEF IsShare, IsRate

\* Of two means over the same denominators the one with the larger ranks is larger.
LEMMA WeightedGrows ==
    ASSUME NEW x, NEW y, NEW u, NEW z, IsShare(x), IsShare(y), IsShare(u), IsShare(z),
           x.d = u.d, y.d = z.d, x.n <= u.n, y.n <= z.n,
           NEW v \in Nat, NEW w \in Nat
    PROVE  /\ Weighted(v, x, w, y).d = Weighted(v, u, w, z).d
           /\ Weighted(v, x, w, y).n <= Weighted(v, u, w, z).n
<1>1. PICK xn \in Nat, un \in Nat, c \in Nat, yn \in Nat, zn \in Nat, d \in Nat :
        /\ xn = x.n /\ un = u.n /\ c = x.d /\ c = u.d
        /\ yn = y.n /\ zn = z.n /\ d = y.d /\ d = z.d /\ xn <= un /\ yn <= zn
  BY DEF IsShare, IsRate
<1>2. xn * (v * d) <= un * (v * d) /\ yn * (w * c) <= zn * (w * c)
  <2>1. v * d \in Nat /\ w * c \in Nat OBVIOUS
  <2> QED BY <1>1, <2>1, TimesKeepsOrder
<1>3. /\ v * xn * d = xn * (v * d) /\ v * un * d = un * (v * d)
      /\ w * yn * c = yn * (w * c) /\ w * zn * c = zn * (w * c)
      /\ xn * (v * d) \in Int /\ un * (v * d) \in Int
      /\ yn * (w * c) \in Int /\ zn * (w * c) \in Int
  OBVIOUS
<1>4. Weighted(v, x, w, y).n = xn * (v * d) + yn * (w * c)
  BY <1>1, <1>3 DEF Weighted, Fraction
<1>5. Weighted(v, u, w, z).n = un * (v * d) + zn * (w * c)
  BY <1>1, <1>3 DEF Weighted, Fraction
<1>6. Weighted(v, x, w, y).d = Weighted(v, u, w, z).d BY <1>1 DEF Weighted, Fraction
<1> QED BY <1>2, <1>3, <1>4, <1>5, <1>6

\* A pool of careers.
Form(careers) ==
    /\ DOMAIN careers \in SUBSET Person
    /\ \A p \in DOMAIN careers : careers[p] \in Career /\ CareerInv(careers[p])

\* No rate divides by zero.
LEMMA CareersHaveRates ==
    ASSUME NEW a \in Career, CareerInv(a)
    PROVE  /\ IsRate(battingAverage(a)) /\ IsRate(strikeRate(a))
           /\ a.wickets > 0 => IsRate(bowlingAverage(a))
           /\ a.ballsBowled > 0 => IsRate(bowlingEconomy(a))
<1>1. /\ a.runs \in Nat /\ a.ballsFaced \in Nat /\ a.runsConceded \in Nat /\ a.wickets \in Nat
      /\ a.ballsBowled \in Nat /\ a.inningsBatted \in Nat /\ a.notOuts \in Nat
  BY DEF Career
<1>2. Dismissals(a) \in Int BY <1>1 DEF Dismissals
<1> QED BY <1>1, <1>2 DEF IsRate, battingAverage, strikeRate, bowlingAverage, bowlingEconomy,
                          Fraction

\* Those who have a career a rate is counted among, and the ranks themselves.
Wicketed(careers) == {q \in DOMAIN careers : careers[q].wickets > 0}
HaveBowled(careers) == {q \in DOMAIN careers : careers[q].ballsBowled > 0}

AveragedAtMost(careers, a) ==
    {q \in DOMAIN careers : AtMost(battingAverage(careers[q]), battingAverage(a))}
StruckAtMost(careers, a) ==
    {q \in DOMAIN careers : AtMost(strikeRate(careers[q]), strikeRate(a))}
AveragedAbove(careers, a) ==
    {q \in Wicketed(careers) : ~AtMost(bowlingAverage(careers[q]), bowlingAverage(a))}
ConcededAbove(careers, a) ==
    {q \in HaveBowled(careers) : ~AtMost(bowlingEconomy(careers[q]), bowlingEconomy(a))}

Rank(those, all) == Fraction(Cardinality(those), Cardinality(all))

\* The batting score in terms of its two ranks.
LEMMA BattingScoreIs ==
    ASSUME NEW careers, NEW a
    PROVE  battingScore(careers, a) =
              Weighted(13, Rank(AveragedAtMost(careers, a), DOMAIN careers),
                       7, Rank(StruckAtMost(careers, a), DOMAIN careers))
BY DEF battingScore, AtMostOf, Rank, AveragedAtMost, StruckAtMost

\* The bowling score in terms of its two ranks.
LEMMA BowlingScoreIs ==
    ASSUME NEW careers, NEW a, a.wickets > 0, a.ballsBowled > 0
    PROVE  bowlingScore(careers, a) =
              Weighted(12, Rank(AveragedAbove(careers, a), Wicketed(careers)),
                       8, Rank(ConcededAbove(careers, a), HaveBowled(careers)))
<1> DEFINE wicketed == [p \in Wicketed(careers) |-> careers[p]]
           bowled == [p \in HaveBowled(careers) |-> careers[p]]
<1>1. bowlingScore(careers, a) =
         Weighted(12, AboveOf(wicketed, bowlingAverage, a), 8, AboveOf(bowled, bowlingEconomy, a))
  BY DEF bowlingScore, Restricted, Wicketed, HaveBowled
<1>2. AboveOf(wicketed, bowlingAverage, a) = Rank(AveragedAbove(careers, a), Wicketed(careers))
  <2>1. {q \in DOMAIN wicketed : ~AtMost(bowlingAverage(wicketed[q]), bowlingAverage(a))}
           = AveragedAbove(careers, a)
    BY DEF AveragedAbove
  <2>2. DOMAIN wicketed = Wicketed(careers) OBVIOUS
  <2> HIDE DEF wicketed
  <2> QED BY <2>1, <2>2 DEF AboveOf, Rank
<1>3. AboveOf(bowled, bowlingEconomy, a) = Rank(ConcededAbove(careers, a), HaveBowled(careers))
  <2>1. {q \in DOMAIN bowled : ~AtMost(bowlingEconomy(bowled[q]), bowlingEconomy(a))}
           = ConcededAbove(careers, a)
    BY DEF ConcededAbove
  <2>2. DOMAIN bowled = HaveBowled(careers) OBVIOUS
  <2> HIDE DEF bowled
  <2> QED BY <2>1, <2>2 DEF AboveOf, Rank
<1> HIDE DEF wicketed, bowled
<1> QED BY <1>1, <1>2, <1>3

\* A rank among somebody is a share.
LEMMA RankIsShare ==
    ASSUME NEW all \in SUBSET Person, all # {}, NEW those \in SUBSET all
    PROVE  IsShare(Rank(those, all))
<1>1. IsFiniteSet(all) BY SquadsAssumption, FS_Subset
<1>2. /\ Cardinality(all) \in Nat /\ Cardinality(all) # 0
      /\ Cardinality(those) \in Nat /\ Cardinality(those) <= Cardinality(all)
  BY <1>1, FS_CardinalityType, FS_EmptySet, FS_Subset
<1> QED BY <1>2 DEF Rank, Fraction, IsShare, IsRate

\* A rank grows with those it counts.
LEMMA RankGrows ==
    ASSUME NEW all \in SUBSET Person, NEW more \in SUBSET all, NEW those \in SUBSET more
    PROVE  Rank(those, all).d = Rank(more, all).d /\ Rank(those, all).n <= Rank(more, all).n
<1>1. IsFiniteSet(more) BY SquadsAssumption, FS_Subset
<1>2. Cardinality(those) <= Cardinality(more) BY <1>1, FS_Subset
<1> QED BY <1>2 DEF Rank, Fraction

\* Who is at least as good as another in both measures has at least his score.
LEMMA BattingScoreGrows ==
    ASSUME NEW careers, Form(careers), NEW p \in DOMAIN careers, NEW q \in DOMAIN careers
    PROVE  LET low == battingScore(careers, careers[p])
               high == battingScore(careers, careers[q])
           IN  /\ IsShare(low)
               /\ (/\ AtMost(battingAverage(careers[p]), battingAverage(careers[q]))
                   /\ AtMost(strikeRate(careers[p]), strikeRate(careers[q])))
                     => low.d = high.d /\ low.n <= high.n
<1> DEFINE all == DOMAIN careers
           a == careers[p]
           b == careers[q]
           low == battingScore(careers, a)
           high == battingScore(careers, b)
<1>1. all \in SUBSET Person /\ all # {} BY DEF Form
<1>2. \A r \in all : IsRate(battingAverage(careers[r])) /\ IsRate(strikeRate(careers[r]))
  BY CareersHaveRates DEF Form
<1>3. /\ AveragedAtMost(careers, a) \in SUBSET all /\ StruckAtMost(careers, a) \in SUBSET all
      /\ AveragedAtMost(careers, b) \in SUBSET all /\ StruckAtMost(careers, b) \in SUBSET all
  BY DEF AveragedAtMost, StruckAtMost
<1>4. ASSUME NEW S \in SUBSET all PROVE IsShare(Rank(S, all)) BY <1>1, RankIsShare
<1> DEFINE x == Rank(AveragedAtMost(careers, a), all)
           y == Rank(StruckAtMost(careers, a), all)
           u == Rank(AveragedAtMost(careers, b), all)
           z == Rank(StruckAtMost(careers, b), all)
<1>5. /\ low = Weighted(13, x, 7, y) /\ high = Weighted(13, u, 7, z)
      /\ IsShare(x) /\ IsShare(y) /\ IsShare(u) /\ IsShare(z)
  BY <1>3, <1>4, BattingScoreIs
<1>6. ASSUME AtMost(battingAverage(a), battingAverage(b)), AtMost(strikeRate(a), strikeRate(b))
      PROVE  low.d = high.d /\ low.n <= high.n
  <2>1. AveragedAtMost(careers, a) \in SUBSET AveragedAtMost(careers, b)
    BY <1>2, <1>6, RatesAreOrdered DEF AveragedAtMost
  <2>2. StruckAtMost(careers, a) \in SUBSET StruckAtMost(careers, b)
    BY <1>2, <1>6, RatesAreOrdered DEF StruckAtMost
  <2>3. x.d = u.d /\ x.n <= u.n /\ y.d = z.d /\ y.n <= z.n
    BY <1>1, <1>3, <2>1, <2>2, RankGrows
  <2> HIDE DEF x, y, u, z, low, high
  <2>4. /\ Weighted(13, x, 7, y).d = Weighted(13, u, 7, z).d
        /\ Weighted(13, x, 7, y).n <= Weighted(13, u, 7, z).n
    BY <1>5, <2>3, WeightedGrows
  <2> QED BY <1>5, <2>4
<1> HIDE DEF x, y, u, z, low, high
<1>7. IsShare(low) BY <1>5, WeightedIsShare
<1> QED BY <1>6, <1>7 DEF low, high

\* With lower measures, of those who have them, the bowling score grows.
LEMMA BowlingScoreGrows ==
    ASSUME NEW careers, Form(careers), NEW p \in DOMAIN careers, NEW q \in DOMAIN careers,
           careers[p].wickets > 0, careers[p].ballsBowled > 0,
           careers[q].wickets > 0, careers[q].ballsBowled > 0
    PROVE  LET low == bowlingScore(careers, careers[p])
               high == bowlingScore(careers, careers[q])
           IN  /\ IsShare(low)
               /\ (/\ AtMost(bowlingAverage(careers[q]), bowlingAverage(careers[p]))
                   /\ AtMost(bowlingEconomy(careers[q]), bowlingEconomy(careers[p])))
                     => low.d = high.d /\ low.n <= high.n
<1> DEFINE all == Wicketed(careers)
           bowled == HaveBowled(careers)
           a == careers[p]
           b == careers[q]
           low == bowlingScore(careers, a)
           high == bowlingScore(careers, b)
<1>1. /\ all \in SUBSET Person /\ bowled \in SUBSET Person /\ p \in all /\ p \in bowled
      /\ q \in all /\ q \in bowled
  BY DEF Form, Wicketed, HaveBowled
<1>2. /\ \A r \in all : IsRate(bowlingAverage(careers[r]))
      /\ \A r \in bowled : IsRate(bowlingEconomy(careers[r]))
  BY CareersHaveRates DEF Form, Wicketed, HaveBowled
<1>3. /\ AveragedAbove(careers, a) \in SUBSET all /\ ConcededAbove(careers, a) \in SUBSET bowled
      /\ AveragedAbove(careers, b) \in SUBSET all /\ ConcededAbove(careers, b) \in SUBSET bowled
  BY DEF AveragedAbove, ConcededAbove
<1> DEFINE x == Rank(AveragedAbove(careers, a), all)
           y == Rank(ConcededAbove(careers, a), bowled)
           u == Rank(AveragedAbove(careers, b), all)
           z == Rank(ConcededAbove(careers, b), bowled)
<1>4. IsShare(x) /\ IsShare(y) /\ IsShare(u) /\ IsShare(z)
  <2> HIDE DEF all, bowled
  <2> QED BY <1>1, <1>3, RankIsShare
<1>5. low = Weighted(12, x, 8, y) /\ high = Weighted(12, u, 8, z) BY BowlingScoreIs
<1>6. ASSUME AtMost(bowlingAverage(b), bowlingAverage(a)),
             AtMost(bowlingEconomy(b), bowlingEconomy(a))
      PROVE  low.d = high.d /\ low.n <= high.n
  <2>1. AveragedAbove(careers, a) \in SUBSET AveragedAbove(careers, b)
    BY <1>1, <1>2, <1>6, RatesAreOrdered DEF AveragedAbove
  <2>2. ConcededAbove(careers, a) \in SUBSET ConcededAbove(careers, b)
    BY <1>1, <1>2, <1>6, RatesAreOrdered DEF ConcededAbove
  <2>3. x.d = u.d /\ x.n <= u.n /\ y.d = z.d /\ y.n <= z.n
    <3> HIDE DEF all, bowled
    <3> QED BY <1>1, <1>3, <2>1, <2>2, RankGrows
  <2> HIDE DEF x, y, u, z, low, high
  <2>4. /\ Weighted(12, x, 8, y).d = Weighted(12, u, 8, z).d
        /\ Weighted(12, x, 8, y).n <= Weighted(12, u, 8, z).n
    BY <1>4, <2>3, WeightedGrows
  <2> QED BY <1>5, <2>4
<1> HIDE DEF x, y, u, z, low, high
<1>7. IsShare(low) BY <1>4, <1>5, WeightedIsShare
<1> QED BY <1>6, <1>7 DEF low, high

\* Only who has taken a wicket and bowled a ball has a bowling score.
LEMMA ScoredHasBowled ==
    ASSUME NEW careers, NEW a, bowlingScore(careers, a).n > 0
    PROVE  a.wickets > 0 /\ a.ballsBowled > 0
<1> SUFFICES ASSUME ~(a.wickets > 0 /\ a.ballsBowled > 0) PROVE FALSE OBVIOUS
<1>1. bowlingScore(careers, a) = Fraction(0, 1) BY DEF bowlingScore
<1>2. Fraction(0, 1).n = 0 BY DEF Fraction
<1> QED BY <1>1, <1>2

\* Whatever the role, the score a rating is made of is a share.
LEMMA SkillIsShare ==
    ASSUME NEW careers, Form(careers), NEW p \in DOMAIN careers, NEW role
    PROVE  IsShare(Skill(role, careers, careers[p]))
<1> DEFINE bat == battingScore(careers, careers[p])
           bowl == bowlingScore(careers, careers[p])
<1>1. IsShare(bat) BY BattingScoreGrows
<1>2. bowl.n > 0 => IsShare(bowl) BY ScoredHasBowled, BowlingScoreGrows
<1>3. bowl.n > 0 => IsShare(Weighted(10, bat, 10, bowl))
  <2> HIDE DEF bat, bowl
  <2> QED BY <1>1, <1>2, WeightedIsShare
<1>4. Skill(role, careers, careers[p]) =
         CASE role = "BOWLER" /\ bowl.n > 0 -> bowl
           [] role = "ALL_ROUNDER" /\ bowl.n > 0 -> Weighted(10, bat, 10, bowl)
           [] OTHER -> bat
  BY DEF Skill
<1> HIDE DEF bat, bowl
<1> QED BY <1>1, <1>2, <1>3, <1>4

\* The careers of a pool fit together.
LEMMA PoolsHaveForm ==
    ASSUME ExtractionInv, NEW f \in Format, NEW pool \in Pools(f)
    PROVE  Form([p \in pool |-> agg[f][p]])
<1>1. pool \in SUBSET Person BY DEF Pools
<1> QED BY <1>1 DEF Form, ExtractionInv, ExtractionType, CareersInv

\* Every rating of the catalogue lies between 40 and 99 and follows the form, whatever was
\* played: of two players of a pool rated by the same measures the one who is at least as
\* good in all of them is rated no lower, however the ranks are rounded and however many
\* careers are tied.
THEOREM RatingsFollowFormHolds == Spec => []RatingsFollowForm
<1>1. ASSUME ExtractionInv PROVE RatingsFollowForm
  <2>1. ASSUME NEW f \in Format, NEW pool \in Pools(f)
        PROVE  LET careers == [p \in pool |-> agg[f][p]]
                   rating(p) == Rating(classifyRole(p), careers, careers[p])
                   Scores(p) == bowlingScore(careers, careers[p]).n > 0
                   RatedBy(p) ==
                       CASE classifyRole(p) = "BOWLER" /\ Scores(p) -> {"bowling"}
                         [] classifyRole(p) = "ALL_ROUNDER" /\ Scores(p) ->
                               {"batting", "bowling"}
                         [] OTHER -> {"batting"}
                   BatsAtMost(p, q) ==
                       /\ AtMost(battingAverage(careers[p]), battingAverage(careers[q]))
                       /\ AtMost(strikeRate(careers[p]), strikeRate(careers[q]))
                   BowlsAtMost(p, q) ==
                       /\ AtMost(bowlingAverage(careers[q]), bowlingAverage(careers[p]))
                       /\ AtMost(bowlingEconomy(careers[q]), bowlingEconomy(careers[p]))
               IN  /\ \A p \in pool : rating(p) \in 40..99
                   /\ \A p, q \in pool :
                         (/\ RatedBy(p) = RatedBy(q)
                          /\ "batting" \in RatedBy(p) => BatsAtMost(p, q)
                          /\ "bowling" \in RatedBy(p) => BowlsAtMost(p, q))
                            => rating(p) <= rating(q)
    <3> DEFINE careers == [p \in pool |-> agg[f][p]]
               bat(p) == battingScore(careers, careers[p])
               bowl(p) == bowlingScore(careers, careers[p])
               skill(p) == Skill(classifyRole(p), careers, careers[p])
               rating(p) == Rating(classifyRole(p), careers, careers[p])
               RatedBy(p) ==
                   CASE classifyRole(p) = "BOWLER" /\ bowl(p).n > 0 -> {"bowling"}
                     [] classifyRole(p) = "ALL_ROUNDER" /\ bowl(p).n > 0 ->
                           {"batting", "bowling"}
                     [] OTHER -> {"batting"}
               BatsAtMost(p, q) ==
                   /\ AtMost(battingAverage(careers[p]), battingAverage(careers[q]))
                   /\ AtMost(strikeRate(careers[p]), strikeRate(careers[q]))
               BowlsAtMost(p, q) ==
                   /\ AtMost(bowlingAverage(careers[q]), bowlingAverage(careers[p]))
                   /\ AtMost(bowlingEconomy(careers[q]), bowlingEconomy(careers[p]))
    <3>1. Form(careers) /\ DOMAIN careers = pool BY <1>1, PoolsHaveForm
    <3> HIDE DEF careers
    <3>2. ASSUME NEW p \in pool PROVE IsShare(skill(p)) BY <3>1, SkillIsShare
    <3>3. ASSUME NEW p \in pool PROVE rating(p) = Rated(skill(p))
      BY DEF Rating, Rated
    <3>4. ASSUME NEW p \in pool, bowl(p).n > 0
          PROVE  /\ careers[p].wickets > 0 /\ careers[p].ballsBowled > 0
                 /\ IsShare(bowl(p))
      BY <3>1, <3>4, ScoredHasBowled, BowlingScoreGrows
    <3>5. ASSUME NEW p \in pool
          PROVE  \/ RatedBy(p) = {"bowling"} /\ bowl(p).n > 0 /\ skill(p) = bowl(p)
                 \/ /\ RatedBy(p) = {"batting", "bowling"} /\ bowl(p).n > 0
                    /\ skill(p) = Weighted(10, bat(p), 10, bowl(p))
                 \/ RatedBy(p) = {"batting"} /\ skill(p) = bat(p)
      BY DEF Skill
    <3>6. ASSUME NEW p \in pool, NEW q \in pool
          PROVE  /\ IsShare(bat(p))
                 /\ BatsAtMost(p, q) => bat(p).d = bat(q).d /\ bat(p).n <= bat(q).n
      BY <3>1, BattingScoreGrows
    <3>7. ASSUME NEW p \in pool, NEW q \in pool, bowl(p).n > 0, bowl(q).n > 0,
                 BowlsAtMost(p, q)
          PROVE  bowl(p).d = bowl(q).d /\ bowl(p).n <= bowl(q).n
      BY <3>1, <3>4, <3>7, BowlingScoreGrows
    <3> HIDE DEF bat, bowl, skill, rating, RatedBy, BatsAtMost, BowlsAtMost
    <3>8. ASSUME NEW p \in pool PROVE rating(p) \in 40..99
      BY <3>2, <3>3, RatedInRange
    <3>9. ASSUME NEW p \in pool, NEW q \in pool, RatedBy(p) = RatedBy(q),
                 "batting" \in RatedBy(p) => BatsAtMost(p, q),
                 "bowling" \in RatedBy(p) => BowlsAtMost(p, q)
          PROVE  rating(p) <= rating(q)
      <4>1. skill(p).d = skill(q).d /\ skill(p).n <= skill(q).n
        <5>1. {"bowling"} # {"batting"} /\ {"bowling"} # {"batting", "bowling"}
              /\ {"batting"} # {"batting", "bowling"}
          OBVIOUS
        <5>2. CASE RatedBy(p) = {"bowling"}
          <6>1. /\ bowl(p).n > 0 /\ skill(p) = bowl(p) /\ bowl(q).n > 0 /\ skill(q) = bowl(q)
            BY <3>5, <3>9, <5>1, <5>2
          <6> QED BY <3>7, <3>9, <5>2, <6>1
        <5>3. CASE RatedBy(p) = {"batting"}
          <6>1. skill(p) = bat(p) /\ skill(q) = bat(q) BY <3>5, <3>9, <5>1, <5>3
          <6> QED BY <3>6, <3>9, <5>3, <6>1
        <5>4. CASE RatedBy(p) = {"batting", "bowling"}
          <6>1. /\ bowl(p).n > 0 /\ skill(p) = Weighted(10, bat(p), 10, bowl(p))
                /\ bowl(q).n > 0 /\ skill(q) = Weighted(10, bat(q), 10, bowl(q))
            BY <3>5, <3>9, <5>1, <5>4
          <6>2. /\ bat(p).d = bat(q).d /\ bat(p).n <= bat(q).n
                /\ bowl(p).d = bowl(q).d /\ bowl(p).n <= bowl(q).n
            BY <3>6, <3>7, <3>9, <5>4, <6>1
          <6>3. IsShare(bat(p)) /\ IsShare(bat(q)) /\ IsShare(bowl(p)) /\ IsShare(bowl(q))
            BY <3>4, <3>6, <6>1
          <6> QED BY <6>1, <6>2, <6>3, WeightedGrows
        <5> QED BY <3>5, <5>2, <5>3, <5>4
      <4> QED BY <3>2, <3>3, <4>1, RatedGrows
    <3> QED BY <3>8, <3>9 DEF careers, bowl, rating, RatedBy, BatsAtMost, BowlsAtMost
  <2> QED BY <2>1 DEF RatingsFollowForm
<1> QED BY <1>1, CareersHold, PTL
=============================================================================
