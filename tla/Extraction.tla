----------------------------- MODULE Extraction -----------------------------
(***************************************************************************)
(* scripts/extract-cricket-data.mjs: the careers of all people in all      *)
(* formats are added up delivery by delivery, and each career in a         *)
(* format's pool becomes a card with its statistics and rating.            *)
(*                                                                         *)
(* A spell is a run of deliveries of one bowler to one batter, of which    *)
(* only the last may take a wicket: what the script adds for each of them  *)
(* is added at once.  Names, teams and countries are left out, so are the  *)
(* files and innings the script skips.  An innings here is a match of its  *)
(* own; the script reads several of one file, which count as one match and *)
(* share nothing else.                                                     *)
(*                                                                         *)
(* The statistics of a card are raw values as StatComparison knows them; a *)
(* number the script rounds to one decimal is ten times that number, the   *)
(* economy rate a hundred times.                                           *)
(***************************************************************************)
EXTENDS StatComparison, FiniteSets, FiniteSetsExt, Sequences

CONSTANTS
    Person,
    FORMATS,         \* the formats in the order their archives are read
    Squads,          \* the players a match file may name
    Spells,          \* the spells an innings may have
    NoInnings, NoWicket, NoFigure,
    PoolSize,        \* POOL_SIZE_PER_FORMAT
    MaxInnings,      \* bound: innings, each of a match of its own
    MaxSpells        \* bound: spells of an innings

ASSUME SquadsAssumption == IsFiniteSet(Person) /\ Squads \subseteq SUBSET Person

ASSUME SpellsAssumption ==
    \A s \in Spells :
        /\ {s.batter, s.nonStriker, s.bowler} \subseteq Person
        /\ {s.legal, s.illegal, s.runs, s.byes, s.total} \subseteq Nat
        /\ s.total >= s.runs + s.byes + s.illegal
        /\ s.wicket # NoWicket => s.wicket.out \in {s.batter, s.nonStriker}

ASSUME NoFigureAssumption == NoFigure \notin [wickets : Nat, runs : Nat]

Format == {FORMATS[i] : i \in DOMAIN FORMATS}

VARIABLES
    agg,        \* aggByFormat
    innings,    \* the innings being added up: its format, squads, battingLine, bowlingLine
    played,     \* innings begun
    spells,     \* spells of the innings
    figures     \* history: what each bowler returned in each innings

extraction == <<agg, innings, played, spells, figures>>

newBattingAgg ==
    [matches |-> 0, inningsBatted |-> 0, notOuts |-> 0, runs |-> 0, highestScore |-> 0,
     ballsFaced |-> 0, centuries |-> 0, halfCenturies |-> 0, inningsBowled |-> 0,
     ballsBowled |-> 0, runsConceded |-> 0, wickets |-> 0, bestBowling |-> NoFigure,
     catches |-> 0, stumpings |-> 0]

ExtractionInit ==
    /\ agg = [f \in Format |-> [p \in Person |-> newBattingAgg]]
    /\ innings = NoInnings
    /\ played = 0
    /\ spells = 0
    /\ figures = [f \in Format |-> [p \in Person |-> {}]]

-----------------------------------------------------------------------------
NOT_BOWLER_WICKET == {"run out", "retired hurt", "retired out", "retired not out",
                      "timed out", "obstructing the field"}

Empty == [p \in {} |-> {}]

Ensured(lines, p, line) ==
    [q \in DOMAIN lines \cup {p} |-> IF q \in DOMAIN lines THEN lines[q] ELSE line]

ensureBatting(lines, p) == Ensured(lines, p, [runs |-> 0, balls |-> 0, dismissed |-> FALSE])
ensureBowling(lines, p) == Ensured(lines, p, [runs |-> 0, balls |-> 0, wickets |-> 0])

Capped(career) == [career EXCEPT !.matches = @ + 1]

\* The squads of the match file, then its innings; a format is done before the next.
BeginInnings(i, squad) ==
    /\ innings = NoInnings
    /\ played < MaxInnings
    /\ \A later \in i + 1..Len(FORMATS), p \in Person : agg[FORMATS[later]][p].matches = 0
    /\ LET f == FORMATS[i]
       IN  agg' = [agg EXCEPT ![f] = [p \in Person |->
                      IF p \in squad THEN Capped(@[p]) ELSE @[p]]]
    /\ innings' = [format |-> FORMATS[i], squad |-> squad,
                   batting |-> Empty, bowling |-> Empty]
    /\ played' = played + 1
    /\ spells' = 0
    /\ UNCHANGED figures

BattingLine(lines, s) ==
    LET there == ensureBatting(ensureBatting(lines, s.batter), s.nonStriker)
        faced == [there EXCEPT ![s.batter].runs = @ + s.runs, ![s.batter].balls = @ + s.legal]
    IN  IF s.wicket = NoWicket THEN faced
        ELSE [ensureBatting(faced, s.wicket.out) EXCEPT ![s.wicket.out].dismissed = TRUE]

\* Mutant: wides and no-balls are counted as balls of the over.
BowlingLineAllBalls(lines, s) ==
    [ensureBowling(lines, s.bowler) EXCEPT
        ![s.bowler].balls = @ + s.legal + s.illegal,
        ![s.bowler].runs = @ + s.total - s.byes,
        ![s.bowler].wickets =
            IF s.wicket # NoWicket /\ s.wicket.kind \notin NOT_BOWLER_WICKET
            THEN @ + 1 ELSE @]

BowlingLine(lines, s) ==
    [ensureBowling(lines, s.bowler) EXCEPT
        ![s.bowler].balls = @ + s.legal,
        ![s.bowler].runs = @ + s.total - s.byes,
        ![s.bowler].wickets =
            IF s.wicket # NoWicket /\ s.wicket.kind \notin NOT_BOWLER_WICKET
            THEN @ + 1 ELSE @]

\* Whoever caught or stumped is credited in his career at once.
Fielded(career, s, p) ==
    IF s.wicket = NoWicket \/ s.wicket.fielder # p THEN career
    ELSE CASE s.wicket.kind = "caught" -> [career EXCEPT !.catches = @ + 1]
           [] s.wicket.kind = "stumped" -> [career EXCEPT !.stumpings = @ + 1]
           [] OTHER -> career

\* What a match file may say next: who is out is out, and nobody plays on both sides.
\* Left out are a batter who retires hurt and returns, and one timed out before his first
\* ball.
MayFollow(s) ==
    /\ {s.batter, s.nonStriker, s.bowler} \subseteq innings.squad
    /\ \A p \in {s.batter, s.nonStriker} :
          /\ p \in DOMAIN innings.batting => ~innings.batting[p].dismissed
          /\ p \notin DOMAIN innings.bowling
    /\ s.bowler \notin DOMAIN innings.batting

Deliver(s) ==
    /\ innings # NoInnings
    /\ MayFollow(s)
    /\ spells < MaxSpells
    /\ innings' = [innings EXCEPT !.batting = BattingLine(@, s), !.bowling = BowlingLine(@, s)]
    /\ agg' = [agg EXCEPT ![innings.format] = [p \in Person |-> Fielded(@[p], s, p)]]
    /\ spells' = spells + 1
    /\ UNCHANGED <<played, figures>>

-----------------------------------------------------------------------------
Batted(a, line) ==
    [a EXCEPT !.inningsBatted = @ + 1,
              !.runs = @ + line.runs,
              !.ballsFaced = @ + line.balls,
              !.highestScore = IF line.runs > @ THEN line.runs ELSE @,
              !.centuries = IF line.runs >= 100 THEN @ + 1 ELSE @,
              !.halfCenturies = IF line.runs \in 50..99 THEN @ + 1 ELSE @,
              !.notOuts = IF line.dismissed THEN @ ELSE @ + 1]

\* Mutant: the later of two figures with the same wickets.
isLaterBowling(candidate, current) ==
    /\ candidate.wickets > 0
    /\ current = NoFigure \/ candidate.wickets >= current.wickets

isBetterBowling(candidate, current) ==
    /\ candidate.wickets > 0
    /\ \/ current = NoFigure
       \/ candidate.wickets > current.wickets
       \/ candidate.wickets = current.wickets /\ candidate.runs < current.runs

DidBowl(line) == line.balls > 0 \/ line.wickets > 0

Bowled(a, line) ==
    [a EXCEPT !.inningsBowled = @ + 1,
              !.ballsBowled = @ + line.balls,
              !.runsConceded = @ + line.runs,
              !.wickets = @ + line.wickets,
              !.bestBowling = IF isBetterBowling(line, @)
                              THEN [wickets |-> line.wickets, runs |-> line.runs] ELSE @]

EndInnings ==
    /\ innings # NoInnings
    /\ LET bat == innings.batting
           bowl == innings.bowling
           Bats(a, p) == IF p \in DOMAIN bat THEN Batted(a, bat[p]) ELSE a
           Bowls(a, p) == IF p \in DOMAIN bowl /\ DidBowl(bowl[p]) THEN Bowled(a, bowl[p])
                          ELSE a
       IN  /\ agg' = [agg EXCEPT ![innings.format] =
                         [p \in Person |-> Bowls(Bats(@[p], p), p)]]
           /\ figures' = [figures EXCEPT ![innings.format] = [p \in Person |->
                             IF p \in DOMAIN bowl /\ bowl[p].wickets > 0
                             THEN @[p] \cup {Figure(bowl[p].wickets, bowl[p].runs)} ELSE @[p]]]
    /\ innings' = NoInnings
    /\ UNCHANGED <<played, spells>>

ExtractionNext ==
    \/ \E i \in DOMAIN FORMATS, squad \in Squads : BeginInnings(i, squad)
    \/ \E s \in Spells : Deliver(s)
    \/ EndInnings

-----------------------------------------------------------------------------
(***************************************************************************)
(* The card of a career.                                                   *)
(***************************************************************************)
\* round(n / d, decimals) times 10^decimals = factor; Math.round rounds half up.
round(n, d, factor) == (2 * n * factor + d) \div (2 * d)

Rate(n, d, factor) == IF d > 0 THEN Number(round(n, d, factor)) ELSE Null

\* Mutant: decimal overs.
decimalOvers(balls) == round(balls, 6, 10)

ballsToOversNotation(balls) == (balls \div 6) * 10 + (balls % 6)

Dismissals(a) == a.inningsBatted - a.notOuts

\* seed.ts's STAT_SCHEMA, and buildCardStats for it.
StatFields ==
    {"matchesPlayed", "inningsPlayed", "notOuts", "runs", "highestScore", "battingAverage",
     "ballsFaced", "strikeRate", "centuries", "halfCenturies", "bowlingInnings", "overs",
     "runsConceded", "wickets", "bestBowling", "bowlingAverage", "economyRate",
     "bowlingStrikeRate", "dateOfBirth"}

buildCardStats(a) ==
    [matchesPlayed |-> Number(a.matches),
     inningsPlayed |-> Number(a.inningsBatted),
     notOuts |-> Number(a.notOuts),
     runs |-> Number(a.runs),
     highestScore |-> Number(a.highestScore),
     battingAverage |-> Rate(a.runs, Dismissals(a), 10),
     ballsFaced |-> Number(a.ballsFaced),
     strikeRate |-> Rate(a.runs * 100, a.ballsFaced, 10),
     centuries |-> Number(a.centuries),
     halfCenturies |-> Number(a.halfCenturies),
     bowlingInnings |-> Number(a.inningsBowled),
     overs |-> IF a.ballsBowled > 0 THEN Number(ballsToOversNotation(a.ballsBowled)) ELSE Null,
     runsConceded |-> IF a.inningsBowled > 0 THEN Number(a.runsConceded) ELSE Null,
     wickets |-> IF a.inningsBowled > 0 THEN Number(a.wickets) ELSE Null,
     bestBowling |-> IF a.bestBowling = NoFigure THEN Null
                     ELSE Figure(a.bestBowling.wickets, a.bestBowling.runs),
     bowlingAverage |-> Rate(a.runsConceded, a.wickets, 10),
     economyRate |-> Rate(a.runsConceded * 6, a.ballsBowled, 100),
     bowlingStrikeRate |-> Rate(a.ballsBowled, a.wickets, 10),
     dateOfBirth |-> Null]

-----------------------------------------------------------------------------
(***************************************************************************)
(* Roles, ratings, pools.  Quotients are kept as fractions.                *)
(***************************************************************************)
Fraction(n, d) == [n |-> n, d |-> d]
AtMost(x, y) == x.n * y.d <= y.n * x.d

Total(p, field(_)) == MapThenSumSet(LAMBDA f : field(agg[f][p]), Format)

classifyRole(p) ==
    LET matches == Total(p, LAMBDA a : a.matches)
        bowled == Total(p, LAMBDA a : a.inningsBowled)
        runs == Total(p, LAMBDA a : a.runs)
        out == Total(p, Dismissals)
    IN  IF Total(p, LAMBDA a : a.stumpings) >= 3 THEN "WICKET_KEEPER"
        ELSE IF matches = 0 \/ 2 * bowled < matches THEN "BATSMAN"
        ELSE IF runs >= 20 * (IF out > 0 THEN out ELSE 1) THEN "ALL_ROUNDER"
        ELSE "BOWLER"

battingAverage(a) == IF Dismissals(a) > 0 THEN Fraction(a.runs, Dismissals(a)) ELSE Fraction(0, 1)
strikeRate(a) == IF a.ballsFaced > 0 THEN Fraction(a.runs, a.ballsFaced) ELSE Fraction(0, 1)
bowlingAverage(a) == Fraction(a.runsConceded, a.wickets)
bowlingEconomy(a) == Fraction(a.runsConceded, a.ballsBowled)

\* percentileRank: the share of the careers in which a value is at most that of a.
AtMostOf(careers, value(_), a) ==
    Fraction(Cardinality({q \in DOMAIN careers : AtMost(value(careers[q]), value(a))}),
             Cardinality(DOMAIN careers))

\* lowerIsBetter: one minus the rank.
AboveOf(careers, value(_), a) ==
    Fraction(Cardinality({q \in DOMAIN careers : ~AtMost(value(careers[q]), value(a))}),
             Cardinality(DOMAIN careers))

\* Weights in twentieths.
Weighted(v, x, w, y) == Fraction(v * x.n * y.d + w * y.n * x.d, 20 * x.d * y.d)

Restricted(careers, Cond(_)) ==
    [p \in {q \in DOMAIN careers : Cond(careers[q])} |-> careers[p]]

battingScore(careers, a) ==
    Weighted(13, AtMostOf(careers, battingAverage, a), 7, AtMostOf(careers, strikeRate, a))

\* Mutant: lowerIsBetter is forgotten.
bowlingScoreHigherIsBetter(careers, a) ==
    IF a.wickets > 0 /\ a.ballsBowled > 0
    THEN Weighted(12, AtMostOf(Restricted(careers, LAMBDA c : c.wickets > 0), bowlingAverage, a),
                  8, AtMostOf(Restricted(careers, LAMBDA c : c.ballsBowled > 0),
                              bowlingEconomy, a))
    ELSE Fraction(0, 1)

bowlingScore(careers, a) ==
    IF a.wickets > 0 /\ a.ballsBowled > 0
    THEN Weighted(12, AboveOf(Restricted(careers, LAMBDA c : c.wickets > 0), bowlingAverage, a),
                  8, AboveOf(Restricted(careers, LAMBDA c : c.ballsBowled > 0),
                              bowlingEconomy, a))
    ELSE Fraction(0, 1)

Skill(role, careers, a) ==
    LET bat == battingScore(careers, a)
        bowl == bowlingScore(careers, a)
    IN  CASE role = "BOWLER" /\ bowl.n > 0 -> bowl
          [] role = "ALL_ROUNDER" /\ bowl.n > 0 -> Weighted(10, bat, 10, bowl)
          [] OTHER -> bat

Rating(role, careers, a) ==
    LET skill == Skill(role, careers, a)
    IN  round(40 * skill.d + 59 * skill.n, skill.d, 1)

\* The most capped of those who were in a squad; who of several with the same number
\* of matches gets in depends on the order of the files.
Pools(f) ==
    LET capped == {p \in Person : agg[f][p].matches > 0}
    IN  {pool \in SUBSET capped :
            /\ Cardinality(pool) = Min({PoolSize, Cardinality(capped)})
            /\ \A p \in pool, q \in capped \ pool : agg[f][p].matches >= agg[f][q].matches}

-----------------------------------------------------------------------------
SumOver(f, field(_)) == MapThenSumSet(LAMBDA p : field(agg[f][p]), Person)

BetweenInnings == innings = NoInnings

\* Batting and bowling are added up in different maps by different people's names:
\* every ball somebody faced is a ball somebody bowled, in every format, and no
\* bowler has more wickets than batters were out.
BallsBalance ==
    \A f \in Format :
        /\ SumOver(f, LAMBDA a : a.ballsFaced) = SumOver(f, LAMBDA a : a.ballsBowled)
        /\ SumOver(f, LAMBDA a : a.wickets) <= SumOver(f, Dismissals)

\* The counters of a career fit together after any innings: the big scores are
\* different innings and leave enough runs, and the highest score is one of them.
CareerAddsUp ==
    \A f \in Format, p \in Person :
        LET a == agg[f][p]
        IN  /\ a.centuries + a.halfCenturies <= a.inningsBatted
            /\ 100 * a.centuries + 50 * a.halfCenturies <= a.runs
            /\ a.highestScore <= a.runs /\ a.runs <= a.highestScore * a.inningsBatted
            /\ a.centuries > 0 <=> a.highestScore >= 100
            /\ a.notOuts \in 0..a.inningsBatted

\* Between two innings all that was added up fits together.
CareersBalance == BetweenInnings => BallsBalance /\ CareerAddsUp

\* isBetterBowling chooses with its own comparison the figure the game will compare
\* with bowlingFigureScore: no figure of the career beats the one on the card, and
\* who has taken a wicket has one.
BestFigureWins ==
    \A f \in Format, p \in Person :
        LET best == buildCardStats(agg[f][p]).bestBowling
        IN  IF figures[f][p] = {} THEN best = Null
            ELSE /\ best \in figures[f][p]
                 /\ \A other \in figures[f][p] :
                       bowlingFigureScore(best) >= bowlingFigureScore(other)

\* How cricket reads overs: 20.3 are 123 balls.
BallsIn(overs) == 6 * (overs \div 10) + (overs % 10)

\* Every card has something to call, overs are no decimal number but the balls bowled as
\* cricket writes them and yet compare like these, and what depends on the same count is
\* there or missing together.
CardsAreComparable ==
    \A f \in Format, p, q \in Person :
        LET a == agg[f][p]
            card == buildCardStats(a)
            other == buildCardStats(agg[f][q])
            Calls(s) == isSelectableStatistic(s, StatFields, card)
        IN  /\ \E s \in StatFields : Calls(s)
            /\ Calls("overs") <=> Calls("economyRate")
            /\ Calls("bestBowling") <=> Calls("bowlingAverage")
            /\ Calls("bestBowling") => Calls("wickets") /\ Calls("runsConceded")
            /\ Calls("overs") => BallsIn(card.overs.value) = a.ballsBowled
            /\ (Calls("overs") /\ isSelectableStatistic("overs", StatFields, other)) =>
                  (comparisonValue("overs", card.overs) < comparisonValue("overs", other.overs)
                     <=> a.ballsBowled < agg[f][q].ballsBowled)

\* Ratings lie between 40 and 99 and follow the form, through ties, pools of one and the
\* measures of which less is better: of two in a pool who are rated by the same measures,
\* one who is at least as good in all of them is rated no lower.  By which measures is what
\* the code does, not what the comment above scorePlayers says: a keeper is rated by his
\* batting alone (the comment lets him "blend"), and so is a bowler or all-rounder whose
\* bowling score is 0; the property does not compare him with those who are not.
RatingsFollowForm ==
    BetweenInnings => \A f \in Format : \A pool \in Pools(f) :
        LET careers == [p \in pool |-> agg[f][p]]
            rating(p) == Rating(classifyRole(p), careers, careers[p])
            Scores(p) == bowlingScore(careers, careers[p]).n > 0
            RatedBy(p) ==
                CASE classifyRole(p) = "BOWLER" /\ Scores(p) -> {"bowling"}
                  [] classifyRole(p) = "ALL_ROUNDER" /\ Scores(p) -> {"batting", "bowling"}
                  [] OTHER -> {"batting"}
            BatsAtMost(p, q) ==
                /\ AtMost(battingAverage(careers[p]), battingAverage(careers[q]))
                /\ AtMost(strikeRate(careers[p]), strikeRate(careers[q]))
            BowlsAtMost(p, q) ==
                /\ AtMost(bowlingAverage(careers[q]), bowlingAverage(careers[p]))
                /\ AtMost(bowlingEconomy(careers[q]), bowlingEconomy(careers[p]))
        IN  /\ \A p \in pool : rating(p) \in 40..99
            /\ \A p, q \in pool :
                  (/\ RatedBy(p) = RatedBy(q)
                   /\ "batting" \in RatedBy(p) => BatsAtMost(p, q)
                   /\ "bowling" \in RatedBy(p) => BowlsAtMost(p, q))
                     => rating(p) <= rating(q)
=============================================================================
