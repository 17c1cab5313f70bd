-------------------------- MODULE MCStatComparison --------------------------
(***************************************************************************)
(* StatComparison on every comparison of three players over a small set of *)
(* raw values, against a reference stated in the words of cricket.         *)
(***************************************************************************)
EXTENDS StatComparison, FiniteSets, FiniteSetsExt

CONSTANTS
    Players,    \* players compared, small integers
    Raws,       \* raw values a card may have for the statistic
    Schema      \* fields of the card set, dateOfBirth among them

\* No bowler concedes a thousand runs in an innings.
ASSUME RawsAssumption ==
    \A raw \in Raws : IsRaw(raw) /\ (ParsesAsBowlingFigure(raw) => raw.runs < 1000)

VARIABLES statistic, raws

ComparisonInit ==
    /\ statistic \in Schema
    /\ raws \in [Players -> {Null}]

\* Another card comes to the top of p's pile.
TurnUp(p, raw) == raws' = [raws EXCEPT ![p] = raw] /\ UNCHANGED statistic

\* Another statistic is called.
Call(s) == statistic' = s /\ UNCHANGED raws

ComparisonNext ==
    \/ \E p \in Players, raw \in Raws : TurnUp(p, raw)
    \/ \E s \in Schema : Call(s)

ComparisonSpec == ComparisonInit /\ [][ComparisonNext]_<<statistic, raws>>

-----------------------------------------------------------------------------
values == [p \in Players |-> comparisonValue(statistic, raws[p])]
Selectable(p) == isSelectableStatistic(statistic, Schema, [f \in Schema |-> raws[p]])
Beats(p, q) == p \in determineWinners([r \in {p, q} |-> values[r]], statistic)
                /\ q \notin determineWinners([r \in {p, q} |-> values[r]], statistic)

\* GAME_RULES: the figure with more wickets wins, among equal wickets the one with
\* fewer runs; a single score decides exactly as this rule does.
FiguresFollowCricket ==
    \A p, q \in Players :
        LET a == raws[p]
            b == raws[q]
        IN  (statistic = "bestBowling" /\ a.type = "figure" /\ b.type = "figure") =>
               (Beats(p, q) <=> \/ a.wickets > b.wickets
                                \/ a.wickets = b.wickets /\ a.runs < b.runs)

\* A statistic that may be called on a card has a value to compare, although one
\* function looks at the field and the other at the value: the caller of a round
\* is always among those who can win it.
SelectableIsComparable ==
    \A p \in Players : Selectable(p) => values[p] # NoValue /\ statistic # "dateOfBirth"

-----------------------------------------------------------------------------
MCRaws == {Null, Text, Number(-1), Number(0), Number(7)}
            \cup {Figure(w, r) : w \in {0, 1, 10}, r \in {0, 25, 999}}
=============================================================================
