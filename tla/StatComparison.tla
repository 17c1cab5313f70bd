--------------------------- MODULE StatComparison ---------------------------
(***************************************************************************)
(* The pure comparison rules of stat-comparison.util.ts: which statistics  *)
(* of a card may be called, the number a called statistic is compared by,  *)
(* and who wins a comparison.                                              *)
(*                                                                         *)
(* A raw value of card.statistics is abstracted to what the code           *)
(* distinguishes: nothing (null), a number, a bowling figure (a string of  *)
(* the shape "wickets/runs"), or any other text.                           *)
(***************************************************************************)
EXTENDS Integers

CONSTANT NoValue    \* the null of a comparison value

ASSUME NoValueAssumption == NoValue \notin Int

LOWER_IS_BETTER == {"bowlingAverage", "economyRate", "bowlingStrikeRate"}
NON_SELECTABLE_FIELDS == {"dateOfBirth"}

Null == [type |-> "null"]
Text == [type |-> "text"]
Number(n) == [type |-> "number", value |-> n]
Figure(w, r) == [type |-> "figure", wickets |-> w, runs |-> r]

\* What a raw value can be.
IsRaw(raw) ==
    CASE raw.type = "number" -> raw = Number(raw.value) /\ raw.value \in Int
      [] raw.type = "figure" -> /\ raw = Figure(raw.wickets, raw.runs)
                                /\ raw.wickets \in Nat /\ raw.runs \in Nat
      [] OTHER -> raw \in {Null, Text}

ParsesAsBowlingFigure(raw) == raw.type = "figure"

\* Mutant: an over's worth of runs outweighs a wicket.
scoreOutweighedByRuns(raw) == raw.wickets * 100 - raw.runs

bowlingFigureScore(raw) == raw.wickets * 1000 - raw.runs

\* Mutant: every text on the card may be called.
selectableIfPresent(field, schemaFields, statistics) ==
    field \in schemaFields /\ statistics[field] # Null

isSelectableStatistic(field, schemaFields, statistics) ==
    /\ field \notin NON_SELECTABLE_FIELDS
    /\ field \in schemaFields
    /\ IF field = "bestBowling"
       THEN ParsesAsBowlingFigure(statistics[field])
       ELSE statistics[field].type = "number"

comparisonValue(statistic, raw) ==
    CASE statistic = "bestBowling" /\ ParsesAsBowlingFigure(raw) -> bowlingFigureScore(raw)
      [] statistic # "bestBowling" /\ raw.type = "number" -> raw.value
      [] OTHER -> NoValue

\* v is at least as good a comparison value as w for the statistic.
AtLeastAsGood(statistic, v, w) ==
    IF statistic \in LOWER_IS_BETTER THEN v <= w ELSE v >= w

(***************************************************************************)
(* Every player whose value is the winning extreme: Math.min or Math.max   *)
(* over the values that are not null.                                      *)
(***************************************************************************)
determineWinners(values, statistic) ==
    LET entries == {p \in DOMAIN values : values[p] # NoValue}
    IN  {p \in entries :
            \A q \in entries : AtLeastAsGood(statistic, values[p], values[q])}
=============================================================================
