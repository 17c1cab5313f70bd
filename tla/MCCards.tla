------------------------------ MODULE MCCards -------------------------------
(***************************************************************************)
(* A small card set: ties of two and of three cards, ties that a second    *)
(* statistic narrows or does not break, a statistic none of the tied cards *)
(* has, a lower-is-better statistic and a bowling figure.                  *)
(***************************************************************************)
LOCAL INSTANCE Integers

MCNumber(n) == [type |-> "number", value |-> n]
MCFigure(w, r) == [type |-> "figure", wickets |-> w, runs |-> r]
MCNull == [type |-> "null"]
MCText == [type |-> "text"]

MCSchema == {"runs", "economyRate", "bestBowling"}

MCStats(runs, economyRate, bestBowling) ==
    [f \in MCSchema |-> CASE f = "runs" -> runs
                          [] f = "economyRate" -> economyRate
                          [] f = "bestBowling" -> bestBowling]

MCStatistics ==
    [c \in {"anil", "bede", "carl", "dev", "evan"} |->
        CASE c = "anil" -> MCStats(MCNumber(10), MCNumber(9), MCNull)
          [] c = "bede" -> MCStats(MCNumber(10), MCNumber(7), MCFigure(4, 25))
          [] c = "carl" -> MCStats(MCNumber(20), MCNull, MCNull)
          [] c = "dev"  -> MCStats(MCNumber(20), MCNull, MCFigure(4, 25))
          [] c = "evan" -> MCStats(MCNumber(10), MCNumber(7), MCText)]

MCCards3 == {"anil", "carl", "dev"}
MCCards5 == DOMAIN MCStatistics
=============================================================================
