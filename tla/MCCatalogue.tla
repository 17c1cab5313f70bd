---------------------------- MODULE MCCatalogue -----------------------------
(***************************************************************************)
(* Two players who bat and two who bowl, some of whom change their parts;  *)
(* one of three formats has no card set.                                   *)
(***************************************************************************)
EXTENDS Catalogue

Spell(bat, non, bowl, runs, legal, illegal, byes, wicket) ==
    [batter |-> bat, nonStriker |-> non, bowler |-> bowl, runs |-> runs, legal |-> legal,
     illegal |-> illegal, byes |-> byes, total |-> runs + illegal + byes, wicket |-> wicket]

Out(p, kind, fielder) == [out |-> p, kind |-> kind, fielder |-> fielder]

MCSpells ==
    {Spell("a", "b", "c", 60, 30, 1, 0, NoWicket),
     Spell("a", "b", "d", 40, 20, 0, 4, Out("a", "caught", "c")),
     Spell("b", "a", "c", 3, 1, 0, 0, Out("b", "bowled", "none")),
     Spell("b", "a", "d", 9, 6, 0, 0, Out("a", "run out", "c")),
     Spell("c", "d", "a", 0, 0, 1, 0, Out("c", "stumped", "b")),
     Spell("d", "c", "a", 7, 6, 1, 0, Out("d", "stumped", "b"))}

MCSquads == {Person, Person \ {"a"}, Person \ {"d"}}

MCFormats == <<"IPL", "ODI", "T20">>
MCCardSets == <<"IPL", "T20">>
=============================================================================
