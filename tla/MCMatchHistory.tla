--------------------------- MODULE MCMatchHistory ---------------------------
(* MatchHistory on the card set of MCCards. *)
EXTENDS MatchHistory, MCCards
=============================================================================
