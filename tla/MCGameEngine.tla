---------------------------- MODULE MCGameEngine ----------------------------
(* GameEngine on the card set of MCCards. *)
EXTENDS GameEngine, MCCards
=============================================================================
