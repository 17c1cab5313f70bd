---------------------------- MODULE MCGameClient ----------------------------
(* GameClient on the card set of MCCards. *)
EXTENDS GameClient, MCCards
=============================================================================
