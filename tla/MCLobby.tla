------------------------------ MODULE MCLobby -------------------------------
(* Lobby for TLC: the constants are in the configuration. *)
EXTENDS Lobby
=============================================================================
