------------------------------ MODULE MCRooms -------------------------------
(* Rooms with interchangeable requests. *)
EXTENDS Rooms, TLC

Symmetry == Permutations(Request)
=============================================================================
