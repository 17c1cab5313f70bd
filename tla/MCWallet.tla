------------------------------ MODULE MCWallet ------------------------------
(***************************************************************************)
(* Two games whose hosts are each other's second player, so that their     *)
(* transactions meet at two wallets in opposite order; each has a third    *)
(* player of its own.  Whoever plays in both can pay one entry but not     *)
(* the two.                                                                *)
(***************************************************************************)
EXTENDS Wallet

MCSeats == [g \in Game |-> IF g = "g1" THEN <<"ann", "bob", "cy">> ELSE <<"bob", "ann", "dan">>]
MCEntryAmount == [g \in Game |-> IF g = "g1" THEN 2 ELSE 3]
=============================================================================
