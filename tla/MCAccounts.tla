----------------------------- MODULE MCAccounts -----------------------------
(***************************************************************************)
(* Two people one of whom tries the email or the username of the other.    *)
(***************************************************************************)
EXTENDS Accounts

Form(email, username) == [email |-> email, username |-> username]

MCForms == [d \in Device |->
    IF d = "ann" THEN {Form("a@x", "champ")}
    ELSE {Form("a@x", "bob"), Form("b@x", "champ")}]
=============================================================================
