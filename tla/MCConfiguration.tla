--------------------------- MODULE MCConfiguration ---------------------------
(* The values of the constants of Configuration that a .cfg cannot write:  *)
(* the ids of the wizard's two rows make the same group name.              *)
EXTENDS Configuration

CONSTANTS a1, a2, c1     \* model values

MCGroupOf == [i \in 1 .. MaxRow |-> IF i <= 2 THEN 1 ELSE i]

(* One build makes providers of all accounts, another knows one kind less. *)
MCBuilds == {Accounts, {a1}}
=============================================================================
