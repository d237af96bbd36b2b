----------------------------- MODULE MCWorkbench -----------------------------
(* The values of the constants of Workbench that a .cfg cannot write.      *)
EXTENDS Workbench, TLC

CONSTANTS h1, h2, s1, s2

MCSerialOf == (h1 :> s1) @@ (h2 :> s2)
MCPrefix == {}
=============================================================================
