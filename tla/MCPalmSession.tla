--------------------------- MODULE MCPalmSession ----------------------------
(* PalmSession with interchangeable run requests and device objects.       *)
EXTENDS PalmSession, TLC

Symmetry == Permutations(Runs) \cup Permutations(Devs)

=============================================================================
