--------------------------- MODULE MCRecordAccess ---------------------------
(* RecordAccess with interchangeable records and handles.                  *)
EXTENDS RecordAccess, TLC

Symmetry == Permutations(Ids) \cup Permutations(Handles) \cup Permutations(Values)

=============================================================================
