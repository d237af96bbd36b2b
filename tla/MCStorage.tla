------------------------------- MODULE MCStorage -------------------------------
(* What is kept on disk beside the configuration: whole databases as files,   *)
(* and the journal.  They share no state: a behaviour is of one or the other. *)
EXTENDS DeviceFiles, Journal, TLC

VARIABLE part

DbNames == {"Memo:DB", "Memo/DB", "Launcher", "Apps"}
FileNames == [db \in DbNames |-> IF db \in {"Memo:DB", "Memo/DB"} THEN "Memo_DB.pdb" ELSE db]

StorageInit == FilesInit /\ Init /\ part \in {"backup", "install", "journal"}
               /\ (part # "backup" => device = [db \in Databases |-> Gone])
StorageNext ==
  \/ part # "journal" /\ FilesNext /\ UNCHANGED <<part, vars>>
  \/ part = "journal" /\ Next /\ UNCHANGED <<part, filesVars>>
StorageSpec == StorageInit /\ [][StorageNext]_<<part, vars, filesVars>>

(* Bounds: a behaviour has backups and restores, or a queue.  With the queue, *)
(* the databases are those it installed.                                      *)
PartBound ==
  /\ part = "backup" => Present(queue) = {}
  /\ part = "install" => /\ Present(backup) = {} /\ job.kind \in {"none", "install"}
                         /\ Cardinality({db \in Databases : device[db] # Gone}) <= 1
                         /\ Cardinality(Present(installed)) <= 1
=============================================================================
