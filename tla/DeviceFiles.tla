----------------------------- MODULE DeviceFiles -----------------------------
(***************************************************************************)
(* Whole databases as files: PalmRuntime's backup and restore, and the     *)
(* install queue (KF6MainWindow::onInstallFiles, InstallSourceCollector,   *)
(* InstallActionPlugin).  KPilotDeviceLink moves one file at a time, and   *)
(* each transfer may fail.                                                 *)
(*                                                                         *)
(* A database's content is a version; Gone is one the device does not      *)
(* have.  The backup folder and the queue hold files by name.              *)
(* PalmSession models who may start a job and when; here they come one     *)
(* after the other, and the Palm's user edits between them.                *)
(***************************************************************************)
EXTENDS Naturals, FiniteSets

CONSTANTS Databases,
          Untransferable,  \* copy-prevented and stream databases
          FileOf,          \* sanitizeForFilesystem(name) + ".pdb"
          Versions,
          Gone

ASSUME DeviceFilesAssumption ==
  /\ Untransferable \subseteq Databases
  /\ DOMAIN FileOf = Databases
  /\ Gone \notin Versions

VARIABLES device,     \* content of each database
          isConnected,
          backup,     \* <profile>/backup
          queue,      \* <profile>/install
          installed,  \* <profile>/install/installed
          job,        \* the backup, restore or installation in progress
          report      \* history: the last job's result, until something changes

filesVars == <<device, isConnected, backup, queue, installed, job, report>>

Files == {FileOf[db] : db \in Databases}
NoFile == [present |-> FALSE]
FileWith(db, version) == [present |-> TRUE, db |-> db, version |-> version]
Present(folder) == {f \in Files : folder[f] # NoFile}
NoJob == [kind |-> "none"]
NoReport == [kind |-> "none"]

FilesInit == /\ device \in [Databases -> Versions \cup {Gone}]
             /\ isConnected = TRUE
             /\ backup = [f \in Files |-> NoFile]
             /\ queue = [f \in Files |-> NoFile]
             /\ installed = [f \in Files |-> NoFile]
             /\ job = NoJob
             /\ report = NoReport

Begin(kind, todo) ==
  /\ job = NoJob
  /\ job' = [kind |-> kind, all |-> todo, todo |-> todo, done |-> {}, ok |-> TRUE]
  /\ report' = NoReport

Done(x) == job' = [job EXCEPT !.todo = @ \ {x}, !.done = @ \cup {x}]
Skipped(x) == job' = [job EXCEPT !.todo = @ \ {x}]

(* A hard failure ends the loop.                                           *)
Broken_Silent == job' = [job EXCEPT !.todo = {}]
Broken == job' = [job EXCEPT !.todo = {}, !.ok = FALSE]

-----------------------------------------------------------------------------
(* Backup.                                                                 *)

(* listDatabases reads until the device answers with an error, which is    *)
(* also how the list ends: a failure half-way gives a shorter list.        *)
ListDatabases == {listed \in SUBSET {db \in Databases : device[db] # Gone} :
                    ~isConnected => listed = {}}

Backup ==
  /\ \E listed \in ListDatabases : Begin("backup", listed)
  /\ UNCHANGED <<device, isConnected, backup, queue, installed>>

(* retrieveDatabase for the next database: it is found and transferred,    *)
(* skipped for its flags, or the transfer fails.  The file is created over *)
(* the one of an earlier backup and removed when the transfer fails.       *)
RetrieveDatabase(db) ==
  /\ job # NoJob /\ job.kind = "backup" /\ db \in job.todo
  /\ \/ /\ isConnected /\ db \in Untransferable
        /\ Skipped(db) /\ UNCHANGED backup
     \/ /\ isConnected /\ db \notin Untransferable
        /\ backup' = [backup EXCEPT ![FileOf[db]] = FileWith(db, device[db])]
        /\ Done(db)
     \/ /\ isConnected /\ db \notin Untransferable
        /\ backup' = [backup EXCEPT ![FileOf[db]] = NoFile]
        /\ Broken
     \/ Broken /\ UNCHANGED backup
  /\ UNCHANGED <<device, isConnected, queue, installed, report>>

-----------------------------------------------------------------------------
(* Restore.                                                                *)

Restore ==
  /\ Begin("restore", Present(backup))
  /\ UNCHANGED <<device, isConnected, backup, queue, installed>>

(* pi_file_install replaces the database of the file; what a failed        *)
(* transfer leaves of it is the old database or nothing.                   *)
PiFileInstall(content) == device' = [device EXCEPT ![content.db] = content.version]
PiFileInstallFails(content) ==
  \/ UNCHANGED device
  \/ isConnected /\ device' = [device EXCEPT ![content.db] = Gone]

InstallFile(f) ==
  /\ job # NoJob /\ job.kind = "restore" /\ f \in job.todo
  /\ \/ isConnected /\ PiFileInstall(backup[f]) /\ Done(f)
     \/ PiFileInstallFails(backup[f]) /\ Broken
  /\ UNCHANGED <<isConnected, backup, queue, installed, report>>

(* Their end is reported to the main thread.                               *)
JobEnds ==
  /\ job # NoJob /\ job.kind \in {"backup", "restore"} /\ job.todo = {}
  /\ job' = NoJob
  /\ report' = [kind |-> job.kind, ok |-> job.ok, all |-> job.all]
  /\ UNCHANGED <<device, isConnected, backup, queue, installed>>

-----------------------------------------------------------------------------
(* The install queue.                                                      *)

(* A file of that name in the queue is removed first; the copy may fail.   *)
OnInstallFiles(f, content) ==
  /\ queue' = [queue EXCEPT ![f] = content]
  /\ UNCHANGED <<device, isConnected, backup, installed, job, report>>

Collect ==
  /\ Present(queue) # {}
  /\ Begin("install", Present(queue))
  /\ UNCHANGED <<device, isConnected, backup, queue, installed>>

(* InstallActionPlugin::execute goes on after a failure.                   *)
Execute(f) ==
  /\ job # NoJob /\ job.kind = "install" /\ f \in job.todo
  /\ \/ isConnected /\ queue[f] # NoFile /\ PiFileInstall(queue[f]) /\ Done(f)
     \/ /\ IF queue[f] = NoFile THEN UNCHANGED device ELSE PiFileInstallFails(queue[f])
        /\ Skipped(f)
  /\ UNCHANGED <<isConnected, backup, queue, installed, report>>

Cancel ==
  /\ job # NoJob /\ job.kind = "install" /\ job.todo # {}
  /\ Broken
  /\ UNCHANGED <<device, isConnected, backup, queue, installed, report>>

(* An older file of that name in installed/ is removed, even if there is   *)
(* nothing left to move.                                                   *)
MoveSucceeded_All ==
  /\ job # NoJob /\ job.kind = "install" /\ job.todo = {}
  /\ installed' = [f \in Files |-> IF f \in job.all THEN queue[f] ELSE installed[f]]
  /\ queue' = [f \in Files |-> IF f \in job.all THEN NoFile ELSE queue[f]]
  /\ job' = NoJob
  /\ UNCHANGED <<device, isConnected, backup, report>>

MoveSucceededToInstalled ==
  /\ job # NoJob /\ job.kind = "install" /\ job.todo = {}
  /\ installed' = [f \in Files |-> IF f \in job.done THEN queue[f] ELSE installed[f]]
  /\ queue' = [f \in Files |-> IF f \in job.done THEN NoFile ELSE queue[f]]
  /\ job' = NoJob
  /\ UNCHANGED <<device, isConnected, backup, report>>

-----------------------------------------------------------------------------
(* The device.                                                             *)

LinkChanges ==
  /\ isConnected' = ~isConnected
  /\ isConnected \/ job = NoJob
  /\ UNCHANGED <<device, backup, queue, installed, job, report>>

PalmUserEdits(db, content) ==
  /\ job = NoJob
  /\ device' = [device EXCEPT ![db] = content]
  /\ report' = NoReport
  /\ UNCHANGED <<isConnected, backup, queue, installed, job>>

FilesNext ==
  \/ Backup
  \/ \E db \in Databases : RetrieveDatabase(db)
  \/ Restore
  \/ \E f \in Files : InstallFile(f)
  \/ JobEnds
  \/ \E db \in Databases, version \in Versions :
        OnInstallFiles(FileOf[db], FileWith(db, version))
  \/ \E f \in Files : queue[f] # NoFile /\ OnInstallFiles(f, NoFile)
  \/ Collect
  \/ \E f \in Files : Execute(f)
  \/ Cancel
  \/ MoveSucceededToInstalled
  \/ LinkChanges
  \/ \E db \in Databases, content \in Versions \cup {Gone} : PalmUserEdits(db, content)

FilesSpec == FilesInit /\ [][FilesNext]_filesVars

-----------------------------------------------------------------------------
OwnFile(db) == \A other \in Databases \ {db} : FileOf[other] # FileOf[db]

(* A job that reports success has done all it set out to do: after a       *)
(* backup the file of every listed database the device lets go (and whose  *)
(* file name is its own) holds that database, after a restore the device   *)
(* has what every file of the backup says, whatever earlier, half-finished *)
(* jobs left in the folder and on the device.                              *)
ReportHonest ==
  /\ report.kind = "backup" /\ report.ok =>
       \A db \in report.all \ Untransferable :
          OwnFile(db) => backup[FileOf[db]] = FileWith(db, device[db])
  /\ report.kind = "restore" /\ report.ok =>
       \A f \in report.all : device[backup[f].db] = backup[f].version

(* A queued file that was not installed stays in the queue for the next    *)
(* pass: it changes by the hand of the user, or goes once its name was     *)
(* installed.                                                              *)
QueueKept ==
  [][\A f \in Files : queue'[f] # queue[f] => job' = job \/ f \in job.done]_filesVars

(* The question before a restore says "All Palm records not in the backup  *)
(* WILL BE DELETED".                                                       *)
RestoreDeletesOthers ==
  report.kind = "restore" /\ report.ok =>
    \A db \in Databases : device[db] # Gone => backup[FileOf[db]] = FileWith(db, device[db])
=============================================================================
