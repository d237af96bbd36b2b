------------------------------ MODULE Conflicts ------------------------------
(***************************************************************************)
(* Conflicts on their way between the sync engine and the user.            *)
(*                                                                         *)
(* The engine (libkalburator, external) reports a conflict from its worker *)
(* as an event; the window counts it in the badge and keeps it in          *)
(* m_uiConflictStore.  Any number of non-modal review dialogs work on that *)
(* one store; "Apply Resolutions" carries the decisions to the engine,     *)
(* which replays them in its next run.  One question the worker does ask   *)
(* and wait for, whether to delete many records at once: the presenter of  *)
(* the guard opens a message box on the GUI thread, in a nested event loop *)
(* while the worker is blocked.  The interactive conflict handler is only  *)
(* stored in PalmRuntime; nothing calls it, and it is not modelled.        *)
(***************************************************************************)
EXTENDS Integers, FiniteSets

CONSTANTS Ids,        \* conflicts, by ConflictInfo::conflictId
          Anonymous,  \* those the engine reports with an empty id
          Dialogs,    \* review dialogs that can be open at once
          NoId,       \* the empty m_currentConflictId
          Shut,       \* a dialog that is not open
          MaxBadge    \* bound on the badge's count

ASSUME ConflictsAssumption ==
  /\ Anonymous \subseteq Ids
  /\ NoId \notin Ids
  /\ Shut \notin Ids \cup {NoId}
  /\ MaxBadge \in Nat

VARIABLES store,     \* m_uiConflictStore
          badge,     \* m_pendingConflictCount
          current,   \* m_currentConflictId of each review dialog, or Shut
          question,  \* the modal question of a review dialog
          posted,    \* conflicts reported and not yet delivered to the window
          engine,    \* what the engine knows of each conflict
          ready,     \* m_collectionRuntimeTopologyReady
          prompt     \* the worker's question: none, asked, open, or its answer

vars == <<store, badge, current, question, posted, engine, ready, prompt>>

ReviewDecisions == {"UseSource", "UseTarget", "UseBoth", "Skip"}
Resolutions == {"SourceWins", "TargetWins", "Duplicate", "Skip"}

Absent == [decision |-> "Absent", applied |-> FALSE]
Fresh == [decision |-> "Pending", applied |-> FALSE]
Records == [decision : ReviewDecisions \cup {"Absent", "Pending"}, applied : BOOLEAN]
NoQuestion == "none"
Questions == {"source", "target", "clear"}
Answers == {"Delete", "Keep"}

Init == /\ store = [c \in Ids |-> Absent]
        /\ badge = 0
        /\ current = [d \in Dialogs |-> Shut]
        /\ question = NoQuestion
        /\ posted = {}
        /\ engine = [c \in Ids |-> "none"]
        /\ ready = FALSE
        /\ prompt = "none"

PendingConflicts == {c \in Ids : store[c].decision = "Pending"}
ResolvedUnapplied == {c \in Ids : store[c].decision \in ReviewDecisions /\ ~store[c].applied}
OpenDialogs == {d \in Dialogs : current[d] # Shut}

(* Every change of the store refreshes every open review widget, which     *)
(* rebuilds its list and forgets its selection.                            *)
Refresh == current' = [d \in Dialogs |-> IF current[d] = Shut THEN Shut ELSE NoId]

(* A dialog run by exec() or a message box leaves the user nothing else to *)
(* use; events posted to the window are still delivered.                   *)
UserFree == question = NoQuestion /\ prompt # "open"
WorkerFree == prompt = "none"

-----------------------------------------------------------------------------
(* The engine's worker.                                                    *)

EngineDetects(c) ==
  /\ WorkerFree /\ ready
  /\ c \notin posted /\ engine[c] \notin Resolutions
  /\ badge + Cardinality(posted) < MaxBadge
  /\ posted' = posted \cup {c}
  /\ engine' = [engine EXCEPT ![c] = IF c \in Anonymous THEN @ ELSE "open"]
  /\ UNCHANGED <<store, badge, current, question, ready, prompt>>

EngineReplays ==
  /\ WorkerFree /\ ready
  /\ \E c \in Ids : engine[c] \in Resolutions
  /\ engine' = [c \in Ids |-> IF engine[c] \in Resolutions THEN "none" ELSE engine[c]]
  /\ UNCHANGED <<store, badge, current, question, posted, ready, prompt>>

(* The run blocks until confirmMassDelete returns.                         *)
ConfirmMassDelete ==
  /\ WorkerFree /\ ready
  /\ prompt' = "asked"
  /\ UNCHANGED <<store, badge, current, question, posted, engine, ready>>

WorkerResumes ==
  /\ prompt \in Answers
  /\ prompt' = "none"
  /\ UNCHANGED <<store, badge, current, question, posted, engine, ready>>

(* The message box, in a nested loop of the GUI thread.                    *)
PromptUser ==
  /\ prompt = "asked"
  /\ prompt' = "open"
  /\ UNCHANGED <<store, badge, current, question, posted, engine, ready>>

MassDeleteAnswered(answer) ==
  /\ prompt = "open"
  /\ prompt' = answer
  /\ UNCHANGED <<store, badge, current, question, posted, engine, ready>>

-----------------------------------------------------------------------------
(* The window.                                                             *)

(* toConflictRecord makes up an id for a conflict that has none, so a      *)
(* record of such a conflict is one the engine does not know.              *)
OnConflictDetected(c) ==
  /\ c \in posted
  /\ posted' = posted \ {c}
  /\ badge' = badge + 1
  /\ store' = [store EXCEPT ![c] = Fresh]
  /\ Refresh
  /\ UNCHANGED <<question, engine, ready, prompt>>

(* The badge and the menu action are there while the count is positive.    *)
OnConflictBadgeClicked(d) ==
  /\ UserFree /\ badge > 0
  /\ current[d] = Shut
  /\ current' = [current EXCEPT ![d] = NoId]
  /\ UNCHANGED <<store, badge, question, posted, engine, ready, prompt>>

RemoveAppliedConflicts == [c \in Ids |-> IF store[c].applied THEN Absent ELSE store[c]]

(* What is left to decide: the store's pending count after applied records *)
(* have gone.                                                              *)
DialogFinished_DropsAll(d) ==
  /\ UserFree /\ current[d] # Shut
  /\ store' = [c \in Ids |-> IF store[c].decision = "Pending" THEN store[c] ELSE Absent]
  /\ badge' = Cardinality(PendingConflicts)
  /\ current' = [e \in Dialogs |-> IF e = d \/ current[e] = Shut THEN Shut ELSE NoId]
  /\ UNCHANGED <<question, posted, engine, ready, prompt>>

DialogFinished_Zero(d) ==
  /\ UserFree /\ current[d] # Shut
  /\ store' = RemoveAppliedConflicts
  /\ badge' = 0
  /\ current' = [e \in Dialogs |-> IF e = d \/ current[e] = Shut THEN Shut ELSE NoId]
  /\ UNCHANGED <<question, posted, engine, ready, prompt>>

DialogFinished_Subtracts(d) ==
  /\ UserFree /\ current[d] # Shut
  /\ store' = RemoveAppliedConflicts
  /\ badge' = badge - Cardinality({c \in Ids : store[c].decision \in ReviewDecisions})
  /\ current' = [e \in Dialogs |-> IF e = d \/ current[e] = Shut THEN Shut ELSE NoId]
  /\ UNCHANGED <<question, posted, engine, ready, prompt>>

DialogFinished(d) ==
  /\ UserFree /\ current[d] # Shut
  /\ store' = RemoveAppliedConflicts
  /\ badge' = Cardinality(PendingConflicts)
  /\ current' = [e \in Dialogs |-> IF e = d \/ current[e] = Shut THEN Shut ELSE NoId]
  /\ UNCHANGED <<question, posted, engine, ready, prompt>>

(* UseSource and UseTarget, UseBoth, Merge and Skip have a counterpart;    *)
(* the review dialog offers no other decision and no merge.                *)
ToResolution_Swapped(decision) ==
  CASE decision = "UseSource" -> "TargetWins"
    [] decision = "UseTarget" -> "SourceWins"
    [] decision = "UseBoth"   -> "Duplicate"
    [] decision = "Skip"      -> "Skip"

ToResolution(decision) ==
  CASE decision = "UseSource" -> "SourceWins"
    [] decision = "UseTarget" -> "TargetWins"
    [] decision = "UseBoth"   -> "Duplicate"
    [] decision = "Skip"      -> "Skip"

(* The engine takes a decision on a conflict it has open.                  *)
TakenByEngine == {c \in ResolvedUnapplied : ready /\ engine[c] = "open"}

(* Without a ready topology nothing is taken; if anything is, every        *)
(* resolved record is marked as applied.                                   *)
ApplyConflictResolutionsToEngine ==
  /\ UserFree /\ OpenDialogs # {} /\ ResolvedUnapplied # {}
  /\ engine' = [c \in Ids |-> IF c \in TakenByEngine THEN ToResolution(store[c].decision)
                              ELSE engine[c]]
  /\ IF TakenByEngine = {}
     THEN UNCHANGED <<store, current>>
     ELSE /\ store' = [c \in Ids |-> IF c \in ResolvedUnapplied
                                     THEN [store[c] EXCEPT !.applied = TRUE] ELSE store[c]]
          /\ Refresh
  /\ UNCHANGED <<badge, question, posted, ready, prompt>>

(* A profile is loaded, with a runtime of its own; events already posted   *)
(* to the window still arrive.  Not while the worker waits: what it means  *)
(* to destroy the runtime under a blocked run is up to libkalburator.      *)
LoadProfile ==
  /\ UserFree /\ WorkerFree
  /\ store' = [c \in Ids |-> Absent]
  /\ badge' = 0
  /\ Refresh
  /\ engine' = [c \in Ids |-> "none"]
  /\ ready' = FALSE
  /\ UNCHANGED <<question, posted, prompt>>

TopologyReady ==
  /\ ~ready /\ ready' = TRUE
  /\ UNCHANGED <<store, badge, current, question, posted, engine, prompt>>

-----------------------------------------------------------------------------
(* A review dialog.                                                        *)

OnConflictSelected(d, c) ==
  /\ UserFree /\ current[d] # Shut /\ store[c] # Absent
  /\ current' = [current EXCEPT ![d] = c]
  /\ UNCHANGED <<store, badge, question, posted, engine, ready, prompt>>

(* Another filter rebuilds the list; the selection goes.                   *)
OnFilterChanged(d) ==
  /\ UserFree /\ current[d] \in Ids
  /\ current' = [current EXCEPT ![d] = NoId]
  /\ UNCHANGED <<store, badge, question, posted, engine, ready, prompt>>

(* The buttons are enabled for a selected conflict that is pending.        *)
CanResolve(d) == UserFree /\ current[d] \in PendingConflicts

ResolveCurrentConflict(d, decision) ==
  /\ CanResolve(d)
  /\ store' = [store EXCEPT ![current[d]].decision = decision]
  /\ Refresh
  /\ UNCHANGED <<badge, question, posted, engine, ready, prompt>>

CanReset_Applied(d) ==
  UserFree /\ current[d] \in {c \in Ids : store[c].decision \in ReviewDecisions}

CanReset(d) == UserFree /\ current[d] \in ResolvedUnapplied

OnResetToPending(d) ==
  /\ CanReset(d)
  /\ store' = [store EXCEPT ![current[d]] = Fresh]
  /\ Refresh
  /\ UNCHANGED <<badge, question, posted, engine, ready, prompt>>

(* The batch buttons ask first; the count in the question is that of the   *)
(* moment it is asked.                                                     *)
AskBatch(d, q) ==
  /\ UserFree /\ current[d] # Shut
  /\ IF q = "clear" THEN ResolvedUnapplied # {} ELSE PendingConflicts # {}
  /\ question' = q
  /\ UNCHANGED <<store, badge, current, posted, engine, ready, prompt>>

QuestionOnTop == question # NoQuestion /\ prompt # "open"

AnswerNo ==
  /\ QuestionOnTop
  /\ question' = NoQuestion
  /\ UNCHANGED <<store, badge, current, posted, engine, ready, prompt>>

(* resolveAll decides what is pending by the time of the answer.           *)
ResolveAll ==
  /\ QuestionOnTop /\ question \in {"source", "target"}
  /\ store' = [c \in Ids |-> IF c \in PendingConflicts
                             THEN [decision |-> IF question = "source" THEN "UseSource"
                                                ELSE "UseTarget",
                                   applied |-> FALSE]
                             ELSE store[c]]
  /\ question' = NoQuestion
  /\ Refresh
  /\ UNCHANGED <<badge, posted, engine, ready, prompt>>

ClearResolved ==
  /\ QuestionOnTop /\ question = "clear"
  /\ store' = [c \in Ids |-> IF c \in PendingConflicts THEN store[c] ELSE Absent]
  /\ question' = NoQuestion
  /\ Refresh
  /\ UNCHANGED <<badge, posted, engine, ready, prompt>>

-----------------------------------------------------------------------------
Engine ==
  \/ \E c \in Ids : EngineDetects(c)
  \/ EngineReplays
  \/ ConfirmMassDelete
  \/ WorkerResumes

Prompt == PromptUser \/ \E answer \in Answers : MassDeleteAnswered(answer)

Window ==
  \/ \E c \in Ids : OnConflictDetected(c)
  \/ \E d \in Dialogs : OnConflictBadgeClicked(d) \/ DialogFinished(d)
  \/ ApplyConflictResolutionsToEngine
  \/ LoadProfile
  \/ TopologyReady

Review ==
  \/ \E d \in Dialogs, c \in Ids : OnConflictSelected(d, c)
  \/ \E d \in Dialogs, decision \in ReviewDecisions : ResolveCurrentConflict(d, decision)
  \/ \E d \in Dialogs : OnFilterChanged(d) \/ OnResetToPending(d)
  \/ \E d \in Dialogs, q \in Questions : AskBatch(d, q)
  \/ AnswerNo
  \/ ResolveAll
  \/ ClearResolved

Next == Engine \/ Prompt \/ Window \/ Review

Spec == Init /\ [][Next]_vars

-----------------------------------------------------------------------------
(* Types of the window's and the worker's state.                           *)
TypeOK == /\ store \in [Ids -> Records]
          /\ badge \in Nat
          /\ current \in [Dialogs -> Ids \cup {NoId, Shut}]
          /\ question \in Questions \cup {NoQuestion}
          /\ posted \subseteq Ids
          /\ engine \in [Ids -> {"none", "open"} \cup Resolutions]
          /\ ready \in BOOLEAN
          /\ prompt \in {"none", "asked", "open"} \cup Answers

(* The badge counts reports and is set right only when a dialog ends, and  *)
(* it is the only way to a dialog: with no dialog open, it must not be     *)
(* hidden while conflicts are pending, nor promise fewer than there are.   *)
NoConflictHidden ==
  OpenDialogs = {} => Cardinality(PendingConflicts) <= badge

Delivered(c) == c \in posted /\ c \notin posted'

(* Once applied, a decision is not taken back from any dialog, though the  *)
(* dialogs share the store: it goes only with its record, or when the      *)
(* engine reports the conflict again.                                      *)
AppliedStays ==
  [][\A c \in Ids : store[c].applied /\ ~Delivered(c)
                     => store'[c] \in {store[c], Absent}]_vars

(* A decision that was not applied yet leaves the store only by a yes to   *)
(* "Clear Resolved", with its profile, or when its conflict is reported    *)
(* again; closing a dialog keeps it.                                       *)
DecisionKept ==
  [][\A c \in ResolvedUnapplied :
        \/ store'[c].decision # "Absent"
        \/ question = "clear"
        \/ \A i \in Ids : store'[i] = Absent /\ engine'[i] = "none"]_vars

(* Every conflict the window marks as applied is one the engine took a     *)
(* decision on.                                                            *)
AppliedTaken ==
  [][\A c \in Ids : ~store[c].applied /\ store'[c].applied
                     => engine'[c] \in Resolutions]_vars
=============================================================================
