------------------------------ MODULE Dashboard ------------------------------
(***************************************************************************)
(* The status panel: SyncStatusModel, which DashboardWidget draws, under   *)
(* the signals of PalmRuntime, PalmDeviceMonitor and the main window.      *)
(*                                                                         *)
(* PalmRuntime is abstracted to the signals it sends and the state its     *)
(* guards read; PalmSession models it.  Signals emitted on the main thread *)
(* are calls, those of the link thread and of an engine's run are queued   *)
(* to main.  A queued signal goes to each of its receivers by itself: the  *)
(* end of a run reaches m_running first, then the window, then the panel,  *)
(* and another thread's signal can come between any two.                   *)
(***************************************************************************)
EXTENDS Integers, Sequences, FiniteSets

CONSTANTS
    Mappings,     \* the enabled mappings, one chip each
    Labels,       \* the modes of a run: HotSync, Backup, ...
    NoLabel,
    MaxRuns,      \* bound: runs asked for
    MaxConnects   \* bound: connection attempts

ASSUME DashboardAssumption ==
    /\ NoLabel \notin Labels
    /\ MaxRuns \in Nat /\ MaxConnects \in Nat

VARIABLES
    access,    \* m_device: none, idle, connecting or connected
    running,   \* m_running
    run,       \* the run that an engine has
    posted,    \* signals queued to main
    panel,     \* the SyncStatusModel
    asked,     \* [runs, connects]: counted against the bounds
    last,      \* history: the label and result of the last run that ended
    blind,     \* history: the panel was led to "connected" by a run asked for
               \* without a link, or by a result that came too late
    abandoned, \* history: the runtime was replaced while the panel showed a run
    overlapped \* history: a run was asked for while an end was on its way

panelVars == <<access, running, run, posted, panel, asked, last, blind, abandoned, overlapped>>

LinkStates == {"listening", "detected", "handshaking", "connected", "syncing", "disconnected"}
ChipStates == {"pending", "done", "error"}
NoRun == [st |-> "none"]
NoDigest == [valid |-> FALSE]
Digest(label, ok) == [valid |-> TRUE, label |-> label, success |-> ok]
Pending == [m \in Mappings |-> "pending"]

PanelInit ==
    /\ access = "none" /\ running = FALSE /\ run = NoRun /\ posted = <<>>
    /\ panel = [link |-> "listening", chips |-> Pending, digest |-> NoDigest,
                label |-> NoLabel, error |-> FALSE]
    /\ asked = [runs |-> 0, connects |-> 0]
    /\ last = NoDigest /\ blind = FALSE /\ abandoned = FALSE /\ overlapped = FALSE

-----------------------------------------------------------------------------
(* The slots of SyncStatusModel.  Nothing emits mappingSyncStarted or      *)
(* mappingSyncProgress: no chip is ever active, nor interrupted.           *)

SetState(p, s) == [p EXCEPT !.link = s]

OnDeviceDetected(p) ==
    IF p.link \in {"listening", "disconnected"} THEN SetState(p, "detected") ELSE p

OnDeviceLost(p) == SetState(p, "disconnected")

OnConnectionStarted(p) == SetState(p, "handshaking")

OnConnectionComplete(p, ok) ==
    IF ok THEN SetState([p EXCEPT !.error = FALSE], "connected")
    ELSE SetState([p EXCEPT !.error = TRUE], "listening")

OnRunStarted_OldLabel(p, label) ==
    SetState([p EXCEPT !.label = IF @ = NoLabel THEN label ELSE @, !.error = FALSE,
                       !.chips = Pending, !.digest = NoDigest], "syncing")

OnRunStarted(p, label) ==
    SetState([p EXCEPT !.label = label, !.error = FALSE,
                       !.chips = Pending, !.digest = NoDigest], "syncing")

(* Only return to connected if the link was not lost in the run.           *)
OnRunFinished_Connects(p, ok) ==
    SetState([p EXCEPT !.digest = Digest(p.label, ok), !.error = @ \/ ~ok], "connected")

OnRunFinished(p, ok) ==
    LET q == [p EXCEPT !.digest = Digest(p.label, ok), !.error = @ \/ ~ok] IN
    IF p.link = "syncing" THEN SetState(q, "connected") ELSE q

OnMappingSyncFinished(p, m, ok) ==
    [p EXCEPT !.chips[m] = IF ok THEN "done" ELSE "error"]

(* What the button of the panel asks for: a sync, a cancel, or nothing.    *)
PrimaryAction(p) ==
    CASE p.link = "connected" -> "sync" [] p.link = "syncing" -> "cancel" [] OTHER -> "none"

(* pushProfileInfoToStatusModel: the chips start again.                    *)
SeedConduits(p) == [p EXCEPT !.chips = Pending]

-----------------------------------------------------------------------------
(* The link.                                                               *)

Signal(t) == [t |-> t]
Post(s) == posted' = posted \o s

Connect ==
    /\ asked.connects < MaxConnects /\ asked' = [asked EXCEPT !.connects = @ + 1]
    /\ access \in {"none", "idle"}
    /\ access' = "connecting"
    /\ panel' = OnConnectionStarted(panel) /\ blind' = FALSE
    /\ UNCHANGED <<running, run, posted, last, abandoned, overlapped>>

AttemptEnds(ok) ==
    /\ access = "connecting"
    /\ access' = IF ok THEN "connected" ELSE "idle"
    /\ Post(<<Signal(IF ok THEN "ok" ELSE "fail")>>)
    /\ UNCHANGED <<running, run, panel, asked, last, blind, abandoned, overlapped>>

LinkLost ==
    /\ access = "connected"
    /\ access' = "idle" /\ Post(<<Signal("down")>>)
    /\ UNCHANGED <<running, run, panel, asked, last, blind, abandoned, overlapped>>

(* disconnectDevice; the result of an attempt that is still running may    *)
(* have been queued.                                                       *)
Dropped(queue) ==
    /\ access' = "none"
    /\ posted' \in CASE access = "connected"  -> {Append(queue, Signal("down"))}
                     [] access = "connecting" -> {queue, Append(queue, Signal("fail")),
                                                  Append(queue, Signal("ok")),
                                                  queue \o <<Signal("ok"), Signal("down")>>}
                     [] OTHER -> {queue}

Disconnect ==
    /\ access # "none" /\ ~running
    /\ Dropped(posted)
    /\ UNCHANGED <<running, run, panel, asked, last, blind, abandoned, overlapped>>

(* palmDetected and palmDisconnected of the monitor.                       *)
UsbPlugged ==
    /\ panel' = OnDeviceDetected(panel)
    /\ UNCHANGED <<access, running, run, posted, asked, last, blind, abandoned, overlapped>>

UsbUnplugged ==
    /\ panel' = OnDeviceLost(panel) /\ blind' = FALSE
    /\ UNCHANGED <<access, running, run, posted, asked, last, abandoned, overlapped>>

-----------------------------------------------------------------------------
(* Runs.                                                                   *)

(* onPalmRunFinished: a success stamps the profile and pushes its          *)
(* information; the profile's policy may be to disconnect, which the       *)
(* runtime refuses during a run.                                           *)
WindowFinished(ok, up, queue) ==
    \/ posted' = queue /\ UNCHANGED access
    \/ ~up /\ Dropped(queue)

Pushed(p, ok) == IF ok THEN SeedConduits(p) ELSE p

(* An end that m_running, the window or the panel has yet to hear of.      *)
Ending == run # NoRun \/ \E i \in DOMAIN posted : posted[i].t \in {"running", "window", "panel"}

(* The window asks when there is a device object and no run.               *)
Asks == /\ access # "none" /\ ~running
        /\ asked.runs < MaxRuns /\ asked' = [asked EXCEPT !.runs = @ + 1]
        /\ overlapped' = (overlapped \/ Ending)

(* Sync Now, a menu action or the auto-sync shot; the engine takes the run.*)
Start(label) ==
    /\ Asks
    /\ running' = TRUE /\ run' = [st |-> "active", label |-> label]
    /\ panel' = OnRunStarted(panel, label)
    /\ blind' = (access # "connected")
    /\ UNCHANGED <<access, posted, last, abandoned>>

Rejected_Stranded(label) ==
    /\ Asks
    /\ last' = Digest(label, FALSE)
    /\ panel' = OnRunStarted(panel, label)
    /\ blind' = (access # "connected")
    /\ WindowFinished(FALSE, FALSE, posted)
    /\ UNCHANGED <<running, run, abandoned>>

(* No mapping, no committed topology, no link: the pair of signals is      *)
(* emitted before the call returns.                                        *)
Rejected(label) ==
    /\ Asks
    /\ last' = Digest(label, FALSE)
    /\ panel' = OnRunFinished(OnRunStarted(panel, label), FALSE)
    /\ blind' = (access # "connected")
    /\ WindowFinished(FALSE, FALSE, posted)
    /\ UNCHANGED <<running, run, abandoned>>

(* The continuation of an engine's run posts the mappings' results and     *)
(* then runFinished, receiver by receiver.                                 *)
RunEnds ==
    /\ run.st = "active"
    /\ \E ok \in BOOLEAN, results \in [Mappings -> BOOLEAN] :
         /\ ok => \A m \in Mappings : results[m]
         /\ run' = [st |-> "window", label |-> run.label, ok |-> ok]
         /\ Post(<<[t |-> "mappings", results |-> results], Signal("running")>>)
         /\ last' = Digest(run.label, ok)
    /\ UNCHANGED <<access, running, panel, asked, blind, abandoned, overlapped>>

PostsOn ==
    /\ run.st \in {"window", "panel"}
    /\ Post(<<[t |-> run.st, ok |-> run.ok]>>)
    /\ run' = IF run.st = "window" THEN [run EXCEPT !.st = "panel"] ELSE NoRun
    /\ UNCHANGED <<access, running, panel, asked, last, blind, abandoned, overlapped>>

(* A backup or a restore ends in a call queued to main.                    *)
RawRunEnds(ok) ==
    /\ run.st = "active"
    /\ run' = NoRun /\ running' = FALSE
    /\ last' = Digest(run.label, ok)
    /\ panel' = OnRunFinished(Pushed(panel, ok), ok)
    /\ WindowFinished(ok, FALSE, posted)
    /\ UNCHANGED <<asked, blind, abandoned, overlapped>>

-----------------------------------------------------------------------------
(* The event loop.                                                         *)

Handle ==
    /\ posted # <<>>
    /\ LET s == Head(posted)
           rest == Tail(posted) IN
       \/ /\ s.t = "ok"
          /\ panel' = OnConnectionComplete(panel, TRUE) /\ blind' = (access # "connected")
          /\ posted' = rest /\ UNCHANGED <<access, running>>
       \/ /\ s.t = "fail"
          /\ panel' = OnConnectionComplete(panel, FALSE) /\ blind' = FALSE
          /\ posted' = rest /\ UNCHANGED <<access, running>>
       \/ /\ s.t = "down"
          /\ panel' = OnDeviceLost(panel) /\ blind' = FALSE
          /\ posted' = rest /\ UNCHANGED <<access, running>>
       \/ /\ s.t = "mappings"
          /\ panel' = [panel EXCEPT !.chips = [m \in Mappings |->
                         OnMappingSyncFinished(panel, m, s.results[m]).chips[m]]]
          /\ posted' = rest /\ UNCHANGED <<access, running, blind>>
       \/ /\ s.t = "running"
          /\ running' = FALSE
          /\ posted' = rest /\ UNCHANGED <<access, panel, blind>>
       \/ /\ s.t = "window"
          /\ panel' = Pushed(panel, s.ok)
          /\ WindowFinished(s.ok, running, rest) /\ UNCHANGED <<running, blind>>
       \/ /\ s.t = "panel"
          /\ panel' = OnRunFinished(panel, s.ok)
          /\ posted' = rest /\ UNCHANGED <<access, running, blind>>
    /\ UNCHANGED <<run, asked, last, abandoned, overlapped>>

(* loadProfile makes another runtime.  What was queued to the old one goes *)
(* with it, what was queued to the window and the panel does not.          *)
ForUs(queue) ==
    LET kept == {k \in DOMAIN queue : queue[k].t \in {"mappings", "window", "panel"}}
        Nth(i) == CHOOSE k \in kept : Cardinality({j \in kept : j < k}) = i - 1
    IN  [i \in 1..Cardinality(kept) |-> queue[Nth(i)]]

LoadProfile ==
    /\ access' = "none" /\ running' = FALSE /\ run' = NoRun
    /\ posted' = ForUs(posted)
    /\ panel' = SeedConduits(panel)
    /\ blind' = (panel.link \in {"connected", "syncing"})
    /\ abandoned' = (panel.link = "syncing")
    /\ UNCHANGED <<asked, last, overlapped>>

PanelNext ==
    \/ Connect \/ LinkLost \/ Disconnect \/ UsbPlugged \/ UsbUnplugged
    \/ \E ok \in BOOLEAN : AttemptEnds(ok) \/ RawRunEnds(ok)
    \/ \E label \in Labels : Start(label) \/ Rejected(label)
    \/ RunEnds \/ PostsOn \/ Handle \/ LoadProfile

(* Runs end and the main loop turns.                                       *)
PanelSpec == PanelInit /\ [][PanelNext]_panelVars
             /\ WF_panelVars(RunEnds \/ \E ok \in BOOLEAN : RawRunEnds(ok))
             /\ WF_panelVars(PostsOn) /\ WF_panelVars(Handle)

-----------------------------------------------------------------------------
Signals ==
    {Signal(t) : t \in {"ok", "fail", "down", "running"}}
    \cup [t : {"mappings"}, results : [Mappings -> BOOLEAN]]
    \cup [t : {"window", "panel"}, ok : BOOLEAN]

(* Every variable keeps to its type.                                       *)
PanelTypeOK ==
    /\ access \in {"none", "idle", "connecting", "connected"}
    /\ {running, blind, abandoned, overlapped} \subseteq BOOLEAN
    /\ run \in {NoRun} \cup [st : {"active"}, label : Labels]
              \cup [st : {"window", "panel"}, label : Labels, ok : BOOLEAN]
    /\ posted \in Seq(Signals)
    /\ panel \in [link : LinkStates, chips : [Mappings -> ChipStates], error : BOOLEAN,
                  digest : {NoDigest} \cup [valid : {TRUE}, label : Labels, success : BOOLEAN],
                  label : Labels \cup {NoLabel}]
    /\ asked \in [runs : Nat, connects : Nat]
    /\ last \in {NoDigest} \cup [valid : {TRUE}, label : Labels, success : BOOLEAN]

(* "A runStarted with no runFinished leaves the dashboard in its Syncing   *)
(* state forever" (palmruntime.cpp): the panel leaves that state, whatever *)
(* else it is told meanwhile, unless the runtime was replaced under it.    *)
SyncingEnds == (panel.link = "syncing") ~> (panel.link # "syncing" \/ abandoned)

(* With no run going on, the summary in the headline is that of the last   *)
(* run: its mode and its result, unless two runs' signals overlapped.      *)
DigestRight ==
    ~running /\ ~Ending /\ ~overlapped /\ panel.digest.valid => panel.digest = last

(* When the panel says that the device is connected and offers a sync, it  *)
(* is, once every signal has arrived; a run that outlives its link does    *)
(* not bring the panel back.  The ways it is misled are in `blind'.        *)
ConnectedHonest ==
    posted = <<>> /\ ~blind /\ PrimaryAction(panel) = "sync" => access = "connected"

(* A chip that tells what became of its mapping in a run goes on telling   *)
(* it until the next run or another profile.  The window resets it: after  *)
(* a successful run it pushes the profile's information.                   *)
ChipsTell ==
    [][\A m \in Mappings : panel.chips[m] # "pending" /\ panel'.chips[m] = "pending"
                     => asked'.runs # asked.runs \/ LoadProfile]_panelVars
=============================================================================
