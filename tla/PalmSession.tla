---------------------------- MODULE PalmSession -----------------------------
(***************************************************************************)
(* A session of PalmRuntime under its main window: connecting and dropping *)
(* the device, and the runs that use it.                                   *)
(*                                                                         *)
(* Everything here happens on the main thread, whose event loop also turns *)
(* inside a modal dialog, except the end of a connection attempt (link     *)
(* thread), the tickle's report of a lost device, and the runs themselves  *)
(* (engine or thread pool).  One PalmDeviceAccess is abstracted to what    *)
(* DeviceAccess shows of it; `Devs' numbers the objects in the order the   *)
(* runtime creates them.                                                   *)
(***************************************************************************)
EXTENDS Integers, Sequences

CONSTANTS
    Runs,                 \* the run requests
    NoRun,                \* no request
    Devs,                 \* the PalmDeviceAccess objects
    NoDev,                \* a null m_device
    MaxConnects,          \* bound: connectDevice calls that do something
    Dialogs,              \* modal dialogs the user opens: "restore", "clobber"
    AutoSync,             \* Profile::autoSyncOnConnect
    Policies              \* what the user sets Profile::connectionMode to, at
                          \* any time: some of "keepAlive", "disconnect"

ASSUME ConstantsAssumption ==
    /\ NoRun \notin Runs /\ NoDev \notin Devs
    /\ MaxConnects \in Nat
    /\ Dialogs \subseteq {"restore", "clobber"}
    /\ AutoSync \in BOOLEAN
    /\ Policies \subseteq {"keepAlive", "disconnect"} /\ Policies # {}

VARIABLES
    device,    \* m_device
    access,    \* the state of each PalmDeviceAccess
    tickle,    \* its tickle: "on"; "paused" by a backup or a restore; stopped
               \* by a DLP "error"; "off" when it gave up, or there is none
    signals,   \* signals queued to main: of PalmDeviceAccess objects, or the
               \* window's share ("over") of a runFinished
    bound,     \* the object the backends of the committed topology borrow;
               \* NoDev until m_collectionRuntimeTopologyReady
    running,   \* m_running
    run,       \* the state of each run request
    fin,       \* runFinished emissions for each request
    comp,      \* syncCompleted emissions for each request
    dialog,    \* the modal dialog that is open
    timers,    \* queued single shots of onHotSync
    mainDlp,   \* the device the main thread itself is talking to
    connects   \* connectDevice calls counted against MaxConnects

vars == <<device, access, tickle, signals, bound, running, run, fin, comp,
          dialog, timers, mainDlp, connects>>

devVars == <<device, access, tickle, signals>>
runVars == <<running, run, fin, comp>>
uiVars  == <<dialog, timers, mainDlp>>

-----------------------------------------------------------------------------
Signal(t, d) == [t |-> t, d |-> d]
InFlight(r) == run[r].st \in {"active", "posted"}
IsOver(r) == run[r].st \in {"done", "orphaned"}
Loop == mainDlp = NoDev    \* main is in its event loop

(* The runtime has a device and it is connected: PalmDeviceAccess          *)
(* ::isConnected, which also guards the lease the engine takes on it.      *)
Up == device # NoDev /\ access[device] = "connected"

Init ==
    /\ device = NoDev
    /\ access = [d \in Devs |-> "unused"]
    /\ tickle = [d \in Devs |-> "off"]
    /\ signals = <<>>
    /\ bound = NoDev
    /\ running = FALSE
    /\ run = [r \in Runs |-> [st |-> "free", kind |-> "engine", dev |-> NoDev,
                             lease |-> "stale"]]
    /\ fin = [r \in Runs |-> 0] /\ comp = [r \in Runs |-> 0]
    /\ dialog = "none" /\ timers = 0 /\ mainDlp = NoDev
    /\ connects = 0

-----------------------------------------------------------------------------
(* Connecting and disconnecting.                                           *)

(* PalmRuntime::connectDevice: creates the object when there is none, and  *)
(* starts an attempt on it unless it is connecting or connected.           *)
StartConnection ==
    /\ Loop /\ dialog = "none"
    /\ connects < MaxConnects /\ connects' = connects + 1
    /\ \E d \in Devs :
         /\ \/ device = NoDev /\ access[d] = "unused"
            \/ device = d /\ access[d] = "idle"
         /\ device' = d
         /\ access' = [access EXCEPT ![d] = "connecting"]
    /\ UNCHANGED <<tickle, signals, bound, runVars, uiVars>>

(* The attempt ends on the link thread and its completion is queued; that  *)
(* of a failure changes nothing here.                                      *)
AttemptEnds(d) ==
    /\ access[d] = "connecting"
    /\ \/ /\ access' = [access EXCEPT ![d] = "connected"]
          /\ tickle' = [tickle EXCEPT ![d] = "on"]
          /\ signals' = Append(signals, Signal("ok", d))
       \/ /\ access' = [access EXCEPT ![d] = "idle"]
          /\ UNCHANGED <<tickle, signals>>
    /\ UNCHANGED <<device, bound, runVars, uiVars, connects>>

(* PalmTickle gives the device up.  That takes it fifteen seconds, so one  *)
(* report is handled before another is made.                               *)
DeviceLost(d) ==
    /\ access[d] = "connected" /\ tickle[d] = "on"
    /\ \A i \in DOMAIN signals : signals[i] # Signal("lost", d)
    /\ tickle' = [tickle EXCEPT ![d] = "off"]
    /\ signals' = Append(signals, Signal("lost", d))
    /\ UNCHANGED <<device, access, bound, runVars, uiVars, connects>>

(* Any DLP error of the link, of whatever call, stops the tickle, and      *)
(* nobody is told.                                                         *)
LinkError(d) ==
    /\ access[d] = "connected" /\ tickle[d] = "on"
    /\ tickle' = [tickle EXCEPT ![d] = "error"]
    /\ UNCHANGED <<device, access, signals, bound, runVars, uiVars, connects>>

(* disconnectDevice and then the destructor of object `d': an attempt that *)
(* was still running may have queued its success.  Reports that a device   *)
(* is down change nothing here.                                            *)
Leftovers(d) == IF access[d] = "connecting" THEN {<<>>, <<Signal("ok", d)>>} ELSE {<<>>}

Destroy(d, queued) ==
    /\ access' = [access EXCEPT ![d] = "destroyed"]
    /\ \E s \in Leftovers(d) : signals' = queued \o s

(* Mutant: the refusal is lost.                                            *)
RuntimeDisconnect_Always(up, queued) ==
    IF device = NoDev
    THEN signals' = queued /\ UNCHANGED <<device, access>>
    ELSE Destroy(device, queued) /\ device' = NoDev

(* PalmRuntime::disconnectDevice, refused while a run is in flight;        *)
(* `queued' is what is queued to main already.                             *)
RuntimeDisconnect(up, queued) ==
    IF up \/ device = NoDev
    THEN signals' = queued /\ UNCHANGED <<device, access>>
    ELSE Destroy(device, queued) /\ device' = NoDev

(* What onPalmRunFinished does to the device, per profile policy.          *)
AfterRun(up, queued) ==
    \/ "disconnect" \in Policies /\ RuntimeDisconnect(up, queued)
    \/ "keepAlive" \in Policies /\ signals' = queued /\ UNCHANGED <<device, access>>

(* The Disconnect action: first DLP EndOfSync from the main thread, when   *)
(* the link is up, then the runtime's disconnect.                          *)
UserDisconnect ==
    /\ Loop /\ dialog = "none" /\ device # NoDev
    /\ \/ /\ access[device] = "connected"
          /\ mainDlp' = device
          /\ UNCHANGED devVars
       \/ RuntimeDisconnect(running, signals) /\ UNCHANGED <<tickle, mainDlp>>
    /\ UNCHANGED <<bound, runVars, dialog, timers, connects>>

EndSyncReturns ==
    /\ mainDlp # NoDev
    /\ mainDlp' = NoDev
    /\ RuntimeDisconnect(running, signals)
    /\ UNCHANGED <<tickle, bound, runVars, dialog, timers, connects>>

(* onAutoDeviceDetected: an idle session is dropped for the new device.    *)
AutoDetect ==
    /\ Loop /\ ~running
    /\ connects < MaxConnects /\ connects' = connects + 1
    /\ \E d \in Devs :
         /\ access[d] = "unused"
         /\ device' = d
         /\ IF device = NoDev
            THEN access' = [access EXCEPT ![d] = "connecting"] /\ UNCHANGED signals
            ELSE /\ access' = [access EXCEPT ![device] = "destroyed",
                                             ![d] = "connecting"]
                 /\ \E s \in Leftovers(device) : signals' = signals \o s
    /\ UNCHANGED <<tickle, bound, runVars, uiVars>>

(* loadProfile: the window replaces the runtime, running or not, and with  *)
(* it the device and the committed topology.  What is queued to either is  *)
(* dropped, and the end of a run that is in flight reaches nobody.         *)
LoadProfile ==
    /\ Loop
    /\ device' = NoDev /\ bound' = NoDev /\ running' = FALSE
    /\ access' = [d \in Devs |-> IF d = device THEN "destroyed" ELSE access[d]]
    /\ signals' = [i \in DOMAIN signals |->
                      IF signals[i].t = "over" THEN signals[i] ELSE Signal("gone", NoDev)]
    /\ run' = [r \in Runs |-> IF InFlight(r) THEN [run[r] EXCEPT !.st = "orphaned"]
                                            ELSE run[r]]
    /\ UNCHANGED <<tickle, fin, comp, uiVars, connects>>

(* finishConnect: the topology is committed over the current device, or it *)
(* is not (the one of an earlier device then stays ready); deviceConnected *)
(* and readyForSync follow either way, and onReadyForSync may queue a      *)
(* HotSync.                                                                *)
FinishConnect ==
    /\ signals # <<>> /\ Head(signals).t = "ok" /\ device # NoDev
    /\ signals' = Tail(signals)
    /\ bound' \in {device, bound}
    /\ timers' = IF AutoSync THEN timers + 1 ELSE timers
    /\ UNCHANGED <<device, access, tickle>>

(* connectionLost runs PalmDeviceAccess::disconnectDevice, whatever the    *)
(* runtime is doing; it was dropped if the object is gone.                 *)
HandleLost ==
    /\ signals # <<>> /\ Head(signals).t = "lost"
    /\ LET d == Head(signals).d IN
       /\ tickle' = [tickle EXCEPT ![d] = "off"]
       /\ access' = IF access[d] = "connected" THEN [access EXCEPT ![d] = "idle"]
                                               ELSE access
    /\ signals' = Tail(signals)
    /\ UNCHANGED <<device, bound, timers>>

(* onPalmRunFinished after a run that ended on an engine thread.           *)
HandleOver ==
    /\ signals # <<>> /\ Head(signals).t = "over"
    /\ AfterRun(running, Tail(signals))
    /\ UNCHANGED <<tickle, bound, timers>>

NoEffect ==
    /\ signals # <<>>
    /\ Head(signals).t = "gone" \/ (Head(signals).t = "ok" /\ device = NoDev)
    /\ signals' = Tail(signals)
    /\ UNCHANGED <<device, access, tickle, bound, timers>>

HandleSignal ==
    /\ Loop
    /\ FinishConnect \/ HandleLost \/ HandleOver \/ NoEffect
    /\ UNCHANGED <<runVars, dialog, mainDlp, connects>>

-----------------------------------------------------------------------------
(* Runs.                                                                   *)

(* `d' is the object the run works on: the raw link's, or the one the      *)
(* engine's backends borrow.  Its lease is current when that is m_device.  *)
Set(r, st, kind, d) ==
    run' = [run EXCEPT ![r] = [st |-> st, kind |-> kind, dev |-> d,
                               lease |-> IF d = device THEN "current" ELSE "stale"]]

(* Mutant: nothing listens to runFinished on behalf of m_running.          *)
Finished_StillRunning(r) ==
    /\ fin' = [fin EXCEPT ![r] = @ + 1]
    /\ comp' = [comp EXCEPT ![r] = @ + 1]
    /\ UNCHANGED running

(* runFinished, then syncCompleted.  m_running falls first, then the       *)
(* window may disconnect, per profile policy: at once when the signal is   *)
(* emitted on main, through the queue when it comes from another thread.   *)
Finished(r) ==
    /\ fin' = [fin EXCEPT ![r] = @ + 1]
    /\ comp' = [comp EXCEPT ![r] = @ + 1]
    /\ running' = FALSE

OnMain == AfterRun(FALSE, signals)

Queued ==
    /\ signals' = Append(signals, Signal("over", NoDev))
    /\ UNCHANGED <<device, access>>

(* Mutants: the entry points have no re-entrancy backstop; an early return *)
(* strands its runStarted.                                                 *)
EngineStart_NoBackstop(r) ==
    \/ /\ bound # NoDev
       /\ Set(r, "active", "engine", bound)
       /\ running' = TRUE
       /\ UNCHANGED <<fin, comp, devVars>>
    \/ /\ Set(r, "done", "engine", NoDev)
       /\ Finished(r) /\ OnMain
       /\ UNCHANGED tickle

EngineStart_Stranded(r) ==
    /\ ~running
    /\ \/ bound # NoDev /\ Set(r, "active", "engine", bound) /\ running' = TRUE
       \/ Set(r, "done", "engine", NoDev) /\ UNCHANGED running
    /\ UNCHANGED <<fin, comp, devVars>>

(* hotSync, fullSync, runMirror, clobberSync: the run is handed to the     *)
(* committed topology, whichever object that borrows.                      *)
EngineStart(r) ==
    \/ /\ running
       /\ Set(r, "rejected", "engine", NoDev)
       /\ UNCHANGED <<running, fin, comp, devVars>>
    \/ /\ ~running /\ bound # NoDev
       /\ Set(r, "active", "engine", bound)
       /\ running' = TRUE
       /\ UNCHANGED <<fin, comp, devVars>>
    \/ /\ ~running
       /\ Set(r, "done", "engine", NoDev)
       /\ Finished(r) /\ OnMain
       /\ UNCHANGED tickle

(* backup and restore: m_running is not looked at; a link, even one that   *)
(* is only connecting, is captured and the tickle paused.                  *)
RawStart(r) ==
    \/ /\ device # NoDev /\ access[device] \in {"connecting", "connected"}
       /\ Set(r, "active", "raw", device)
       /\ running' = TRUE
       /\ tickle' = IF Up THEN [tickle EXCEPT ![device] = "paused"] ELSE tickle
       /\ UNCHANGED <<fin, comp, device, access, signals>>
    \/ /\ ~Up
       /\ Set(r, "done", "raw", NoDev)
       /\ Finished(r) /\ OnMain
       /\ UNCHANGED tickle

(* What the window tests before it asks for a run.                         *)
Guarded == device # NoDev /\ ~running

UserSync(r) ==
    /\ Loop /\ dialog = "none" /\ run[r].st = "free" /\ Guarded
    /\ EngineStart(r)
    /\ UNCHANGED <<bound, uiVars, connects>>

UserBackup(r) ==
    /\ Loop /\ dialog = "none" /\ run[r].st = "free" /\ Guarded
    /\ RawStart(r)
    /\ UNCHANGED <<bound, uiVars, connects>>

(* Mutant: the slot runs without a queued shot.                            *)
TimerFires_Again ==
    /\ Loop /\ timers' = timers - 1
    /\ ~Guarded
    /\ UNCHANGED <<devVars, runVars, bound, dialog, mainDlp, connects>>

(* The queued onHotSync of an auto-sync.                                   *)
TimerFires ==
    /\ Loop /\ timers > 0 /\ timers' = timers - 1
    /\ IF Guarded
       THEN \E r \in Runs : run[r].st = "free" /\ EngineStart(r)
       ELSE UNCHANGED <<devVars, runVars>>
    /\ UNCHANGED <<bound, dialog, mainDlp, connects>>

(* onRestore and onClobberPalmFromPC test, then ask the user.              *)
OpenDialog(k) ==
    /\ Loop /\ dialog = "none" /\ Guarded
    /\ dialog' = k
    /\ UNCHANGED <<devVars, bound, runVars, timers, mainDlp, connects>>

AcceptDialog(r) ==
    /\ Loop /\ dialog # "none" /\ run[r].st = "free"
    /\ IF dialog = "restore" THEN RawStart(r) ELSE EngineStart(r)
    /\ dialog' = "none"
    /\ UNCHANGED <<bound, timers, mainDlp, connects>>

DeclineDialog ==
    /\ Loop /\ dialog # "none" /\ dialog' = "none"
    /\ UNCHANGED <<devVars, bound, runVars, timers, mainDlp, connects>>

(* The engine or the pool is done with the run; its end is queued to main. *)
RunEnds(r) ==
    /\ run[r].st = "active"
    /\ run' = [run EXCEPT ![r].st = "posted"]
    /\ UNCHANGED <<devVars, bound, running, fin, comp, uiVars, connects>>

(* Mutants: a backup's end does not resume the tickle; a run's end is only *)
(* reported while the device is there.                                     *)
DeliverFinish_NoResume(r) ==
    /\ Loop /\ run[r].st = "posted"
    /\ run' = [run EXCEPT ![r].st = "done"]
    /\ Finished(r)
    /\ IF run[r].kind = "raw" THEN OnMain ELSE Queued
    /\ UNCHANGED <<tickle, bound, uiVars, connects>>

DeliverFinish_IfUp(r) ==
    /\ Loop /\ run[r].st = "posted" /\ Up
    /\ run' = [run EXCEPT ![r].st = "done"]
    /\ Finished(r)
    /\ IF run[r].kind = "raw" THEN OnMain ELSE Queued
    /\ UNCHANGED <<tickle, bound, uiVars, connects>>

(* Its runFinished reaches main; a backup or restore resumes the tickle.   *)
DeliverFinish(r) ==
    /\ Loop /\ run[r].st = "posted"
    /\ run' = [run EXCEPT ![r].st = "done"]
    /\ tickle' = IF run[r].kind = "raw" /\ Up
                 THEN [tickle EXCEPT ![device] = "on"] ELSE tickle
    /\ Finished(r)
    /\ IF run[r].kind = "raw" THEN OnMain ELSE Queued
    /\ UNCHANGED <<bound, uiVars, connects>>

-----------------------------------------------------------------------------
Next ==
    \/ StartConnection \/ AutoDetect \/ LoadProfile \/ UserDisconnect \/ EndSyncReturns
    \/ HandleSignal \/ TimerFires \/ DeclineDialog
    \/ \E d \in Devs : AttemptEnds(d) \/ DeviceLost(d) \/ LinkError(d)
    \/ \E k \in Dialogs : OpenDialog(k)
    \/ \E r \in Runs : \/ UserSync(r) \/ UserBackup(r) \/ AcceptDialog(r)
                       \/ RunEnds(r) \/ DeliverFinish(r)

Spec == Init /\ [][Next]_vars

(* Runs end, the main loop turns; no user and no device has to act.        *)
Fairness ==
    /\ WF_vars(EndSyncReturns)
    /\ \A r \in Runs : WF_vars(RunEnds(r)) /\ SF_vars(DeliverFinish(r))

FairSpec == Spec /\ Fairness

-----------------------------------------------------------------------------
AccessStates == {"unused", "idle", "connecting", "connected", "destroyed"}
RunStates == {"free", "rejected", "active", "posted", "done", "orphaned"}
TickleStates == {"on", "paused", "error", "off"}

(* Every variable keeps to its type.                                       *)
TypeOK ==
    /\ device \in Devs \cup {NoDev}
    /\ access \in [Devs -> AccessStates]
    /\ tickle \in [Devs -> TickleStates]
    /\ signals \in Seq([t : {"ok", "lost", "over", "gone"}, d : Devs \cup {NoDev}])
    /\ bound \in Devs \cup {NoDev} /\ running \in BOOLEAN
    /\ run \in [Runs -> [st : RunStates, kind : {"engine", "raw"},
                         dev : Devs \cup {NoDev}, lease : {"current", "stale"}]]
    /\ fin \in [Runs -> Nat] /\ comp \in [Runs -> Nat]
    /\ dialog \in {"none", "restore", "clobber"}
    /\ timers \in Nat
    /\ mainDlp \in Devs \cup {NoDev}
    /\ connects \in Nat

(* Every runStarted is matched by exactly one runFinished, and by one      *)
(* syncCompleted, however runs, dialogs, policies and disconnects overlap; *)
(* a run whose runtime was replaced is matched by none.                    *)
FinishedOnce ==
    \A r \in Runs : LET n == IF run[r].st = "done" THEN 1 ELSE 0 IN
                    fin[r] = n /\ comp[r] = n

(* At most one run is in flight.                                           *)
OneRun == \A r, s \in Runs : InFlight(r) /\ InFlight(s) => r = s

(* m_running, on which every guard relies, tells the truth.                *)
RunningExact == running <=> \E r \in Runs : InFlight(r)

(* A run that began over the runtime's device keeps it: the object its     *)
(* backends or its raw link belong to stays m_device, not destroyed, until *)
(* the run is over or its runtime is replaced.                             *)
DeviceHeld ==
    \A r \in Runs : InFlight(r) /\ run[r].lease = "current" =>
        device # NoDev /\ run[r].dev = device /\ access[device] # "destroyed"

(* The keep-alive is back once no backup or restore needs the link: a      *)
(* connected device that is not known to be lost is being pinged, unless a *)
(* DLP error stopped the tickle; it does not stay paused.                  *)
TickleResumed ==
    Up /\ (\A i \in DOMAIN signals : signals[i] # Signal("lost", device)) =>
        \/ tickle[device] \in {"on", "error"}
        \/ tickle[device] = "paused" /\ \E r \in Runs : InFlight(r) /\ run[r].kind = "raw"

(* Every run that was started ends, unless its runtime is replaced.        *)
EveryRunEnds ==
    \A r \in Runs : run[r].st = "active" ~> IsOver(r)

(* The runs implement RunService.                                          *)
Current == IF \E r \in Runs : InFlight(r) THEN CHOOSE r \in Runs : InFlight(r) ELSE NoRun
Over == {r \in Runs : IsOver(r)}
Service == INSTANCE RunService WITH current <- Current, over <- Over
ImplementsRunService == Service!Spec

-----------------------------------------------------------------------------
(* What the sources say and the model refutes.                             *)

(* palmruntime.cpp, disconnectDevice: the refusal while a run is in flight *)
(* is the safety net that keeps a raw link from dangling.                  *)
RawLinkAlive ==
    \A r \in Runs : run[r].st = "active" /\ run[r].kind = "raw" =>
        access[run[r].dev] \in {"connecting", "connected"}

(* palmruntime.cpp, the lease an engine run takes: it fails when "Palm     *)
(* device is not connected", so a run that has it works on a live object.  *)
(* It asks m_device, and the topology may still borrow an earlier one.     *)
LeaseHonest ==
    \A r \in Runs : Up /\ run[r].st = "active" /\ run[r].kind = "engine" =>
        access[run[r].dev] # "destroyed"
=============================================================================
