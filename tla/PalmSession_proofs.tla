------------------------ MODULE PalmSession_proofs -------------------------
(***************************************************************************)
(* Proofs about PalmSession: its type invariant, that every run is         *)
(* reported exactly once and no connected device is left without its       *)
(* keep-alive, and, for a window without the restore dialog, that the runs *)
(* are exclusive, keep their device and implement RunService.              *)
(***************************************************************************)
EXTENDS PalmSession, SequenceTheorems, TLAPS

Sigs == [t : {"ok", "lost", "over", "gone"}, d : Devs \cup {NoDev}]

-----------------------------------------------------------------------------
(* Type correctness, in three parts: the device, the runs, the window.     *)

DevType == /\ device \in Devs \cup {NoDev}
           /\ access \in [Devs -> AccessStates]
           /\ tickle \in [Devs -> TickleStates]
           /\ signals \in Seq(Sigs)

RunType == /\ running \in BOOLEAN
           /\ run \in [Runs -> [st : RunStates, kind : {"engine", "raw"},
                                dev : Devs \cup {NoDev},
                                lease : {"current", "stale"}]]
           /\ fin \in [Runs -> Nat] /\ comp \in [Runs -> Nat]

UiType == /\ bound \in Devs \cup {NoDev}
          /\ dialog \in {"none", "restore", "clobber"}
          /\ timers \in Nat
          /\ mainDlp \in Devs \cup {NoDev}
          /\ connects \in Nat

(* TypeOK is these parts, in this state and in the next.                   *)
LEMMA TypeParts == TypeOK <=> DevType /\ RunType /\ UiType
  BY DEF TypeOK, DevType, RunType, UiType, Sigs

(* The same of the next state.                                            *)
LEMMA TypePartsNext == TypeOK' <=> DevType' /\ RunType' /\ UiType'
  BY DEF TypeOK, DevType, RunType, UiType, Sigs

(* The signals left behind by a PalmDeviceAccess have the type of the queue.*)
LEMMA LeftoversType ==
    ASSUME NEW d \in Devs
    PROVE  \A s \in Leftovers(d) : s \in Seq(Sigs)
<1>1. Signal("ok", d) \in Sigs
  BY DEF Signal, Sigs
<1>2. <<>> \in Seq(Sigs) /\ <<Signal("ok", d)>> \in Seq(Sigs)
  BY <1>1
<1>3. QED
  BY <1>2 DEF Leftovers

(* Disconnecting keeps m_device, the objects and the queue well typed.     *)
LEMMA DisconnectType ==
    ASSUME DevType, NEW up, NEW queued \in Seq(Sigs), RuntimeDisconnect(up, queued)
    PROVE  /\ device' \in Devs \cup {NoDev}
           /\ access' \in [Devs -> AccessStates]
           /\ signals' \in Seq(Sigs)
<1>1. CASE up \/ device = NoDev
  BY <1>1 DEF DevType, RuntimeDisconnect
<1>2. CASE ~(up \/ device = NoDev)
  <2>1. device \in Devs
    BY <1>2 DEF DevType
  <2>2. PICK s \in Leftovers(device) : signals' = queued \o s
    BY <1>2 DEF RuntimeDisconnect, Destroy
  <2>3. s \in Seq(Sigs)
    BY <2>1, LeftoversType
  <2>4. signals' \in Seq(Sigs)
    BY <2>2, <2>3
  <2>5. QED
    BY <1>2, <2>1, <2>4 DEF DevType, RuntimeDisconnect, Destroy, AccessStates
<1>3. QED
  BY <1>1, <1>2

(* The end of a run keeps the counters and m_running well typed.           *)
LEMMA FinishedType ==
    ASSUME RunType, NEW r \in Runs, Finished(r)
    PROVE  fin' \in [Runs -> Nat] /\ comp' \in [Runs -> Nat] /\ running' \in BOOLEAN
<1>1. fin \in [Runs -> Nat] /\ comp \in [Runs -> Nat]
  BY DEF RunType
<1>2. /\ fin' = [fin EXCEPT ![r] = fin[r] + 1]
      /\ comp' = [comp EXCEPT ![r] = comp[r] + 1]
      /\ running' = FALSE
  BY DEF Finished
<1>3. fin[r] + 1 \in Nat /\ comp[r] + 1 \in Nat
  BY <1>1
<1>4. QED
  BY <1>1, <1>2, <1>3

(* The window's policy after a run keeps the device side well typed.       *)
LEMMA AfterRunType ==
    ASSUME DevType, NEW up, NEW queued \in Seq(Sigs), AfterRun(up, queued)
    PROVE  /\ device' \in Devs \cup {NoDev}
           /\ access' \in [Devs -> AccessStates]
           /\ signals' \in Seq(Sigs)
<1>1. CASE RuntimeDisconnect(up, queued)
  BY <1>1, DisconnectType
<1>2. CASE signals' = queued /\ UNCHANGED <<device, access>>
  BY <1>2 DEF DevType
<1>3. QED
  BY <1>1, <1>2 DEF AfterRun

LEMMA OnMainType ==
    ASSUME DevType, OnMain
    PROVE  /\ device' \in Devs \cup {NoDev}
           /\ access' \in [Devs -> AccessStates]
           /\ signals' \in Seq(Sigs)
<1>1. signals \in Seq(Sigs)
  BY DEF DevType
<1>2. QED
  BY <1>1, AfterRunType DEF OnMain

(* So does leaving it to the queue.                                        *)
LEMMA QueuedType ==
    ASSUME DevType, Queued
    PROVE  access' \in [Devs -> AccessStates] /\ signals' \in Seq(Sigs)
<1>1. access \in [Devs -> AccessStates] /\ signals \in Seq(Sigs)
  BY DEF DevType
<1>2. Signal("over", NoDev) \in Sigs
  BY DEF Signal, Sigs
<1>3. QED
  BY <1>1, <1>2 DEF Queued

(* Recording the state of a run keeps the record of runs well typed.       *)
LEMMA SetType ==
    ASSUME RunType, NEW r \in Runs, NEW st \in RunStates,
           NEW kind \in {"engine", "raw"}, NEW d \in Devs \cup {NoDev},
           Set(r, st, kind, d)
    PROVE  run' \in [Runs -> [st : RunStates, kind : {"engine", "raw"},
                              dev : Devs \cup {NoDev},
                              lease : {"current", "stale"}]]
  BY DEF RunType, Set

(* An engine entry point keeps its variables well typed.                   *)
LEMMA EngineStartType ==
    ASSUME DevType, RunType, bound \in Devs \cup {NoDev}, NEW r \in Runs, EngineStart(r)
    PROVE  DevType' /\ RunType'
<1> USE DEF RunStates
<1>1. CASE /\ running /\ Set(r, "rejected", "engine", NoDev)
           /\ UNCHANGED <<running, fin, comp, devVars>>
  BY <1>1, SetType DEF DevType, RunType, devVars
<1>2. CASE /\ ~running /\ bound # NoDev /\ Set(r, "active", "engine", bound)
           /\ running' = TRUE /\ UNCHANGED <<fin, comp, devVars>>
  BY <1>2, SetType DEF DevType, RunType, devVars
<1>3. CASE /\ ~running /\ Set(r, "done", "engine", NoDev)
           /\ Finished(r) /\ OnMain /\ UNCHANGED tickle
  BY <1>3, SetType, FinishedType, OnMainType DEF DevType, RunType
<1>4. QED
  BY <1>1, <1>2, <1>3 DEF EngineStart

(* Backup and restore keep their variables well typed.                     *)
LEMMA RawStartType ==
    ASSUME DevType, RunType, NEW r \in Runs, RawStart(r)
    PROVE  DevType' /\ RunType'
<1> USE DEF RunStates
<1>1. CASE /\ device # NoDev /\ access[device] \in {"connecting", "connected"}
           /\ Set(r, "active", "raw", device) /\ running' = TRUE
           /\ tickle' = IF Up THEN [tickle EXCEPT ![device] = "paused"] ELSE tickle
           /\ UNCHANGED <<fin, comp, device, access, signals>>
  BY <1>1, SetType DEF DevType, RunType, TickleStates
<1>2. CASE /\ ~Up /\ Set(r, "done", "raw", NoDev)
           /\ Finished(r) /\ OnMain /\ UNCHANGED tickle
  BY <1>2, SetType, FinishedType, OnMainType DEF DevType, RunType
<1>3. QED
  BY <1>1, <1>2 DEF RawStart

(* A signal handled by main keeps everything well typed.                   *)
LEMMA HandleSignalType ==
    ASSUME TypeOK, HandleSignal
    PROVE  TypeOK'
<1> DEFINE Rest == /\ DevType' /\ bound' \in Devs \cup {NoDev} /\ timers' \in Nat
<1>1. DevType /\ RunType /\ UiType
  BY TypeParts
<1>2. /\ device \in Devs \cup {NoDev} /\ access \in [Devs -> AccessStates]
      /\ tickle \in [Devs -> TickleStates] /\ signals \in Seq(Sigs)
      /\ bound \in Devs \cup {NoDev} /\ timers \in Nat
  BY <1>1 DEF DevType, UiType
<1>3. signals # <<>> => Tail(signals) \in Seq(Sigs) /\ Head(signals) \in Sigs
  BY <1>2
<1>4. ASSUME FinishConnect PROVE Rest
  BY <1>2, <1>3, <1>4 DEF FinishConnect, DevType
<1>5. ASSUME HandleLost PROVE Rest
  <2>1. access' \in [Devs -> AccessStates] /\ tickle' \in [Devs -> TickleStates]
    BY <1>2, <1>5 DEF HandleLost, AccessStates, TickleStates
  <2>2. QED
    BY <1>2, <1>3, <1>5, <2>1 DEF HandleLost, DevType
<1>6. ASSUME HandleOver PROVE Rest
  BY <1>1, <1>2, <1>3, <1>6, AfterRunType DEF HandleOver, DevType
<1>7. ASSUME NoEffect PROVE Rest
  BY <1>2, <1>3, <1>7 DEF NoEffect, DevType
<1>8. Rest
  BY <1>4, <1>5, <1>6, <1>7 DEF HandleSignal
<1>9. RunType' /\ UiType'
  BY <1>1, <1>8 DEF HandleSignal, RunType, UiType, runVars
<1>10. QED
  BY <1>8, <1>9, TypePartsNext

(* A device object that starts an attempt keeps everything well typed.     *)
LEMMA ConnectingType ==
    ASSUME TypeOK, StartConnection \/ AutoDetect
    PROVE  TypeOK'
<1>1. DevType /\ RunType /\ UiType
  BY TypeParts
<1>2. connects' \in Nat
  BY <1>1 DEF UiType, StartConnection, AutoDetect
<1>3. RunType' /\ UiType'
  BY <1>1, <1>2 DEF StartConnection, AutoDetect, RunType, UiType, runVars, uiVars
<1>4. ASSUME StartConnection PROVE DevType'
  BY <1>1, <1>4 DEF StartConnection, DevType, AccessStates
<1>5. ASSUME AutoDetect PROVE DevType'
  <2>1. PICK d \in Devs :
           /\ device' = d
           /\ IF device = NoDev
              THEN access' = [access EXCEPT ![d] = "connecting"] /\ UNCHANGED signals
              ELSE /\ access' = [access EXCEPT ![device] = "destroyed",
                                               ![d] = "connecting"]
                   /\ \E s \in Leftovers(device) : signals' = signals \o s
    BY <1>5 DEF AutoDetect
  <2>2. access' \in [Devs -> AccessStates]
    BY <1>1, <2>1 DEF DevType, AccessStates
  <2>3. signals' \in Seq(Sigs)
    <3>1. CASE device = NoDev
      BY <1>1, <2>1, <3>1 DEF DevType
    <3>2. CASE device # NoDev
      <4>1. device \in Devs
        BY <1>1, <3>2 DEF DevType
      <4>2. PICK s \in Leftovers(device) : signals' = signals \o s
        BY <2>1, <3>2
      <4>3. s \in Seq(Sigs) /\ signals \in Seq(Sigs)
        BY <1>1, <4>1, LeftoversType DEF DevType
      <4>4. QED
        BY <4>2, <4>3
    <3>3. QED
      BY <3>1, <3>2
  <2>4. QED
    BY <1>1, <1>5, <2>1, <2>2, <2>3 DEF AutoDetect, DevType
<1>6. DevType'
  BY <1>4, <1>5
<1>7. QED
  BY <1>3, <1>6, TypePartsNext

(* So do the link thread's own steps.                                      *)
LEMMA LinkThreadType ==
    ASSUME TypeOK, NEW d \in Devs, AttemptEnds(d) \/ DeviceLost(d) \/ LinkError(d)
    PROVE  TypeOK'
<1>1. DevType /\ RunType /\ UiType
  BY TypeParts
<1>2. RunType' /\ UiType'
  BY <1>1 DEF AttemptEnds, DeviceLost, LinkError, RunType, UiType, runVars, uiVars
<1>3. \A t \in {"ok", "lost"} : Append(signals, Signal(t, d)) \in Seq(Sigs)
  BY <1>1 DEF Signal, Sigs, DevType
<1>4. DevType'
  BY <1>1, <1>3 DEF AttemptEnds, DeviceLost, LinkError, DevType, AccessStates, TickleStates
<1>5. QED
  BY <1>2, <1>4, TypePartsNext

(* So do the two steps of the Disconnect action.                           *)
LEMMA DisconnectActionType ==
    ASSUME TypeOK, UserDisconnect \/ EndSyncReturns
    PROVE  TypeOK'
<1>1. DevType /\ RunType /\ UiType
  BY TypeParts
<1>2. signals \in Seq(Sigs) /\ device \in Devs \cup {NoDev}
  BY <1>1 DEF DevType
<1>3. mainDlp' \in Devs \cup {NoDev}
  BY <1>1, <1>2 DEF UserDisconnect, EndSyncReturns, UiType
<1>4. RunType' /\ UiType'
  BY <1>1, <1>3 DEF UserDisconnect, EndSyncReturns, RunType, UiType, runVars
<1>5. CASE RuntimeDisconnect(running, signals) /\ UNCHANGED tickle
  BY <1>1, <1>2, <1>4, <1>5, DisconnectType, TypePartsNext DEF DevType
<1>6. CASE UNCHANGED devVars
  BY <1>1, <1>4, <1>6, TypePartsNext DEF DevType, devVars
<1>7. QED
  BY <1>5, <1>6 DEF UserDisconnect, EndSyncReturns

(* So do the steps that ask for a run, or not.                             *)
LEMMA RequestType ==
    ASSUME TypeOK, NEW r \in Runs,
           UserSync(r) \/ UserBackup(r) \/ AcceptDialog(r) \/ TimerFires
    PROVE  TypeOK'
<1>1. DevType /\ RunType /\ UiType
  BY TypeParts
<1>2. UiType'
  BY <1>1 DEF UserSync, UserBackup, AcceptDialog, TimerFires, UiType, uiVars
<1>3. ASSUME NEW q \in Runs, EngineStart(q) PROVE DevType' /\ RunType'
  BY <1>1, <1>3, EngineStartType DEF UiType
<1>4. ASSUME NEW q \in Runs, RawStart(q) PROVE DevType' /\ RunType'
  BY <1>1, <1>4, RawStartType
<1>5. ASSUME UNCHANGED <<devVars, runVars>> PROVE DevType' /\ RunType'
  BY <1>1, <1>5 DEF DevType, RunType, devVars, runVars
<1>6. DevType' /\ RunType'
  BY <1>3, <1>4, <1>5 DEF UserSync, UserBackup, AcceptDialog, TimerFires
<1>7. QED
  BY <1>2, <1>6, TypePartsNext

(* So does the replacement of the runtime.                                 *)
LEMMA LoadProfileType ==
    ASSUME TypeOK, LoadProfile
    PROVE  TypeOK'
<1>1. DevType /\ RunType /\ UiType
  BY TypeParts
<1>2. signals' \in Seq(Sigs)
  <2> DEFINE S(i) == IF signals[i].t = "over" THEN signals[i] ELSE Signal("gone", NoDev)
  <2>1. signals \in Seq(Sigs) /\ Signal("gone", NoDev) \in Sigs
    BY <1>1 DEF DevType, Signal, Sigs
  <2>2. DOMAIN signals = 1..Len(signals) /\ Len(signals) \in Nat
    BY <2>1
  <2>3. \A i \in 1..Len(signals) : S(i) \in Sigs
    BY <2>1
  <2>4. signals' = [i \in 1..Len(signals) |-> S(i)]
    BY <2>2 DEF LoadProfile
  <2> HIDE DEF S
  <2>5. QED
    BY <2>2, <2>3, <2>4
<1>3. DevType'
  BY <1>1, <1>2 DEF LoadProfile, DevType, AccessStates
<1>4. RunType'
  <2>1. ASSUME NEW r \in Runs
        PROVE  (IF InFlight(r) THEN [run[r] EXCEPT !.st = "orphaned"] ELSE run[r])
                 \in [st : RunStates, kind : {"engine", "raw"}, dev : Devs \cup {NoDev},
                      lease : {"current", "stale"}]
    BY <1>1, <2>1 DEF RunType, RunStates
  <2>2. QED
    BY <1>1, <2>1 DEF LoadProfile, RunType
<1>5. UiType'
  BY <1>1 DEF LoadProfile, UiType, uiVars
<1>6. QED
  BY <1>3, <1>4, <1>5, TypePartsNext

(* So do the dialogs.                                                      *)
LEMMA DialogType ==
    ASSUME TypeOK, DeclineDialog \/ \E k \in Dialogs : OpenDialog(k)
    PROVE  TypeOK'
<1>1. DevType /\ RunType /\ UiType
  BY TypeParts
<1>2. UiType'
  BY <1>1, ConstantsAssumption DEF OpenDialog, DeclineDialog, UiType
<1>3. DevType' /\ RunType'
  BY <1>1 DEF OpenDialog, DeclineDialog, DevType, RunType, devVars, runVars
<1>4. QED
  BY <1>2, <1>3, TypePartsNext

(* So do the two steps that end a run.                                     *)
LEMMA EndType ==
    ASSUME TypeOK, NEW r \in Runs, RunEnds(r) \/ DeliverFinish(r)
    PROVE  TypeOK'
<1>1. DevType /\ RunType /\ UiType
  BY TypeParts
<1>2. CASE RunEnds(r)
  <2>1. RunType'
    BY <1>1, <1>2 DEF RunEnds, RunType, RunStates
  <2>2. DevType' /\ UiType'
    BY <1>1, <1>2 DEF RunEnds, DevType, UiType, devVars, uiVars
  <2>3. QED
    BY <2>1, <2>2, TypePartsNext
<1>3. CASE DeliverFinish(r)
  <2>1. run' \in [Runs -> [st : RunStates, kind : {"engine", "raw"},
                           dev : Devs \cup {NoDev}, lease : {"current", "stale"}]]
    BY <1>1, <1>3 DEF DeliverFinish, RunType, RunStates
  <2>2. RunType'
    BY <1>1, <1>3, <2>1, FinishedType DEF DeliverFinish, RunType
  <2>3. tickle' \in [Devs -> TickleStates]
    BY <1>1, <1>3 DEF DeliverFinish, Up, DevType, TickleStates
  <2>4. /\ device' \in Devs \cup {NoDev}
        /\ access' \in [Devs -> AccessStates] /\ signals' \in Seq(Sigs)
    BY <1>1, <1>3, OnMainType, QueuedType DEF DeliverFinish, DevType, Queued
  <2>5. UiType'
    BY <1>1, <1>3 DEF DeliverFinish, UiType, uiVars
  <2>6. QED
    BY <2>2, <2>3, <2>4, <2>5, TypePartsNext DEF DevType
<1>4. QED
  BY <1>2, <1>3

(* TypeOK is inductive.                                                    *)
LEMMA TypeStep == TypeOK /\ [Next]_vars => TypeOK'
<1> SUFFICES ASSUME TypeOK, [Next]_vars PROVE TypeOK'
  OBVIOUS
<1>1. CASE StartConnection \/ AutoDetect
  BY <1>1, ConnectingType
<1>2. CASE UserDisconnect \/ EndSyncReturns
  BY <1>2, DisconnectActionType
<1>3. CASE HandleSignal
  BY <1>3, HandleSignalType
<1>4. CASE TimerFires
  <2>1. CASE UNCHANGED <<devVars, runVars>>
    <3>1. DevType' /\ RunType' /\ UiType'
      BY <1>4, <2>1, TypeParts DEF TimerFires, DevType, RunType, UiType, devVars, runVars
    <3>2. QED
      BY <3>1, TypePartsNext
  <2>2. CASE \E r \in Runs : EngineStart(r)
    BY <1>4, <2>2, RequestType
  <2>3. QED
    BY <1>4, <2>1, <2>2 DEF TimerFires
<1>5. CASE DeclineDialog \/ \E k \in Dialogs : OpenDialog(k)
  BY <1>5, DialogType
<1>6. ASSUME NEW d \in Devs, AttemptEnds(d) \/ DeviceLost(d) \/ LinkError(d) PROVE TypeOK'
  BY <1>6, LinkThreadType
<1>7. ASSUME NEW r \in Runs, UserSync(r) \/ UserBackup(r) \/ AcceptDialog(r)
      PROVE  TypeOK'
  BY <1>7, RequestType
<1>8. ASSUME NEW r \in Runs, RunEnds(r) \/ DeliverFinish(r) PROVE TypeOK'
  BY <1>8, EndType
<1>9. CASE UNCHANGED vars
  <2>1. DevType' /\ RunType' /\ UiType'
    BY <1>9, TypeParts DEF vars, DevType, RunType, UiType
  <2>2. QED
    BY <2>1, TypePartsNext
<1>10. CASE LoadProfile
  BY <1>10, LoadProfileType
<1>11. QED
  BY <1>1, <1>2, <1>3, <1>4, <1>5, <1>6, <1>7, <1>8, <1>9, <1>10 DEF Next

(* Every variable keeps to its type, whatever the configuration.           *)
THEOREM TypeCorrect == Spec => []TypeOK
<1>1. Init => TypeOK
  <2> SUFFICES ASSUME Init PROVE TypeOK
    OBVIOUS
  <2>1. signals \in Seq(Sigs)
    BY DEF Init
  <2>2. DevType
    BY <2>1 DEF Init, DevType, AccessStates, TickleStates
  <2>3. RunType /\ UiType
    BY DEF Init, RunType, UiType, RunStates
  <2>4. QED
    BY <2>2, <2>3, TypeParts
<1>2. QED
  BY <1>1, TypeStep, PTL DEF Spec

-----------------------------------------------------------------------------
(* Every run is reported once.                                             *)

(* A run that was not done is done and reported.                           *)
LEMMA FinishedOnceEnd ==
    ASSUME TypeOK, FinishedOnce, NEW r \in Runs, run[r].st # "done",
           NEW v \in [st : {"done"}, kind : {"engine", "raw"}, dev : Devs \cup {NoDev},
                  lease : {"current", "stale"}],
           run' = [run EXCEPT ![r] = v], Finished(r)
    PROVE  FinishedOnce'
  BY DEF TypeOK, FinishedOnce, Finished

(* A run that was not done changes its state otherwise.                    *)
LEMMA FinishedOnceOther ==
    ASSUME TypeOK, FinishedOnce, NEW r \in Runs, run[r].st # "done",
           NEW v \in [st : RunStates \ {"done"}, kind : {"engine", "raw"},
                      dev : Devs \cup {NoDev}, lease : {"current", "stale"}],
           run' = [run EXCEPT ![r] = v], UNCHANGED <<fin, comp>>
    PROVE  FinishedOnce'
  BY DEF TypeOK, FinishedOnce

(* A requested run is rejected, started, or over at once.                  *)
LEMMA FinishedOnceStart ==
    ASSUME TypeOK, FinishedOnce, NEW r \in Runs, run[r].st = "free",
           EngineStart(r) \/ RawStart(r)
    PROVE  FinishedOnce'
<1>1. device \in Devs \cup {NoDev} /\ bound \in Devs \cup {NoDev}
  BY DEF TypeOK
<1>2. ASSUME NEW kind \in {"engine", "raw"}, Set(r, "done", kind, NoDev), Finished(r)
      PROVE  FinishedOnce'
  <2> DEFINE v == [st |-> "done", kind |-> kind, dev |-> NoDev,
                   lease |-> IF NoDev = device THEN "current" ELSE "stale"]
  <2>1. run' = [run EXCEPT ![r] = v]
    BY <1>2 DEF Set
  <2>2. v \in [st : {"done"}, kind : {"engine", "raw"}, dev : Devs \cup {NoDev},
              lease : {"current", "stale"}]
    OBVIOUS
  <2> HIDE DEF v
  <2>3. QED
    BY <1>2, <2>1, <2>2, FinishedOnceEnd
<1>3. ASSUME NEW kind \in {"engine", "raw"}, NEW st \in {"rejected", "active"},
             NEW d \in Devs \cup {NoDev}, Set(r, st, kind, d), UNCHANGED <<fin, comp>>
      PROVE  FinishedOnce'
  <2> DEFINE v == [st |-> st, kind |-> kind, dev |-> d,
                   lease |-> IF d = device THEN "current" ELSE "stale"]
  <2>1. run' = [run EXCEPT ![r] = v]
    BY <1>3 DEF Set
  <2>2. v \in [st : RunStates \ {"done"}, kind : {"engine", "raw"},
              dev : Devs \cup {NoDev}, lease : {"current", "stale"}]
    BY DEF RunStates
  <2> HIDE DEF v
  <2>3. QED
    BY <1>3, <2>1, <2>2, FinishedOnceOther
<1>4. CASE EngineStart(r)
  BY <1>1, <1>2, <1>3, <1>4 DEF EngineStart
<1>5. CASE RawStart(r)
  BY <1>1, <1>2, <1>3, <1>5 DEF RawStart
<1>6. QED
  BY <1>4, <1>5

(* FinishedOnce is inductive relative to the types.                        *)
LEMMA FinishedOnceStep == TypeOK /\ FinishedOnce /\ [Next]_vars => FinishedOnce'
<1> SUFFICES ASSUME TypeOK, FinishedOnce, [Next]_vars PROVE FinishedOnce'
  OBVIOUS
<1>1. ASSUME UNCHANGED <<run, fin, comp>> PROVE FinishedOnce'
  BY <1>1 DEF FinishedOnce
<1>2. CASE StartConnection \/ AutoDetect \/ UserDisconnect \/ EndSyncReturns
           \/ HandleSignal \/ DeclineDialog
  BY <1>1, <1>2 DEF StartConnection, AutoDetect, UserDisconnect, EndSyncReturns,
                    HandleSignal, DeclineDialog, runVars
<1>3. CASE TimerFires
  BY <1>1, <1>3, FinishedOnceStart DEF TimerFires, runVars
<1>4. ASSUME NEW d \in Devs, AttemptEnds(d) \/ DeviceLost(d) \/ LinkError(d)
      PROVE  FinishedOnce'
  BY <1>1, <1>4 DEF AttemptEnds, DeviceLost, LinkError, runVars
<1>5. ASSUME NEW k \in Dialogs, OpenDialog(k) PROVE FinishedOnce'
  BY <1>1, <1>5 DEF OpenDialog, runVars
<1>6. ASSUME NEW r \in Runs, UserSync(r) \/ UserBackup(r) \/ AcceptDialog(r)
      PROVE  FinishedOnce'
  BY <1>6, FinishedOnceStart DEF UserSync, UserBackup, AcceptDialog
<1>7. ASSUME NEW r \in Runs, RunEnds(r) PROVE FinishedOnce'
  BY <1>7 DEF RunEnds, TypeOK, FinishedOnce
<1>8. ASSUME NEW r \in Runs, DeliverFinish(r) PROVE FinishedOnce'
  BY <1>8 DEF DeliverFinish, Finished, TypeOK, FinishedOnce
<1>9. CASE UNCHANGED vars
  BY <1>1, <1>9 DEF vars
<1>10. CASE LoadProfile
  <2>1. \A r \in Runs : run'[r].st = "done" <=> run[r].st = "done"
    BY <1>10 DEF LoadProfile, InFlight, TypeOK
  <2>2. UNCHANGED <<fin, comp>>
    BY <1>10 DEF LoadProfile
  <2>3. QED
    BY <2>1, <2>2 DEF FinishedOnce
<1>11. QED
  BY <1>2, <1>3, <1>4, <1>5, <1>6, <1>7, <1>8, <1>9, <1>10 DEF Next

(* Whatever dialogs are open and policies are set, a run's end is reported *)
(* exactly once, and never before it; that of a run whose runtime was      *)
(* replaced never is.                                                      *)
THEOREM ReportedOnce == Spec => []FinishedOnce
<1>1. Init => FinishedOnce
  <2>1. ASSUME Init, NEW r \in Runs
        PROVE  run[r].st = "free" /\ fin[r] = 0 /\ comp[r] = 0
    BY <2>1 DEF Init
  <2>2. QED
    BY <2>1 DEF FinishedOnce
<1>2. QED
  BY <1>1, TypeCorrect, FinishedOnceStep, PTL DEF Spec

-----------------------------------------------------------------------------
(* Without the restore dialog every request is made with m_running tested  *)
(* after the last chance for another run to start: runs are exclusive.     *)

NoRestore == "restore" \notin Dialogs

DeviceLive == device # NoDev => access[device] # "destroyed"

(* The inductive invariant.  OneRun and RunningExact need each other, and  *)
(* DeviceHeld needs both: a disconnect is refused because m_running is up. *)
Exclusive ==
    /\ dialog # "restore"
    /\ OneRun
    /\ RunningExact
    /\ DeviceHeld
    /\ DeviceLive

(* A refused disconnect changes nothing; a carried out one leaves no device.*)
LEMMA DisconnectLive ==
    ASSUME TypeOK, DeviceLive, NEW up, NEW queued, RuntimeDisconnect(up, queued)
    PROVE  DeviceLive' /\ (up => UNCHANGED <<device, access>>)
  BY DEF DeviceLive, RuntimeDisconnect

(* So does the policy after a run.                                         *)
LEMMA AfterRunLive ==
    ASSUME TypeOK, DeviceLive, NEW up, NEW queued, AfterRun(up, queued)
    PROVE  DeviceLive' /\ (up => UNCHANGED <<device, access>>)
  BY DisconnectLive DEF AfterRun, DeviceLive

(* Steps that leave the runs alone keep them exclusive, and keep their     *)
(* device unless none is in flight.                                        *)
LEMMA RunsKept ==
    ASSUME TypeOK, Exclusive, UNCHANGED <<run, running>>, dialog' # "restore",
           DeviceLive',
           \/ ~running
           \/ device = NoDev
           \/ /\ device' = device
              /\ \A d \in Devs : access'[d] = "destroyed" => access[d] = "destroyed"
    PROVE  Exclusive'
<1>1. OneRun' /\ RunningExact'
  BY DEF Exclusive, OneRun, RunningExact, InFlight
<1>2. DeviceHeld'
  <2> SUFFICES ASSUME NEW r \in Runs, InFlight(r), run[r].lease = "current"
               PROVE  /\ device' # NoDev /\ run[r].dev = device'
                      /\ access'[device'] # "destroyed"
    BY DEF DeviceHeld, InFlight
  <2>1. running /\ device # NoDev /\ run[r].dev = device /\ access[device] # "destroyed"
    BY DEF Exclusive, RunningExact, DeviceHeld
  <2>2. device \in Devs
    BY <2>1 DEF TypeOK
  <2>3. QED
    BY <2>1, <2>2
<1>3. QED
  BY <1>1, <1>2 DEF Exclusive

(* When no run is in flight, the entry points start at most one.           *)
LEMMA ExclusiveStart ==
    ASSUME TypeOK, Exclusive, dialog' # "restore", NEW r \in Runs, run[r].st = "free",
           EngineStart(r) \/ (~running /\ RawStart(r))
    PROVE  Exclusive'
<1>1. device \in Devs \cup {NoDev} /\ bound \in Devs \cup {NoDev}
  BY DEF TypeOK
<1>2. /\ OneRun /\ RunningExact /\ DeviceHeld /\ DeviceLive
  BY DEF Exclusive
<1>3. ASSUME NEW kind \in {"engine", "raw"}, NEW st \in {"rejected", "done"},
             Set(r, st, kind, NoDev)
      PROVE  \A q \in Runs : (InFlight(q))' = InFlight(q) /\ (InFlight(q) => q # r)
  BY <1>3 DEF Set, InFlight, TypeOK
<1>4. ASSUME running, Set(r, "rejected", "engine", NoDev),
             UNCHANGED <<running, fin, comp, devVars>>
      PROVE  Exclusive'
  BY <1>2, <1>3, <1>4 DEF Exclusive, OneRun, RunningExact, DeviceHeld, DeviceLive,
                          Set, TypeOK, devVars
<1>5. ASSUME NEW kind \in {"engine", "raw"}, ~running, Set(r, "done", kind, NoDev),
             Finished(r), OnMain
      PROVE  Exclusive'
  <2>1. \A q \in Runs : ~(InFlight(q))'
    BY <1>2, <1>3, <1>5 DEF RunningExact
  <2>2. DeviceLive'
    BY <1>2, <1>5, AfterRunLive DEF OnMain
  <2>3. QED
    BY <1>5, <2>1, <2>2 DEF Exclusive, OneRun, RunningExact, DeviceHeld, Finished
<1>6. ASSUME NEW kind \in {"engine", "raw"}, NEW d \in Devs, ~running,
             Set(r, "active", kind, d), running' = TRUE, UNCHANGED <<device, access>>
      PROVE  Exclusive'
  <2>1. \A q \in Runs : (InFlight(q))' <=> q = r
    BY <1>2, <1>6 DEF RunningExact, Set, InFlight, TypeOK
  <2>2. run'[r].dev = d /\ (run'[r].lease = "current" => d = device)
    BY <1>6 DEF Set, TypeOK
  <2>3. DeviceHeld'
    <3>1. run'[r].lease = "current" => device # NoDev /\ access[device] # "destroyed"
      BY <1>2, <2>2, ConstantsAssumption DEF DeviceLive
    <3>2. QED
      BY <1>6, <2>1, <2>2, <3>1 DEF DeviceHeld
  <2>4. QED
    BY <1>2, <1>6, <2>1, <2>3 DEF Exclusive, OneRun, RunningExact, DeviceLive
<1>7. CASE EngineStart(r)
  BY <1>1, <1>4, <1>5, <1>6, <1>7 DEF EngineStart, devVars
<1>8. CASE ~running /\ RawStart(r)
  BY <1>1, <1>5, <1>6, <1>8 DEF RawStart
<1>9. QED
  BY <1>7, <1>8

(* The end of the one run in flight leaves none.                           *)
LEMMA ExclusiveEnd ==
    ASSUME TypeOK, Exclusive, NEW r \in Runs, DeliverFinish(r)
    PROVE  Exclusive'
<1>1. InFlight(r)
  BY DEF DeliverFinish, InFlight
<1>2. \A q \in Runs : ~(InFlight(q))'
  BY <1>1 DEF DeliverFinish, InFlight, TypeOK, Exclusive, OneRun
<1>3. DeviceLive'
  <2>1. CASE OnMain
    BY <2>1, AfterRunLive DEF OnMain, Exclusive
  <2>2. CASE Queued
    BY <2>2 DEF Queued, Exclusive, DeviceLive
  <2>3. QED
    BY <2>1, <2>2 DEF DeliverFinish
<1>4. running' = FALSE /\ UNCHANGED dialog
  BY DEF DeliverFinish, Finished, uiVars
<1>5. QED
  BY <1>2, <1>3, <1>4 DEF Exclusive, OneRun, RunningExact, DeviceHeld

(* Exclusive is inductive.                                                 *)
LEMMA ExclusiveStep ==
    ASSUME NoRestore
    PROVE  TypeOK /\ Exclusive /\ [Next]_vars => Exclusive'
<1> SUFFICES ASSUME TypeOK, Exclusive, [Next]_vars PROVE Exclusive'
  OBVIOUS
<1>1. DeviceLive /\ dialog # "restore"
  BY DEF Exclusive
<1>2. CASE StartConnection
  <2>1. DeviceLive'
    BY <1>2 DEF StartConnection, DeviceLive, TypeOK
  <2>2. QED
    BY <1>1, <1>2, <2>1, RunsKept DEF StartConnection, runVars, uiVars, TypeOK
<1>3. CASE AutoDetect
  <2>1. DeviceLive'
    BY <1>3 DEF AutoDetect, DeviceLive, TypeOK
  <2>2. QED
    BY <1>1, <1>3, <2>1, RunsKept DEF AutoDetect, runVars, uiVars
<1>4. CASE UserDisconnect \/ EndSyncReturns
  <2>1. \/ UNCHANGED <<device, access>>
        \/ RuntimeDisconnect(running, signals)
    BY <1>4 DEF UserDisconnect, EndSyncReturns, devVars
  <2>2. DeviceLive' /\ (running => UNCHANGED <<device, access>>)
    BY <1>1, <2>1, DisconnectLive DEF DeviceLive
  <2>3. QED
    BY <1>1, <1>4, <2>2, RunsKept DEF UserDisconnect, EndSyncReturns, runVars
<1>5. CASE HandleSignal
  <2>1. ASSUME FinishConnect \/ NoEffect
        PROVE  DeviceLive' /\ UNCHANGED <<device, access>>
    BY <1>1, <2>1 DEF FinishConnect, NoEffect, DeviceLive
  <2>2. ASSUME HandleLost
        PROVE  /\ DeviceLive' /\ UNCHANGED device
               /\ \A d \in Devs : access'[d] = "destroyed" => access[d] = "destroyed"
    BY <1>1, <2>2 DEF HandleLost, DeviceLive, TypeOK
  <2>3. ASSUME HandleOver
        PROVE  DeviceLive' /\ (running => UNCHANGED <<device, access>>)
    BY <1>1, <2>3, AfterRunLive DEF HandleOver
  <2>4. QED
    BY <1>1, <1>5, <2>1, <2>2, <2>3, RunsKept DEF HandleSignal, runVars
<1>6. CASE TimerFires
  <2>1. CASE UNCHANGED <<devVars, runVars>>
    BY <1>1, <1>6, <2>1, RunsKept DEF TimerFires, devVars, runVars, DeviceLive
  <2>2. CASE \E r \in Runs : run[r].st = "free" /\ EngineStart(r)
    BY <1>1, <1>6, <2>2, ExclusiveStart DEF TimerFires
  <2>3. QED
    BY <1>6, <2>1, <2>2 DEF TimerFires
<1>7. CASE DeclineDialog \/ \E k \in Dialogs : OpenDialog(k)
  BY <1>1, <1>7, RunsKept DEF DeclineDialog, OpenDialog, devVars, runVars, DeviceLive,
                             NoRestore
<1>8. ASSUME NEW d \in Devs, AttemptEnds(d) \/ DeviceLost(d) \/ LinkError(d)
      PROVE  Exclusive'
  <2>1. /\ UNCHANGED device
        /\ \A e \in Devs : access'[e] = "destroyed" => access[e] = "destroyed"
    BY <1>8 DEF AttemptEnds, DeviceLost, LinkError, TypeOK
  <2>2. DeviceLive'
    BY <1>1, <2>1 DEF DeviceLive, TypeOK
  <2>3. QED
    BY <1>1, <1>8, <2>1, <2>2, RunsKept DEF AttemptEnds, DeviceLost, LinkError, runVars,
                                              uiVars
<1>9. ASSUME NEW r \in Runs, UserSync(r) \/ UserBackup(r) \/ AcceptDialog(r)
      PROVE  Exclusive'
  BY <1>1, <1>9, ExclusiveStart DEF UserSync, UserBackup, AcceptDialog, Guarded, uiVars
<1>10. ASSUME NEW r \in Runs, RunEnds(r) PROVE Exclusive'
  <2>1. \A q \in Runs : /\ (InFlight(q))' = InFlight(q)
                        /\ run'[q].dev = run[q].dev /\ run'[q].lease = run[q].lease
    BY <1>10 DEF RunEnds, InFlight, TypeOK
  <2>2. QED
    BY <1>10, <2>1 DEF RunEnds, Exclusive, OneRun, RunningExact, DeviceHeld, DeviceLive,
                       devVars, uiVars
<1>11. ASSUME NEW r \in Runs, DeliverFinish(r) PROVE Exclusive'
  BY <1>11, ExclusiveEnd
<1>12. CASE UNCHANGED vars
  BY <1>1, <1>12, RunsKept DEF vars, DeviceLive
<1>13. CASE LoadProfile
  <2>1. \A q \in Runs : ~(InFlight(q))'
    BY <1>13 DEF LoadProfile, InFlight, TypeOK
  <2>2. DeviceLive' /\ running' = FALSE /\ UNCHANGED dialog
    BY <1>13 DEF LoadProfile, DeviceLive, uiVars
  <2>3. QED
    BY <1>1, <2>1, <2>2 DEF Exclusive, OneRun, RunningExact, DeviceHeld
<1>14. QED
  BY <1>2, <1>3, <1>4, <1>5, <1>6, <1>7, <1>8, <1>9, <1>10, <1>11, <1>12, <1>13 DEF Next

(* The initial states are exclusive.                                       *)
LEMMA ExclusiveInit == Init => Exclusive
<1> SUFFICES ASSUME Init PROVE Exclusive
  OBVIOUS
<1>1. \A r \in Runs : ~InFlight(r)
  BY DEF Init, InFlight
<1>2. QED
  BY <1>1 DEF Init, Exclusive, OneRun, RunningExact, DeviceHeld, DeviceLive

(* At most one run is in flight, m_running says whether one is, and no     *)
(* disconnect, auto-detected device or policy takes away the object it     *)
(* works on, when that was the runtime's device to begin with.             *)
THEOREM RunsExclusive ==
    ASSUME NoRestore
    PROVE  Spec => [](OneRun /\ RunningExact /\ DeviceHeld)
<1>1. TypeOK /\ Exclusive /\ [Next]_vars => Exclusive'
  BY ExclusiveStep
<1>2. Exclusive => OneRun /\ RunningExact /\ DeviceHeld
  BY DEF Exclusive
<1>3. QED
  BY <1>1, <1>2, ExclusiveInit, TypeCorrect, PTL DEF Spec

-----------------------------------------------------------------------------
(* The runs implement RunService.                                          *)

(* Current is the run in flight.                                           *)
LEMMA CurrentIs ==
    ASSUME OneRun, NEW r \in Runs, InFlight(r)
    PROVE  Current = r
<1>1. (CHOOSE q \in Runs : InFlight(q)) \in Runs
      /\ InFlight(CHOOSE q \in Runs : InFlight(q))
  OBVIOUS
<1>2. (CHOOSE q \in Runs : InFlight(q)) = r
  BY <1>1 DEF OneRun
<1>3. QED
  BY <1>2 DEF Current

(* The same of the next state.                                             *)
LEMMA CurrentIsNext ==
    ASSUME OneRun', NEW r \in Runs, (InFlight(r))'
    PROVE  Current' = r
<1>1. (CHOOSE q \in Runs : (InFlight(q))') \in Runs
      /\ \E p \in Runs : p = (CHOOSE q \in Runs : (InFlight(q))') /\ (InFlight(p))'
  OBVIOUS
<1>2. (CHOOSE q \in Runs : (InFlight(q))') = r
  BY <1>1 DEF OneRun
<1>3. QED
  BY <1>2 DEF Current

(* A step that ends no run and starts none stutters.                       *)
LEMMA ServiceStutter ==
    ASSUME OneRun, OneRun',
           \A r \in Runs : (InFlight(r))' = InFlight(r)
                           /\ (IsOver(r))' = IsOver(r)
    PROVE  UNCHANGED <<Current, Over>>
<1>1. Over' = Over
  BY DEF Over
<1>2. CASE \E r \in Runs : InFlight(r)
  BY <1>1, <1>2, CurrentIs, CurrentIsNext
<1>3. CASE ~\E r \in Runs : InFlight(r)
  BY <1>1, <1>3 DEF Current
<1>4. QED
  BY <1>1, <1>2, <1>3

(* A request is a start, a start that is over at once, or rejected.        *)
LEMMA ServiceStart ==
    ASSUME TypeOK, Exclusive, Exclusive', NEW r \in Runs, run[r].st = "free",
           EngineStart(r) \/ (~running /\ RawStart(r))
    PROVE  [Service!Next]_<<Current, Over>>
<1>1. OneRun /\ OneRun' /\ (running <=> \E q \in Runs : InFlight(q))
  BY DEF Exclusive, RunningExact
<1>2. ~running => Current = NoRun
  BY <1>1 DEF Current
<1>3. r \notin Over
  BY DEF Over, IsOver
<1>4. ASSUME NEW kind \in {"engine", "raw"}, NEW d, ~running, Set(r, "active", kind, d)
      PROVE  Service!Start(r)
  <2>1. (InFlight(r))' /\ Current' = r
    BY <1>1, <1>4, CurrentIsNext DEF Set, InFlight, TypeOK
  <2>2. Over' = Over
    BY <1>4 DEF Over, IsOver, Set, TypeOK
  <2>3. QED
    BY <1>2, <1>3, <1>4, <2>1, <2>2 DEF Service!Start
<1>5. ASSUME NEW kind \in {"engine", "raw"}, NEW d, ~running, Set(r, "done", kind, d)
      PROVE  Service!StartAndEnd(r)
  <2>1. \A q \in Runs : ~(InFlight(q))'
    BY <1>1, <1>5 DEF Set, InFlight, TypeOK
  <2>2. Current' = NoRun
    BY <2>1 DEF Current
  <2>3. Over' = Over \cup {r}
    BY <1>5 DEF Over, IsOver, Set, TypeOK
  <2>4. QED
    BY <1>2, <1>3, <1>5, <2>2, <2>3 DEF Service!StartAndEnd
<1>6. ASSUME NEW kind \in {"engine", "raw"}, NEW d, Set(r, "rejected", kind, d)
      PROVE  UNCHANGED <<Current, Over>>
  <2>1. \A q \in Runs : (InFlight(q))' = InFlight(q)
                        /\ (IsOver(q))' = IsOver(q)
    BY <1>6 DEF Set, InFlight, IsOver, TypeOK
  <2>2. QED
    BY <1>1, <2>1, ServiceStutter
<1>7. QED
  BY <1>4, <1>5, <1>6 DEF EngineStart, RawStart, Service!Next

(* A delivered runFinished ends the current run.                           *)
LEMMA ServiceEnd ==
    ASSUME TypeOK, Exclusive, Exclusive', NEW r \in Runs, DeliverFinish(r)
    PROVE  Service!End
<1>1. InFlight(r) /\ OneRun
  BY DEF DeliverFinish, InFlight, Exclusive
<1>2. Current = r /\ r # NoRun
  BY <1>1, CurrentIs, ConstantsAssumption
<1>3. \A q \in Runs : ~(InFlight(q))'
  BY <1>1 DEF DeliverFinish, InFlight, TypeOK, OneRun
<1>4. Current' = NoRun
  BY <1>1, <1>3 DEF Current
<1>5. Over' = Over \cup {r}
  BY DEF Over, IsOver, DeliverFinish, TypeOK
<1>6. QED
  BY <1>2, <1>4, <1>5 DEF Service!End

(* So does the replacement of the runtime, when there is one.              *)
LEMMA ServiceGivenUp ==
    ASSUME TypeOK, Exclusive, Exclusive', LoadProfile
    PROVE  [Service!Next]_<<Current, Over>>
<1>1. \A q \in Runs : ~(InFlight(q))' /\ (run'[q].st = IF InFlight(q) THEN "orphaned"
                                                                    ELSE run[q].st)
  BY DEF LoadProfile, InFlight, TypeOK
<1>2. Current' = NoRun
  BY <1>1 DEF Current
<1>3. CASE \E r \in Runs : InFlight(r)
  <2>1. PICK r \in Runs : InFlight(r)
    BY <1>3
  <2>2. Current = r /\ r # NoRun
    BY <2>1, CurrentIs, ConstantsAssumption DEF Exclusive
  <2>3. \A q \in Runs : InFlight(q) => q = r
    BY <2>1 DEF Exclusive, OneRun
  <2>4. Over' = Over \cup {r}
    BY <1>1, <2>1, <2>3 DEF Over, IsOver
  <2>5. QED
    BY <1>2, <2>2, <2>4 DEF Service!End, Service!Next
<1>4. CASE ~\E r \in Runs : InFlight(r)
  BY <1>1, <1>2, <1>4 DEF Current, Over, IsOver
<1>5. QED
  BY <1>3, <1>4

(* Every step of PalmSession is a step of RunService or changes nothing    *)
(* it can see.                                                             *)
LEMMA ServiceStep ==
    TypeOK /\ Exclusive /\ Exclusive' /\ [Next]_vars => [Service!Next]_<<Current, Over>>
<1> SUFFICES ASSUME TypeOK, Exclusive, Exclusive', [Next]_vars
             PROVE  [Service!Next]_<<Current, Over>>
  OBVIOUS
<1>1. ASSUME UNCHANGED run PROVE UNCHANGED <<Current, Over>>
  BY <1>1 DEF Current, Over, InFlight, IsOver
<1>2. CASE StartConnection \/ AutoDetect \/ UserDisconnect \/ EndSyncReturns
           \/ HandleSignal \/ DeclineDialog
  BY <1>1, <1>2 DEF StartConnection, AutoDetect, UserDisconnect, EndSyncReturns,
                    HandleSignal, DeclineDialog, runVars
<1>3. CASE TimerFires
  BY <1>1, <1>3, ServiceStart DEF TimerFires, runVars
<1>4. ASSUME NEW d \in Devs, AttemptEnds(d) \/ DeviceLost(d) \/ LinkError(d)
      PROVE  UNCHANGED <<Current, Over>>
  BY <1>1, <1>4 DEF AttemptEnds, DeviceLost, LinkError, runVars
<1>5. ASSUME NEW k \in Dialogs, OpenDialog(k) PROVE UNCHANGED <<Current, Over>>
  BY <1>1, <1>5 DEF OpenDialog, runVars
<1>6. ASSUME NEW r \in Runs, UserSync(r) \/ UserBackup(r) \/ AcceptDialog(r)
      PROVE  [Service!Next]_<<Current, Over>>
  BY <1>6, ServiceStart DEF UserSync, UserBackup, AcceptDialog, Guarded, Exclusive
<1>7. ASSUME NEW r \in Runs, RunEnds(r) PROVE UNCHANGED <<Current, Over>>
  <2>1. \A q \in Runs : (InFlight(q))' = InFlight(q)
                        /\ (IsOver(q))' = IsOver(q)
    BY <1>7 DEF RunEnds, InFlight, IsOver, TypeOK
  <2>2. QED
    BY <2>1, ServiceStutter DEF Exclusive
<1>8. ASSUME NEW r \in Runs, DeliverFinish(r) PROVE Service!Next
  BY <1>8, ServiceEnd DEF Service!Next
<1>9. CASE UNCHANGED vars
  BY <1>1, <1>9 DEF vars
<1>10. CASE LoadProfile
  BY <1>10, ServiceGivenUp
<1>11. QED
  BY <1>2, <1>3, <1>4, <1>5, <1>6, <1>7, <1>8, <1>9, <1>10 DEF Next

(* The initial states of a session are RunService's.                       *)
LEMMA ServiceInit == Init => Service!Init
<1> SUFFICES ASSUME Init PROVE Service!Init
  OBVIOUS
<1>1. \A r \in Runs : run[r].st = "free"
  BY DEF Init
<1>2. Current = NoRun
  BY <1>1 DEF Current, InFlight
<1>3. Over = {}
  BY <1>1 DEF Over, IsOver
<1>4. QED
  BY <1>2, <1>3 DEF Service!Init

(* What hotSync, fullSync, the mirrors, clobberSync and backup promise:    *)
(* one run at a time, each of which is over once.                          *)
THEOREM RunsImplementService ==
    ASSUME NoRestore
    PROVE  Spec => ImplementsRunService
<1>1. TypeOK /\ Exclusive /\ [Next]_vars => Exclusive'
  BY ExclusiveStep
<1>2. TypeOK /\ Exclusive /\ Exclusive' /\ [Next]_vars => [Service!Next]_<<Current, Over>>
  BY ServiceStep
<1>3. QED
  BY <1>1, <1>2, ExclusiveInit, ServiceInit, TypeCorrect, PTL
     DEF Spec, ImplementsRunService, Service!Spec, Service!vars

-----------------------------------------------------------------------------
(* The keep-alive, with every dialog: backups and restores may overlap.    *)

LostQueued(d) == \E i \in DOMAIN signals : signals[i] = Signal("lost", d)

RawRun == \E r \in Runs : InFlight(r) /\ run[r].kind = "raw"

Awake(d) ==
    access[d] = "connected" =>
        tickle[d] \in {"on", "error"} \/ LostQueued(d) \/ (tickle[d] = "paused" /\ RawRun)

(* The inductive invariant: TickleResumed of every object, and that no     *)
(* object but the runtime's device is in use, so that the tickle which     *)
(* DeliverFinish resumes is the one of the object that is connected.       *)
Pinged ==
    /\ \A d \in Devs : access[d] \in {"idle", "connecting", "connected"} => d = device
    /\ \A d \in Devs : Awake(d)

(* A report that is queued stays queued while signals are added, and while *)
(* another signal is taken.                                                *)
LEMMA LostAdded ==
    ASSUME NEW d, NEW q \in Seq(Sigs), NEW s \in Seq(Sigs),
           \E i \in DOMAIN q : q[i] = Signal("lost", d)
    PROVE  \E i \in DOMAIN (q \o s) : (q \o s)[i] = Signal("lost", d)
<1>1. PICK i \in DOMAIN q : q[i] = Signal("lost", d)
  OBVIOUS
<1>2. i \in DOMAIN (q \o s) /\ (q \o s)[i] = q[i]
  OBVIOUS
<1>3. QED
  BY <1>1, <1>2

LEMMA LostStays ==
    ASSUME NEW d, signals \in Seq(Sigs), signals # <<>>, LostQueued(d),
           Head(signals) # Signal("lost", d)
    PROVE  \E i \in DOMAIN Tail(signals) : Tail(signals)[i] = Signal("lost", d)
<1>1. PICK i \in DOMAIN signals : signals[i] = Signal("lost", d)
  BY DEF LostQueued
<1>2. i # 1 /\ i \in 1..Len(signals)
  BY <1>1
<1>3. i - 1 \in DOMAIN Tail(signals) /\ Tail(signals)[i - 1] = signals[i]
  BY <1>2
<1>4. QED
  BY <1>1, <1>3

(* A disconnect leaves no object in use, or everything as it is; what was  *)
(* queued stays queued.                                                    *)
LEMMA DisconnectPinged ==
    ASSUME TypeOK, Pinged, NEW up, NEW queued \in Seq(Sigs), RuntimeDisconnect(up, queued)
    PROVE  \/ UNCHANGED <<device, access>> /\ signals' = queued
           \/ \A d \in Devs : access'[d] \notin {"idle", "connecting", "connected"}
  BY DEF RuntimeDisconnect, Destroy, Pinged, TypeOK

LEMMA AfterRunPinged ==
    ASSUME TypeOK, Pinged, NEW up, NEW queued \in Seq(Sigs), AfterRun(up, queued)
    PROVE  \/ UNCHANGED <<device, access>> /\ signals' = queued
           \/ \A d \in Devs : access'[d] \notin {"idle", "connecting", "connected"}
  BY DisconnectPinged DEF AfterRun

(* A step that stops no tickle and takes no report of a connected object   *)
(* keeps Pinged.                                                           *)
LEMMA PingedKept ==
    ASSUME Pinged, UNCHANGED tickle, RawRun => RawRun',
           \A d \in Devs : access'[d] \in {"idle", "connecting", "connected"} => d = device',
           \A d \in Devs : access'[d] = "connected" =>
               access[d] = "connected" /\ (LostQueued(d) => (LostQueued(d))')
    PROVE  Pinged'
  BY DEF Pinged, Awake

(* The same, for a step that is done with the device and then disconnects  *)
(* or does not.                                                            *)
LEMMA PingedPolicy ==
    ASSUME TypeOK, Pinged, NEW up, NEW s \in Seq(Sigs),
           \/ signals' = signals \o s /\ UNCHANGED <<device, access>>
           \/ \A d \in Devs : access'[d] \notin {"idle", "connecting", "connected"},
           UNCHANGED tickle, RawRun => RawRun'
    PROVE  Pinged'
<1>1. CASE \A d \in Devs : access'[d] \notin {"idle", "connecting", "connected"}
  BY <1>1 DEF Pinged, Awake
<1>2. CASE signals' = signals \o s /\ UNCHANGED <<device, access>>
  <2>1. \A d \in Devs : LostQueued(d) => (LostQueued(d))'
    BY <1>2, LostAdded DEF LostQueued, TypeOK, Sigs
  <2>2. QED
    BY <1>2, <2>1, PingedKept DEF Pinged
<1>3. QED
  BY <1>1, <1>2

(* The entry points: a run that starts with the link is a raw one; one     *)
(* that ends at once leaves the others as they are.                        *)
LEMMA SetKeepsRaw ==
    ASSUME TypeOK, NEW r \in Runs, run[r].st = "free", NEW st, NEW kind, NEW d,
           Set(r, st, kind, d)
    PROVE  RawRun => RawRun'
  BY DEF Set, RawRun, InFlight, TypeOK

LEMMA PingedEnd ==
    ASSUME TypeOK, Pinged, OnMain, UNCHANGED tickle, RawRun => RawRun'
    PROVE  Pinged'
<1>1. signals \in Seq(Sigs)
  BY DEF TypeOK, Sigs
<1>2. <<>> \in Seq(Sigs) /\ signals \o <<>> = signals
  BY <1>1
<1>3. \/ UNCHANGED <<device, access>> /\ signals' = signals \o <<>>
      \/ \A d \in Devs : access'[d] \notin {"idle", "connecting", "connected"}
  BY <1>1, <1>2, AfterRunPinged DEF OnMain
<1>4. QED
  BY <1>2, <1>3, PingedPolicy

LEMMA PingedStart ==
    ASSUME TypeOK, Pinged, NEW r \in Runs, run[r].st = "free",
           EngineStart(r) \/ RawStart(r)
    PROVE  Pinged'
<1>1. RawRun => RawRun'
  BY SetKeepsRaw DEF EngineStart, RawStart
<1>2. ASSUME UNCHANGED devVars PROVE Pinged'
  BY <1>1, <1>2, PingedKept DEF devVars, LostQueued, Pinged
<1>3. ASSUME OnMain, UNCHANGED tickle PROVE Pinged'
  BY <1>1, <1>3, PingedEnd
<1>4. ASSUME Set(r, "active", "raw", device), UNCHANGED <<device, access, signals>>,
             tickle' = IF Up THEN [tickle EXCEPT ![device] = "paused"] ELSE tickle
      PROVE  Pinged'
  <2>1. RawRun'
    BY <1>4 DEF Set, RawRun, InFlight, TypeOK
  <2>2. \A d \in Devs : access[d] = "connected" => tickle'[d] = "paused"
    BY <1>4, ConstantsAssumption DEF Pinged, Up, TypeOK
  <2>3. QED
    BY <1>4, <2>1, <2>2 DEF Pinged, Awake
<1>5. CASE EngineStart(r)
  BY <1>2, <1>3, <1>5 DEF EngineStart
<1>6. CASE RawStart(r)
  BY <1>3, <1>4, <1>6 DEF RawStart
<1>7. QED
  BY <1>5, <1>6

(* A raw run that ends with the link up resumes the one tickle there is;   *)
(* with the link down nothing is connected.                                *)
LEMMA PingedFinish ==
    ASSUME TypeOK, Pinged, NEW r \in Runs, DeliverFinish(r)
    PROVE  Pinged'
<1>1. signals \in Seq(Sigs) /\ Signal("over", NoDev) \in Sigs
  BY DEF TypeOK, Sigs, Signal
<1>2. <<Signal("over", NoDev)>> \in Seq(Sigs)
  BY <1>1
<1>3. CASE run[r].kind = "raw"
  <2>1. OnMain /\ tickle' = IF Up THEN [tickle EXCEPT ![device] = "on"] ELSE tickle
    BY <1>3 DEF DeliverFinish
  <2>2. \/ UNCHANGED <<device, access>> /\ signals' = signals
        \/ \A d \in Devs : access'[d] \notin {"idle", "connecting", "connected"}
    BY <1>1, <2>1, AfterRunPinged DEF OnMain
  <2>3. CASE \A d \in Devs : access'[d] \notin {"idle", "connecting", "connected"}
    BY <2>3 DEF Pinged, Awake
  <2>4. CASE UNCHANGED <<device, access>> /\ signals' = signals
    <3>1. \A d \in Devs : access[d] = "connected" => tickle'[d] = "on"
      BY <2>1, ConstantsAssumption DEF Pinged, Up, TypeOK
    <3>2. QED
      BY <2>4, <3>1 DEF Pinged, Awake
  <2>5. QED
    BY <2>2, <2>3, <2>4
<1>4. CASE run[r].kind # "raw"
  <2>1. Queued /\ UNCHANGED tickle
    BY <1>4 DEF DeliverFinish
  <2>2. signals' = signals \o <<Signal("over", NoDev)>> /\ UNCHANGED <<device, access>>
    BY <1>1, <2>1 DEF Queued
  <2>3. RawRun => RawRun'
    BY <1>4 DEF DeliverFinish, RawRun, InFlight, TypeOK
  <2>4. QED
    BY <1>2, <2>1, <2>2, <2>3, PingedPolicy
<1>5. QED
  BY <1>3, <1>4

(* A signal that is handled: only a report of a lost device is missed, and *)
(* its device is no longer connected.                                      *)
LEMMA PingedSignal ==
    ASSUME TypeOK, Pinged, HandleSignal
    PROVE  Pinged'
<1>1. signals \in Seq(Sigs) /\ signals # <<>>
  BY DEF HandleSignal, FinishConnect, HandleLost, HandleOver, NoEffect, TypeOK, Sigs
<1>2. Tail(signals) \in Seq(Sigs) /\ Head(signals) \in Sigs
  BY <1>1
<1>3. RawRun => RawRun'
  BY DEF HandleSignal, runVars, RawRun, InFlight
<1>4. ASSUME Head(signals).t # "lost", NEW d, LostQueued(d)
      PROVE  \E i \in DOMAIN Tail(signals) : Tail(signals)[i] = Signal("lost", d)
  BY <1>1, <1>4, LostStays DEF Signal
<1>5. CASE FinishConnect \/ NoEffect
  <2>1. Head(signals).t # "lost" /\ signals' = Tail(signals)
        /\ UNCHANGED <<device, access, tickle>>
    BY <1>5 DEF FinishConnect, NoEffect
  <2>2. \A d \in Devs : LostQueued(d) => (LostQueued(d))'
    BY <1>4, <2>1 DEF LostQueued
  <2>3. QED
    BY <1>3, <2>1, <2>2, PingedKept DEF Pinged
<1>6. CASE HandleOver
  <2>1. Head(signals).t # "lost" /\ AfterRun(running, Tail(signals)) /\ UNCHANGED tickle
    BY <1>6 DEF HandleOver
  <2>2. CASE UNCHANGED <<device, access>> /\ signals' = Tail(signals)
    <3>1. \A d \in Devs : LostQueued(d) => (LostQueued(d))'
      BY <1>4, <2>1, <2>2 DEF LostQueued
    <3>2. QED
      BY <1>3, <2>1, <2>2, <3>1, PingedKept DEF Pinged
  <2>3. CASE \A d \in Devs : access'[d] \notin {"idle", "connecting", "connected"}
    BY <2>3 DEF Pinged, Awake
  <2>4. QED
    BY <1>2, <2>1, <2>2, <2>3, AfterRunPinged
<1>7. CASE HandleLost
  <2> DEFINE d == Head(signals).d
  <2>1. tickle' = [tickle EXCEPT ![d] = "off"] /\ signals' = Tail(signals)
        /\ UNCHANGED device
    BY <1>7 DEF HandleLost
  <2>2. \A e \in Devs : access'[e] = "connected" => access[e] = "connected" /\ e # d
    BY <1>7 DEF HandleLost, TypeOK
  <2>3. \A e \in Devs : access'[e] \in {"idle", "connecting", "connected"} =>
                            access[e] \in {"idle", "connecting", "connected"}
    BY <1>7 DEF HandleLost, TypeOK
  <2>4. ASSUME NEW e \in Devs, e # d, LostQueued(e) PROVE (LostQueued(e))'
    <3>1. Head(signals) # Signal("lost", e)
      BY <2>4 DEF Signal
    <3>2. \E i \in DOMAIN Tail(signals) : Tail(signals)[i] = Signal("lost", e)
      BY <1>1, <2>4, <3>1, LostStays
    <3>3. QED
      BY <2>1, <3>2 DEF LostQueued
  <2>5. \A e \in Devs : e # d => tickle'[e] = tickle[e]
    BY <2>1 DEF TypeOK
  <2>6. QED
    BY <1>3, <2>1, <2>2, <2>3, <2>4, <2>5 DEF Pinged, Awake
<1>8. QED
  BY <1>5, <1>6, <1>7 DEF HandleSignal

(* Pinged is inductive.                                                    *)
LEMMA PingedStep == TypeOK /\ Pinged /\ [Next]_vars => Pinged'
<1> SUFFICES ASSUME TypeOK, Pinged, [Next]_vars PROVE Pinged'
  OBVIOUS
<1>1. signals \in Seq(Sigs) /\ <<>> \in Seq(Sigs) /\ signals = signals \o <<>>
  BY DEF TypeOK, Sigs
<1>2. CASE StartConnection
  <2>1. /\ \A d \in Devs : access'[d] = "connected" => access[d] = "connected"
        /\ \A d \in Devs : access'[d] \in {"idle", "connecting", "connected"} => d = device'
    BY <1>2, ConstantsAssumption DEF StartConnection, Pinged, TypeOK
  <2>2. QED
    BY <1>2, <2>1 DEF StartConnection, Pinged, Awake, LostQueued, RawRun, InFlight, runVars
<1>3. CASE AutoDetect
  <2>1. \A d \in Devs : access'[d] # "connected"
    BY <1>3, ConstantsAssumption DEF AutoDetect, Pinged, TypeOK
  <2>2. \A d \in Devs : access'[d] \in {"idle", "connecting", "connected"} => d = device'
    BY <1>3, ConstantsAssumption DEF AutoDetect, Pinged, TypeOK
  <2>3. QED
    BY <2>1, <2>2 DEF Pinged, Awake
<1>4. CASE UserDisconnect \/ EndSyncReturns
  <2>1. UNCHANGED devVars \/ (RuntimeDisconnect(running, signals) /\ UNCHANGED tickle)
    BY <1>4 DEF UserDisconnect, EndSyncReturns
  <2>2. RawRun => RawRun'
    BY <1>4 DEF UserDisconnect, EndSyncReturns, runVars, RawRun, InFlight
  <2>3. UNCHANGED tickle /\
        (\/ UNCHANGED <<device, access>> /\ signals' = signals \o <<>>
         \/ \A d \in Devs : access'[d] \notin {"idle", "connecting", "connected"})
    BY <1>1, <2>1, DisconnectPinged DEF devVars
  <2>4. QED
    BY <1>1, <2>2, <2>3, PingedPolicy
<1>5. CASE HandleSignal
  BY <1>5, PingedSignal
<1>6. ASSUME UNCHANGED <<devVars, runVars>> PROVE Pinged'
  BY <1>6 DEF devVars, runVars, Pinged, Awake, LostQueued, RawRun, InFlight
<1>7. CASE TimerFires
  BY <1>6, <1>7, PingedStart DEF TimerFires
<1>8. CASE DeclineDialog \/ \E k \in Dialogs : OpenDialog(k)
  BY <1>6, <1>8 DEF DeclineDialog, OpenDialog
<1>9. ASSUME NEW d \in Devs, AttemptEnds(d) PROVE Pinged'
  <2>1. <<Signal("ok", d)>> \in Seq(Sigs)
    BY DEF Sigs, Signal
  <2>2. PICK s \in Seq(Sigs) : signals' = signals \o s
    <3>1. signals' = signals \/ signals' = Append(signals, Signal("ok", d))
      BY <1>9 DEF AttemptEnds
    <3>2. signals \in Seq(Sigs) /\ Signal("ok", d) \in Sigs
      BY <1>1 DEF Sigs, Signal
    <3>3. signals = signals \o <<>>
          /\ Append(signals, Signal("ok", d)) = signals \o <<Signal("ok", d)>>
      BY <3>2
    <3>4. <<>> \in Seq(Sigs)
      OBVIOUS
    <3>5. signals' = signals \o <<>> \/ signals' = signals \o <<Signal("ok", d)>>
      BY <3>1, <3>3
    <3>6. QED
      BY <2>1, <3>4, <3>5
  <2>3. \A e \in Devs : LostQueued(e) => (LostQueued(e))'
    BY <1>1, <2>2, LostAdded DEF LostQueued
  <2>4. /\ UNCHANGED <<device, run>>
        /\ \A e \in Devs : access'[e] = "connected" =>
               tickle'[e] = "on" \/ (access[e] = "connected" /\ tickle'[e] = tickle[e])
        /\ \A e \in Devs : access'[e] \in {"idle", "connecting", "connected"} =>
               access[e] \in {"idle", "connecting", "connected"}
    BY <1>9 DEF AttemptEnds, runVars, TypeOK
  <2>5. QED
    BY <2>3, <2>4 DEF Pinged, Awake, RawRun, InFlight
<1>10. ASSUME NEW d \in Devs, DeviceLost(d) PROVE Pinged'
  <2>1. Signal("lost", d) \in Sigs
    BY DEF Sigs, Signal
  <2>2. <<Signal("lost", d)>> \in Seq(Sigs) /\ signals' = signals \o <<Signal("lost", d)>>
    BY <1>1, <1>10, <2>1 DEF DeviceLost
  <2>3. \A e \in Devs : LostQueued(e) => (LostQueued(e))'
    BY <1>1, <2>2, LostAdded DEF LostQueued
  <2>4. (LostQueued(d))'
    <3>1. Len(signals) + 1 \in DOMAIN signals'
          /\ signals'[Len(signals) + 1] = Signal("lost", d)
      BY <1>1, <1>10, <2>1 DEF DeviceLost
    <3>2. QED
      BY <3>1 DEF LostQueued
  <2>5. UNCHANGED <<device, access, run>> /\ \A e \in Devs : e # d => tickle'[e] = tickle[e]
    BY <1>10 DEF DeviceLost, runVars, TypeOK
  <2>6. QED
    BY <2>3, <2>4, <2>5 DEF Pinged, Awake, RawRun, InFlight
<1>11. ASSUME NEW r \in Runs, UserSync(r) \/ UserBackup(r) \/ AcceptDialog(r)
       PROVE  Pinged'
  BY <1>11, PingedStart DEF UserSync, UserBackup, AcceptDialog
<1>12. ASSUME NEW r \in Runs, RunEnds(r) PROVE Pinged'
  <2>1. RawRun => RawRun'
    BY <1>12 DEF RunEnds, RawRun, InFlight, TypeOK
  <2>2. QED
    BY <1>12, <2>1 DEF RunEnds, devVars, Pinged, Awake, LostQueued
<1>13. ASSUME NEW r \in Runs, DeliverFinish(r) PROVE Pinged'
  BY <1>13, PingedFinish
<1>14. CASE UNCHANGED vars
  BY <1>6, <1>14 DEF vars, devVars, runVars
<1>15. ASSUME NEW d \in Devs, LinkError(d) PROVE Pinged'
  <2>1. tickle'[d] = "error" /\ \A e \in Devs : e # d => tickle'[e] = tickle[e]
    BY <1>15 DEF LinkError, TypeOK
  <2>2. UNCHANGED <<device, access, signals, run>>
    BY <1>15 DEF LinkError, runVars
  <2>3. QED
    BY <2>1, <2>2 DEF Pinged, Awake, LostQueued, RawRun, InFlight
<1>16. CASE LoadProfile
  <2>1. \A d \in Devs : access'[d] \notin {"idle", "connecting", "connected"}
    BY <1>16 DEF LoadProfile, Pinged, TypeOK
  <2>2. QED
    BY <2>1 DEF Pinged, Awake
<1>17. QED
  BY <1>2, <1>3, <1>4, <1>5, <1>7, <1>8, <1>9, <1>10, <1>11, <1>12, <1>13, <1>14, <1>15,
     <1>16 DEF Next

(* However backups, restores and syncs overlap and whatever the device     *)
(* does, no connected device stays paused: a backup that paused its        *)
(* keep-alive resumes it, unless the device is known to be lost.  (A DLP   *)
(* error stops the keep-alive for good, and the next backup revives it.)   *)
THEOREM TickleNeverForgotten == Spec => []TickleResumed
<1>1. Init => Pinged
  BY DEF Init, Pinged, Awake
<1>2. TypeOK /\ Pinged => TickleResumed
  BY DEF TypeOK, Pinged, Awake, TickleResumed, Up, LostQueued, RawRun
<1>3. QED
  BY <1>1, <1>2, PingedStep, TypeCorrect, PTL DEF Spec
=============================================================================
