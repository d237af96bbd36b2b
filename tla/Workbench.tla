------------------------------ MODULE Workbench ------------------------------
(***************************************************************************)
(* The main window around one handheld: AutoSyncOrchestrator and           *)
(* KF6MainWindow turn the monitor's announcements, the profile registry    *)
(* and the user's choices into an open profile, a runtime for it, a        *)
(* connection and an automatic sync.                                       *)
(*                                                                         *)
(* All of it runs on the main thread.  A handler that asks the user a      *)
(* question turns the event loop until the answer, so announcements,       *)
(* timers, the end of a connection attempt and further questions happen    *)
(* inside it: `stack' holds the handlers that wait, the innermost last.    *)
(* The user starts nothing new while a question is open.  What happens to  *)
(* a connection and a run in detail is the subject of PalmSession.         *)
(***************************************************************************)
EXTENDS DeviceMonitor, ProfileRegistry

CONSTANTS
    Asks,          \* what the user does from the menus: some of "new",
                   \* "import", "close", "switch", "forget", "folder",
                   \* "connect", "disconnect", "sync", "settings", "user", "quit"
    Blank,         \* handhelds that nobody has given a user name yet
    AutoSync,      \* Profile::autoSyncOnConnect
    MaxAsks,       \* bound: how often the user does one of those
    MaxDepth       \* bound: questions that are open at once

ASSUME WorkbenchAssumption ==
    /\ \A h \in Handhelds : SerialOf[h] \in Serials \cup {NoSerial}
    /\ Untracked \notin Serials \cup {NoSerial}
    /\ Blank \subseteq Handhelds
    /\ AutoSync \in BOOLEAN /\ MaxAsks \in Nat /\ MaxDepth \in Nat \ {0}

VARIABLES
    reg,        \* the profile registry
    disk,       \* the profile folders
    open,       \* m_currentProfile
    rt,         \* m_palmRuntime
    auto,       \* m_deviceReadyForSync, m_accountsReadyForSync, and whether
                \* single shots of onHotSync are queued
    serial,     \* m_currentUsbSerial
    listening,  \* m_listeningDevicePath
    life,       \* "launching" until resolveStartupProfile has run
    stack,      \* handlers that wait for an answer
    asked,      \* what the user did from the menus, counted
    blank,      \* the handhelds without user info
    born        \* history: how often an id was handed out or came in

profileVars == <<reg, disk, open, rt, auto, born, blank>>
handlerVars == <<serial, listening, life, stack>>
vars == <<monitorVars, profileVars, handlerVars, asked>>

-----------------------------------------------------------------------------
Nowhere == "nowhere"
NoPath == [root |-> "none", base |-> NoId]
NoFp == [user |-> NoHandheld, serial |-> NoSerial]
NoFolder == [id |-> NoId, fp |-> NoFp]       \* no such folder
Closed == [path |-> NoPath, id |-> NoId, fp |-> NoFp]
IsOpen == open # Closed
Exists(d, f) == d[f].id # NoId               \* a folder with its profile.conf

(* A runtime.  st: no object at all; no PalmDeviceAccess; one that is not  *)
(* connected, connecting to a place, connected, or connected over a link   *)
(* that the window closed.  `emits': its connectionComplete is being       *)
(* handled.  `shows': onSetUserInfo shows the user info of its handheld.   *)
(* `run': a run is in flight.                                              *)
RuntimeStates == {"none", "idle", "down", "connecting", "up", "closed"}
NewRuntime ==
    [st |-> "idle", place |-> Nowhere, emits |-> FALSE, shows |-> FALSE, run |-> FALSE]
NoRuntime == [NewRuntime EXCEPT !.st = "none"]
IsDeviceConnected(r) == r.st \notin {"none", "idle"}

(* A handler that waits: `held' is the handheld it is about, `user' what   *)
(* the handshake called it.                                                *)
Kinds == {"wizard", "register", "notice", "mismatch", "known", "initialize", "userinfo",
          "forget"}
Frame(k) == [kind |-> k, place |-> Nowhere, serial |-> NoSerial, held |-> NoHandheld,
             user |-> NoHandheld, path |-> NoPath, id |-> NoId]

(* AutoSyncOrchestrator::m_busy: onPalmDetected waits for an answer.       *)
Busy == \E k \in DOMAIN stack : stack[k].kind \in {"register", "notice"}

Volatile ==
    /\ open = Closed /\ rt = NoRuntime
    /\ auto = [device |-> FALSE, accounts |-> FALSE, hot |-> FALSE]
    /\ serial = NoSerial /\ listening = Nowhere /\ stack = <<>>

AppInit ==
    /\ reg = NoProfiles
    /\ disk = [f \in Folders |-> IF f.root = "elsewhere" THEN [id |-> f.base, fp |-> NoFp]
                                 ELSE NoFolder]
    /\ Volatile /\ life = "down" /\ asked = 0
    /\ born = [i \in Ids |-> 0] /\ blank = Blank

Init == MonitorInit /\ AppInit

-----------------------------------------------------------------------------
(* Profiles.  Handlers call one another, so each is a function from what   *)
(* the window keeps of profiles, and what it writes to handhelds, to its   *)
(* next value: w = [reg, disk, open, rt, auto, born, blank].               *)

Now == [reg |-> reg, disk |-> disk, open |-> open, rt |-> rt, auto |-> auto,
        born |-> born, blank |-> blank]

Become(w) ==
    /\ reg' = w.reg /\ disk' = w.disk /\ open' = w.open
    /\ rt' = w.rt /\ auto' = w.auto /\ born' = w.born /\ blank' = w.blank

(* Profile::save writes the folder the profile is in, making it if need be.*)
Save(w) ==
    IF w.open = Closed THEN w
    ELSE [w EXCEPT !.disk[w.open.path] = [id |-> w.open.id, fp |-> w.open.fp]]

(* Profile::load: what its folder says of the profile.                     *)
LoadProfileConf(d, f) == [path |-> f, id |-> d[f].id, fp |-> d[f].fp]

(* loadProfile: the open profile is saved and replaced; with it go its     *)
(* runtime and the account controller.  A folder that is gone leaves no    *)
(* profile open and the runtime as it was.                                 *)
LoadProfile(w, f) ==
    LET s == Save(w) IN
    IF ~Exists(s.disk, f) THEN [s EXCEPT !.open = Closed]
    ELSE [s EXCEPT
            !.open = LoadProfileConf(s.disk, f),
            !.reg = SetLastActive(@, s.disk[f].id),
            !.rt = NewRuntime,
            !.auto = [@ EXCEPT !.device = FALSE, !.accounts = FALSE]]

(* closeProfile: the runtime stays, with whatever it is connected to.      *)
CloseProfile(w) == [Save(w) EXCEPT !.open = Closed]

(* createProfileForDevice, and the first half of                           *)
(* createAndLoadProfileFromWizard: an entry in the registry and a folder   *)
(* for it, bound to a serial if there is one.                              *)
CanCreate(w) == AllocateNewId(w.reg) <= MaxId

CreateProfile(w, s) ==
    LET i == AllocateNewId(w.reg)
        r == RegisterNew(w.reg) IN
    [w EXCEPT !.reg = IF s = NoSerial THEN r ELSE BindSerial(r, i, s),
              !.disk[Home(i)] = [id |-> i, fp |-> NoFp],
              !.born[i] = @ + 1]

(* registerDeviceWithCurrentProfile.                                       *)
RegisterDevice(w, fp) ==
    IF w.open = Closed THEN w
    ELSE LET s == Save([w EXCEPT !.open.fp = fp]) IN
         IF fp.serial = NoSerial THEN s
         ELSE [s EXCEPT !.reg = BindSerial(@, w.open.id, fp.serial)]

(* DeviceFingerprint::compare: the most reliable field that both have.     *)
Compare(e, c) ==
    IF e.serial # NoSerial /\ c.serial # NoSerial
    THEN IF e.serial = c.serial THEN "match" ELSE "mismatch"
    ELSE IF e.user # NoHandheld /\ c.user # NoHandheld
         THEN IF e.user = c.user THEN "match" ELSE "mismatch"
         ELSE "indeterminate"

-----------------------------------------------------------------------------
(* Connecting.                                                             *)

(* startConnectionMultiPort and PalmRuntime::connectDevice: nothing to do  *)
(* without a runtime, which the user is told; an attempt or a connection   *)
(* that exists stays.                                                      *)
StartConnection(w, p) ==
    IF w.rt.st \in {"idle", "down"} THEN [w EXCEPT !.rt.st = "connecting", !.rt.place = p] ELSE w

Disconnected(w) == [w EXCEPT !.rt = [NewRuntime EXCEPT !.run = w.rt.run]]

(* onAutoDeviceDetected for a profile in folder f, or NoPath.              *)
AutoDeviceDetected(w, f, p) ==
    IF w.rt.run THEN w
    ELSE LET d == IF IsDeviceConnected(w.rt) THEN Disconnected(w) ELSE w
             l == IF f # NoPath /\ d.open = Closed THEN LoadProfile(d, f) ELSE d
         IN StartConnection(l, p)

(* onReadyForSync, at the end of PalmRuntime::finishConnect, which does    *)
(* nothing when the device is gone.                                        *)
FinishConnect(w) ==
    IF ~IsDeviceConnected(w.rt) THEN w
    ELSE [w EXCEPT !.rt.emits = FALSE,
                   !.auto = [device |-> TRUE, accounts |-> @.accounts,
                             hot |-> @.hot \/ (w.open # Closed /\ AutoSync /\ @.accounts)]]

(* AutoSyncOrchestrator::onPalmDetected for place p and serial s.  A known *)
(* serial whose profile is still there is handed on at once; otherwise the *)
(* user is asked.  While it waits, further announcements are lost.         *)
ProfileOf(s) == {e.path : e \in {x \in FindBySerial(reg, s) : Exists(disk, x.path)}}

OnPalmDetected(p, s) ==
    \/ Busy /\ UNCHANGED <<profileVars, handlerVars>>
    \/ /\ ~Busy /\ serial' = s
       /\ \/ \E f \in ProfileOf(s) :
               Become(AutoDeviceDetected(Now, f, p)) /\ UNCHANGED stack
          \/ /\ ProfileOf(s) = {} /\ Len(stack) < MaxDepth
             /\ stack' = Append(stack, [Frame("register") EXCEPT !.place = p, !.serial = s])
             /\ UNCHANGED profileVars
       /\ UNCHANGED <<listening, life>>

Unattended == UNCHANGED <<profileVars, handlerVars>>

(* The monitor's steps, with their receiver.  The loop of                  *)
(* enumerateExistingDevices waits for the handler of each announcement.    *)
Enumerate ==
    /\ stack = <<>>
    /\ \E e \in found :
         /\ EnumerateTurn(e)
         /\ IF TurnAnnounces(e) THEN OnPalmDetected(e.place, e.serial) ELSE Unattended

Shot ==
    /\ life # "down" /\ TakeShot
    /\ IF ShotAnnounces THEN OnPalmDetected(Head(shots).place, Head(shots).serial)
       ELSE Unattended

World ==
    /\ \/ \E p \in Places : (\E h \in Handhelds : Plug(p, h)) \/ PortAppears(p) \/ Unplug(p)
       \/ life # "down" /\ OnUdevEvent
    /\ Unattended

-----------------------------------------------------------------------------
(* The connection attempt ends: PalmRuntime emits connectionComplete,      *)
(* whose receiver onConnectionComplete may ask the user, and then finishes *)
(* the connection.                                                         *)

Alive == life # "down"
Push(f) == Len(stack) < MaxDepth /\ stack' = Append(stack, f)
Pop == SubSeq(stack, 1, Len(stack) - 1)
Top == stack[Len(stack)]

Leaves(w, st) ==
    Become(w) /\ stack' = st /\ UNCHANGED <<monitorVars, serial, listening, life>>

(* What the process leaves behind when it ends, by the user or by a crash. *)
Gone(w) ==
    /\ reg' = w.reg /\ disk' = w.disk /\ born' = w.born /\ blank' = w.blank
    /\ open' = Closed /\ rt' = NoRuntime
    /\ auto' = [device |-> FALSE, accounts |-> FALSE, hot |-> FALSE]
    /\ serial' = NoSerial /\ listening' = Nowhere /\ stack' = <<>> /\ life' = "down"
    /\ running' = FALSE /\ udev' = <<>> /\ shots' = <<>> /\ found' = {}
    /\ tracked' = [p \in Places |-> Untracked]
    /\ UNCHANGED <<bus, ports, plugs, announced>>

(* The end of onConnectionComplete.  When the runtime that emits it was    *)
(* replaced, or its device was, the handler goes on with pointers to what  *)
(* is gone.                                                                *)
Finishes(w, st) ==
    \/ w.rt.emits /\ Leaves(FinishConnect(w), st)
    \/ ~w.rt.emits /\ (Leaves(w, st) \/ Gone(w))

(* The rest of onConnectionComplete once it is settled which profile is    *)
(* open: a handheld without user info is to be given a name.               *)
GoesOn(w, st, held, user) ==
    \/ user # NoHandheld /\ Finishes(w, st)
    \/ /\ user = NoHandheld /\ Len(st) < MaxDepth
       /\ Leaves(w, Append(st, [Frame("initialize") EXCEPT !.held = held]))

Questions(w, f) == Len(stack) < MaxDepth /\ Leaves(w, Append(stack, f))

(* Mutant of HandleFingerprint: a mismatch of a stored handheld is not     *)
(* asked about.                                                            *)
HandleFingerprint_Trust(w, held, fp) == GoesOn(RegisterDevice(w, fp), stack, held, fp.user)

(* handleDeviceFingerprint, with the profile open.  A profile without a    *)
(* fingerprint compares as indeterminate.                                  *)
HandleFingerprint(w, held, fp) ==
    \/ Compare(w.open.fp, fp) = "match" /\ GoesOn(w, stack, held, fp.user)
    \/ /\ Compare(w.open.fp, fp) = "indeterminate"
       /\ GoesOn(RegisterDevice(w, fp), stack, held, fp.user)
    \/ /\ Compare(w.open.fp, fp) = "mismatch"
       /\ Questions(w, [Frame("mismatch") EXCEPT !.held = held, !.user = fp.user,
                                                 !.serial = fp.serial])

OnConnectionComplete(w, held, fp) ==
    \/ w.open # Closed /\ HandleFingerprint(w, held, fp)
    \/ /\ w.open = Closed
       /\ \/ \E e \in FindBySerial(w.reg, fp.serial) :
               Questions(w, [Frame("known") EXCEPT !.held = held, !.user = fp.user,
                                                   !.path = e.path])
          \/ /\ FindBySerial(w.reg, fp.serial) = {}
             /\ GoesOn(w, stack, held, fp.user)

UserOf(h) == IF h \in blank THEN NoHandheld ELSE h

AttemptSucceeds ==
    /\ Alive /\ rt.st = "connecting"
    /\ rt.place # Nowhere /\ bus[rt.place] # NoHandheld /\ ports[rt.place] # {}
    /\ LET w == [Now EXCEPT !.rt.st = "up", !.rt.emits = TRUE] IN
       \/ OnConnectionComplete(w, bus[rt.place],
                               [user |-> UserOf(bus[rt.place]), serial |-> serial])
       \/ Finishes(w, stack)                      \* the handshake could not read it

AttemptFails ==
    /\ Alive /\ rt.st = "connecting"
    /\ rt' = [rt EXCEPT !.st = "down", !.place = Nowhere]
    /\ UNCHANGED <<monitorVars, reg, disk, open, auto, born, blank, handlerVars>>

(* The link drops, or the tickle gives up.                                 *)
DeviceLost ==
    /\ Alive /\ rt.st \in {"up", "closed"} /\ (rt.st = "up" => bus[rt.place] = NoHandheld)
    /\ rt' = [rt EXCEPT !.st = "down", !.place = Nowhere, !.shows = FALSE]
    /\ UNCHANGED <<monitorVars, reg, disk, open, auto, born, blank, handlerVars>>

-----------------------------------------------------------------------------
(* Automatic sync.                                                         *)

(* The lambda on AccountController::accountsReady.                         *)
AccountsReady ==
    /\ Alive /\ IsOpen /\ ~auto.accounts
    /\ auto' = [auto EXCEPT !.accounts = TRUE, !.hot = @ \/ (auto.device /\ AutoSync)]
    /\ UNCHANGED <<monitorVars, reg, disk, open, rt, born, blank, handlerVars>>

(* onHotSync, from a single shot or from the menu.                         *)
HotSync == rt' = [rt EXCEPT !.run = @ \/ IsDeviceConnected(rt)]

AutoHotSync ==
    /\ Alive /\ auto.hot /\ auto' = [auto EXCEPT !.hot = FALSE] /\ HotSync
    /\ UNCHANGED <<monitorVars, reg, disk, open, born, blank, handlerVars>>

RunEnds ==
    /\ rt.run /\ rt' = [rt EXCEPT !.run = FALSE]
    /\ UNCHANGED <<monitorVars, reg, disk, open, auto, born, blank, handlerVars>>

-----------------------------------------------------------------------------
(* Launching and leaving.                                                  *)

(* The constructor: it queues resolveStartupProfile and starts the monitor.*)
Launch ==
    /\ life = "down" /\ life' = "launching" /\ Start
    /\ UNCHANGED <<profileVars, serial, listening, stack>>

(* resolveStartupProfile: the last active profile, or the one used last    *)
(* whose folder exists; with none, the wizard.  The constructor must have  *)
(* returned, or be in a question of its own.                               *)
Available == {k \in DOMAIN reg.cache : Exists(disk, reg.cache[k].path)}
StartupEntry ==
    IF \E k \in Available : reg.cache[k].id = reg.last
    THEN CHOOSE k \in Available : reg.cache[k].id = reg.last
    ELSE CHOOSE k \in Available : \A j \in Available : k <= j

ResolveStartupProfile ==
    /\ life = "launching" /\ (found = {} \/ stack # <<>>) /\ life' = "running"
    /\ \/ /\ Available # {} /\ Become(LoadProfile(Now, reg.cache[StartupEntry].path))
          /\ UNCHANGED stack
       \/ /\ Available = {} /\ Push(Frame("wizard")) /\ UNCHANGED profileVars
    /\ UNCHANGED <<monitorVars, serial, listening>>

-----------------------------------------------------------------------------
(* Answers.                                                                *)

Waits(k) == Alive /\ stack # <<>> /\ Top.kind = k
Return(w) == Leaves(w, Pop)

(* Creation and the load of what was created.                              *)
WizardResult(w) == LoadProfile(CreateProfile(w, NoSerial), Home(AllocateNewId(w.reg)))

AnswerWizard ==
    /\ Waits("wizard")
    /\ \/ Return(Now)
       \/ CanCreate(Now) /\ Return(WizardResult(Now))

(* onUnregisteredDeviceDetected.  A profile is created and its device      *)
(* announced with the serial number in the place of the ports; then        *)
(* onPalmDetected announces the ports, without a profile.                  *)
AnswerRegister ==
    /\ Waits("register")
    /\ \/ CanCreate(Now) /\
          LET c == CreateProfile(Now, Top.serial)
              d == AutoDeviceDetected(c, Home(AllocateNewId(reg)), Nowhere)
          IN Return(AutoDeviceDetected(d, NoPath, Top.place))
       \/ rt.st # "none" /\ Return(AutoDeviceDetected(Now, NoPath, Top.place))
       \/ /\ rt.st = "none" /\ stack' = Append(Pop, Frame("notice"))
          /\ UNCHANGED <<monitorVars, profileVars, serial, listening, life>>

AnswerNotice == Waits("notice") /\ Return(Now)

(* openMismatchDialogForTest: continue anyway, disconnect, or switch to    *)
(* the profile of the serial number.                                       *)
AnswerMismatch ==
    /\ Waits("mismatch")
    /\ \/ GoesOn(Now, Pop, Top.held, Top.user)
       \/ Finishes(IF rt.emits THEN [Now EXCEPT !.rt.st = "closed"] ELSE Now, Pop)
       \/ \E e \in FindBySerial(reg, Top.serial) :
            GoesOn(LoadProfile(Now, e.path), Pop, Top.held, Top.user)

AnswerKnown ==
    /\ Waits("known")
    /\ \/ GoesOn(Now, Pop, Top.held, Top.user)
       \/ GoesOn(LoadProfile(Now, Top.path), Pop, Top.held, Top.user)

(* The user info of handheld h is written, as far as its link holds, and   *)
(* the profile that is open by now is bound to that user, whichever        *)
(* handheld it was bound to.                                               *)
Writes(h) == rt.st = "up" /\ bus[rt.place] = h
Named(h) == RegisterDevice([Now EXCEPT !.blank = @ \ {h}], [user |-> h, serial |-> NoSerial])

(* A name for a handheld without one; without a name, or when it cannot be *)
(* written, nothing.                                                       *)
AnswerInitialize ==
    /\ Waits("initialize")
    /\ \/ Finishes(Now, Pop)
       \/ rt.emits /\ Writes(Top.held) /\ Finishes(Named(Top.held), Pop)

(* onSetUserInfo after its dialog; it keeps the link from before.          *)
Unshown(w) == [w EXCEPT !.rt.shows = FALSE]

AnswerUserInfo ==
    /\ Waits("userinfo")
    /\ \/ Return(Unshown(Now))
       \/ ~rt.shows /\ Gone(Now)
       \/ rt.shows /\ Writes(Top.held) /\ Return(Unshown(Named(Top.held)))

(* onForgetProfile after its question.                                     *)
AnswerForget ==
    /\ Waits("forget")
    /\ \/ Return(Now)
       \/ Return([Now EXCEPT !.reg = Unregister(@, Top.id)])
       \/ Return([Now EXCEPT !.reg = Unregister(@, Top.id), !.disk[Top.path] = NoFolder])

-----------------------------------------------------------------------------
(* The menus and the settings.  A dialog that comes first and reads        *)
(* nothing that the handler uses later is part of the step.                *)

Asked(a) == life = "running" /\ stack = <<>> /\ a \in Asks
Does(w) == Become(w) /\ UNCHANGED <<monitorVars, handlerVars>>

NewProfile == Asked("new") /\ CanCreate(Now) /\ Does(WizardResult(Now))

ImportProfile ==
    /\ Asked("import")
    /\ \E f \in Folders :
         /\ Exists(disk, f) /\ CanRegisterExisting(reg, f, disk[f].id)
         /\ Does(LoadProfile([Now EXCEPT !.reg = RegisterExisting(@, f, disk[f].id),
                                         !.born[f.base] = IF @ = 0 THEN 1 ELSE @], f))

Close == Asked("close") /\ IsOpen /\ Does(CloseProfile(Now))

SwitchProfile ==
    /\ Asked("switch")
    /\ \E e \in Entries(reg) : Exists(disk, e.path) /\ Does(LoadProfile(Now, e.path))

ForgetProfile ==
    /\ Asked("forget")
    /\ \E e \in Entries(reg) :
         open.id # e.id /\ Push([Frame("forget") EXCEPT !.id = e.id, !.path = e.path])
    /\ UNCHANGED <<monitorVars, profileVars, serial, listening, life>>

(* SettingsDialog::onRemoveRecentProfile asks nothing and compares nothing.*)
RemoveRecentProfile ==
    /\ Asked("settings")
    /\ \E i \in Known(reg) : Does([Now EXCEPT !.reg = Unregister(@, i)])

(* onChangeSyncFolder: the profile moves; the registry is not told.        *)
ChangeSyncFolder ==
    /\ Asked("folder") /\ IsOpen
    /\ \E f \in Folders \ {open.path} :
         Does(LoadProfile(Save([Now EXCEPT !.open.path = f]), f))

(* onConnectDevice: with the port there it connects, otherwise it listens  *)
(* and onDevicePoll connects; the same item ends the listening.            *)
ConnectDevice ==
    /\ Asked("connect") /\ listening = Nowhere
    /\ \E p \in Places :
         \/ ports[p] # {} /\ rt.st # "none" /\ Become(StartConnection(Now, p)) /\ UNCHANGED listening
         \/ ports[p] = {} /\ listening' = p /\ UNCHANGED profileVars
    /\ UNCHANGED <<monitorVars, serial, life, stack>>

DevicePoll ==
    /\ Alive /\ listening # Nowhere /\ ports[listening] # {}
    /\ Become(StartConnection(Now, listening)) /\ listening' = Nowhere
    /\ UNCHANGED <<monitorVars, serial, life, stack>>

StopListening ==
    /\ Asked("connect") /\ listening # Nowhere /\ listening' = Nowhere
    /\ UNCHANGED <<monitorVars, profileVars, serial, life, stack>>

DisconnectDevice ==
    /\ Asked("disconnect") /\ IsDeviceConnected(rt)
    /\ Does(IF rt.run THEN Now ELSE Disconnected(Now))

Sync ==
    /\ Asked("sync") /\ IsOpen /\ IsDeviceConnected(rt) /\ HotSync
    /\ UNCHANGED <<monitorVars, reg, disk, open, auto, born, blank, handlerVars>>

SetUserInfo ==
    /\ Asked("user") /\ rt.st = "up"
    /\ rt.place # Nowhere /\ bus[rt.place] # NoHandheld
    /\ Push([Frame("userinfo") EXCEPT !.held = bus[rt.place]])
    /\ rt' = [rt EXCEPT !.shows = TRUE]
    /\ UNCHANGED <<monitorVars, reg, disk, open, auto, born, blank, serial, listening, life>>

Quit == Asked("quit") /\ Gone(Now)

-----------------------------------------------------------------------------
TypeOK ==
    /\ bus \in [Places -> Handhelds \cup {NoHandheld}] /\ ports \in [Places -> SUBSET Ports]
    /\ tracked \in [Places -> Serials \cup {NoSerial, Untracked}]
    /\ Entries(reg) \subseteq EntryType /\ reg.last \in Known(reg) \cup {NoId}
    /\ reg.tombs \subseteq Ids
    /\ DOMAIN disk = Folders
    /\ open.path \in Folders \cup {NoPath} /\ open.id \in Ids \cup {NoId}
    /\ rt.st \in RuntimeStates /\ rt.place \in Places \cup {Nowhere}
    /\ Len(stack) <= MaxDepth /\ \A k \in DOMAIN stack : stack[k].kind \in Kinds
    /\ life \in {"down", "launching", "running"} /\ blank \subseteq Handhelds

(* A handheld finds at most one profile: however detections, wizards,      *)
(* imports and nested questions bind serial numbers, no two entries of the *)
(* registry carry the same one (ProfileRegistry::findBySerial).            *)
SerialOnce ==
    \A e, f \in Entries(reg) : e.serial # NoSerial /\ e.serial = f.serial => e.id = f.id

(* allocateNewId never hands out an id that has stood for a profile        *)
(* before, created or imported, forgotten or not: the state of the old one *)
(* (folder, accounts) is never taken for the new one's.                    *)
NeverReused == \A i \in Ids : born[i] <= 1

(* The user writes a name to the handheld that the answered dialog was     *)
(* about, and it is that one which the profile gets (onConnectionComplete, *)
(* onSetUserInfo).                                                         *)
NamesTop ==
    /\ stack # <<>> /\ Top.kind \in {"initialize", "userinfo"} /\ stack' = Pop
    /\ open'.fp = [user |-> Top.held, serial |-> NoSerial] /\ Top.held \notin blank'

Rebinds ==
    /\ open.fp # NoFp /\ open'.id = open.id /\ open'.path = open.path
    /\ Compare(open.fp, open'.fp) = "mismatch"

(* A profile that knows its handheld is rebound to one that is known to be *)
(* another in one way only: the user names that other one.  No report, no  *)
(* other answer and nothing that arrives while a question is open does it  *)
(* (handleDeviceFingerprint).                                              *)
BoundForGood == [][Rebinds => NamesTop]_vars

(* profile.h: the fingerprint allows us to detect when the wrong device is *)
(* connected to a profile; so a profile that knows its handheld keeps it.  *)
(* After "Continue Anyway" it does not, if that handheld has no user info  *)
(* or the user changes it.                                                 *)
KeepsItsHandheld == [][~Rebinds]_vars

(* The handheld that was plugged in before the launch keeps its attempt or *)
(* connection once the startup profile is there.                           *)
LaunchKeepsAttempt ==
    [][life = "launching" /\ rt.st \in {"connecting", "up"} /\ life' = "running"
           => rt'.st = rt.st]_vars

-----------------------------------------------------------------------------
Answers == AnswerWizard \/ AnswerRegister \/ AnswerNotice \/ AnswerMismatch
           \/ AnswerKnown \/ AnswerInitialize \/ AnswerUserInfo \/ AnswerForget
Menus == NewProfile \/ ImportProfile \/ Close \/ SwitchProfile \/ ForgetProfile
         \/ RemoveRecentProfile \/ ChangeSyncFolder \/ ConnectDevice \/ StopListening
         \/ DisconnectDevice \/ Sync \/ SetUserInfo \/ Quit

Next ==
    \/ /\ \/ World \/ Enumerate \/ Shot
          \/ AttemptSucceeds \/ AttemptFails \/ DeviceLost \/ DevicePoll
          \/ AccountsReady \/ AutoHotSync \/ RunEnds
          \/ Launch \/ ResolveStartupProfile \/ Answers
       /\ UNCHANGED asked
    \/ asked < MaxAsks /\ asked' = asked + 1 /\ Menus

Spec == Init /\ [][Next]_vars

=============================================================================
