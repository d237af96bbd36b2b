---------------------------- MODULE DeviceMonitor ----------------------------
(***************************************************************************)
(* PalmDeviceMonitor: it watches udev for the two tty ports that the       *)
(* driver makes for a handheld on the USB bus, keeps a map of the devices  *)
(* it knows, and announces a device with its ports and its serial number.  *)
(*                                                                         *)
(* The bus, the ports and the udev queue are the world: a handheld comes   *)
(* and goes and its ports appear one after the other, each with an event   *)
(* that the monitor reads later.  An announcement is a direct signal, so   *)
(* its receiver runs inside the handler that emits it; what it does is the *)
(* business of the module that extends this one.                           *)
(***************************************************************************)
EXTENDS Integers, Sequences, FiniteSets

CONSTANTS
    Places,       \* the places of the USB bus: syspaths of devices
    Ports,        \* the numbers of the ports that a handheld gets
    Prefix,       \* <<p, q>>: the text of place p begins the text of place q
    Handhelds, NoHandheld,
    SerialOf,     \* what each states in its USB descriptor
    MaxPlugs      \* bound: how often a handheld is plugged in

ASSUME MonitorAssumption ==
    /\ NoHandheld \notin Handhelds
    /\ Ports \subseteq Nat /\ Ports # {} /\ IsFiniteSet(Ports)
    /\ DOMAIN SerialOf = Handhelds
    /\ Prefix \subseteq Places \X Places /\ \A p \in Places : <<p, p>> \notin Prefix
    /\ MaxPlugs \in Nat

Untracked == "untracked"

VARIABLES
    bus,        \* the handheld at each place
    ports,      \* its tty ports that exist
    udev,       \* events the monitor has not read
    plugs,      \* pluggings so far
    running,    \* m_running
    tracked,    \* m_detectedDevices: the serial number of each known place
    shots,      \* the single shots of 100 ms, in the order they are due
    found,      \* what the loop of enumerateExistingDevices has yet to announce
    announced   \* history: the handheld at each place was announced

monitorVars == <<bus, ports, udev, plugs, running, tracked, shots, found, announced>>

Event(a, p) == [action |-> a, place |-> p]

MonitorInit ==
    /\ bus = [p \in Places |-> NoHandheld] /\ ports = [p \in Places |-> {}]
    /\ udev = <<>> /\ plugs = 0 /\ running = FALSE
    /\ tracked = [p \in Places |-> Untracked] /\ shots = <<>> /\ found = {}
    /\ announced = [p \in Places |-> FALSE]

-----------------------------------------------------------------------------
(* The world.  The kernel's events reach the monitor's socket only while   *)
(* it listens.                                                             *)

Post(e) == udev' = IF running THEN udev \o e ELSE udev

Plug(p, h) ==
    /\ plugs < MaxPlugs /\ bus[p] = NoHandheld /\ \A q \in Places : bus[q] # h
    /\ bus' = [bus EXCEPT ![p] = h] /\ plugs' = plugs + 1
    /\ UNCHANGED <<ports, udev, running, tracked, shots, found, announced>>

PortAppears(p) ==
    /\ bus[p] # NoHandheld
    /\ \E n \in Ports \ ports[p] :
         /\ \A k \in Ports \ ports[p] : n <= k
         /\ ports' = [ports EXCEPT ![p] = @ \cup {n}]
    /\ Post(<<Event("add", p)>>)
    /\ UNCHANGED <<bus, plugs, running, tracked, shots, found, announced>>

Unplug(p) ==
    /\ bus[p] # NoHandheld
    /\ bus' = [bus EXCEPT ![p] = NoHandheld] /\ ports' = [ports EXCEPT ![p] = {}]
    /\ Post([n \in 1..Cardinality(ports[p]) |-> Event("remove", p)])
    /\ announced' = [announced EXCEPT ![p] = FALSE]
    /\ UNCHANGED <<plugs, running, tracked, shots, found>>

-----------------------------------------------------------------------------
(* The monitor.                                                            *)

(* collectPalmPorts and the scan find a place by the ports it has now.     *)
CollectPalmPorts(p) == ports[p]

(* start, when it succeeds, and the scan of enumerateExistingDevices.      *)
Start ==
    /\ ~running /\ running' = TRUE
    /\ found' = {[place |-> p, serial |-> SerialOf[bus[p]]] :
                     p \in {q \in Places : CollectPalmPorts(q) # {}}}
    /\ udev' = <<>>
    /\ UNCHANGED <<bus, ports, plugs, tracked, shots, announced>>

(* One turn of its loop: a place that became known meanwhile is skipped.   *)
TurnAnnounces(e) == tracked[e.place] = Untracked

EnumerateTurn(e) ==
    /\ e \in found /\ found' = found \ {e}
    /\ tracked' = IF TurnAnnounces(e) THEN [tracked EXCEPT ![e.place] = e.serial] ELSE tracked
    /\ announced' = [announced EXCEPT ![e.place] = @ \/ (TurnAnnounces(e) /\ ports[e.place] # {})]
    /\ UNCHANGED <<bus, ports, udev, plugs, running, shots>>

(* stop: the queue goes with the socket, the map is emptied; a shot that   *)
(* is due stays due.                                                       *)
Stop ==
    /\ running /\ running' = FALSE
    /\ udev' = <<>> /\ tracked' = [p \in Places |-> Untracked]
    /\ UNCHANGED <<bus, ports, plugs, shots, found, announced>>

(* onUdevEvent, action "add": the USB device is looked up in sysfs now, so *)
(* it is the one at that place now.                                        *)
Added(p) ==
    IF bus[p] # NoHandheld /\ tracked[p] = Untracked
    THEN /\ tracked' = [tracked EXCEPT ![p] = SerialOf[bus[p]]]
         /\ shots' = Append(shots, [place |-> p, serial |-> SerialOf[bus[p]]])
    ELSE UNCHANGED <<tracked, shots>>

(* The first known place, in the order of the map, whose text begins that  *)
(* of the removed port.  A text precedes those it begins.                  *)
Matching(p) == {q \in Places : tracked[q] # Untracked /\ (q = p \/ <<q, p>> \in Prefix)}
FirstOf(S) == CHOOSE q \in S : \A r \in S : r = q \/ <<q, r>> \in Prefix

(* Mutant of Removed: the place stays known.                               *)
Removed_Keep(p) == UNCHANGED <<tracked, shots>>

(* onUdevEvent, action "remove".                                           *)
Removed(p) ==
    /\ tracked' = IF Matching(p) = {} THEN tracked
                  ELSE [tracked EXCEPT ![FirstOf(Matching(p))] = Untracked]
    /\ UNCHANGED shots

OnUdevEvent ==
    /\ running /\ udev # <<>> /\ udev' = Tail(udev)
    /\ LET e == Head(udev) IN
       \/ e.action = "add" /\ Added(e.place)
       \/ e.action = "remove" /\ Removed(e.place)
    /\ UNCHANGED <<bus, ports, plugs, running, found, announced>>

(* The single shot of 100 ms: it announces the ports the place has by now. *)
ShotAnnounces == running /\ CollectPalmPorts(Head(shots).place) # {}

TakeShot ==
    /\ shots # <<>> /\ shots' = Tail(shots)
    /\ announced' = [announced EXCEPT ![Head(shots).place] = @ \/ ShotAnnounces]
    /\ UNCHANGED <<bus, ports, udev, plugs, running, tracked, found>>

(* The monitor alone, under the world, with receivers that return at once: *)
(* the loop of enumerateExistingDevices ends before an event is read.  A   *)
(* receiver that asks the user turns the event loop in between.            *)
Loops == found # {} /\ \E e \in found : EnumerateTurn(e)

MonitorNext ==
    \/ \E p \in Places : (\E h \in Handhelds : Plug(p, h)) \/ PortAppears(p) \/ Unplug(p)
    \/ Start \/ Loops
    \/ found = {} /\ (Stop \/ OnUdevEvent \/ TakeShot)

(* The notifier, the timers and the loop are served by the event loop.     *)
MonitorSpec ==
    /\ MonitorInit /\ [][MonitorNext]_monitorVars
    /\ WF_monitorVars(found = {} /\ OnUdevEvent) /\ WF_monitorVars(found = {} /\ TakeShot)
    /\ WF_monitorVars(Loops)

(* The next event is a removal that takes another place off the map than   *)
(* its own, which startsWith allows.                                       *)
Misread ==
    /\ udev # <<>> /\ Head(udev).action = "remove"
    /\ LET p == Head(udev).place IN Matching(p) # {} /\ FirstOf(Matching(p)) # p

(***************************************************************************)
(* A handheld that stays plugged in is announced, and the map ends up with *)
(* exactly the places that hold one, so the next plugging is noticed too:  *)
(* however pluggings, ports, events and the 100 ms overlap, as long as no  *)
(* removal is taken for that of another place.                             *)
(***************************************************************************)
PluggedAnnounced == \A p \in Places : bus[p] # NoHandheld /\ ports[p] # {} => announced[p]
MapSettles == \A p \in Places : (tracked[p] # Untracked) <=> (bus[p] # NoHandheld /\ ports[p] # {})
EventuallyAnnounced ==
    <>[]running /\ []~Misread => <>[](PluggedAnnounced /\ MapSettles)

(* palmdevicemonitor.h: palmDetected is emitted when a handheld is         *)
(* detected; so each one that stays plugged in is announced.  A removal    *)
(* that is misread leaves its own place on the map, and the next handheld  *)
(* there is taken for known.                                               *)
EveryPlugging == <>[]running => <>[]PluggedAnnounced

=============================================================================
