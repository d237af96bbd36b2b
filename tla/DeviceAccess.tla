---------------------------- MODULE DeviceAccess ----------------------------
(***************************************************************************)
(* The life of one PalmDeviceAccess object: the main thread that owns it,  *)
(* the link thread that executes everything touching the device, the       *)
(* ConnectionWorker thread each connection attempt starts, the keep-alive  *)
(* PalmTickle, and an engine thread that calls the forwarders.             *)
(*                                                                         *)
(* A thread's Qt event queue is a FIFO sequence of records.  A blocking    *)
(* queued call is an event plus a `main' or `eng' that waits for it.       *)
(* Links are numbered in the order doConnect creates them.                 *)
(***************************************************************************)
EXTENDS Integers, Sequences, FiniteSets

CONSTANTS
    MaxConnects,  \* bound: connectDevice calls that are accepted
    Calls,        \* the kinds of other calls made: some of "cancel",
                  \* "pause" (with resume) and "engine"
    MaxCalls      \* bound: those calls, together

ASSUME ConstantsAssumption ==
    /\ MaxConnects \in Nat \ {0}
    /\ Calls \subseteq {"cancel", "pause", "engine"} /\ MaxCalls \in Nat

Links == 1..MaxConnects
NoLink == 0      \* a null KPilotLink pointer
NoImpl == -1     \* a reset m_impl; NoLink there is an m_impl over a null link
TickLimit == 3    \* consecutive failures that make PalmTickle give up

VARIABLES
    acc,    \* the members of PalmDeviceAccess
    kl,     \* the KPilotDeviceLink objects
    wk,     \* their ConnectionWorkers and the socket each accepted
    tk,     \* the PalmTickle created for each established link
    gone,   \* the links whose device no longer answers (environment)
    linkQ,  \* events posted to the link thread
    busy,   \* what the link thread is blocked in, and on which link
    main,   \* where the main thread is
    mainQ,  \* signals queued to the main thread
    eng,    \* where an engine thread is in a forwarder
    calls,  \* calls counted against MaxCalls
    sent    \* how many of each signal the object has emitted

vars == <<acc, kl, wk, tk, gone, linkQ, busy, main, mainQ, eng, calls, sent>>

-----------------------------------------------------------------------------
Idle == [op |-> "idle", on |-> NoLink]
Ev(t, l) == [t |-> t, l |-> l]

Running(l) == wk[l].stage \in {"probing", "accepting", "handshake"}

(* Mutant: the worker hands its result over with a blocking call.          *)
Finished_Blocking(l) ==
    \/ ~kl[l].worker
    \/ /\ ~Running(l)
       /\ \A i \in DOMAIN linkQ :
             linkQ[i] \notin {Ev("established", l), Ev("failed", l)}

(* What cleanupWorker waits for.                                           *)
Finished(l) == ~kl[l].worker \/ ~Running(l)

Init ==
    /\ acc = [connecting |-> FALSE, connected |-> FALSE, link |-> NoLink,
              owns |-> FALSE, impl |-> NoImpl, tickle |-> NoLink]
    /\ kl = [l \in Links |-> [obj |-> "none", conn |-> FALSE, fd |-> FALSE,
                              worker |-> FALSE, err |-> FALSE, sigs |-> FALSE]]
    /\ wk = [l \in Links |-> [stage |-> "none", cancel |-> FALSE, sock |-> "none"]]
    /\ tk = [l \in Links |-> [state |-> "none", fails |-> 0, on |-> NoLink]]
    /\ gone = {}
    /\ linkQ = <<>> /\ busy = Idle
    /\ main = "idle" /\ mainQ = <<>> /\ eng = "idle"
    /\ calls = 0
    /\ sent = [started |-> 0, ok |-> 0, fail |-> 0, down |-> 0]

-----------------------------------------------------------------------------
(* The main thread: the public API of PalmDeviceAccess.                    *)

(* Mutant: the m_connecting test is lost.                                  *)
ConnectDevice_Unguarded ==
    /\ main = "idle" /\ sent.started < MaxConnects /\ ~acc.connected
    /\ acc' = [acc EXCEPT !.connecting = TRUE]
    /\ sent' = [sent EXCEPT !.started = @ + 1]
    /\ linkQ' = Append(linkQ, Ev("connect", NoLink))
    /\ UNCHANGED <<kl, wk, tk, gone, busy, main, mainQ, eng, calls>>

(* An accepted connectDevice.  The two early returns change nothing.       *)
ConnectDevice ==
    /\ main = "idle" /\ sent.started < MaxConnects
    /\ ~acc.connecting /\ ~acc.connected
    /\ acc' = [acc EXCEPT !.connecting = TRUE]
    /\ sent' = [sent EXCEPT !.started = @ + 1]
    /\ linkQ' = Append(linkQ, Ev("connect", NoLink))
    /\ UNCHANGED <<kl, wk, tk, gone, busy, main, mainQ, eng, calls>>

Call(kind) == kind \in Calls /\ calls < MaxCalls /\ calls' = calls + 1

CancelConnect ==
    /\ main = "idle" /\ Call("cancel")
    /\ linkQ' = Append(linkQ, Ev("cancel", NoLink))
    /\ UNCHANGED <<acc, kl, wk, tk, gone, busy, main, mainQ, eng, sent>>

(* A blocking call: main waits in state `w' until the event is handled.    *)
Block(t, w) ==
    /\ linkQ' = Append(linkQ, Ev(t, NoLink))
    /\ main' = w

(* The owner destroys the object next: PalmRuntime::disconnectDevice.      *)
DisconnectDevice ==
    /\ main = "idle"
    /\ Block("disconnect", "closing")
    /\ UNCHANGED <<acc, kl, wk, tk, gone, busy, mainQ, eng, calls, sent>>

PauseTickle ==
    /\ main = "idle" /\ Call("pause")
    /\ Block("pause", "calling")
    /\ UNCHANGED <<acc, kl, wk, tk, gone, busy, mainQ, eng, sent>>

ResumeTickle ==
    /\ main = "idle" /\ Call("pause")
    /\ Block("resume", "calling")
    /\ UNCHANGED <<acc, kl, wk, tk, gone, busy, mainQ, eng, sent>>

(* The owner's slots run; connectionLost is connected to disconnectDevice. *)
HandleMain ==
    /\ main = "idle" /\ mainQ # <<>>
    /\ mainQ' = Tail(mainQ)
    /\ IF Head(mainQ) = "lost"
       THEN Block("disconnect", "calling")
       ELSE UNCHANGED <<linkQ, main>>
    /\ UNCHANGED <<acc, kl, wk, tk, gone, busy, eng, calls, sent>>

(* ~PalmDeviceAccess, step by step: it reads m_link, m_ownsLink, m_connected *)
(* and m_impl on the main thread while the link thread still runs.          *)
DestroyBegin ==
    /\ main \in {"idle", "dtor"} /\ eng = "idle"
    /\ kl' = IF acc.link # NoLink /\ acc.owns
             THEN [kl EXCEPT ![acc.link].sigs = FALSE] ELSE kl
    /\ main' = "dtor1"
    /\ UNCHANGED <<acc, wk, tk, gone, linkQ, busy, mainQ, eng, calls, sent>>

DestroyDisconnect ==
    /\ main = "dtor1"
    /\ IF acc.connected \/ acc.owns
       THEN Block("disconnect", "dtor2")
       ELSE main' = "dtor3" /\ UNCHANGED linkQ
    /\ UNCHANGED <<acc, kl, wk, tk, gone, busy, mainQ, eng, calls, sent>>

DestroyImpl ==
    /\ main = "dtor3"
    /\ IF acc.impl # NoImpl
       THEN Block("resetImpl", "dtor4")
       ELSE main' = "joining" /\ UNCHANGED linkQ
    /\ UNCHANGED <<acc, kl, wk, tk, gone, busy, mainQ, eng, calls, sent>>

(* The link thread leaves its loop, with or without having handled what is *)
(* queued; m_implOwner is deleted, and with it every tickle and, one after *)
(* the other, every link that is its child.                                *)
LinkThreadFinishes ==
    /\ main = "joining" /\ busy = Idle
    /\ linkQ' = <<>>
    /\ tk' = [l \in Links |-> [tk[l] EXCEPT !.state = "none"]]
    /\ main' = "finishing"
    /\ UNCHANGED <<acc, kl, wk, gone, busy, mainQ, eng, calls, sent>>

Alive == {l \in Links : kl[l].obj = "alive"}

(* Mutant: a link is not made a child of m_implOwner.                      *)
Destroyed_Unparented ==
    /\ main = "finishing" /\ busy = Idle
    /\ main' = "gone"
    /\ acc' = [acc EXCEPT !.impl = NoImpl]
    /\ UNCHANGED <<kl, wk, tk, gone, linkQ, busy, mainQ, eng, calls, sent>>

(* What is still queued for the object does not reach it any more.         *)
Destroyed ==
    /\ main = "finishing" /\ Alive = {} /\ busy = Idle
    /\ main' = "gone"
    /\ acc' = [acc EXCEPT !.impl = NoImpl]
    /\ UNCHANGED <<kl, wk, tk, gone, linkQ, busy, mainQ, eng, calls, sent>>

(* The stage in which main continues once its blocking call was handled.   *)
Returned(m) ==
    CASE m = "calling" -> "idle"
      [] m = "closing" -> "dtor"
      [] m = "dtor2"   -> "dtor3"
      [] m = "dtor4"   -> "joining"

-----------------------------------------------------------------------------
(* The link thread.                                                        *)

Owner == Head(linkQ).l
Pop == linkQ' = Tail(linkQ)
Looping == main \notin {"finishing", "gone"} /\ busy = Idle /\ linkQ # <<>>

(* What is queued for a link that was deleted would be dropped; nothing    *)
(* ever is, since its worker has posted before the delete is (NoneForDead). *)
Handling(t) == Looping /\ Head(linkQ).t = t

(* setStatus(PilotLinkError): only a change of status is signalled, and    *)
(* the tickle that watches the link is then stopped by a queued event.  A  *)
(* tickle watches its own link, or none: see `on' in Established.          *)
StopEvents(l) ==
    IF kl[l].err \/ tk[l].state = "none" \/ tk[l].on # l THEN <<>>
    ELSE <<Ev("tickStop", l)>>

(* doConnect and the openConnection it calls.                              *)
DoConnect ==
    /\ Handling("connect") /\ Pop
    /\ LET l == 1 + Cardinality({k \in Links : kl[k].obj # "none"}) IN
       /\ kl' = [kl EXCEPT ![l] = [obj |-> "alive", conn |-> FALSE, fd |-> FALSE,
                                   worker |-> TRUE, err |-> FALSE, sigs |-> TRUE]]
       /\ wk' = [wk EXCEPT ![l].stage = "probing"]
       /\ acc' = [acc EXCEPT !.link = l, !.owns = TRUE]
    /\ UNCHANGED <<tk, gone, busy, main, mainQ, eng, calls, sent>>

(* KPilotDeviceLink::onConnectionEstablished, which directly runs          *)
(* PalmDeviceAccess::onLinkConnectionEstablished.                          *)
Established ==
    /\ Handling("established") /\ Pop
    /\ kl' = [kl EXCEPT ![Owner].conn = TRUE, ![Owner].fd = TRUE, ![Owner].err = FALSE]
    /\ IF kl[Owner].sigs
       THEN /\ acc' = [acc EXCEPT
                        !.impl = acc.link,
                        !.tickle = Owner, !.connected = TRUE, !.connecting = FALSE]
            /\ tk' = [tk EXCEPT ![Owner] = [state |-> "running", fails |-> 0,
                                         on |-> acc.link]]
            /\ mainQ' = Append(mainQ, "ok")
            /\ sent' = [sent EXCEPT !.ok = @ + 1]
       ELSE UNCHANGED <<acc, tk, mainQ, sent>>
    /\ UNCHANGED <<wk, gone, busy, main, eng, calls>>

(* Mutant: m_connecting stays up after a failed attempt.                   *)
Failed_StillConnecting ==
    /\ Handling("failed")
    /\ kl' = [kl EXCEPT ![Owner].conn = FALSE, ![Owner].fd = FALSE, ![Owner].err = TRUE]
    /\ linkQ' = Tail(linkQ) \o
                (IF acc.link = NoLink THEN <<>> ELSE <<Ev("delete", acc.link)>>)
    /\ acc' = [acc EXCEPT !.link = NoLink, !.connected = FALSE]
    /\ mainQ' = Append(mainQ, "fail")
    /\ sent' = [sent EXCEPT !.fail = @ + 1]
    /\ UNCHANGED <<wk, tk, gone, busy, main, eng, calls>>

(* KPilotDeviceLink::onConnectionFailed, then onLinkConnectionFailed.      *)
Failed ==
    /\ Handling("failed")
    /\ kl' = [kl EXCEPT ![Owner].conn = FALSE, ![Owner].fd = FALSE, ![Owner].err = TRUE]
    /\ IF kl[Owner].sigs
       THEN /\ linkQ' = Tail(linkQ) \o StopEvents(Owner) \o
                        (IF acc.link = NoLink THEN <<>> ELSE <<Ev("delete", acc.link)>>)
            /\ acc' = [acc EXCEPT !.link = NoLink, !.connecting = FALSE,
                                  !.connected = FALSE]
            /\ mainQ' = Append(mainQ, "fail")
            /\ sent' = [sent EXCEPT !.fail = @ + 1]
       ELSE linkQ' = Tail(linkQ) \o StopEvents(Owner) /\ UNCHANGED <<acc, mainQ, sent>>
    /\ UNCHANGED <<wk, tk, gone, busy, main, eng, calls>>

(* cleanupWorker asks the worker to stop, then waits for its thread.       *)
RequestCancel(l) ==
    wk' = IF kl[l].worker THEN [wk EXCEPT ![l].cancel = TRUE] ELSE wk

(* doCancelConnect; cancelConnection does nothing without a worker.        *)
DoCancel ==
    /\ Handling("cancel") /\ Pop
    /\ IF acc.link # NoLink /\ kl[acc.link].worker
       THEN RequestCancel(acc.link) /\ busy' = [op |-> "cancel", on |-> acc.link]
       ELSE UNCHANGED <<wk, busy>>
    /\ UNCHANGED <<acc, kl, tk, gone, main, mainQ, eng, calls, sent>>

CancelReturns ==
    /\ busy.op = "cancel" /\ Finished(busy.on)
    /\ kl' = [kl EXCEPT ![busy.on].worker = FALSE, ![busy.on].err = FALSE]
    /\ busy' = Idle
    /\ UNCHANGED <<acc, wk, tk, gone, linkQ, main, mainQ, eng, calls, sent>>

(* closeConnection after the wait: the socket is closed, the status reset. *)
CloseLink(l) ==
    /\ kl' = [kl EXCEPT ![l].worker = FALSE, ![l].fd = FALSE, ![l].conn = FALSE,
                        ![l].err = FALSE]
    /\ wk' = IF kl[l].fd THEN [wk EXCEPT ![l].sock = "closed"] ELSE wk

(* Mutants: m_connected is only read, not exchanged; and it is not read.   *)
Disconnected_StillUp(a) ==
    /\ acc' = [a EXCEPT !.connecting = FALSE]
    /\ IF a.connected
       THEN mainQ' = Append(mainQ, "down") /\ sent' = [sent EXCEPT !.down = @ + 1]
       ELSE UNCHANGED <<mainQ, sent>>
    /\ main' = Returned(main)

Disconnected_Always(a) ==
    /\ acc' = [a EXCEPT !.connected = FALSE, !.connecting = FALSE]
    /\ mainQ' = Append(mainQ, "down") /\ sent' = [sent EXCEPT !.down = @ + 1]
    /\ main' = Returned(main)

(* The end of doDisconnect.                                                *)
Disconnected(a) ==
    /\ acc' = [a EXCEPT !.connected = FALSE, !.connecting = FALSE]
    /\ IF a.connected
       THEN mainQ' = Append(mainQ, "down") /\ sent' = [sent EXCEPT !.down = @ + 1]
       ELSE UNCHANGED <<mainQ, sent>>
    /\ main' = Returned(main)

(* Mutant: the tickle is forgotten without being stopped and deleted.      *)
DoDisconnect_TickleLeft ==
    /\ Handling("disconnect") /\ Pop
    /\ LET a == [acc EXCEPT !.tickle = NoLink, !.impl = NoImpl] IN
       IF acc.link = NoLink
       THEN Disconnected(a) /\ UNCHANGED <<wk, busy>>
       ELSE /\ acc' = a
            /\ RequestCancel(acc.link)
            /\ busy' = [op |-> "disconnect", on |-> acc.link]
            /\ UNCHANGED <<main, mainQ, sent>>
    /\ UNCHANGED <<kl, tk, gone, eng, calls>>

(* doDisconnect up to the wait inside closeConnection.                     *)
DoDisconnect ==
    /\ Handling("disconnect")
    /\ LET a == [acc EXCEPT !.tickle = NoLink, !.impl = NoImpl]
           t == acc.tickle
       IN
       /\ tk' = IF t = NoLink THEN tk ELSE [tk EXCEPT ![t].state = "stopped"]
       /\ linkQ' = IF t = NoLink THEN Tail(linkQ)
                   ELSE Append(Tail(linkQ), Ev("tickDelete", t))
       /\ IF acc.link = NoLink
          THEN Disconnected(a) /\ UNCHANGED <<wk, busy>>
          ELSE /\ acc' = a
               /\ RequestCancel(acc.link)
               /\ busy' = [op |-> "disconnect", on |-> acc.link]
               /\ UNCHANGED <<main, mainQ, sent>>
    /\ UNCHANGED <<kl, gone, eng, calls>>

DisconnectReturns ==
    /\ busy.op = "disconnect" /\ Finished(busy.on)
    /\ CloseLink(busy.on)
    /\ linkQ' = Append(linkQ, Ev("delete", busy.on))
    /\ Disconnected([acc EXCEPT !.link = NoLink, !.owns = FALSE])
    /\ busy' = Idle
    /\ UNCHANGED <<tk, gone, eng, calls>>

(* The deferred delete of a link, or that of a child: its destructor       *)
(* closes the connection.                                                  *)
Delete(l) ==
    /\ RequestCancel(l)
    /\ busy' = [op |-> "delete", on |-> l]
    /\ UNCHANGED <<acc, kl, tk, gone, main, mainQ, eng, calls, sent>>

DeleteLink == Handling("delete") /\ Pop /\ Delete(Owner)

DeleteChild ==
    /\ main = "finishing" /\ busy = Idle
    /\ \E l \in Alive : (\A k \in Alive : l <= k) /\ Delete(l)
    /\ UNCHANGED linkQ

DeleteReturns ==
    /\ busy.op = "delete" /\ Finished(busy.on)
    /\ LET l == busy.on IN
       /\ kl' = [kl EXCEPT ![l] = [@ EXCEPT !.obj = "dead", !.worker = FALSE,
                                            !.fd = FALSE, !.conn = FALSE]]
       /\ wk' = IF kl[l].fd THEN [wk EXCEPT ![l].sock = "closed"] ELSE wk
    /\ busy' = Idle
    /\ UNCHANGED <<acc, tk, gone, linkQ, main, mainQ, eng, calls, sent>>

ResetImpl ==
    /\ Handling("resetImpl") /\ Pop
    /\ acc' = [acc EXCEPT !.impl = NoImpl]
    /\ main' = Returned(main)
    /\ UNCHANGED <<kl, wk, tk, gone, busy, mainQ, eng, calls, sent>>

(* PalmTickle: start clears the failure count, and does nothing if running.*)
DoPause ==
    /\ Handling("pause") /\ Pop
    /\ tk' = IF acc.tickle = NoLink THEN tk ELSE [tk EXCEPT ![acc.tickle].state = "stopped"]
    /\ main' = Returned(main)
    /\ UNCHANGED <<acc, kl, wk, gone, busy, mainQ, eng, calls, sent>>

DoResume ==
    /\ Handling("resume") /\ Pop
    /\ tk' = IF acc.tickle # NoLink /\ tk[acc.tickle].state = "stopped"
             THEN [tk EXCEPT ![acc.tickle].state = "running", ![acc.tickle].fails = 0]
             ELSE tk
    /\ main' = Returned(main)
    /\ UNCHANGED <<acc, kl, wk, gone, busy, mainQ, eng, calls, sent>>

TickStop ==
    /\ Handling("tickStop") /\ Pop
    /\ tk' = IF tk[Owner].state = "none" THEN tk ELSE [tk EXCEPT ![Owner].state = "stopped"]
    /\ UNCHANGED <<acc, kl, wk, gone, busy, main, mainQ, eng, calls, sent>>

TickDelete ==
    /\ Handling("tickDelete") /\ Pop
    /\ tk' = [tk EXCEPT ![Owner].state = "none"]
    /\ UNCHANGED <<acc, kl, wk, gone, busy, main, mainQ, eng, calls, sent>>

(* The timer fires.  A tick fails exactly when nobody answers.  A tickle   *)
(* needs fifteen seconds to give up: a connectionLost that is on its way   *)
(* is handled before a resumed tickle fails three more times.              *)
LostPending ==
    \/ \E i \in DOMAIN mainQ : mainQ[i] = "lost"
    \/ \E i \in DOMAIN linkQ : linkQ[i].t = "disconnect"

(* Mutant: the tickle does not stop after reporting the loss.              *)
SendTick_NoStop(t) ==
    /\ busy = Idle /\ tk[t].state = "running" /\ t \in gone
    /\ tk[t].fails + 1 = TickLimit => ~LostPending
    /\ tk' = [tk EXCEPT ![t].fails = @ + 1]
    /\ mainQ' = IF tk[t].fails + 1 = TickLimit THEN Append(mainQ, "lost") ELSE mainQ
    /\ UNCHANGED <<acc, kl, wk, gone, linkQ, busy, main, eng, calls, sent>>

SendTick(t) ==
    /\ busy = Idle /\ tk[t].state = "running"
    /\ IF t \in gone \/ wk[t].sock # "open"
       THEN /\ tk[t].fails + 1 = TickLimit => ~LostPending
            /\ IF tk[t].fails + 1 = TickLimit
               THEN /\ tk' = [tk EXCEPT ![t].state = "stopped", ![t].fails = TickLimit]
                    /\ mainQ' = Append(mainQ, "lost")
               ELSE tk' = [tk EXCEPT ![t].fails = @ + 1] /\ UNCHANGED mainQ
       ELSE tk' = [tk EXCEPT ![t].fails = 0] /\ UNCHANGED mainQ
    /\ UNCHANGED <<acc, kl, wk, gone, linkQ, busy, main, eng, calls, sent>>

-----------------------------------------------------------------------------
(* An engine thread inside a forwarder: m_impl is tested there, used on    *)
(* the link thread.                                                        *)
EngineCheck ==
    /\ eng = "idle" /\ main \in {"idle", "calling", "closing"} /\ Call("engine")
    /\ acc.impl # NoImpl
    /\ eng' = "checked"
    /\ UNCHANGED <<acc, kl, wk, tk, gone, linkQ, busy, main, mainQ, sent>>

EnginePost ==
    /\ eng = "checked"
    /\ eng' = "waiting"
    /\ linkQ' = Append(linkQ, Ev("dlp", NoLink))
    /\ UNCHANGED <<acc, kl, wk, tk, gone, busy, main, mainQ, calls, sent>>

(* A DLP call of KPilotDeviceLink.  Every error goes through setError; an  *)
(* unrecoverable one also clears m_isConnected.  A reset m_impl makes the  *)
(* call undefined: it is left without effect here.                         *)
DlpCall ==
    /\ Handling("dlp")
    /\ eng' = "idle"
    /\ LET l == acc.impl IN
       IF l \notin Links
       THEN Pop /\ UNCHANGED kl
       ELSE \/ /\ l \notin gone /\ kl[l].conn
               /\ Pop /\ UNCHANGED kl
            \/ /\ linkQ' = Tail(linkQ) \o StopEvents(l)
               /\ \E c \in BOOLEAN :
                     kl' = [kl EXCEPT ![l].err = TRUE, ![l].conn = c /\ kl[l].conn]
    /\ UNCHANGED <<acc, wk, tk, gone, busy, main, mainQ, calls, sent>>

-----------------------------------------------------------------------------
(* ConnectionWorker::doConnect on its own thread.                          *)

Post(l, t) ==
    /\ wk' = [wk EXCEPT ![l].stage = "done"]
    /\ linkQ' = Append(linkQ, Ev(t, l))

(* Probing, then socket, bind and listen; the cancel flag is read before   *)
(* the port is opened.                                                     *)
WorkerProbe(l) ==
    /\ wk[l].stage = "probing"
    /\ \/ Post(l, "failed")
       \/ /\ ~wk[l].cancel
          /\ wk' = [wk EXCEPT ![l].stage = "accepting"]
          /\ UNCHANGED linkQ
    /\ UNCHANGED <<acc, kl, tk, gone, busy, main, mainQ, eng, calls, sent>>

(* pi_accept_to returns; an accepted socket is closed again if a cancel    *)
(* was requested meanwhile.                                                *)
WorkerAccept(l) ==
    /\ wk[l].stage = "accepting"
    /\ \/ Post(l, "failed")
       \/ /\ ~wk[l].cancel
          /\ wk' = [wk EXCEPT ![l].stage = "handshake", ![l].sock = "open"]
          /\ UNCHANGED linkQ
    /\ UNCHANGED <<acc, kl, tk, gone, busy, main, mainQ, eng, calls, sent>>

(* The first DLP reads, whose failures are not fatal; nothing looks at the *)
(* cancel flag any more.                                                   *)
WorkerHandshake(l) ==
    /\ wk[l].stage = "handshake"
    /\ Post(l, "established")
    /\ UNCHANGED <<acc, kl, tk, gone, busy, main, mainQ, eng, calls, sent>>

(* cleanupWorker's wait runs out and the thread is terminated.  Probe and  *)
(* accept are bounded well below it; the handshake reads are not.          *)
TerminateWorker ==
    /\ busy # Idle /\ kl[busy.on].worker /\ wk[busy.on].stage = "handshake"
    /\ busy.on \in gone
    /\ wk' = [wk EXCEPT ![busy.on].stage = "killed"]
    /\ UNCHANGED <<acc, kl, tk, gone, linkQ, busy, main, mainQ, eng, calls, sent>>

(* The device is unplugged or leaves HotSync mode (environment).           *)
DeviceGone(l) ==
    /\ wk[l].sock = "open" /\ l \notin gone
    /\ gone' = gone \cup {l}
    /\ UNCHANGED <<acc, kl, wk, tk, linkQ, busy, main, mainQ, eng, calls, sent>>

-----------------------------------------------------------------------------
MainStep ==
    \/ ConnectDevice \/ CancelConnect \/ DisconnectDevice
    \/ PauseTickle \/ ResumeTickle \/ HandleMain
    \/ DestroyBegin \/ DestroyDisconnect \/ DestroyImpl \/ Destroyed

LinkStep ==
    \/ DoConnect \/ Established \/ Failed \/ DoCancel \/ CancelReturns
    \/ DoDisconnect \/ DisconnectReturns \/ DeleteLink \/ DeleteReturns
    \/ DeleteChild \/ ResetImpl \/ DoPause \/ DoResume \/ TickStop \/ TickDelete
    \/ DlpCall \/ TerminateWorker \/ LinkThreadFinishes

WorkerStep(l) == WorkerProbe(l) \/ WorkerAccept(l) \/ WorkerHandshake(l)

Next ==
    \/ MainStep \/ LinkStep
    \/ EngineCheck \/ EnginePost
    \/ \E l \in Links : WorkerStep(l) \/ SendTick(l) \/ DeviceGone(l)

Spec == Init /\ [][Next]_vars

(* The threads are scheduled: posted events are handled, bounded waits end,*)
(* a destructor that began goes on and a running timer fires.  Nobody has  *)
(* to call anything, and the device may stay or go.                        *)
Fairness ==
    /\ WF_vars(LinkStep)
    /\ WF_vars(HandleMain)
    /\ WF_vars(DestroyDisconnect) /\ WF_vars(DestroyImpl) /\ WF_vars(Destroyed)
    /\ WF_vars(main = "dtor" /\ DestroyBegin)
    /\ WF_vars(EnginePost)
    /\ \A l \in Links : WF_vars(WorkerStep(l)) /\ WF_vars(SendTick(l))

FairSpec == Spec /\ Fairness
-----------------------------------------------------------------------------
Stages == {"none", "probing", "accepting", "handshake", "done", "killed"}
LinkEvents == {"connect", "cancel", "disconnect", "pause", "resume", "resetImpl",
               "established", "failed", "delete", "tickStop", "tickDelete", "dlp"}

(* Every variable keeps to its type.                                       *)
TypeOK ==
    /\ acc \in [connecting : BOOLEAN, connected : BOOLEAN, link : Links \cup {NoLink},
                owns : BOOLEAN, impl : Links \cup {NoLink, NoImpl},
                tickle : Links \cup {NoLink}]
    /\ kl \in [Links -> [obj : {"none", "alive", "dead"}, conn : BOOLEAN,
                         fd : BOOLEAN, worker : BOOLEAN, err : BOOLEAN,
                         sigs : BOOLEAN]]
    /\ wk \in [Links -> [stage : Stages, cancel : BOOLEAN,
                         sock : {"none", "open", "closed"}]]
    /\ tk \in [Links -> [state : {"none", "running", "stopped"},
                         fails : 0..TickLimit, on : Links \cup {NoLink}]]
    /\ gone \subseteq Links
    /\ linkQ \in Seq([t : LinkEvents, l : Links \cup {NoLink}])
    /\ busy \in [op : {"idle", "cancel", "disconnect", "delete"},
                 on : Links \cup {NoLink}]
    /\ main \in {"idle", "calling", "closing", "dtor", "dtor1", "dtor2", "dtor3",
                 "dtor4", "joining", "finishing", "gone"}
    /\ mainQ \in Seq({"ok", "fail", "down", "lost"})
    /\ eng \in {"idle", "checked", "waiting"}
    /\ calls \in 0..MaxCalls
    /\ sent \in [started : 0..MaxConnects, ok : 0..MaxConnects,
                 fail : 0..MaxConnects, down : 0..MaxConnects]

(* The object is in use: nobody has begun to close it for good.            *)
InUse == main \in {"idle", "calling"}

(* Only one connection attempt is ever in flight: two workers would fight  *)
(* over the same serial port.                                              *)
OneAttempt == Cardinality({l \in Links : Running(l)}) <= 1

(* Each accepted connectDevice is answered by exactly one completion, and  *)
(* m_connecting is up exactly while the answer is outstanding.  Closing    *)
(* the object may swallow an answer but never adds one.                    *)
OneCompletion ==
    /\ sent.ok + sent.fail <= sent.started
    /\ InUse => sent.started =
                   sent.ok + sent.fail + (IF acc.connecting THEN 1 ELSE 0)

(* deviceDisconnected follows a successful completion, once, and           *)
(* m_connected is up exactly in between; closing the object never adds one.*)
DownFollowsUp ==
    /\ sent.down <= sent.ok
    /\ InUse => sent.ok = sent.down + (IF acc.connected THEN 1 ELSE 0)

(* While m_connected is up and no teardown runs, m_impl and m_tickle work  *)
(* on the current link, which is alive: no forwarder can reach a deleted   *)
(* link.                                                                   *)
WiredWhileConnected ==
    InUse /\ acc.connected /\ busy.op # "disconnect" =>
        /\ acc.link # NoLink /\ acc.impl = acc.link /\ acc.tickle = acc.link
        /\ kl[acc.link].obj = "alive" /\ wk[acc.link].sock = "open"

(* A running tickle pings the open socket of a live link: the descriptor   *)
(* may belong to somebody else once it was closed.                         *)
TickleOnOpenSocket ==
    InUse => \A t \in Links : tk[t].state = "running" =>
        wk[t].sock = "open" /\ kl[t].obj = "alive"

(* The destructor leaves nothing behind: no link, no tickle, no worker.    *)
NothingSurvives ==
    main = "gone" => \A l \in Links :
        kl[l].obj # "alive" /\ tk[l].state = "none" /\ ~Running(l)

(* A blocking call always returns: neither main nor an engine thread in a  *)
(* forwarder waits for the link thread forever, even when that is itself   *)
(* waiting for a connection worker.                                        *)
CallsReturn ==
    /\ (main \in {"calling", "closing", "dtor2", "dtor4", "joining"})
           ~> (main \in {"idle", "dtor", "dtor3", "finishing"})
    /\ (eng = "waiting") ~> (eng = "idle")

(* connectDevice is answered: an attempt ends, with its completion or with *)
(* the object, unless somebody asks its worker to cancel.                  *)
ConnectingEnds ==
    acc.connecting ~> \/ ~acc.connecting \/ main = "gone"
                      \/ acc.link # NoLink /\ wk[acc.link].cancel

-----------------------------------------------------------------------------
(* What the sources say of this object and the model refutes.              *)

(* palmdeviceaccess.cpp asserts that a link is current whenever the         *)
(* tickle of an established connection is wired: Q_ASSERT(deviceLink).     *)
AssertDeviceLink ==
    Handling("established") /\ kl[Owner].sigs => acc.link # NoLink

(* palmtickle.h: the ping runs for as long as the connection is open and   *)
(* reports its loss after three failures, so a connection whose device     *)
(* went away does not stay connected.                                      *)
LossNoticed ==
    (acc.connected /\ acc.link \in gone) ~> (~acc.connected \/ main = "gone")
=============================================================================
