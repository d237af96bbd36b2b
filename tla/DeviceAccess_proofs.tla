------------------------- MODULE DeviceAccess_proofs -------------------------
(***************************************************************************)
(* The life of one PalmDeviceAccess object, for any number of connection   *)
(* attempts and of calls: its types, one completion per connectDevice, one *)
(* deviceDisconnected per success, the tickle on an open socket, nothing   *)
(* left behind by the destructor and nothing queued for a deleted link.    *)
(***************************************************************************)
EXTENDS DeviceAccess, FiniteSetTheorems, TLAPS

-----------------------------------------------------------------------------
(* Event queues: what is in one, and that at most one entry is of a kind.  *)

Elems(q) == {q[i] : i \in DOMAIN q}
One(q, S) == \A i, j \in DOMAIN q : q[i] \in S /\ q[j] \in S => i = j

LEMMA Posting ==
    ASSUME NEW S, NEW q \in Seq(S), NEW x \in S
    PROVE  /\ Append(q, x) \in Seq(S)
           /\ Elems(Append(q, x)) = Elems(q) \cup {x}
           /\ Elems(q) \subseteq S
           /\ \A T : One(q, T) /\ (x \notin T \/ Elems(q) \cap T = {})
                        => One(Append(q, x), T)
<1> DEFINE r == Append(q, x)
<1>1. /\ r \in Seq(S) /\ Len(r) = Len(q) + 1 /\ DOMAIN r = 1..Len(r)
      /\ DOMAIN q = 1..Len(q) /\ Len(q) \in Nat
      /\ \A i \in 1..Len(q) : r[i] = q[i] /\ q[i] \in S
      /\ r[Len(q) + 1] = x
  OBVIOUS
<1> HIDE DEF r
<1>2. Elems(r) = Elems(q) \cup {x} /\ Elems(q) \subseteq S
  BY <1>1 DEF Elems
<1>3. ASSUME NEW T, One(q, T), x \notin T \/ Elems(q) \cap T = {}
      PROVE  One(r, T)
  BY <1>1, <1>3 DEF One, Elems
<1>4. QED
  BY <1>1, <1>2, <1>3 DEF r

LEMMA Popping ==
    ASSUME NEW S, NEW q \in Seq(S), q # <<>>
    PROVE  /\ Tail(q) \in Seq(S) /\ Head(q) \in S
           /\ Elems(q) = {Head(q)} \cup Elems(Tail(q))
           /\ \A T : One(q, T) => One(Tail(q), T)
           /\ \A T : One(q, T) /\ Head(q) \in T => Elems(Tail(q)) \cap T = {}
<1> DEFINE r == Tail(q)
<1>1. /\ r \in Seq(S) /\ Len(r) = Len(q) - 1 /\ DOMAIN r = 1..Len(r)
      /\ DOMAIN q = 1..Len(q) /\ Len(q) \in Nat \ {0}
      /\ \A i \in 1..Len(r) : r[i] = q[i + 1]
      /\ Head(q) = q[1] /\ q[1] \in S
  OBVIOUS
<1> HIDE DEF r
<1>2. Elems(q) = {Head(q)} \cup Elems(r)
  <2>1. \A i \in 1..Len(q) : i # 1 => i - 1 \in 1..Len(r) /\ q[i] = r[i - 1]
    BY <1>1
  <2>2. \A i \in 1..Len(r) : i + 1 \in 1..Len(q) /\ r[i] = q[i + 1]
    <3>1. ASSUME NEW n \in Nat \ {0}, NEW i \in 1..(n - 1)
          PROVE  i + 1 \in 1..n
      OBVIOUS
    <3>2. QED
      BY <1>1, <3>1
  <2>3. 1 \in 1..Len(q)
    BY <1>1
  <2>4. ASSUME NEW x \in Elems(q)
        PROVE  x = Head(q) \/ x \in Elems(r)
    <3>1. PICK i \in 1..Len(q) : x = q[i]
      BY <1>1 DEF Elems
    <3>2. CASE i = 1
      BY <1>1, <3>1, <3>2
    <3>3. CASE i # 1
      <4>1. i - 1 \in 1..Len(r) /\ x = r[i - 1]
        BY <2>1, <3>1, <3>3
      <4>2. QED
        BY <1>1, <4>1 DEF Elems
    <3>4. QED
      BY <3>2, <3>3
  <2>5. Elems(r) \subseteq Elems(q) /\ Head(q) \in Elems(q)
    BY <1>1, <2>2, <2>3 DEF Elems
  <2>6. QED
    BY <2>4, <2>5
<1>3. ASSUME NEW T, One(q, T)
      PROVE  One(r, T) /\ (Head(q) \in T => Elems(r) \cap T = {})
  <2>1. \A i \in 1..Len(r) : i + 1 \in 1..Len(q) /\ i + 1 # 1
    BY <1>1
  <2>2. One(r, T)
    BY <1>1, <1>3, <2>1 DEF One
  <2>3. ASSUME Head(q) \in T, NEW i \in 1..Len(r)
        PROVE  r[i] \notin T
    BY <1>1, <1>3, <2>1, <2>3 DEF One
  <2>4. QED
    BY <1>1, <2>2, <2>3 DEF Elems
<1>4. QED
  BY <1>1, <1>2, <1>3 DEF r

LEMMA Emptied == ASSUME NEW S, NEW T
                 PROVE  <<>> \in Seq(S) /\ Elems(<<>>) = {} /\ One(<<>>, T)
BY DEF Elems, One

-----------------------------------------------------------------------------
(* The inductive invariant.                                                *)

Plain == {"connect", "cancel", "disconnect", "pause", "resume", "resetImpl", "dlp"}
Owned == {"established", "failed", "delete", "tickStop", "tickDelete"}
Event == [t : Plain, l : {NoLink}] \cup [t : Owned, l : Links]

Queued == Elems(linkQ)
Rest == Elems(Tail(linkQ))
Blocking == {e \in Event : e.t \in {"disconnect", "pause", "resume", "resetImpl"}}
Attempts == {e \in Event : e.t \in {"connect", "established", "failed"}}
Waiting == {"calling", "closing", "dtor2", "dtor4"}
Mains == Waiting \cup {"idle", "dtor", "dtor1", "dtor3", "joining", "finishing", "gone"}
Signals == {"ok", "fail", "down", "lost"}

(* The types, of the events too: some name a link, the others do not.      *)
MemberTypes ==
    acc \in [connecting : BOOLEAN, connected : BOOLEAN, link : Links \cup {NoLink},
             owns : BOOLEAN, impl : Links \cup {NoLink, NoImpl},
             tickle : Links \cup {NoLink}]

Object == [obj : {"none", "alive", "dead"}, conn : BOOLEAN, fd : BOOLEAN,
           worker : BOOLEAN, err : BOOLEAN, sigs : BOOLEAN]
Objects == [Links -> Object]
Workers == [Links -> [stage : Stages, cancel : BOOLEAN, sock : {"none", "open", "closed"}]]

LinkTypes == kl \in Objects /\ wk \in Workers /\ gone \subseteq Links

TickTypes ==
    /\ tk \in [Links -> [state : {"none", "running", "stopped"},
                         fails : 0..TickLimit, on : Links \cup {NoLink}]]
    /\ \A l \in Links : /\ tk[l].state = "running" => tk[l].fails < TickLimit
                        /\ tk[l].on \in {l, NoLink}

ThreadTypes ==
    /\ linkQ \in Seq(Event)
    /\ busy = Idle \/ busy \in [op : {"cancel", "disconnect", "delete"}, on : Links]
    /\ main \in Mains
    /\ mainQ \in Seq(Signals)
    /\ eng \in {"idle", "checked", "waiting"}
    /\ calls \in 0..MaxCalls
    /\ sent \in [started : 0..MaxConnects, ok : Nat, fail : Nat, down : Nat]

Types == MemberTypes /\ LinkTypes /\ TickTypes /\ ThreadTypes

(* main waits for at most one event, and for a disconnect to end.          *)
Blocked ==
    /\ One(linkQ, Blocking)
    /\ main \notin Waiting \/ busy.op = "disconnect" => Queued \cap Blocking = {}
    /\ busy.op = "disconnect" => main \in Waiting
    /\ Ev("resetImpl", NoLink) \in Queued => main = "dtor4"

Used == {l \in Links : kl[l].obj # "none"}
UnderWay == (\E l \in Links : Running(l)) \/ Queued \cap Attempts # {}

Result(l) ==
    Running(l) \/ Ev("established", l) \in Queued \/ Ev("failed", l) \in Queued

(* One attempt at a time, from the event that asks for it through its      *)
(* worker to the event with its result.                                    *)
Attempted ==
    /\ One(linkQ, Attempts)
    /\ \A k, l \in Links : Running(k) /\ Running(l) => k = l
    /\ \A l \in Links : Running(l) =>
          kl[l].obj = "alive" /\ kl[l].worker /\ Queued \cap Attempts = {}
    /\ \A l \in Links : Result(l) => acc.link \in {l, NoLink}

(* Links are created in the order of their numbers, one per attempt, and   *)
(* what an event or the object names was created.                          *)
Created ==
    /\ \A e \in Queued : e.t \in {"established", "failed", "delete"} => e.l \in Used
    /\ acc.link # NoLink => acc.link \in Used
    /\ busy # Idle => busy.on \in Used
    /\ \E n \in 0..sent.started :
          Used = 1..n /\ (Ev("connect", NoLink) \in Queued => n < sent.started)

Counted ==
    /\ sent.ok + sent.fail <= sent.started
    /\ UnderWay => sent.ok + sent.fail < sent.started
    /\ sent.down <= sent.ok
    /\ acc.connected => sent.down < sent.ok

(* What holds until somebody closes the object for good: the counts        *)
(* balance, ...                                                            *)
Balanced ==
    /\ sent.started = sent.ok + sent.fail + (IF acc.connecting THEN 1 ELSE 0)
    /\ sent.ok = sent.down + (IF acc.connected THEN 1 ELSE 0)
    /\ UnderWay => acc.connecting
    /\ acc.connected => ~acc.connecting

(* ... the current link is alive and stays so, and open once connected, ...*)
Current ==
    /\ acc.connected => acc.link # NoLink /\ wk[acc.link].sock = "open"
    /\ acc.link # NoLink =>
         /\ kl[acc.link].obj = "alive"
         /\ Ev("delete", acc.link) \notin Queued
         /\ busy # [op |-> "delete", on |-> acc.link]

(* ... the attempt under way is its own, ...                               *)
Answering ==
    \A l \in Links :
       /\ Result(l) => l = acc.link /\ kl[l].sigs
       /\ wk[l].stage = "handshake" \/ Ev("established", l) \in Queued
             => wk[l].sock = "open"

(* ... only its tickle runs, until the disconnect begins, ...              *)
Ticking ==
    /\ \A l \in Links : tk[l].state = "running" => l = acc.tickle
    /\ acc.tickle # NoLink => acc.connected /\ acc.tickle = acc.link
    /\ busy.op = "disconnect" => busy.on = acc.link /\ acc.tickle = NoLink
    /\ acc.connected /\ busy.op # "disconnect"
          => acc.impl = acc.link /\ acc.tickle = acc.link

(* ... and only a loss, reported once, disconnects it.                     *)
Closing == Ev("disconnect", NoLink) \in Queued \/ busy.op = "disconnect"
Lost == Elems(mainQ) \cap {"lost"} # {}

Reported ==
    /\ One(mainQ, {"lost"})
    /\ Lost \/ Closing => acc.connected
    /\ ~(Lost /\ Closing)

Using == InUse => Balanced /\ Current /\ Answering /\ Ticking /\ Reported

Ending ==
    /\ main \in {"finishing", "gone"} => \A l \in Links : tk[l].state = "none"
    /\ main = "gone" => Alive = {}

IInv == Types /\ Blocked /\ Attempted /\ Created /\ Counted /\ Using /\ Ending

LEMMA Events ==
    /\ \A t \in Plain : Ev(t, NoLink) \in Event
    /\ \A t \in Owned, l \in Links : Ev(t, l) \in Event
    /\ \A e \in Event : (e.t \in Plain /\ e.l = NoLink) \/ (e.t \in Owned /\ e.l \in Links)
    /\ \A e \in Event : e = Ev(e.t, e.l)
    /\ \A t, l : Ev(t, l).t = t /\ Ev(t, l).l = l
<1>1. \A t, l : Ev(t, l).t = t /\ Ev(t, l).l = l
  BY DEF Ev
<1>2. \A t \in Plain : Ev(t, NoLink) \in Event
  BY DEF Ev, Event
<1>3. \A t \in Owned, l \in Links : Ev(t, l) \in Event
  BY DEF Ev, Event
<1>4. ASSUME NEW e \in Event
      PROVE  ((e.t \in Plain /\ e.l = NoLink) \/ (e.t \in Owned /\ e.l \in Links))
             /\ e = Ev(e.t, e.l)
  <2>1. CASE e \in [t : Plain, l : {NoLink}]
    <3>1. e = [t |-> e.t, l |-> e.l] /\ e.t \in Plain /\ e.l \in {NoLink}
      BY <2>1
    <3>2. QED
      BY <3>1 DEF Ev
  <2>2. CASE e \in [t : Owned, l : Links]
    <3>1. e = [t |-> e.t, l |-> e.l] /\ e.t \in Owned /\ e.l \in Links
      BY <2>2
    <3>2. QED
      BY <3>1 DEF Ev
  <2>3. QED
    BY <1>4, <2>1, <2>2 DEF Event
<1>5. QED
  BY <1>1, <1>2, <1>3, <1>4

(* What the two kinds are, in terms of single events.                      *)
LEMMA Kinds ==
    /\ \A e \in Event : e \in Blocking
          <=> e.t \in {"disconnect", "pause", "resume", "resetImpl"}
    /\ \A e \in Event : e \in Attempts <=> e.t \in {"connect", "established", "failed"}
    /\ \A e \in Attempts : e = Ev("connect", NoLink)
          \/ \E l \in Links : e = Ev("established", l) \/ e = Ev("failed", l)
    /\ NoLink \notin Links /\ \A l \in Links : l \in Nat \ {0}
<1>1. \A e \in Attempts : e = Ev("connect", NoLink)
          \/ \E l \in Links : e = Ev("established", l) \/ e = Ev("failed", l)
  <2>1. SUFFICES ASSUME NEW e \in Event, e.t \in {"connect", "established", "failed"}
                 PROVE  e = Ev("connect", NoLink)
                        \/ \E l \in Links : e = Ev("established", l) \/ e = Ev("failed", l)
    BY DEF Attempts
  <2>2. e = Ev(e.t, e.l)
    BY Events
  <2>3. CASE e.t = "connect"
    BY <2>2, <2>3, Events DEF Owned
  <2>4. CASE e.t \in {"established", "failed"}
    BY <2>2, <2>4, Events DEF Plain
  <2>5. QED
    BY <2>1, <2>3, <2>4
<1>2. QED
  BY <1>1, ConstantsAssumption DEF Blocking, Attempts, Links, NoLink

LEMMA PostEvent ==
    ASSUME linkQ \in Seq(Event), NEW e \in Event, linkQ' = Append(linkQ, e)
    PROVE  /\ linkQ' \in Seq(Event) /\ Queued' = Queued \cup {e}
           /\ Queued \subseteq Event
           /\ \A T : One(linkQ, T) /\ (e \notin T \/ Queued \cap T = {}) => One(linkQ', T)
BY Posting DEF Queued

LEMMA PopEvent ==
    ASSUME linkQ \in Seq(Event), linkQ # <<>>
    PROVE  /\ Tail(linkQ) \in Seq(Event) /\ Head(linkQ) \in Event
           /\ Queued = {Head(linkQ)} \cup Rest /\ Rest \subseteq Event
           /\ \A T : One(linkQ, T) => One(Tail(linkQ), T)
           /\ \A T : One(linkQ, T) /\ Head(linkQ) \in T => Rest \cap T = {}
<1>1. \A x \in Rest : x \in Event
  BY Popping, Posting DEF Rest
<1>2. QED
  BY <1>1, Popping DEF Queued, Rest

(* Two events more, or one, of neither kind.                               *)
LEMMA PostMore ==
    ASSUME NEW q \in Seq(Event), NEW a \in Event, NEW b \in Event, NEW T
    PROVE  /\ <<>> \in Seq(Event) /\ <<a>> \in Seq(Event) /\ <<a, b>> \in Seq(Event)
           /\ q \o <<>> = q
           /\ q \o <<a>> = Append(q, a)
           /\ (q \o <<a>>) \o <<b>> = Append(Append(q, a), b)
           /\ Append(q, a) \in Seq(Event)
<1>1. <<>> \in Seq(Event) /\ <<a>> \in Seq(Event) /\ <<a, b>> \in Seq(Event) /\ <<b>> \in Seq(Event)
  OBVIOUS
<1>2. \A s \in Seq(Event), x \in Event : <<x>> \in Seq(Event) => s \o <<x>> = Append(s, x)
  OBVIOUS
<1>3. Append(q, a) \in Seq(Event)
  OBVIOUS
<1>4. QED
  BY <1>1, <1>2, <1>3

-----------------------------------------------------------------------------
(* Every step keeps the invariant: first the main thread.                  *)

LEMMA ConnectKeeps == IInv /\ ConnectDevice => IInv'
<1> SUFFICES ASSUME IInv, ConnectDevice PROVE IInv'
  OBVIOUS
<1> DEFINE e == Ev("connect", NoLink)
<1>1. e \in Event /\ e.t = "connect" /\ e \notin Blocking /\ e \in Attempts
  BY Events, Kinds DEF Plain
<1> HIDE DEF e
<1>2. Using /\ InUse /\ ~UnderWay /\ ~acc.connecting /\ ~acc.connected
  BY DEF IInv, Using, InUse, ConnectDevice, Balanced
<1>3. /\ linkQ' \in Seq(Event) /\ Queued' = Queued \cup {e} /\ Queued \subseteq Event
      /\ \A T : One(linkQ, T) /\ (e \notin T \/ Queued \cap T = {}) => One(linkQ', T)
  BY <1>1, PostEvent DEF IInv, Types, ThreadTypes, ConnectDevice, e
<1>4. /\ \A l \in Links : Running(l)' = Running(l)
      /\ MemberTypes' /\ acc'.connecting = TRUE /\ acc'.connected = acc.connected
      /\ acc'.link = acc.link /\ acc'.impl = acc.impl /\ acc'.tickle = acc.tickle
      /\ sent' \in [started : 0..MaxConnects, ok : Nat, fail : Nat, down : Nat]
      /\ sent'.started = sent.started + 1 /\ sent'.ok = sent.ok
      /\ sent'.fail = sent.fail /\ sent'.down = sent.down
  <2>1. MemberTypes' /\ acc'.connecting = TRUE /\ acc'.connected = acc.connected
        /\ acc'.link = acc.link /\ acc'.impl = acc.impl /\ acc'.tickle = acc.tickle
    BY DEF IInv, Types, MemberTypes, ConnectDevice
  <2>2. sent.started \in Nat /\ sent.started + 1 \in 0..MaxConnects
    BY ConstantsAssumption DEF IInv, Types, ThreadTypes, ConnectDevice
  <2>3. /\ sent' \in [started : 0..MaxConnects, ok : Nat, fail : Nat, down : Nat]
        /\ sent'.started = sent.started + 1 /\ sent'.ok = sent.ok
        /\ sent'.fail = sent.fail /\ sent'.down = sent.down
    BY <2>2 DEF IInv, Types, ThreadTypes, ConnectDevice
  <2>4. QED
    BY <2>1, <2>3 DEF Running, ConnectDevice
<1>5. Types'
  BY <1>3, <1>4 DEF IInv, Types, LinkTypes, TickTypes, ThreadTypes, ConnectDevice
<1>6. Blocked'
  <2>1. e # Ev("resetImpl", NoLink)
    BY <1>1, Events
  <2>2. QED
    BY <1>1, <1>3, <2>1 DEF IInv, Blocked, ConnectDevice
<1>7. Attempted'
  <2>1. \A l \in Links : Ev("established", l) # e /\ Ev("failed", l) # e
    BY <1>1, Events
  <2>2. \A l \in Links : Result(l)' => Result(l)
    BY <1>3, <1>4, <2>1 DEF Result
  <2>3. QED
    BY <1>1, <1>2, <1>3, <1>4, <2>2 DEF IInv, Attempted, UnderWay, ConnectDevice
<1>8. Created'
  <2>1. PICK n \in 0..sent.started : Used = 1..n
    BY DEF IInv, Created
  <2>2. n \in 0..sent'.started /\ n < sent'.started
    BY <1>4, <2>1 DEF IInv, Types, ThreadTypes
  <2>3. Used' = Used
    BY DEF Used, ConnectDevice
  <2>4. QED
    BY <1>1, <1>3, <1>4, <2>1, <2>2, <2>3 DEF IInv, Created, ConnectDevice
<1>9. Counted' /\ Balanced'
  BY <1>2, <1>4 DEF IInv, Counted, Types, ThreadTypes, Using, Balanced, UnderWay
<1>10. Using'
  <2>1. Ev("delete", acc.link) # e /\ Ev("disconnect", NoLink) # e
        /\ \A l \in Links : Ev("established", l) # e /\ Ev("failed", l) # e
    BY <1>1, Events
  <2>2. Current' /\ Answering' /\ Ticking' /\ Reported'
    BY <1>2, <1>3, <1>4, <2>1 DEF Using, Current, Answering, Ticking, Reported,
       Result, Closing, Lost, ConnectDevice, Running
  <2>3. QED
    BY <1>9, <2>2 DEF Using
<1>11. Ending'
  BY DEF IInv, Ending, Alive, ConnectDevice
<1>12. QED
  BY <1>5, <1>6, <1>7, <1>8, <1>9, <1>10, <1>11 DEF IInv

(* An event that is no attempt moves nothing by being posted.              *)
LEMMA Posted ==
    ASSUME IInv, NEW t \in Plain \ {"connect"}, linkQ' = Append(linkQ, Ev(t, NoLink)),
           UNCHANGED <<acc, kl, wk, tk, gone, busy, sent>>
    PROVE  /\ linkQ' \in Seq(Event) /\ Queued' = Queued \cup {Ev(t, NoLink)}
           /\ Queued' \cap Blocking = Queued \cap Blocking \/ Ev(t, NoLink) \in Blocking
           /\ Ev(t, NoLink) \notin Blocking \/ Queued \cap Blocking = {}
                 => One(linkQ', Blocking)
           /\ Ev("resetImpl", NoLink) \in Queued'
                 => Ev("resetImpl", NoLink) \in Queued \/ t = "resetImpl"
           /\ MemberTypes' /\ LinkTypes' /\ TickTypes'
           /\ Attempted' /\ Created' /\ Counted'
           /\ Balanced => Balanced'
           /\ Current => Current'
           /\ Answering => Answering'
           /\ Ticking => Ticking'
           /\ t # "disconnect" /\ mainQ' = mainQ /\ Reported => Reported'
<1> DEFINE e == Ev(t, NoLink)
<1>1. e \in Event /\ e.t = t /\ e \notin Attempts /\ e.t \notin Owned
  BY Events, Kinds DEF Plain, Owned
<1>2. /\ e # Ev("connect", NoLink)
      /\ t # "resetImpl" => e # Ev("resetImpl", NoLink)
      /\ t # "disconnect" => e # Ev("disconnect", NoLink)
      /\ \A l \in Links : /\ e # Ev("established", l) /\ e # Ev("failed", l)
                          /\ e # Ev("delete", l)
  BY Events DEF Plain
<1> HIDE DEF e
<1>3. /\ linkQ' \in Seq(Event) /\ Queued' = Queued \cup {e} /\ Queued \subseteq Event
      /\ \A T : One(linkQ, T) /\ (e \notin T \/ Queued \cap T = {}) => One(linkQ', T)
  BY <1>1, PostEvent DEF IInv, Types, ThreadTypes, e
<1>4. /\ \A l \in Links : Running(l)' = Running(l)
      /\ Queued' \cap Attempts = Queued \cap Attempts /\ UnderWay' = UnderWay
  BY <1>1, <1>3 DEF Running, UnderWay
<1>5. Attempted' /\ Created' /\ Counted'
  <2>1. Attempted'
    <3>1. \A l \in Links : Result(l)' => Result(l)
      BY <1>2, <1>3, <1>4 DEF Result
    <3>2. QED
      BY <1>1, <1>3, <1>4, <3>1 DEF IInv, Attempted
  <2>2. Created'
    BY <1>1, <1>2, <1>3 DEF IInv, Created, Used, Owned
  <2>3. Counted'
    BY <1>4 DEF IInv, Counted
  <2>4. QED
    BY <2>1, <2>2, <2>3
<1>6. ASSUME Balanced PROVE Balanced'
  BY <1>4, <1>6 DEF Balanced
<1>7. ASSUME Current PROVE Current'
  BY <1>2, <1>3, <1>7 DEF Current, IInv, Types, MemberTypes
<1>8. ASSUME Answering PROVE Answering'
  BY <1>2, <1>3, <1>4, <1>8 DEF Answering, Result
<1>9. ASSUME Ticking PROVE Ticking'
  BY <1>9 DEF Ticking
<1>10. ASSUME t # "disconnect", mainQ' = mainQ, Reported PROVE Reported'
  BY <1>2, <1>3, <1>10 DEF Reported, Closing, Lost
<1>11. /\ Queued' \cap Blocking = Queued \cap Blocking \/ e \in Blocking
       /\ e \notin Blocking \/ Queued \cap Blocking = {} => One(linkQ', Blocking)
  BY <1>3 DEF IInv, Blocked
<1>12. MemberTypes' /\ LinkTypes' /\ TickTypes'
  BY DEF IInv, Types, MemberTypes, LinkTypes, TickTypes
<1>13. QED
  BY <1>2, <1>3, <1>5, <1>6, <1>7, <1>8, <1>9, <1>10, <1>11, <1>12 DEF e

(* Nor does a move of main alone.                                          *)
LEMMA Moved ==
    ASSUME IInv, UNCHANGED <<acc, kl, wk, tk, gone, linkQ, busy, sent>>
    PROVE  /\ linkQ' \in Seq(Event) /\ Queued' = Queued
           /\ One(linkQ', Blocking)
           /\ MemberTypes' /\ LinkTypes' /\ TickTypes'
           /\ Attempted' /\ Created' /\ Counted'
           /\ Balanced => Balanced'
           /\ Current => Current'
           /\ Answering => Answering'
           /\ Ticking => Ticking'
<1>1. /\ \A l \in Links : Running(l)' = Running(l)
      /\ Queued' = Queued /\ UnderWay' = UnderWay /\ Used' = Used
  BY DEF Running, UnderWay, Queued, Used
<1>2. MemberTypes' /\ LinkTypes' /\ TickTypes' /\ linkQ' \in Seq(Event)
  BY DEF IInv, Types, MemberTypes, LinkTypes, TickTypes, ThreadTypes
<1>3. One(linkQ', Blocking) /\ Attempted' /\ Created' /\ Counted'
  BY <1>1 DEF IInv, Blocked, Attempted, Created, Counted, Result
<1>4. (Balanced => Balanced') /\ (Current => Current') /\ (Answering => Answering')
      /\ (Ticking => Ticking')
  BY <1>1 DEF Balanced, Current, Answering, Result, Ticking
<1>5. QED
  BY <1>1, <1>2, <1>3, <1>4

(* The calls that leave the object in use.                                 *)
LEMMA CallKeeps == IInv /\ (CancelConnect \/ PauseTickle \/ ResumeTickle) => IInv'
<1> SUFFICES ASSUME IInv, CancelConnect \/ PauseTickle \/ ResumeTickle PROVE IInv'
  OBVIOUS
<1>1. PICK t \in {"cancel", "pause", "resume"} :
         /\ linkQ' = Append(linkQ, Ev(t, NoLink))
         /\ main = "idle" /\ main' = IF t = "cancel" THEN "idle" ELSE "calling"
  BY DEF CancelConnect, PauseTickle, ResumeTickle, Block
<1>2. /\ UNCHANGED <<acc, kl, wk, tk, gone, busy, sent, mainQ, eng>>
      /\ calls < MaxCalls /\ calls' = calls + 1
  BY DEF CancelConnect, PauseTickle, ResumeTickle, Call
<1>3. t \in Plain \ {"connect"} /\ t # "disconnect"
      /\ (Ev(t, NoLink) \in Blocking => t # "cancel")
  BY <1>1, Kinds, Events DEF Plain
<1>4. /\ linkQ' \in Seq(Event) /\ Queued' = Queued \cup {Ev(t, NoLink)}
      /\ Queued' \cap Blocking = Queued \cap Blocking \/ Ev(t, NoLink) \in Blocking
      /\ Ev(t, NoLink) \notin Blocking \/ Queued \cap Blocking = {}
             => One(linkQ', Blocking)
      /\ Ev("resetImpl", NoLink) \in Queued'
             => Ev("resetImpl", NoLink) \in Queued \/ t = "resetImpl"
      /\ MemberTypes' /\ LinkTypes' /\ TickTypes'
      /\ Attempted' /\ Created' /\ Counted'
      /\ Balanced /\ Current /\ Answering /\ Ticking /\ Reported
            => Balanced' /\ Current' /\ Answering' /\ Ticking' /\ Reported'
  BY <1>1, <1>2, <1>3, Posted
<1>5. Types'
  BY <1>1, <1>2, <1>4, ConstantsAssumption DEF IInv, Types, ThreadTypes, Mains, Waiting
<1>6. Blocked'
  BY <1>1, <1>2, <1>3, <1>4 DEF IInv, Blocked, Waiting
<1>7. Using' /\ Ending'
  BY <1>1, <1>2, <1>4 DEF IInv, Using, InUse, Ending, Alive
<1>8. QED
  BY <1>4, <1>5, <1>6, <1>7 DEF IInv

(* A reported loss makes the owner disconnect; other signals change nothing*)
(* in the object.                                                          *)
LEMMA SignalKeeps == IInv /\ HandleMain => IInv'
<1> SUFFICES ASSUME IInv, HandleMain PROVE IInv'
  OBVIOUS
<1>1. /\ main = "idle" /\ mainQ \in Seq(Signals) /\ mainQ # <<>> /\ mainQ' = Tail(mainQ)
      /\ UNCHANGED <<acc, kl, wk, tk, gone, busy, eng, calls, sent>>
      /\ Using /\ InUse /\ busy.op # "disconnect" /\ Queued \cap Blocking = {}
  BY DEF HandleMain, IInv, Types, ThreadTypes, Blocked, InUse, Waiting
<1>2. /\ mainQ' \in Seq(Signals) /\ Elems(mainQ) = {Head(mainQ)} \cup Elems(mainQ')
      /\ One(mainQ, {"lost"}) => One(mainQ', {"lost"})
      /\ One(mainQ, {"lost"}) /\ Head(mainQ) = "lost" => Elems(mainQ') \cap {"lost"} = {}
  BY <1>1, Popping
<1>3. CASE Head(mainQ) = "lost"
  <2>1. linkQ' = Append(linkQ, Ev("disconnect", NoLink)) /\ main' = "calling"
    BY <1>3 DEF HandleMain, Block
  <2>2. "disconnect" \in Plain \ {"connect"} /\ "disconnect" # "resetImpl"
    BY DEF Plain
  <2>3. /\ linkQ' \in Seq(Event) /\ Queued' = Queued \cup {Ev("disconnect", NoLink)}
        /\ Queued \cap Blocking = {} => One(linkQ', Blocking)
        /\ Ev("resetImpl", NoLink) \in Queued' => Ev("resetImpl", NoLink) \in Queued
        /\ MemberTypes' /\ LinkTypes' /\ TickTypes'
        /\ Attempted' /\ Created' /\ Counted'
        /\ Balanced /\ Current /\ Answering /\ Ticking
              => Balanced' /\ Current' /\ Answering' /\ Ticking'
    BY <1>1, <2>1, <2>2, Posted
  <2>4. Types' /\ Blocked' /\ Ending'
    BY <1>1, <1>2, <2>1, <2>3
    DEF IInv, Types, ThreadTypes, Blocked, Ending, Alive, Mains, Waiting
  <2>5. Reported'
    BY <1>1, <1>2, <1>3, <2>1, <2>3 DEF Using, Reported, Lost, Closing
  <2>6. Using'
    BY <1>1, <2>3, <2>5 DEF Using
  <2>7. QED
    BY <2>3, <2>4, <2>6 DEF IInv
<1>4. CASE Head(mainQ) # "lost"
  <2>1. linkQ' = linkQ /\ main' = main
    BY <1>4 DEF HandleMain
  <2>2. /\ linkQ' \in Seq(Event) /\ Queued' = Queued /\ One(linkQ', Blocking)
        /\ MemberTypes' /\ LinkTypes' /\ TickTypes'
        /\ Attempted' /\ Created' /\ Counted'
        /\ Balanced /\ Current /\ Answering /\ Ticking
              => Balanced' /\ Current' /\ Answering' /\ Ticking'
    BY <1>1, <2>1, Moved
  <2>3. Types' /\ Blocked' /\ Ending'
    BY <1>1, <1>2, <2>1, <2>2
    DEF IInv, Types, ThreadTypes, Blocked, Ending, Alive, Mains, Waiting
  <2>4. Reported'
    BY <1>1, <1>2, <2>1, <2>2 DEF Using, Reported, Lost, Closing
  <2>5. QED
    BY <1>1, <2>2, <2>3, <2>4 DEF IInv, Using
<1>5. QED
  BY <1>3, <1>4

(* The calls after which the object is used no more.                       *)
LEMMA ClosingKeeps ==
    IInv /\ (DisconnectDevice \/ DestroyDisconnect \/ DestroyImpl) => IInv'
<1> SUFFICES ASSUME IInv, DisconnectDevice \/ DestroyDisconnect \/ DestroyImpl
             PROVE  IInv'
  OBVIOUS
<1>1. /\ UNCHANGED <<acc, kl, wk, tk, gone, busy, sent, mainQ, eng, calls>>
      /\ main \notin Waiting
      /\ main' \in {"closing", "dtor2", "dtor3", "dtor4", "joining"}
      /\ main' \in {"dtor3", "joining"} => linkQ' = linkQ
      /\ main' \in Waiting => \E t \in {"disconnect", "resetImpl"} :
                                 /\ linkQ' = Append(linkQ, Ev(t, NoLink))
                                 /\ t = "resetImpl" => main' = "dtor4"
  BY DEF DisconnectDevice, DestroyDisconnect, DestroyImpl, Block, Waiting
<1>2. ~InUse' /\ main' \notin {"finishing", "gone"} /\ main' \in Mains
  BY <1>1 DEF InUse, Mains, Waiting
<1>3. CASE linkQ' = linkQ
  <2>1. /\ linkQ' \in Seq(Event) /\ Queued' = Queued /\ One(linkQ', Blocking)
        /\ MemberTypes' /\ LinkTypes' /\ TickTypes'
        /\ Attempted' /\ Created' /\ Counted'
    BY <1>1, <1>3, Moved
  <2>2. Types' /\ Blocked' /\ Using' /\ Ending'
    BY <1>1, <1>2, <2>1 DEF IInv, Types, ThreadTypes, Blocked, Using, Ending, Waiting
  <2>3. QED
    BY <2>1, <2>2 DEF IInv
<1>4. CASE main' \in Waiting
  <2>1. PICK t \in {"disconnect", "resetImpl"} :
           linkQ' = Append(linkQ, Ev(t, NoLink)) /\ (t = "resetImpl" => main' = "dtor4")
    BY <1>1, <1>4
  <2>2. t \in Plain \ {"connect"}
    BY DEF Plain
  <2>3. Queued \cap Blocking = {} /\ busy.op # "disconnect"
    BY <1>1 DEF IInv, Blocked
  <2>4. /\ linkQ' \in Seq(Event) /\ One(linkQ', Blocking)
        /\ Ev("resetImpl", NoLink) \in Queued'
              => Ev("resetImpl", NoLink) \in Queued \/ t = "resetImpl"
        /\ MemberTypes' /\ LinkTypes' /\ TickTypes'
        /\ Attempted' /\ Created' /\ Counted'
    BY <1>1, <2>1, <2>2, <2>3, Posted
  <2>5. Types' /\ Blocked' /\ Using' /\ Ending'
    BY <1>1, <1>2, <1>4, <2>1, <2>3, <2>4 DEF IInv, Types, ThreadTypes, Blocked,
       Using, Ending, Waiting
  <2>6. QED
    BY <2>4, <2>5 DEF IInv
<1>5. QED
  BY <1>1, <1>3, <1>4 DEF Waiting

LEMMA DestroyKeeps == IInv /\ (DestroyBegin \/ Destroyed) => IInv'
<1> SUFFICES ASSUME IInv, DestroyBegin \/ Destroyed PROVE IInv'
  OBVIOUS
<1>1. /\ main \in {"idle", "dtor", "finishing"} /\ main' \in {"dtor1", "gone"}
      /\ UNCHANGED <<wk, tk, gone, linkQ, busy, mainQ, eng, calls, sent>>
      /\ main' = "gone" => main = "finishing" /\ Alive = {}
  BY DEF DestroyBegin, Destroyed
<1>2. /\ MemberTypes' /\ acc'.link = acc.link /\ acc'.connected = acc.connected
  BY DEF IInv, Types, MemberTypes, DestroyBegin, Destroyed
<1>3. /\ kl' \in Objects
      /\ \A l \in Links : kl'[l].obj = kl[l].obj /\ kl'[l].worker = kl[l].worker
  <2>1. CASE kl' = kl
    BY <2>1 DEF IInv, Types, LinkTypes
  <2>2. ASSUME NEW k \in Links, kl' = [kl EXCEPT ![k].sigs = FALSE]
        PROVE  /\ kl' \in Objects
               /\ \A l \in Links : kl'[l].obj = kl[l].obj /\ kl'[l].worker = kl[l].worker
    <3> DEFINE r == [kl[k] EXCEPT !.sigs = FALSE]
    <3>1. kl \in Objects /\ kl[k] \in Object
      BY DEF IInv, Types, LinkTypes, Objects
    <3>2. r \in Object /\ r.obj = kl[k].obj /\ r.worker = kl[k].worker
      BY <3>1 DEF Object
    <3>3. kl' = [kl EXCEPT ![k] = r]
      BY <2>2, <3>1 DEF Objects, Object
    <3> HIDE DEF r
    <3>4. QED
      BY <3>1, <3>2, <3>3 DEF Objects
  <2>3. QED
    BY <2>1, <2>2 DEF IInv, Types, MemberTypes, DestroyBegin, Destroyed
<1>4. /\ \A l \in Links : Running(l)' = Running(l)
      /\ Queued' = Queued /\ UnderWay' = UnderWay /\ Used' = Used /\ Alive' = Alive
  BY <1>1, <1>3 DEF Running, UnderWay, Queued, Used, Alive
<1>5. Types'
  BY <1>1, <1>2, <1>3
  DEF IInv, Types, LinkTypes, TickTypes, ThreadTypes, Mains
<1>6. Attempted' /\ Created' /\ Counted'
  BY <1>1, <1>2, <1>3, <1>4 DEF IInv, Attempted, Created, Counted, Result
<1>7. Blocked' /\ Using' /\ Ending'
  BY <1>1, <1>4 DEF IInv, Blocked, Using, InUse, Ending, Waiting
<1>8. QED
  BY <1>5, <1>6, <1>7 DEF IInv

(* An engine thread in a forwarder.                                        *)
LEMMA EngineKeeps == IInv /\ (EngineCheck \/ EnginePost) => IInv'
<1> SUFFICES ASSUME IInv, EngineCheck \/ EnginePost PROVE IInv'
  OBVIOUS
<1>1. CASE EngineCheck
  <2>1. /\ UNCHANGED <<acc, kl, wk, tk, gone, linkQ, busy, main, mainQ, sent>>
        /\ eng' = "checked" /\ calls < MaxCalls /\ calls' = calls + 1
    BY <1>1 DEF EngineCheck, Call
  <2>2. /\ linkQ' \in Seq(Event) /\ Queued' = Queued /\ One(linkQ', Blocking)
        /\ MemberTypes' /\ LinkTypes' /\ TickTypes'
        /\ Attempted' /\ Created' /\ Counted'
        /\ Balanced /\ Current /\ Answering /\ Ticking
              => Balanced' /\ Current' /\ Answering' /\ Ticking'
    BY <2>1, Moved
  <2>3. calls' \in 0..MaxCalls
    BY <2>1, ConstantsAssumption DEF IInv, Types, ThreadTypes
  <2>4. Types' /\ Blocked' /\ Using' /\ Ending'
    BY <2>1, <2>2, <2>3 DEF IInv, Types, ThreadTypes, Blocked, Using, InUse, Reported,
       Lost, Closing, Ending, Alive
  <2>5. QED
    BY <2>2, <2>4 DEF IInv
<1>2. CASE EnginePost
  <2>1. /\ UNCHANGED <<acc, kl, wk, tk, gone, busy, main, mainQ, calls, sent>>
        /\ linkQ' = Append(linkQ, Ev("dlp", NoLink)) /\ eng' = "waiting"
    BY <1>2 DEF EnginePost
  <2>2. "dlp" \in Plain \ {"connect"} /\ "dlp" # "resetImpl" /\ Ev("dlp", NoLink) \notin Blocking
    BY Events, Kinds DEF Plain
  <2>3. /\ linkQ' \in Seq(Event) /\ Queued' \cap Blocking = Queued \cap Blocking
        /\ One(linkQ', Blocking)
        /\ Ev("resetImpl", NoLink) \in Queued' => Ev("resetImpl", NoLink) \in Queued
        /\ MemberTypes' /\ LinkTypes' /\ TickTypes'
        /\ Attempted' /\ Created' /\ Counted'
        /\ Balanced /\ Current /\ Answering /\ Ticking /\ Reported
              => Balanced' /\ Current' /\ Answering' /\ Ticking' /\ Reported'
    BY <2>1, <2>2, Posted
  <2>4. Types' /\ Blocked' /\ Using' /\ Ending'
    BY <2>1, <2>3 DEF IInv, Types, ThreadTypes, Blocked, Using, InUse, Ending, Alive
  <2>5. QED
    BY <2>3, <2>4 DEF IInv
<1>3. QED
  BY <1>1, <1>2

-----------------------------------------------------------------------------
(* The link thread: what taking an event leaves in its queue, ...          *)
LEMMA Popped ==
    ASSUME IInv, Looping
    PROVE  /\ busy = Idle /\ main \notin {"finishing", "gone"}
           /\ Tail(linkQ) \in Seq(Event) /\ Head(linkQ) \in Event
           /\ Queued = {Head(linkQ)} \cup Rest /\ Rest \subseteq Event
           /\ One(Tail(linkQ), Blocking) /\ One(Tail(linkQ), Attempts)
           /\ Head(linkQ) \in Blocking => Rest \cap Blocking = {}
           /\ Head(linkQ) \in Attempts => Rest \cap Attempts = {}
<1>1. linkQ \in Seq(Event) /\ linkQ # <<>> /\ One(linkQ, Blocking) /\ One(linkQ, Attempts)
      /\ busy = Idle /\ main \notin {"finishing", "gone"}
  BY DEF IInv, Types, ThreadTypes, Blocked, Attempted, Looping
<1>2. QED
  BY <1>1, PopEvent

(* ... and more events posted behind it, of a tickle or a link.            *)
LEMMA PoppedMore ==
    ASSUME IInv, Looping, NEW more \in Seq(Event),
           \/ more = <<>>
           \/ \E a \in Event : more = <<a>> /\ a \notin Blocking \cup Attempts
    PROVE  /\ Tail(linkQ) \o more \in Seq(Event)
           /\ Elems(Tail(linkQ) \o more) = Rest \cup Elems(more)
           /\ One(Tail(linkQ) \o more, Blocking) /\ One(Tail(linkQ) \o more, Attempts)
<1> DEFINE q == Tail(linkQ)
<1>1. q \in Seq(Event) /\ One(q, Blocking) /\ One(q, Attempts) /\ Elems(q) = Rest
  BY Popped DEF Rest
<1> HIDE DEF q
<1>2. CASE more = <<>>
  <2>1. q \o more = q /\ Elems(more) = {}
    BY <1>1, <1>2 DEF Elems
  <2>2. QED
    BY <1>1, <2>1 DEF q
<1>3. CASE \E a \in Event : more = <<a>> /\ a \notin Blocking \cup Attempts
  <2>1. PICK a \in Event : more = <<a>> /\ a \notin Blocking \cup Attempts
    BY <1>3
  <2>2. q \o more = Append(q, a) /\ Elems(more) = {a}
    BY <1>1, <2>1 DEF Elems
  <2>3. /\ Append(q, a) \in Seq(Event) /\ Elems(Append(q, a)) = Elems(q) \cup {a}
        /\ \A T : One(q, T) /\ (a \notin T \/ Elems(q) \cap T = {})
                     => One(Append(q, a), T)
    BY <1>1, Posting
  <2>4. One(Append(q, a), Blocking) /\ One(Append(q, a), Attempts)
    BY <1>1, <2>1, <2>3
  <2>5. QED
    BY <1>1, <2>2, <2>3, <2>4 DEF q
<1>4. QED
  BY <1>2, <1>3

LEMMA MainReturns ==
    ASSUME main \in Waiting
    PROVE  /\ Returned(main) \in Mains \ (Waiting \cup {"finishing", "gone"})
           /\ Returned(main) \in {"idle", "calling"} => main = "calling"
BY DEF Returned, Waiting, Mains

(* No new attempt begins where none is asked for.                          *)
LEMMA NoNewAttempt ==
    ASSUME IInv, One(linkQ', Attempts), Queued' \cap Attempts \subseteq Queued,
           \A l \in Links : Running(l)' => /\ Running(l) /\ kl'[l].obj = kl[l].obj
                                           /\ kl'[l].worker = kl[l].worker,
           acc'.link = acc.link \/ acc'.link = NoLink
    PROVE  Attempted' /\ (UnderWay' => UnderWay)
<1>1. UnderWay' => UnderWay
  BY DEF UnderWay
<1>2. \A l \in Links : Result(l)' => Result(l)
  <2>1. \A l \in Links : Ev("established", l) \in Attempts /\ Ev("failed", l) \in Attempts
    BY Events, Kinds DEF Owned
  <2>2. QED
    BY <2>1 DEF Result
<1>3. Attempted'
  BY <1>2 DEF IInv, Attempted
<1>4. QED
  BY <1>1, <1>3

LEMMA NothingCreated ==
    ASSUME IInv, Used' = Used, sent'.started = sent.started,
           acc'.link = acc.link \/ acc'.link = NoLink,
           busy' = busy \/ busy' = Idle \/ busy'.on \in Used,
           \A e \in Queued' : e \in Queued
              \/ (e.t = "delete" /\ e.l \in Used)
              \/ e.t \in {"tickStop", "tickDelete"}
    PROVE  Created'
<1>1. PICK n \in 0..sent.started :
         Used = 1..n /\ (Ev("connect", NoLink) \in Queued => n < sent.started)
  BY DEF IInv, Created
<1>2. Ev("connect", NoLink) \in Queued' => Ev("connect", NoLink) \in Queued
  BY Events
<1>3. QED
  BY <1>1, <1>2 DEF IInv, Created

(* What most of its steps have in common.                                  *)
LEMMA QuietLink ==
    ASSUME IInv, Looping,
           linkQ' \in Seq(Event), One(linkQ', Blocking), One(linkQ', Attempts),
           \A e \in Queued' : e \in Rest \/ e.t \in {"tickStop", "tickDelete"},
           LinkTypes', TickTypes', MemberTypes',
           \A l \in Links :
              /\ kl'[l].obj = kl[l].obj /\ kl'[l].worker = kl[l].worker
              /\ kl'[l].sigs = kl[l].sigs
              /\ wk'[l].stage = wk[l].stage /\ wk'[l].sock = wk[l].sock
              /\ tk'[l].state = "running" => tk[l].state = "running" \/ l = acc.tickle,
           acc' = acc \/ (main = "dtor4" /\ acc' = [acc EXCEPT !.impl = NoImpl]),
           busy' = busy \/ (busy' \in [op : {"cancel"}, on : Links] /\ busy'.on \in Used),
           eng' \in {"idle", "checked", "waiting"},
           UNCHANGED <<mainQ, calls, sent>>,
           main' = main \/ (Head(linkQ) \in Blocking /\ main \in Waiting
                            /\ main' = Returned(main))
    PROVE  IInv'
<1>1. /\ busy = Idle /\ Queued = {Head(linkQ)} \cup Rest
      /\ Head(linkQ) \in Blocking => Rest \cap Blocking = {}
      /\ Head(linkQ) \in Event /\ main \notin {"finishing", "gone"} /\ main \in Mains
  BY Popped DEF IInv, Types, ThreadTypes
<1>2. /\ busy'.op # "disconnect" /\ busy'.op # "delete"
      /\ busy' = Idle \/ busy' \in [op : {"cancel", "disconnect", "delete"}, on : Links]
  BY <1>1 DEF Idle
<1>3. /\ main' \in Mains /\ main' \notin {"finishing", "gone"}
      /\ InUse' => InUse
      /\ main' \in Waiting => main' = main
  BY <1>1, MainReturns DEF InUse, Mains, Waiting
<1>4. /\ \A l \in Links : Running(l)' = Running(l)
      /\ Used' = Used /\ Queued' \cap Attempts \subseteq Queued
      /\ Queued' \cap Blocking \subseteq Rest
  BY <1>1, Kinds DEF Running, Used, Attempts, Blocking
<1>5. acc'.link = acc.link /\ acc'.connected = acc.connected /\ (InUse => acc' = acc)
  BY DEF IInv, Types, MemberTypes, InUse
<1>6. Attempted' /\ (UnderWay' => UnderWay)
  BY <1>4, <1>5, NoNewAttempt
<1>7. Created'
  BY <1>1, <1>4, <1>5, NothingCreated
<1>8. Counted'
  BY <1>5, <1>6 DEF IInv, Counted
<1>9. Types'
  BY <1>2, <1>3 DEF IInv, Types, ThreadTypes
<1>10. Blocked'
  <2>1. Ev("resetImpl", NoLink) \in Blocking
    BY Events, Kinds DEF Plain
  <2>2. QED
    BY <1>1, <1>2, <1>3, <1>4, <2>1 DEF IInv, Blocked
<1>11. ASSUME InUse'
       PROVE  Balanced' /\ Current' /\ Answering' /\ Ticking' /\ Reported'
  <2>1. InUse /\ Balanced /\ Current /\ Answering /\ Ticking /\ Reported /\ acc' = acc
    BY <1>3, <1>5, <1>11 DEF IInv, Using
  <2>2. \A t \in Plain \cup {"established", "failed", "delete"} : \A l :
           Ev(t, l) \in Queued' => Ev(t, l) \in Queued
    BY <1>1, Events DEF Plain
  <2>3. Balanced' /\ Current'
    BY <1>2, <1>6, <2>1, <2>2, Kinds DEF Balanced, Current, IInv, Types, MemberTypes
  <2>4. Answering'
    <3>1. \A l \in Links :
             /\ Ev("established", l) \in Queued' => Ev("established", l) \in Queued
             /\ Ev("failed", l) \in Queued' => Ev("failed", l) \in Queued
      BY <2>2
    <3>2. QED
      BY <1>4, <2>1, <3>1 DEF Answering, Result
  <2>5. Ticking' /\ Reported'
    <3>1. Ev("disconnect", NoLink) \in Queued' => Ev("disconnect", NoLink) \in Queued
      BY <2>2 DEF Plain
    <3>2. QED
      BY <1>1, <1>2, <2>1, <3>1 DEF Ticking, Reported, Lost, Closing, Idle
  <2>6. QED
    BY <2>3, <2>4, <2>5
<1>12. Using' /\ Ending'
  BY <1>3, <1>11 DEF Using, Ending
<1>13. QED
  BY <1>6, <1>7, <1>8, <1>9, <1>10, <1>12 DEF IInv

LEMMA PopKeeps ==
    IInv /\ (ResetImpl \/ DoPause \/ DoResume \/ TickStop \/ TickDelete)
        => IInv'
<1> SUFFICES ASSUME IInv,
                    ResetImpl \/ DoPause \/ DoResume \/ TickStop \/ TickDelete
             PROVE  IInv'
  OBVIOUS
<1>1. /\ Looping /\ linkQ' = Tail(linkQ)
      /\ UNCHANGED <<kl, wk, gone, busy, mainQ, eng, calls, sent>>
  BY DEF ResetImpl, DoPause, DoResume, TickStop, TickDelete, Handling, Pop
<1>2. /\ Head(linkQ) \in Event /\ linkQ' \in Seq(Event) /\ Queued' = Rest
      /\ One(linkQ', Blocking) /\ One(linkQ', Attempts)
  BY <1>1, Popped DEF Queued, Rest
<1>3. LinkTypes' /\ eng' \in {"idle", "checked", "waiting"}
  BY <1>1 DEF IInv, Types, LinkTypes, ThreadTypes
<1>4. \/ main' = main
      \/ Head(linkQ) \in Blocking /\ main \in Waiting /\ main' = Returned(main)
  <2>1. Head(linkQ).t \in {"resetImpl", "pause", "resume"} =>
           Head(linkQ) \in Blocking /\ Head(linkQ) \in Queued
    BY <1>1, <1>2, Popped, Kinds
  <2>2. Head(linkQ).t \in {"resetImpl", "pause", "resume"} => main \in Waiting
    BY <2>1 DEF IInv, Blocked
  <2>3. QED
    BY <2>1, <2>2 DEF ResetImpl, DoPause, DoResume, TickStop, TickDelete, Handling
<1>5. MemberTypes' /\ (acc' = acc \/ (main = "dtor4" /\ acc' = [acc EXCEPT !.impl = NoImpl]))
  <2>1. CASE ResetImpl
    <3>1. Head(linkQ) = Ev("resetImpl", NoLink) /\ Head(linkQ) \in Queued
      BY <1>1, <1>2, <2>1, Popped, Events DEF ResetImpl, Handling, Plain, Owned
    <3>2. main = "dtor4"
      BY <3>1 DEF IInv, Blocked
    <3>3. QED
      BY <2>1, <3>2 DEF ResetImpl, IInv, Types, MemberTypes
  <2>2. CASE acc' = acc
    BY <2>2 DEF IInv, Types, MemberTypes
  <2>3. QED
    BY <2>1, <2>2 DEF DoPause, DoResume, TickStop, TickDelete
<1>6. TickTypes' /\ \A l \in Links :
         tk'[l].state = "running" => tk[l].state = "running" \/ l = acc.tickle
  <2>1. CASE tk' = tk
    BY <2>1 DEF IInv, Types, TickTypes
  <2>2. ASSUME NEW k \in Links, NEW s \in {"none", "stopped"}, tk' = [tk EXCEPT ![k].state = s]
        PROVE  TickTypes' /\ \A l \in Links :
                  tk'[l].state = "running" => tk[l].state = "running"
    BY <2>2 DEF IInv, Types, TickTypes
  <2>3. ASSUME acc.tickle \in Links,
               tk' = [tk EXCEPT ![acc.tickle].state = "running", ![acc.tickle].fails = 0]
        PROVE  TickTypes' /\ \A l \in Links :
                  tk'[l].state = "running" => tk[l].state = "running" \/ l = acc.tickle
    <3>1. ASSUME NEW k \in Links, k = acc.tickle,
                 tk' = [tk EXCEPT ![k].state = "running", ![k].fails = 0]
          PROVE  TickTypes' /\ \A l \in Links :
                    tk'[l].state = "running" => tk[l].state = "running" \/ l = k
      BY <3>1 DEF IInv, Types, TickTypes, TickLimit
    <3>2. QED
      BY <2>3, <3>1
  <2>4. CASE ResetImpl
    BY <2>1, <2>4 DEF ResetImpl
  <2>5. CASE DoPause \/ DoResume
    BY <2>1, <2>2, <2>3, <2>5 DEF DoPause, DoResume, IInv, Types, MemberTypes
  <2>6. CASE TickStop \/ TickDelete
    <3>1. Owner \in Links
      BY <1>2, <2>6, Events DEF TickStop, TickDelete, Handling, Owner, Plain
    <3>2. QED
      BY <2>1, <2>2, <2>6, <3>1 DEF TickStop, TickDelete
  <2>7. QED
    BY <2>4, <2>5, <2>6
<1>7. QED
  BY <1>1, <1>2, <1>3, <1>4, <1>5, <1>6, QuietLink

LEMMA StopEventsAre ==
    ASSUME NEW l \in Links
    PROVE  /\ StopEvents(l) \in Seq(Event)
           /\ \/ StopEvents(l) = <<>>
              \/ \E a \in Event : StopEvents(l) = <<a>> /\ a \notin Blocking \cup Attempts
           /\ \A e \in Elems(StopEvents(l)) : e.t = "tickStop"
<1> DEFINE a == Ev("tickStop", l)
<1>1. a \in Event /\ a.t = "tickStop" /\ a \notin Blocking \cup Attempts
  BY Events, Kinds DEF Owned
<1> HIDE DEF a
<1>2. StopEvents(l) = <<>> \/ StopEvents(l) = <<a>>
  BY DEF StopEvents, a
<1>3. <<>> \in Seq(Event) /\ <<a>> \in Seq(Event) /\ Elems(<<>>) = {} /\ Elems(<<a>>) = {a}
  BY <1>1 DEF Elems
<1>4. QED
  BY <1>1, <1>2, <1>3

LEMMA DlpKeeps == IInv /\ DlpCall => IInv'
<1> SUFFICES ASSUME IInv, DlpCall PROVE IInv'
  OBVIOUS
<1>1. /\ Looping /\ eng' = "idle"
      /\ UNCHANGED <<acc, wk, tk, gone, busy, main, mainQ, calls, sent>>
  BY DEF DlpCall, Handling
<1>2. /\ linkQ' \in Seq(Event) /\ One(linkQ', Blocking) /\ One(linkQ', Attempts)
      /\ \A e \in Queued' : e \in Rest \/ e.t \in {"tickStop", "tickDelete"}
  <2>1. CASE linkQ' = Tail(linkQ)
    BY <1>1, <2>1, Popped DEF Queued, Rest
  <2>2. ASSUME NEW l \in Links, linkQ' = Tail(linkQ) \o StopEvents(l)
        PROVE  /\ linkQ' \in Seq(Event) /\ One(linkQ', Blocking) /\ One(linkQ', Attempts)
               /\ Queued' = Rest \cup Elems(StopEvents(l))
    BY <1>1, <2>2, PoppedMore, StopEventsAre DEF Queued
  <2>3. QED
    BY <2>1, <2>2, StopEventsAre DEF DlpCall, Pop
<1>3. LinkTypes' /\ \A l \in Links :
         /\ kl'[l].obj = kl[l].obj /\ kl'[l].worker = kl[l].worker
         /\ kl'[l].sigs = kl[l].sigs
  <2>1. CASE kl' = kl
    BY <1>1, <2>1 DEF IInv, Types, LinkTypes
  <2>2. ASSUME NEW k \in Links, NEW c \in BOOLEAN,
               kl' = [kl EXCEPT ![k].err = TRUE, ![k].conn = c /\ kl[k].conn]
        PROVE  LinkTypes' /\ \A l \in Links :
                  /\ kl'[l].obj = kl[l].obj /\ kl'[l].worker = kl[l].worker
                  /\ kl'[l].sigs = kl[l].sigs
    <3> DEFINE d == c /\ kl[k].conn
    <3>1. d \in BOOLEAN /\ kl' = [kl EXCEPT ![k].err = TRUE, ![k].conn = d]
      BY <2>2
    <3> HIDE DEF d
    <3> DEFINE r == [kl[k] EXCEPT !.err = TRUE, !.conn = d]
    <3>2. kl \in Objects /\ kl[k] \in Object
      BY DEF IInv, Types, LinkTypes, Objects
    <3>3. /\ r \in Object
          /\ r.obj = kl[k].obj /\ r.worker = kl[k].worker /\ r.sigs = kl[k].sigs
      BY <3>1, <3>2 DEF Object
    <3>4. kl' = [kl EXCEPT ![k] = r]
      BY <3>1, <3>2 DEF Objects, Object
    <3> HIDE DEF r
    <3>5. kl' \in Objects
      BY <3>2, <3>3, <3>4 DEF Objects
    <3>6. \A l \in Links : /\ kl'[l].obj = kl[l].obj /\ kl'[l].worker = kl[l].worker
                           /\ kl'[l].sigs = kl[l].sigs
      BY <3>2, <3>3, <3>4 DEF Objects
    <3>7. QED
      BY <1>1, <3>5, <3>6 DEF IInv, Types, LinkTypes
  <2>3. QED
    BY <2>1, <2>2 DEF DlpCall
<1>4. MemberTypes' /\ TickTypes'
  BY <1>1 DEF IInv, Types, MemberTypes, TickTypes
<1>5. QED
  BY <1>1, <1>2, <1>3, <1>4, QuietLink

LEMMA CancelKeeps == IInv /\ DoCancel => IInv'
<1> SUFFICES ASSUME IInv, DoCancel PROVE IInv'
  OBVIOUS
<1>1. /\ Looping /\ linkQ' = Tail(linkQ)
      /\ UNCHANGED <<acc, kl, tk, gone, main, mainQ, eng, calls, sent>>
  BY DEF DoCancel, Handling, Pop
<1>2. /\ linkQ' \in Seq(Event) /\ Queued' = Rest
      /\ One(linkQ', Blocking) /\ One(linkQ', Attempts)
  BY <1>1, Popped DEF Queued, Rest
<1>3. /\ LinkTypes'
      /\ \A l \in Links : wk'[l].stage = wk[l].stage /\ wk'[l].sock = wk[l].sock
      /\ busy' = busy \/ (busy' \in [op : {"cancel"}, on : Links] /\ busy'.on \in Used)
  <2>1. CASE wk' = wk /\ busy' = busy
    BY <1>1, <2>1 DEF IInv, Types, LinkTypes
  <2>2. ASSUME NEW k \in Links, wk' = [wk EXCEPT ![k].cancel = TRUE] \/ wk' = wk,
               busy' = [op |-> "cancel", on |-> k], k \in Used
        PROVE  /\ LinkTypes' /\ busy' \in [op : {"cancel"}, on : Links] /\ busy'.on \in Used
               /\ \A l \in Links : wk'[l].stage = wk[l].stage /\ wk'[l].sock = wk[l].sock
    <3>1. wk \in Workers
      BY DEF IInv, Types, LinkTypes
    <3>2. wk' \in Workers
      BY <2>2, <3>1 DEF Workers
    <3>3. \A l \in Links : wk'[l].stage = wk[l].stage /\ wk'[l].sock = wk[l].sock
      BY <2>2, <3>1 DEF Workers
    <3>4. QED
      BY <1>1, <2>2, <3>2, <3>3 DEF IInv, Types, LinkTypes
  <2>3. QED
    BY <2>1, <2>2 DEF DoCancel, RequestCancel, IInv, Types, MemberTypes, Created
<1>4. MemberTypes' /\ TickTypes' /\ eng' \in {"idle", "checked", "waiting"}
  BY <1>1 DEF IInv, Types, MemberTypes, TickTypes, ThreadTypes
<1>5. QED
  BY <1>1, <1>2, <1>3, <1>4, QuietLink

-----------------------------------------------------------------------------
(* The connection workers, the timers and the device.                      *)

(* A result is the end of the attempt that ran.                            *)
LEMMA ResultPosted ==
    ASSUME IInv, NEW l \in Links, NEW t \in {"failed", "established"}, Running(l), Post(l, t),
           t = "established" => wk[l].stage = "handshake",
           UNCHANGED <<acc, kl, tk, gone, busy, main, mainQ, eng, calls, sent>>
    PROVE  IInv'
<1> DEFINE e == Ev(t, l)
<1>1. e \in Event /\ e.t = t /\ e.l = l /\ e \in Attempts /\ e \notin Blocking
      /\ e # Ev("resetImpl", NoLink)
  BY Events, Kinds DEF Owned
<1>2. /\ e # Ev("connect", NoLink) /\ e # Ev("disconnect", NoLink)
      /\ \A k : e # Ev("delete", k)
      /\ \A k : e = Ev("established", k) => k = l /\ t = "established"
      /\ \A k : e = Ev("failed", k) => k = l
  BY Events
<1> HIDE DEF e
<1>3. wk' = [wk EXCEPT ![l].stage = "done"] /\ linkQ' = Append(linkQ, e)
  BY DEF Post, e
<1>4. Queued \cap Attempts = {} /\ kl[l].obj = "alive" /\ \A k \in Links : Running(k) => k = l
  BY DEF IInv, Attempted
<1>5. /\ linkQ' \in Seq(Event) /\ Queued' = Queued \cup {e} /\ Queued \subseteq Event
      /\ \A T : One(linkQ, T) /\ (e \notin T \/ Queued \cap T = {}) => One(linkQ', T)
  BY <1>1, <1>3, PostEvent DEF IInv, Types, ThreadTypes
<1>6. /\ wk' \in Workers
      /\ \A k \in Links : wk'[k].sock = wk[k].sock
                          /\ (k # l => wk'[k] = wk[k]) /\ wk'[l].stage = "done"
  BY <1>3 DEF IInv, Types, LinkTypes, Workers, Stages
<1>7. (\A k \in Links : ~Running(k)') /\ UnderWay
  BY <1>4, <1>6 DEF Running, UnderWay
<1>8. Types' /\ Blocked' /\ Ending'
  BY <1>1, <1>5, <1>6
  DEF IInv, Types, MemberTypes, LinkTypes, TickTypes, ThreadTypes, Blocked, Ending, Alive
<1>9. Attempted'
  <2>1. \A k \in Links : Result(k)' => Result(k)
    BY <1>2, <1>5, <1>7 DEF Result
  <2>2. QED
    BY <1>1, <1>3, <1>4, <1>5, <1>7, <2>1 DEF IInv, Attempted
<1>10. Created'
  BY <1>1, <1>2, <1>4, <1>5 DEF IInv, Created, Used
<1>11. Counted'
  BY <1>7 DEF IInv, Counted
<1>12. ASSUME InUse'
       PROVE  Balanced' /\ Current' /\ Answering' /\ Ticking' /\ Reported'
  <2>1. InUse /\ Balanced /\ Current /\ Answering /\ Ticking /\ Reported /\ Result(l)
    BY <1>12 DEF IInv, Using, InUse, Result
  <2>2. Balanced' /\ Current'
    BY <1>2, <1>5, <1>6, <1>7, <2>1 DEF Balanced, Current, IInv, Types, MemberTypes
  <2>3. Answering'
    BY <1>2, <1>5, <1>6, <1>7, <2>1 DEF Answering, Result
  <2>4. Ticking' /\ Reported'
    BY <1>2, <1>5, <2>1 DEF Ticking, Reported, Lost, Closing
  <2>5. QED
    BY <2>2, <2>3, <2>4
<1>13. QED
  BY <1>8, <1>9, <1>10, <1>11, <1>12 DEF IInv, Using

(* The other steps of a worker, or its end, start no attempt.              *)
LEMMA WorkerMoved ==
    ASSUME IInv, NEW l \in Links, wk' \in Workers,
           \A k \in Links : k # l => wk'[k] = wk[k],
           Running(l)' => Running(l),
           wk'[l].sock \in {wk[l].sock, "open"},
           wk'[l].stage = "handshake" => wk'[l].sock = "open",
           UNCHANGED <<acc, kl, tk, gone, linkQ, busy, main, mainQ, eng, calls, sent>>
    PROVE  IInv'
<1>1. /\ \A k \in Links : Running(k)' => Running(k)
      /\ Queued' = Queued /\ Used' = Used
  BY DEF Running, Queued, Used
<1>2. Attempted' /\ (UnderWay' => UnderWay)
  BY <1>1, NoNewAttempt DEF IInv, Attempted
<1>3. Types' /\ Blocked' /\ Created' /\ Counted' /\ Ending'
  BY <1>1, <1>2
  DEF IInv, Types, MemberTypes, LinkTypes, TickTypes, ThreadTypes, Blocked, Created,
      Counted, Ending, Alive
<1>4. ASSUME InUse'
      PROVE  Balanced' /\ Current' /\ Answering' /\ Ticking' /\ Reported'
  <2>1. InUse /\ Balanced /\ Current /\ Answering /\ Ticking /\ Reported
    BY <1>4 DEF IInv, Using, InUse
  <2>2. \A k \in Links : wk[k].sock = "open" => wk'[k].sock = "open"
    OBVIOUS
  <2>3. Balanced' /\ Current'
    BY <1>1, <1>2, <2>1, <2>2 DEF Balanced, Current, IInv, Types, MemberTypes
  <2>4. Answering'
    BY <1>1, <2>1, <2>2 DEF Answering, Result
  <2>5. Ticking' /\ Reported'
    BY <1>1, <2>1 DEF Ticking, Reported, Lost, Closing
  <2>6. QED
    BY <2>3, <2>4, <2>5
<1>5. QED
  BY <1>2, <1>3, <1>4 DEF IInv, Using

LEMMA WorkerKeeps == \A l \in Links : IInv /\ WorkerStep(l) => IInv'
<1> SUFFICES ASSUME NEW l \in Links, IInv, WorkerStep(l) PROVE IInv'
  OBVIOUS
<1>1. UNCHANGED <<acc, kl, tk, gone, busy, main, mainQ, eng, calls, sent>> /\ Running(l)
  BY DEF WorkerStep, WorkerProbe, WorkerAccept, WorkerHandshake, Running
<1>2. CASE Post(l, "failed") \/ (wk[l].stage = "handshake" /\ Post(l, "established"))
  BY <1>1, <1>2, ResultPosted
<1>3. CASE linkQ' = linkQ /\ wk[l].stage = "probing"
           /\ wk' = [wk EXCEPT ![l].stage = "accepting"]
  <2>1. wk' \in Workers /\ (\A k \in Links : k # l => wk'[k] = wk[k])
        /\ wk'[l].sock = wk[l].sock /\ wk'[l].stage = "accepting"
    BY <1>3 DEF IInv, Types, LinkTypes, Workers, Stages
  <2>2. QED
    BY <1>1, <1>3, <2>1, WorkerMoved
<1>4. CASE linkQ' = linkQ /\ wk[l].stage = "accepting"
           /\ wk' = [wk EXCEPT ![l].stage = "handshake", ![l].sock = "open"]
  <2>1. wk' \in Workers /\ (\A k \in Links : k # l => wk'[k] = wk[k])
        /\ wk'[l].sock = "open"
    BY <1>4 DEF IInv, Types, LinkTypes, Workers, Stages
  <2>2. QED
    BY <1>1, <1>4, <2>1, WorkerMoved
<1>5. QED
  BY <1>2, <1>3, <1>4 DEF WorkerStep, WorkerProbe, WorkerAccept, WorkerHandshake

LEMMA TerminateKeeps == IInv /\ TerminateWorker => IInv'
<1> SUFFICES ASSUME IInv, TerminateWorker PROVE IInv'
  OBVIOUS
<1>1. busy.on \in Links
  BY DEF IInv, Types, ThreadTypes, TerminateWorker
<1>2. PICK l \in Links :
         /\ wk' = [wk EXCEPT ![l].stage = "killed"]
         /\ UNCHANGED <<acc, kl, tk, gone, linkQ, busy, main, mainQ, eng, calls, sent>>
  BY <1>1 DEF TerminateWorker
<1>3. wk' \in Workers /\ (\A k \in Links : k # l => wk'[k] = wk[k])
      /\ wk'[l].sock = wk[l].sock /\ wk'[l].stage = "killed"
  BY <1>1, <1>2 DEF IInv, Types, LinkTypes, Workers, Stages
<1>4. ~Running(l)'
  BY <1>3 DEF Running
<1>5. QED
  BY <1>1, <1>2, <1>3, <1>4, WorkerMoved

(* A tick pings the device; the third failure in a row is reported.        *)
LEMMA TickKeeps == \A l \in Links : IInv /\ SendTick(l) => IInv'
<1> SUFFICES ASSUME NEW l \in Links, IInv, SendTick(l) PROVE IInv'
  OBVIOUS
<1>1. /\ tk[l].state = "running" /\ busy = Idle
      /\ UNCHANGED <<acc, kl, wk, gone, linkQ, busy, main, eng, calls, sent>>
      /\ mainQ' = mainQ \/ (mainQ' = Append(mainQ, "lost") /\ ~LostPending)
  BY DEF SendTick
<1>2. TickTypes' /\ \A k \in Links : tk'[k].state = "running" => tk[k].state = "running"
  <2>1. tk[l].fails \in 0..2 /\ tk[l].fails + 1 \in 0..3
    BY <1>1 DEF IInv, Types, TickTypes, TickLimit
  <2>2. CASE tk' = [tk EXCEPT ![l].state = "stopped", ![l].fails = TickLimit]
    <3>1. TickLimit \in 0..TickLimit
      BY DEF TickLimit
    <3>2. tk' \in [Links -> [state : {"none", "running", "stopped"},
                           fails : 0..TickLimit, on : Links \cup {NoLink}]]
      BY <2>2, <3>1 DEF IInv, Types, TickTypes
    <3>3. \A k \in Links : tk'[k].state = "running" => k # l /\ tk'[k] = tk[k]
      BY <2>2 DEF IInv, Types, TickTypes
    <3>4. \A k \in Links : tk'[k].on = tk[k].on
      BY <2>2 DEF IInv, Types, TickTypes
    <3>5. QED
      BY <3>2, <3>3, <3>4 DEF IInv, Types, TickTypes
  <2>3. CASE tk' = [tk EXCEPT ![l].fails = @ + 1] /\ tk[l].fails + 1 # TickLimit
    BY <2>1, <2>3 DEF IInv, Types, TickTypes, TickLimit
  <2>4. CASE tk' = [tk EXCEPT ![l].fails = 0]
    BY <2>4 DEF IInv, Types, TickTypes, TickLimit
  <2>5. QED
    BY <2>2, <2>3, <2>4 DEF SendTick
<1>3. /\ linkQ' \in Seq(Event) /\ Queued' = Queued /\ One(linkQ', Blocking)
      /\ MemberTypes' /\ LinkTypes' /\ Attempted' /\ Created' /\ Counted'
      /\ UnderWay' = UnderWay /\ Used' = Used
      /\ \A k \in Links : Running(k)' = Running(k)
  <2>1. /\ linkQ' \in Seq(Event) /\ One(linkQ', Blocking)
        /\ MemberTypes' /\ LinkTypes'
    BY <1>1 DEF IInv, Types, ThreadTypes, MemberTypes, LinkTypes, Blocked
  <2>2. /\ Queued' = Queued /\ UnderWay' = UnderWay /\ Used' = Used
        /\ \A k \in Links : Running(k)' = Running(k)
    BY <1>1 DEF Queued, UnderWay, Used, Running
  <2>3. Attempted'
    BY <1>1, <2>2 DEF IInv, Attempted, Result
  <2>4. Created' /\ Counted'
    BY <1>1, <2>2 DEF IInv, Created, Counted
  <2>5. QED
    BY <2>1, <2>2, <2>3, <2>4
<1>4. /\ mainQ \in Seq(Signals) /\ mainQ' \in Seq(Signals)
      /\ One(mainQ, {"lost"}) => One(mainQ', {"lost"})
      /\ mainQ' # mainQ => ~Lost /\ ~Closing
  <2>1. mainQ \in Seq(Signals) /\ "lost" \in Signals
    BY DEF IInv, Types, ThreadTypes, Signals
  <2>2. ~LostPending => ~Lost /\ ~Closing
    <3>1. ~LostPending => \A e \in Queued : e.t # "disconnect"
      BY DEF LostPending, Queued, Elems
    <3>2. ~LostPending => ~Lost
      BY DEF LostPending, Lost, Elems
    <3>3. QED
      BY <1>1, <3>1, <3>2, Events DEF Closing, Idle
  <2>3. Append(mainQ, "lost") \in Seq(Signals) /\ \A T : One(mainQ, T)
           /\ ("lost" \notin T \/ Elems(mainQ) \cap T = {}) => One(Append(mainQ, "lost"), T)
    BY <2>1, Posting
  <2>4. QED
    BY <1>1, <2>1, <2>2, <2>3 DEF Lost
<1>5. Types' /\ Blocked' /\ Ending'
  BY <1>1, <1>2, <1>3, <1>4 DEF IInv, Types, ThreadTypes, Blocked, Ending, Alive
<1>6. ASSUME InUse'
      PROVE  Balanced' /\ Current' /\ Answering' /\ Ticking' /\ Reported'
  <2>1. InUse /\ Balanced /\ Current /\ Answering /\ Ticking /\ Reported
    BY <1>1, <1>6 DEF IInv, Using, InUse
  <2>2. Balanced' /\ Current' /\ Answering'
    BY <1>1, <1>3, <2>1 DEF Balanced, Current, Answering, Result
  <2>3. Ticking'
    BY <1>1, <1>2, <2>1 DEF Ticking
  <2>4. acc.connected /\ Closing' = Closing
    BY <1>1, <1>3, <2>1, Kinds DEF Ticking, Closing
  <2>5. Reported'
    BY <1>1, <1>4, <2>1, <2>4 DEF Reported, Lost
  <2>6. QED
    BY <2>2, <2>3, <2>5
<1>7. QED
  BY <1>3, <1>5, <1>6 DEF IInv, Using

LEMMA GoneKeeps == \A l \in Links : IInv /\ DeviceGone(l) => IInv'
<1> SUFFICES ASSUME NEW l \in Links, IInv, DeviceGone(l) PROVE IInv'
  OBVIOUS
<1>1. gone' \subseteq Links
      /\ UNCHANGED <<acc, kl, wk, tk, linkQ, busy, main, mainQ, eng, calls, sent>>
  BY DEF DeviceGone, IInv, Types, LinkTypes
<1>2. Types'
  BY <1>1 DEF IInv, Types, MemberTypes, LinkTypes, TickTypes, ThreadTypes
<1>3. /\ Queued' = Queued /\ UnderWay' = UnderWay /\ Used' = Used
      /\ \A k \in Links : Running(k)' = Running(k)
  BY <1>1 DEF Queued, UnderWay, Used, Running
<1>4. Blocked' /\ Attempted' /\ Created' /\ Counted' /\ Ending'
  BY <1>1, <1>3 DEF IInv, Blocked, Attempted, Created, Counted, Ending, Alive, Result
<1>5. Using'
  BY <1>1, <1>3 DEF IInv, Using, InUse, Balanced, Current, Answering, Result, Ticking,
     Reported, Lost, Closing
<1>6. QED
  BY <1>2, <1>4, <1>5 DEF IInv

-----------------------------------------------------------------------------
(* The waits for a worker: how they begin, ...                             *)

LEMMA AskedToStop ==
    ASSUME IInv, NEW l \in Links, RequestCancel(l)
    PROVE  /\ wk' \in Workers
           /\ \A k \in Links : wk'[k].stage = wk[k].stage /\ wk'[k].sock = wk[k].sock
           /\ \A k \in Links : Running(k)' = Running(k)
<1>1. wk' \in Workers
  BY DEF RequestCancel, IInv, Types, LinkTypes, Workers
<1>2. \A k \in Links : wk'[k].stage = wk[k].stage /\ wk'[k].sock = wk[k].sock
  BY DEF RequestCancel, IInv, Types, LinkTypes, Workers
<1>3. QED
  BY <1>1, <1>2 DEF Running

LEMMA DeleteBegins ==
    ASSUME IInv, NEW l \in Links, Delete(l), l \in Used, busy = Idle,
           InUse => l # acc.link,
           linkQ' = linkQ \/ (Looping /\ linkQ' = Tail(linkQ))
    PROVE  IInv'
<1>1. /\ UNCHANGED <<acc, kl, tk, gone, main, mainQ, eng, calls, sent>>
      /\ busy' = [op |-> "delete", on |-> l]
  BY DEF Delete
<1>2. /\ wk' \in Workers
      /\ \A k \in Links : wk'[k].stage = wk[k].stage /\ wk'[k].sock = wk[k].sock
      /\ \A k \in Links : Running(k)' = Running(k)
  BY AskedToStop DEF Delete
<1>3. /\ linkQ' \in Seq(Event) /\ Queued' \subseteq Queued
      /\ One(linkQ', Blocking) /\ One(linkQ', Attempts)
  BY Popped DEF IInv, Types, ThreadTypes, Blocked, Attempted, Queued, Rest
<1>4. Types'
  <2>1. busy' \in [op : {"cancel", "disconnect", "delete"}, on : Links]
    BY <1>1
  <2>2. QED
    BY <1>1, <1>2, <1>3, <2>1
    DEF IInv, Types, MemberTypes, LinkTypes, TickTypes, ThreadTypes
<1>5. Used' = Used /\ busy'.op = "delete" /\ busy'.on = l
  BY <1>1 DEF Used
<1>6. Attempted' /\ (UnderWay' => UnderWay)
  BY <1>1, <1>2, <1>3, NoNewAttempt
<1>7. Created'
  BY <1>1, <1>3, <1>5, NothingCreated
<1>8. Blocked' /\ Counted' /\ Ending'
  BY <1>1, <1>3, <1>5, <1>6 DEF IInv, Blocked, Counted, Ending, Alive
<1>9. ASSUME InUse'
      PROVE  Balanced' /\ Current' /\ Answering' /\ Ticking' /\ Reported'
  <2>1. InUse /\ Balanced /\ Current /\ Answering /\ Ticking /\ Reported /\ l # acc.link
    BY <1>1, <1>9 DEF IInv, Using, InUse
  <2>2. Balanced' /\ Current'
    BY <1>1, <1>2, <1>3, <1>5, <1>6, <2>1 DEF Balanced, Current, IInv, Types, MemberTypes
  <2>3. Answering'
    BY <1>1, <1>2, <1>3, <2>1 DEF Answering, Result
  <2>4. Ticking' /\ Reported'
    BY <1>1, <1>3, <1>5, <2>1 DEF Ticking, Reported, Lost, Closing, Idle
  <2>5. QED
    BY <2>2, <2>3, <2>4
<1>10. QED
  BY <1>4, <1>6, <1>7, <1>8, <1>9 DEF IInv, Using

LEMMA DeleteKeeps == IInv /\ (DeleteLink \/ DeleteChild) => IInv'
<1>1. ASSUME IInv, DeleteLink PROVE IInv'
  <2>1. Looping /\ linkQ' = Tail(linkQ) /\ Head(linkQ).t = "delete" /\ Delete(Owner)
    BY <1>1 DEF DeleteLink, Handling, Pop
  <2>2. Head(linkQ) \in Event /\ Head(linkQ) \in Queued /\ busy = Idle
    BY <1>1, <2>1, Popped
  <2>3. Owner \in Links /\ Owner \in Used /\ Ev("delete", Owner) \in Queued
    BY <1>1, <2>1, <2>2, Events DEF Owner, Plain, IInv, Created
  <2>4. InUse => Owner # acc.link
    BY <1>1, <2>3, Kinds DEF IInv, Using, Current
  <2>5. QED
    BY <1>1, <2>1, <2>2, <2>3, <2>4, DeleteBegins
<1>2. ASSUME IInv, DeleteChild PROVE IInv'
  <2>1. PICK l \in Alive : Delete(l)
    BY <1>2 DEF DeleteChild
  <2>2. l \in Links /\ l \in Used /\ ~InUse /\ busy = Idle /\ linkQ' = linkQ
    BY <1>2, <2>1 DEF DeleteChild, Alive, Used, InUse
  <2>3. QED
    BY <1>2, <2>1, <2>2, DeleteBegins
<1>3. QED
  BY <1>1, <1>2

(* ... and how they end.                                                   *)
LEMMA CancelEnds == IInv /\ CancelReturns => IInv'
<1> SUFFICES ASSUME IInv, CancelReturns PROVE IInv'
  OBVIOUS
<1>1. PICK l \in Links :
         /\ kl' = [kl EXCEPT ![l].worker = FALSE, ![l].err = FALSE]
         /\ ~kl[l].worker \/ ~Running(l)
  <2>1. busy \in [op : {"cancel", "disconnect", "delete"}, on : Links]
    BY DEF CancelReturns, IInv, Types, ThreadTypes, Idle
  <2>2. busy.on \in Links
    BY <2>1
  <2>3. QED
    BY <2>2 DEF CancelReturns, Finished
<1>2. /\ busy.op = "cancel" /\ busy' = Idle
      /\ UNCHANGED <<acc, wk, tk, gone, linkQ, main, mainQ, eng, calls, sent>>
  BY DEF CancelReturns
<1>3. kl' \in Objects
  BY <1>1 DEF IInv, Types, LinkTypes, Objects, Object
<1>4. \A k \in Links : /\ kl'[k].obj = kl[k].obj /\ kl'[k].sigs = kl[k].sigs
                       /\ k # l => kl'[k].worker = kl[k].worker
  BY <1>1 DEF IInv, Types, LinkTypes, Objects, Object
<1>5. /\ ~Running(l) /\ Queued' = Queued /\ Used' = Used /\ Alive' = Alive
      /\ \A k \in Links : Running(k)' = Running(k)
      /\ One(linkQ', Attempts)
  BY <1>1, <1>2, <1>4 DEF IInv, Attempted, Queued, Used, Running, Alive
<1>6. Attempted' /\ (UnderWay' => UnderWay)
  BY <1>2, <1>4, <1>5, NoNewAttempt
<1>7. Types'
  BY <1>2, <1>3 DEF IInv, Types, MemberTypes, LinkTypes, TickTypes, ThreadTypes
<1>8. Created'
  BY <1>2, <1>5, NothingCreated
<1>9. Blocked' /\ Counted' /\ Ending'
  BY <1>2, <1>5, <1>6 DEF IInv, Blocked, Counted, Ending, Idle
<1>10. ASSUME InUse'
       PROVE  Balanced' /\ Current' /\ Answering' /\ Ticking' /\ Reported'
  <2>1. InUse /\ Balanced /\ Current /\ Answering /\ Ticking /\ Reported
    BY <1>2, <1>10 DEF IInv, Using, InUse
  <2>2. Balanced' /\ Current'
    BY <1>2, <1>4, <1>5, <1>6, <2>1 DEF Balanced, Current, IInv, Types, MemberTypes, Idle
  <2>3. Answering'
    BY <1>2, <1>4, <1>5, <2>1 DEF Answering, Result
  <2>4. Ticking' /\ Reported'
    BY <1>2, <1>5, <2>1 DEF Ticking, Reported, Lost, Closing, Idle
  <2>5. QED
    BY <2>2, <2>3, <2>4
<1>11. QED
  BY <1>6, <1>7, <1>8, <1>9, <1>10 DEF IInv, Using

LEMMA DeleteEnds == IInv /\ DeleteReturns => IInv'
<1> SUFFICES ASSUME IInv, DeleteReturns PROVE IInv'
  OBVIOUS
<1>1. busy.on \in Links /\ busy.op = "delete" /\ busy.on \in Used
      /\ busy = [op |-> "delete", on |-> busy.on]
  <2>1. busy \in [op : {"cancel", "disconnect", "delete"}, on : Links] /\ busy.op = "delete"
    BY DEF DeleteReturns, IInv, Types, ThreadTypes, Idle
  <2>2. QED
    BY <2>1 DEF IInv, Created, Idle
<1>2. PICK l \in Links :
         /\ l \in Used /\ busy = [op |-> "delete", on |-> l]
         /\ kl' = [kl EXCEPT ![l] = [@ EXCEPT !.obj = "dead", !.worker = FALSE,
                                              !.fd = FALSE, !.conn = FALSE]]
         /\ wk' = IF kl[l].fd THEN [wk EXCEPT ![l].sock = "closed"] ELSE wk
         /\ ~kl[l].worker \/ ~Running(l)
  BY <1>1 DEF DeleteReturns, Finished
<1>3. /\ busy' = Idle
      /\ UNCHANGED <<acc, tk, gone, linkQ, main, mainQ, eng, calls, sent>>
  BY DEF DeleteReturns
<1>4. /\ kl' \in Objects /\ kl'[l].obj = "dead"
      /\ \A k \in Links : k # l => kl'[k] = kl[k]
  BY <1>2 DEF IInv, Types, LinkTypes, Objects, Object
<1>5. /\ wk' \in Workers /\ (\A k \in Links : k # l => wk'[k] = wk[k])
      /\ wk'[l].stage = wk[l].stage
  BY <1>2 DEF IInv, Types, LinkTypes, Workers
<1>6. /\ ~Running(l) /\ Queued' = Queued /\ One(linkQ', Attempts)
      /\ \A k \in Links : Running(k)' = Running(k)
  BY <1>2, <1>3, <1>5 DEF IInv, Attempted, Queued, Running
<1>7. Used' = Used /\ Alive' \subseteq Alive
  BY <1>2, <1>4 DEF Used, Alive
<1>8. Attempted' /\ (UnderWay' => UnderWay)
  BY <1>3, <1>4, <1>6, NoNewAttempt
<1>9. Types'
  BY <1>3, <1>4, <1>5 DEF IInv, Types, MemberTypes, LinkTypes, TickTypes, ThreadTypes
<1>10. Created'
  BY <1>3, <1>6, <1>7, NothingCreated
<1>11. Blocked' /\ Counted' /\ Ending'
  BY <1>2, <1>3, <1>6, <1>7, <1>8 DEF IInv, Blocked, Counted, Ending, Idle
<1>12. ASSUME InUse'
       PROVE  Balanced' /\ Current' /\ Answering' /\ Ticking' /\ Reported'
  <2>1. InUse /\ Balanced /\ Current /\ Answering /\ Ticking /\ Reported
    BY <1>3, <1>12 DEF IInv, Using, InUse
  <2>2. l # acc.link
    BY <1>2, <2>1, Kinds DEF Current
  <2>3. acc.link # NoLink => kl'[acc.link] = kl[acc.link] /\ wk'[acc.link] = wk[acc.link]
    BY <1>4, <1>5, <2>2 DEF IInv, Types, MemberTypes
  <2>4. Balanced' /\ Current'
    BY <1>3, <1>6, <1>8, <2>1, <2>3 DEF Balanced, Current, Idle
  <2>5. \A k \in Links : Result(k)' => Result(k) /\ k # l
    BY <1>6, <2>1, <2>2 DEF Answering, Result
  <2>6. Answering'
    BY <1>3, <1>4, <1>5, <1>6, <2>1, <2>2, <2>5 DEF Answering, Result, Running
  <2>7. Ticking' /\ Reported'
    BY <1>2, <1>3, <1>6, <2>1 DEF Ticking, Reported, Lost, Closing, Idle
  <2>8. QED
    BY <2>4, <2>6, <2>7
<1>13. QED
  BY <1>8, <1>9, <1>10, <1>11, <1>12 DEF IInv, Using

-----------------------------------------------------------------------------
(* A disconnect: it stops the tickle and waits for the worker, ...         *)

(* The queue once the tickle's deferred delete was posted behind it.       *)
LEMMA DisconnectTaken ==
    ASSUME IInv, DoDisconnect
    PROVE  /\ Looping /\ busy = Idle /\ main \in Waiting
           /\ Head(linkQ) = Ev("disconnect", NoLink) /\ Head(linkQ) \in Queued
           /\ linkQ' \in Seq(Event) /\ Queued' \cap Blocking = {}
           /\ One(linkQ', Blocking) /\ One(linkQ', Attempts)
           /\ \A e \in Queued' : e \in Queued \/ e.t = "tickDelete"
           /\ TickTypes' /\ \A l \in Links : tk'[l].state = "running"
                               => tk[l].state = "running" /\ l # acc.tickle
<1>1. /\ Looping /\ Head(linkQ).t = "disconnect"
      /\ acc.tickle \in Links \cup {NoLink}
  BY DEF DoDisconnect, Handling, IInv, Types, MemberTypes
<1>2. /\ busy = Idle /\ Tail(linkQ) \in Seq(Event) /\ Head(linkQ) \in Event
      /\ Queued = {Head(linkQ)} \cup Rest /\ Rest \subseteq Event
      /\ One(Tail(linkQ), Blocking) /\ One(Tail(linkQ), Attempts)
      /\ Head(linkQ) \in Blocking /\ Rest \cap Blocking = {}
  BY <1>1, Popped, Kinds
<1>3. Head(linkQ) = Ev("disconnect", NoLink) /\ main \in Waiting
  BY <1>1, <1>2, Events DEF Owned, IInv, Blocked
<1>4. CASE acc.tickle = NoLink
  <2>1. linkQ' = Tail(linkQ) /\ tk' = tk /\ Queued' = Rest
    BY <1>4 DEF DoDisconnect, Queued, Rest
  <2>2. TickTypes' /\ \A l \in Links : tk'[l].state = "running"
                          => tk[l].state = "running" /\ l # acc.tickle
    BY <1>4, <2>1, Kinds DEF IInv, Types, TickTypes
  <2>3. QED
    BY <1>1, <1>2, <1>3, <2>1, <2>2
<1>5. CASE acc.tickle \in Links
  <2>1. PICK k \in Links : k = acc.tickle
    BY <1>5
  <2>2. /\ linkQ' = Append(Tail(linkQ), Ev("tickDelete", k))
        /\ tk' = [tk EXCEPT ![k].state = "stopped"]
    BY <2>1, Kinds DEF DoDisconnect
  <2>3. /\ Ev("tickDelete", k) \in Event /\ Ev("tickDelete", k).t = "tickDelete"
        /\ Ev("tickDelete", k) \notin Blocking \cup Attempts
    BY Events, Kinds DEF Owned
  <2>4. /\ linkQ' \in Seq(Event) /\ Queued' = Rest \cup {Ev("tickDelete", k)}
        /\ \A T : One(Tail(linkQ), T) /\ Ev("tickDelete", k) \notin T => One(linkQ', T)
    <3> DEFINE q == Tail(linkQ)
               e == Ev("tickDelete", k)
    <3>1. q \in Seq(Event) /\ e \in Event /\ linkQ' = Append(q, e)
      BY <1>2, <2>2, <2>3
    <3> HIDE DEF q, e
    <3>2. /\ Append(q, e) \in Seq(Event) /\ Elems(Append(q, e)) = Elems(q) \cup {e}
          /\ \A T : One(q, T) /\ e \notin T => One(Append(q, e), T)
      BY <3>1, Posting
    <3>3. QED
      BY <3>1, <3>2 DEF Queued, Rest, q, e
  <2>5. One(linkQ', Blocking) /\ One(linkQ', Attempts) /\ Queued' \cap Blocking = {}
        /\ \A e \in Queued' : e \in Queued \/ e.t = "tickDelete"
    BY <1>2, <2>3, <2>4
  <2>6. TickTypes'
    BY <2>2 DEF IInv, Types, TickTypes
  <2>7. \A l \in Links : tk'[l].state = "running" => tk[l].state = "running" /\ l # k
    BY <2>2 DEF IInv, Types, TickTypes
  <2>8. QED
    BY <1>1, <1>2, <1>3, <2>1, <2>4, <2>5, <2>6, <2>7
<1>6. QED
  BY <1>1, <1>4, <1>5

LEMMA DisconnectKeeps == IInv /\ DoDisconnect => IInv'
<1> SUFFICES ASSUME IInv, DoDisconnect PROVE IInv'
  OBVIOUS
<1>1. UNCHANGED <<kl, gone, eng, calls>>
  BY DEF DoDisconnect
<1>2. /\ busy = Idle /\ main \in Waiting
      /\ Ev("disconnect", NoLink) \in Queued
      /\ linkQ' \in Seq(Event) /\ Queued' \cap Blocking = {}
      /\ One(linkQ', Blocking) /\ One(linkQ', Attempts)
      /\ \A e \in Queued' : e \in Queued \/ e.t = "tickDelete"
      /\ TickTypes' /\ \A l \in Links : tk'[l].state = "running"
                          => tk[l].state = "running" /\ l # acc.tickle
  BY DisconnectTaken
<1>3. /\ Ev("resetImpl", NoLink) \notin Queued'
      /\ Used' = Used /\ Alive' = Alive /\ Queued' \cap Attempts \subseteq Queued
  BY <1>1, <1>2, Events, Kinds DEF Used, Alive, Plain
<1>4. CASE acc.link = NoLink
  <2>1. /\ Disconnected([acc EXCEPT !.tickle = NoLink, !.impl = NoImpl])
        /\ wk' = wk /\ busy' = busy
    BY <1>4 DEF DoDisconnect
  <2>2. /\ MemberTypes' /\ ~acc'.connected /\ acc'.link = acc.link
        /\ main' = Returned(main) /\ mainQ' \in Seq(Signals)
        /\ sent' \in [started : 0..MaxConnects, ok : Nat, fail : Nat, down : Nat]
        /\ sent'.started = sent.started /\ sent'.ok = sent.ok /\ sent'.fail = sent.fail
        /\ sent'.down = IF acc.connected THEN sent.down + 1 ELSE sent.down
    <3>1. /\ MemberTypes' /\ ~acc'.connected /\ acc'.link = acc.link
          /\ main' = Returned(main)
      BY <2>1 DEF Disconnected, IInv, Types, MemberTypes
    <3>2. mainQ' \in Seq(Signals)
      <4>1. mainQ \in Seq(Signals) /\ "down" \in Signals
        BY DEF IInv, Types, ThreadTypes, Signals
      <4>2. Append(mainQ, "down") \in Seq(Signals)
        BY <4>1
      <4>3. QED
        BY <2>1, <4>1, <4>2 DEF Disconnected
    <3>3. /\ sent' \in [started : 0..MaxConnects, ok : Nat, fail : Nat, down : Nat]
          /\ sent'.started = sent.started /\ sent'.ok = sent.ok /\ sent'.fail = sent.fail
          /\ sent'.down = IF acc.connected THEN sent.down + 1 ELSE sent.down
      BY <2>1 DEF Disconnected, IInv, Types, ThreadTypes, MemberTypes
    <3>4. QED
      BY <3>1, <3>2, <3>3
  <2>3. main' \in Mains \ (Waiting \cup {"finishing", "gone"}) /\ ~InUse'
    <3>1. ~InUse
      BY <1>2, <1>4 DEF IInv, Using, Reported, Closing, Current
    <3>2. QED
      BY <1>2, <2>2, <3>1, MainReturns DEF InUse, Waiting
  <2>4. Types'
    BY <1>1, <1>2, <2>1, <2>2, <2>3 DEF IInv, Types, LinkTypes, ThreadTypes
  <2>5. Attempted' /\ (UnderWay' => UnderWay)
    BY <1>1, <1>2, <1>3, <2>1, <2>2, NoNewAttempt DEF Running
  <2>6. Created'
    BY <1>2, <1>3, <2>1, <2>2, NothingCreated
  <2>7. Counted'
    BY <2>2, <2>5 DEF IInv, Counted, Types, ThreadTypes
  <2>8. Blocked' /\ Using' /\ Ending'
    BY <1>2, <1>3, <2>1, <2>3 DEF Blocked, Using, Ending, Idle
  <2>9. QED
    BY <2>4, <2>5, <2>6, <2>7, <2>8 DEF IInv
<1>5. CASE acc.link # NoLink
  <2>1. PICK l \in Links : l = acc.link
    BY <1>5 DEF IInv, Types, MemberTypes
  <2>2. /\ acc' = [acc EXCEPT !.tickle = NoLink, !.impl = NoImpl]
        /\ RequestCancel(l) /\ busy' = [op |-> "disconnect", on |-> l]
        /\ UNCHANGED <<main, mainQ, sent>>
    BY <1>5, <2>1 DEF DoDisconnect
  <2>3. /\ MemberTypes' /\ acc'.connected = acc.connected /\ acc'.link = acc.link
        /\ acc'.connecting = acc.connecting /\ acc'.tickle = NoLink
    BY <2>2 DEF IInv, Types, MemberTypes
  <2>4. /\ wk' \in Workers
        /\ \A k \in Links : wk'[k].stage = wk[k].stage /\ wk'[k].sock = wk[k].sock
        /\ \A k \in Links : Running(k)' = Running(k)
    BY <2>2, AskedToStop
  <2>5. Types'
    <3>1. busy' \in [op : {"cancel", "disconnect", "delete"}, on : Links]
      BY <2>2
    <3>2. QED
      BY <1>1, <1>2, <2>2, <2>3, <2>4, <3>1 DEF IInv, Types, LinkTypes, ThreadTypes
  <2>6. Attempted' /\ (UnderWay' => UnderWay)
    BY <1>1, <1>2, <1>3, <2>3, <2>4, NoNewAttempt
  <2>7. busy'.on \in Used /\ busy'.op = "disconnect" /\ busy'.on = acc.link
    BY <1>5, <2>1, <2>2 DEF IInv, Created
  <2>8. Created'
    BY <1>2, <1>3, <2>2, <2>3, <2>7, NothingCreated
  <2>9. Blocked' /\ Counted' /\ Ending'
    BY <1>2, <1>3, <2>2, <2>3, <2>6, <2>7 DEF IInv, Blocked, Counted, Ending, Waiting
  <2>10. ASSUME InUse'
         PROVE  Balanced' /\ Current' /\ Answering' /\ Ticking' /\ Reported'
    <3>1. InUse /\ Balanced /\ Current /\ Answering /\ Ticking /\ Reported
      BY <2>2, <2>10 DEF IInv, Using, InUse
    <3>2. \A t, k : t # "tickDelete" /\ Ev(t, k) \in Queued' => Ev(t, k) \in Queued
      BY <1>2, Events
    <3>3. Balanced'
      BY <2>2, <2>3, <2>6, <3>1 DEF Balanced
    <3>4. Current'
      BY <1>1, <2>1, <2>2, <2>3, <2>4, <3>1, <3>2 DEF Current
    <3>5. Answering'
      <4>1. \A k \in Links : Result(k)' => Result(k)
        BY <2>4, <3>2 DEF Result
      <4>2. QED
        BY <1>1, <2>3, <2>4, <3>1, <3>2, <4>1 DEF Answering
    <3>6. Ticking'
      BY <1>2, <2>3, <2>7, <3>1 DEF Ticking
    <3>7. Reported'
      BY <1>2, <2>2, <2>3, <3>1 DEF Reported, Lost, Closing
    <3>8. QED
      BY <3>3, <3>4, <3>5, <3>6, <3>7
  <2>11. QED
    BY <2>5, <2>6, <2>8, <2>9, <2>10 DEF IInv, Using
<1>6. QED
  BY <1>4, <1>5

(* ... closes the link and lets main go on.                                *)
LEMMA DisconnectEnds == IInv /\ DisconnectReturns => IInv'
<1> SUFFICES ASSUME IInv, DisconnectReturns PROVE IInv'
  OBVIOUS
<1>1. /\ busy.op = "disconnect" /\ main \in Waiting /\ Queued \cap Blocking = {}
      /\ busy.on \in Links /\ busy.on \in Used
  <2>1. busy \in [op : {"cancel", "disconnect", "delete"}, on : Links]
        /\ busy.op = "disconnect"
    BY DEF DisconnectReturns, IInv, Types, ThreadTypes, Idle
  <2>2. QED
    BY <2>1 DEF IInv, Blocked, Created, Idle
<1>2. PICK l \in Links :
         /\ l = busy.on /\ l \in Used /\ CloseLink(l)
         /\ linkQ' = Append(linkQ, Ev("delete", l))
         /\ ~kl[l].worker \/ ~Running(l)
  BY <1>1 DEF DisconnectReturns, Finished
<1>3. /\ Disconnected([acc EXCEPT !.link = NoLink, !.owns = FALSE])
      /\ busy' = Idle /\ UNCHANGED <<tk, gone, eng, calls>>
  BY DEF DisconnectReturns
<1>4. /\ kl' \in Objects
      /\ \A k \in Links : kl'[k].obj = kl[k].obj /\ (k # l => kl'[k] = kl[k])
  <2>1. kl' \in Objects
    <3> DEFINE r == [kl[l] EXCEPT !.worker = FALSE, !.fd = FALSE, !.conn = FALSE,
                           !.err = FALSE]
    <3>1. kl \in Objects /\ kl[l] \in Object
      BY DEF IInv, Types, LinkTypes, Objects
    <3>2. r \in Object
      BY <3>1 DEF Object
    <3>3. kl' = [kl EXCEPT ![l] = r]
      BY <1>2, <3>1 DEF CloseLink, Objects, Object
    <3> HIDE DEF r
    <3>4. QED
      BY <3>1, <3>2, <3>3 DEF Objects
  <2>2. \A k \in Links : kl'[k].obj = kl[k].obj /\ (k # l => kl'[k] = kl[k])
    BY <1>2 DEF CloseLink, IInv, Types, LinkTypes, Objects, Object
  <2>3. QED
    BY <2>1, <2>2
<1>5. /\ wk' \in Workers /\ \A k \in Links : wk'[k].stage = wk[k].stage
  <2>1. wk \in Workers
    BY DEF IInv, Types, LinkTypes
  <2>2. wk' = wk \/ wk' = [wk EXCEPT ![l].sock = "closed"]
    BY <1>2 DEF CloseLink
  <2>3. CASE wk' = [wk EXCEPT ![l].sock = "closed"]
    BY <1>2, <2>1, <2>3 DEF Workers
  <2>4. QED
    BY <2>1, <2>2, <2>3
<1>6. /\ MemberTypes' /\ ~acc'.connected /\ ~acc'.connecting /\ acc'.link = NoLink
      /\ acc'.tickle = acc.tickle /\ main' = Returned(main)
  BY <1>3 DEF Disconnected, IInv, Types, MemberTypes
<1>7. /\ mainQ' \in Seq(Signals)
      /\ One(mainQ, {"lost"}) => One(mainQ', {"lost"})
      /\ Lost' => Lost
  <2>1. mainQ \in Seq(Signals) /\ "down" \in Signals
    BY DEF IInv, Types, ThreadTypes, Signals
  <2>2. /\ Append(mainQ, "down") \in Seq(Signals)
        /\ Elems(Append(mainQ, "down")) = Elems(mainQ) \cup {"down"}
        /\ \A T : One(mainQ, T) /\ "down" \notin T => One(Append(mainQ, "down"), T)
    BY <2>1, Posting
  <2>3. QED
    BY <1>3, <2>1, <2>2 DEF Disconnected, Lost
<1>8. /\ sent' \in [started : 0..MaxConnects, ok : Nat, fail : Nat, down : Nat]
      /\ sent'.started = sent.started /\ sent'.ok = sent.ok /\ sent'.fail = sent.fail
      /\ sent'.down = IF acc.connected THEN sent.down + 1 ELSE sent.down
  BY <1>3 DEF Disconnected, IInv, Types, ThreadTypes, MemberTypes
<1>9. /\ linkQ' \in Seq(Event) /\ Queued' = Queued \cup {Ev("delete", l)}
      /\ One(linkQ', Blocking) /\ One(linkQ', Attempts)
      /\ Queued' \cap Blocking = {} /\ Queued' \cap Attempts = Queued \cap Attempts
  <2>1. /\ Ev("delete", l) \in Event /\ Ev("delete", l) \notin Blocking \cup Attempts
    BY Events, Kinds DEF Owned
  <2>2. QED
    BY <1>1, <1>2, <2>1, PostEvent DEF IInv, Types, ThreadTypes, Blocked, Attempted
<1>10. /\ Used' = Used /\ Alive' = Alive
       /\ \A k \in Links : Running(k)' => Running(k) /\ k # l
  BY <1>2, <1>4, <1>5 DEF IInv, Attempted, Used, Alive, Running
<1>11. main' \in Mains \ (Waiting \cup {"finishing", "gone"}) /\ (InUse' => InUse)
  BY <1>1, <1>6, MainReturns DEF InUse
<1>12. Types'
  BY <1>3, <1>4, <1>5, <1>6, <1>7, <1>8, <1>9, <1>11
  DEF IInv, Types, LinkTypes, TickTypes, ThreadTypes
<1>13. Attempted' /\ (UnderWay' => UnderWay)
  BY <1>4, <1>6, <1>9, <1>10, NoNewAttempt
<1>14. Created'
  BY <1>2, <1>3, <1>6, <1>8, <1>9, <1>10, NothingCreated, Events
<1>15. Counted'
  BY <1>6, <1>8, <1>13 DEF IInv, Counted, Types, ThreadTypes
<1>16. Blocked' /\ Ending'
  <2>1. Ev("resetImpl", NoLink) \in Blocking
    BY Events, Kinds DEF Plain
  <2>2. QED
    BY <1>3, <1>9, <1>11, <2>1 DEF Blocked, Ending, Idle
<1>17. ASSUME InUse'
       PROVE  Balanced' /\ Current' /\ Answering' /\ Ticking' /\ Reported'
  <2>1. InUse /\ Balanced /\ Current /\ Answering /\ Ticking /\ Reported
    BY <1>11, <1>17 DEF IInv, Using
  <2>2. acc.connected /\ ~UnderWay /\ ~Lost /\ acc.tickle = NoLink
    BY <1>1, <2>1 DEF Reported, Closing, Balanced, Ticking
  <2>3. Balanced' /\ Current'
    BY <1>6, <1>8, <1>13, <2>1, <2>2 DEF Balanced, Current, IInv, Types, ThreadTypes
  <2>4. \A k \in Links : ~Running(k)' /\ Ev("established", k) \notin Queued'
                                      /\ Ev("failed", k) \notin Queued'
    <3>1. ASSUME NEW k \in Links, NEW t \in {"established", "failed"}
          PROVE  Ev(t, k) \in Attempts
      BY Events, Kinds DEF Owned
    <3>2. QED
      BY <1>9, <1>10, <2>2, <3>1 DEF UnderWay
  <2>5. Answering'
    BY <2>4 DEF Answering, Result, Running
  <2>6. Ticking'
    BY <1>3, <1>6, <2>1, <2>2 DEF Ticking, Idle
  <2>7. Ev("disconnect", NoLink) \notin Queued'
    BY <1>9, Events, Kinds DEF Plain
  <2>8. Reported'
    BY <1>3, <1>7, <2>1, <2>2, <2>7 DEF Reported, Closing, Idle
  <2>9. QED
    BY <2>3, <2>5, <2>6, <2>8
<1>18. QED
  BY <1>12, <1>13, <1>14, <1>15, <1>16, <1>17 DEF IInv, Using

LEMMA ThreadEnds == IInv /\ LinkThreadFinishes => IInv'
<1> SUFFICES ASSUME IInv, LinkThreadFinishes PROVE IInv'
  OBVIOUS
<1>1. /\ main' = "finishing" /\ linkQ' = <<>> /\ busy = Idle
      /\ UNCHANGED <<acc, kl, wk, gone, busy, mainQ, eng, calls, sent>>
      /\ tk' = [l \in Links |-> [tk[l] EXCEPT !.state = "none"]]
  BY DEF LinkThreadFinishes
<1>2. linkQ' \in Seq(Event) /\ Queued' = {} /\ One(linkQ', Blocking) /\ One(linkQ', Attempts)
  BY <1>1, Emptied DEF Queued
<1>3. TickTypes' /\ \A l \in Links : tk'[l].state = "none"
  <2>1. ASSUME NEW l \in Links
        PROVE  /\ tk'[l] = [tk[l] EXCEPT !.state = "none"] /\ tk'[l].state = "none"
               /\ tk'[l] \in [state : {"none", "running", "stopped"},
                              fails : 0..TickLimit, on : Links \cup {NoLink}]
    BY <1>1 DEF IInv, Types, TickTypes
  <2>2. DOMAIN tk' = Links /\ tk' = [l \in Links |-> tk'[l]]
    BY <1>1
  <2>3. \A l \in Links : tk'[l].on \in {l, NoLink}
    BY <1>1 DEF IInv, Types, TickTypes
  <2>4. QED
    BY <2>1, <2>2, <2>3 DEF TickTypes
<1>4. Types'
  BY <1>1, <1>2, <1>3 DEF IInv, Types, MemberTypes, LinkTypes, ThreadTypes, Mains
<1>5. Attempted' /\ (UnderWay' => UnderWay)
  BY <1>1, <1>2, NoNewAttempt DEF Running
<1>6. Created'
  BY <1>1, <1>2, NothingCreated DEF Used
<1>7. Blocked' /\ Counted' /\ Using' /\ Ending'
  BY <1>1, <1>2, <1>3, <1>5 DEF IInv, Blocked, Counted, Using, InUse, Ending, Idle, Waiting
<1>8. QED
  BY <1>4, <1>5, <1>6, <1>7 DEF IInv

-----------------------------------------------------------------------------
(* An attempt begins: a new link, with the next number.                    *)
LEMMA NextLink ==
    ASSUME IInv, DoConnect
    PROVE  \E l \in Links :
              /\ l \notin Used /\ \E n \in 0..sent.started : Used = 1..n /\ l = n + 1
              /\ l <= sent.started
              /\ kl' = [kl EXCEPT ![l] = [obj |-> "alive", conn |-> FALSE, fd |-> FALSE,
                                          worker |-> TRUE, err |-> FALSE, sigs |-> TRUE]]
              /\ wk' = [wk EXCEPT ![l].stage = "probing"]
              /\ acc' = [acc EXCEPT !.link = l, !.owns = TRUE]
<1>1. Ev("connect", NoLink) \in Queued
  <2>1. Looping /\ Head(linkQ).t = "connect"
    BY DEF DoConnect, Handling
  <2>2. QED
    BY <2>1, Popped, Events DEF Owned
<1>2. PICK n \in 0..sent.started : Used = 1..n /\ n < sent.started
  BY <1>1 DEF IInv, Created
<1>3. n \in Nat /\ n + 1 \in Links /\ n + 1 \notin Used /\ n + 1 <= sent.started
  BY <1>2, ConstantsAssumption DEF IInv, Types, ThreadTypes, Links
<1>4. Cardinality(Used) = n
  <2>1. Cardinality(1..n) = IF 1 > n THEN 0 ELSE n - 1 + 1
    BY <1>3, FS_Interval
  <2>2. QED
    BY <1>2, <1>3, <2>1
<1>5. 1 + Cardinality({k \in Links : kl[k].obj # "none"}) = n + 1
  BY <1>3, <1>4 DEF Used
<1>6. QED
  BY <1>2, <1>3, <1>5 DEF DoConnect

LEMMA DoConnectKeeps == IInv /\ DoConnect => IInv'
<1> SUFFICES ASSUME IInv, DoConnect PROVE IInv'
  OBVIOUS
<1>1. /\ Looping /\ Head(linkQ).t = "connect" /\ linkQ' = Tail(linkQ)
      /\ UNCHANGED <<tk, gone, busy, main, mainQ, eng, calls, sent>>
  BY DEF DoConnect, Handling, Pop
<1>2. /\ busy = Idle /\ main \notin {"finishing", "gone"}
      /\ linkQ' \in Seq(Event) /\ Queued' = Rest /\ Queued = {Head(linkQ)} \cup Rest
      /\ One(linkQ', Blocking) /\ One(linkQ', Attempts)
      /\ Head(linkQ) = Ev("connect", NoLink) /\ Head(linkQ) \in Attempts
      /\ Queued' \cap Attempts = {}
  BY <1>1, Popped, Kinds, Events DEF Queued, Rest, Owned
<1>3. UnderWay /\ \A k \in Links : ~Running(k)
  BY <1>2 DEF UnderWay, IInv, Attempted
<1>4. PICK l \in Links :
         /\ l \notin Used /\ \E n \in 0..sent.started : Used = 1..n /\ l = n + 1
         /\ l <= sent.started
         /\ kl' = [kl EXCEPT ![l] = [obj |-> "alive", conn |-> FALSE, fd |-> FALSE,
                                     worker |-> TRUE, err |-> FALSE, sigs |-> TRUE]]
         /\ wk' = [wk EXCEPT ![l].stage = "probing"]
         /\ acc' = [acc EXCEPT !.link = l, !.owns = TRUE]
  BY NextLink
<1>5. /\ kl' \in Objects /\ kl'[l].obj = "alive" /\ kl'[l].worker /\ kl'[l].sigs
      /\ \A k \in Links : k # l => kl'[k] = kl[k]
  BY <1>4 DEF IInv, Types, LinkTypes, Objects, Object
<1>6. /\ wk' \in Workers /\ wk'[l].stage = "probing"
      /\ \A k \in Links : wk'[k].sock = wk[k].sock /\ (k # l => wk'[k] = wk[k])
  BY <1>4 DEF IInv, Types, LinkTypes, Workers, Stages
<1>7. /\ MemberTypes' /\ acc'.link = l /\ acc'.connecting = acc.connecting
      /\ acc'.connected = acc.connected /\ acc'.tickle = acc.tickle /\ acc'.impl = acc.impl
  BY <1>4 DEF IInv, Types, MemberTypes
<1>8. /\ \A k \in Links : Running(k)' => k = l
      /\ Used' = Used \cup {l}
  BY <1>3, <1>5, <1>6 DEF Running, Used
<1>9. Types'
  BY <1>1, <1>2, <1>5, <1>6, <1>7 DEF IInv, Types, LinkTypes, TickTypes, ThreadTypes
<1>10. Blocked'
  BY <1>1, <1>2 DEF IInv, Blocked
<1>11. Attempted'
  BY <1>2, <1>5, <1>7, <1>8, Events, Kinds DEF Attempted, Result, Owned
<1>12. Created'
  <2>1. PICK n \in 0..sent.started : Used = 1..n /\ l = n + 1
    BY <1>4
  <2>2. n + 1 \in 0..sent'.started /\ Used' = 1..(n + 1)
    BY <1>1, <1>4, <1>8, <2>1 DEF IInv, Types, ThreadTypes
  <2>3. Ev("connect", NoLink) \notin Queued'
    BY <1>2
  <2>4. QED
    BY <1>1, <1>2, <1>7, <1>8, <2>2, <2>3 DEF IInv, Created
<1>13. Counted'
  BY <1>1, <1>3, <1>7 DEF IInv, Counted
<1>14. Ending'
  BY <1>1, <1>2 DEF Ending
<1>15. ASSUME InUse'
       PROVE  Balanced' /\ Current' /\ Answering' /\ Ticking' /\ Reported'
  <2>1. InUse /\ Balanced /\ Current /\ Answering /\ Ticking /\ Reported
    BY <1>1, <1>15 DEF IInv, Using, InUse
  <2>2. acc.connecting /\ ~acc.connected /\ acc.tickle = NoLink
    BY <1>3, <2>1 DEF Balanced, Ticking
  <2>3. Balanced'
    BY <1>1, <1>7, <2>1, <2>2 DEF Balanced
  <2>4. Current'
    <3>1. Ev("delete", l) \notin Queued
      BY <1>4, Events DEF IInv, Created
    <3>2. QED
      BY <1>1, <1>2, <1>5, <1>7, <2>2, <3>1 DEF Current, Idle
  <2>5. Answering'
    <3>1. \A k \in Links : Ev("established", k) \notin Queued' /\ Ev("failed", k) \notin Queued'
      <4>1. \A k \in Links : Ev("established", k) \in Attempts /\ Ev("failed", k) \in Attempts
        BY Events, Kinds DEF Owned
      <4>2. QED
        BY <1>2, <4>1
    <3>2. \A k \in Links : wk'[k].stage # "handshake"
      BY <1>3, <1>6 DEF Running
    <3>3. QED
      BY <1>5, <1>7, <1>8, <3>1, <3>2 DEF Answering, Result
  <2>6. Ticking' /\ Reported'
    BY <1>1, <1>2, <1>7, <2>1, <2>2, Kinds DEF Ticking, Reported, Lost, Closing, Idle
  <2>7. QED
    BY <2>3, <2>4, <2>5, <2>6
<1>16. QED
  BY <1>9, <1>10, <1>11, <1>12, <1>13, <1>14, <1>15 DEF IInv, Using

(* What the end of an attempt finds: no other one is under way.            *)
LEMMA ResultTaken ==
    ASSUME IInv, NEW t \in {"established", "failed"}, Handling(t)
    PROVE  /\ Looping /\ busy = Idle /\ main \notin {"finishing", "gone"} /\ Owner \in Links
           /\ Head(linkQ) = Ev(t, Owner) /\ Head(linkQ) \in Queued
           /\ UnderWay
           /\ Rest \cap Attempts = {} /\ \A k \in Links : ~Running(k)
           /\ Rest \subseteq Queued
           /\ InUse => /\ acc.connecting /\ ~acc.connected /\ acc.tickle = NoLink
                       /\ Owner = acc.link /\ kl[Owner].sigs /\ ~Lost /\ ~Closing
                       /\ Balanced /\ Current /\ Answering /\ Ticking /\ Reported
<1>1. Looping /\ Head(linkQ).t = t
  BY DEF Handling
<1>2. /\ busy = Idle /\ Head(linkQ) \in Event /\ Queued = {Head(linkQ)} \cup Rest
      /\ Head(linkQ) \in Attempts /\ Rest \cap Attempts = {}
      /\ main \notin {"finishing", "gone"}
  BY <1>1, Popped, Kinds
<1>3. Owner \in Links /\ Head(linkQ) = Ev(t, Owner)
  BY <1>1, <1>2, Events DEF Owner, Plain
<1>4. UnderWay /\ \A k \in Links : ~Running(k)
  BY <1>2 DEF UnderWay, IInv, Attempted
<1>5. ASSUME InUse
      PROVE  /\ acc.connecting /\ ~acc.connected /\ acc.tickle = NoLink
             /\ Owner = acc.link /\ kl[Owner].sigs /\ ~Lost /\ ~Closing
             /\ Balanced /\ Current /\ Answering /\ Ticking /\ Reported
  <2>1. Balanced /\ Current /\ Answering /\ Ticking /\ Reported
    BY <1>5 DEF IInv, Using
  <2>2. Result(Owner)
    BY <1>2, <1>3 DEF Result
  <2>3. QED
    BY <1>3, <1>4, <2>1, <2>2 DEF Balanced, Answering, Ticking, Reported
<1>6. QED
  BY <1>1, <1>2, <1>3, <1>4, <1>5

(* It succeeds.                                                            *)
LEMMA EstablishedKeeps == IInv /\ Established => IInv'
<1> SUFFICES ASSUME IInv, Established PROVE IInv'
  OBVIOUS
<1>1. PICK l \in Links :
         /\ l = Owner /\ Head(linkQ) = Ev("established", l) /\ Head(linkQ) \in Queued
         /\ Looping /\ busy = Idle /\ main \notin {"finishing", "gone"}
         /\ UnderWay /\ Rest \cap Attempts = {} /\ (\A k \in Links : ~Running(k))
         /\ Rest \subseteq Queued
         /\ InUse => /\ acc.connecting /\ ~acc.connected /\ acc.tickle = NoLink
                     /\ l = acc.link /\ kl[l].sigs /\ ~Lost /\ ~Closing
                     /\ Balanced /\ Current /\ Answering /\ Ticking /\ Reported
  <2>1. Handling("established")
    BY DEF Established
  <2>2. QED
    BY <2>1, ResultTaken
<1>2. /\ kl' = [kl EXCEPT ![l].conn = TRUE, ![l].fd = TRUE, ![l].err = FALSE]
      /\ linkQ' = Tail(linkQ) /\ UNCHANGED <<wk, gone, busy, main, eng, calls>>
  BY <1>1 DEF Established, Pop
<1>3. /\ kl' \in Objects
      /\ \A k \in Links : kl'[k].obj = kl[k].obj /\ kl'[k].sigs = kl[k].sigs
                          /\ kl'[k].worker = kl[k].worker
  <2>1. kl' \in Objects
    <3> DEFINE r == [kl[l] EXCEPT !.conn = TRUE, !.fd = TRUE, !.err = FALSE]
    <3>1. kl \in Objects /\ kl[l] \in Object
      BY DEF IInv, Types, LinkTypes, Objects
    <3>2. r \in Object
      BY <3>1 DEF Object
    <3>3. kl' = [kl EXCEPT ![l] = r]
      BY <1>2, <3>1 DEF Objects, Object
    <3> HIDE DEF r
    <3>4. QED
      BY <3>1, <3>2, <3>3 DEF Objects
  <2>2. \A k \in Links : kl'[k].obj = kl[k].obj /\ kl'[k].sigs = kl[k].sigs
                          /\ kl'[k].worker = kl[k].worker
    BY <1>2 DEF IInv, Types, LinkTypes, Objects, Object
  <2>3. QED
    BY <2>1, <2>2
<1>4. /\ linkQ' \in Seq(Event) /\ Queued' = Rest
      /\ One(linkQ', Blocking) /\ One(linkQ', Attempts)
  BY <1>1, <1>2, Popped DEF Queued, Rest
<1>5. /\ \A k \in Links : Running(k)' = Running(k)
      /\ Used' = Used /\ Alive' = Alive /\ Queued' \cap Attempts = {} /\ ~UnderWay'
  BY <1>1, <1>2, <1>3, <1>4 DEF Running, Used, Alive, UnderWay
<1>6. Attempted'
  <2>1. acc'.link = acc.link \/ acc'.link = NoLink
    BY DEF Established, IInv, Types, MemberTypes
  <2>2. QED
    BY <1>3, <1>4, <1>5, <2>1, NoNewAttempt
<1>7. Blocked'
  BY <1>1, <1>2, <1>4 DEF IInv, Blocked
<1>8. CASE kl[l].sigs
  <2>1. /\ acc' = [acc EXCEPT !.impl = acc.link, !.tickle = l, !.connected = TRUE,
                              !.connecting = FALSE]
        /\ tk' = [tk EXCEPT ![l] = [state |-> "running", fails |-> 0, on |-> acc.link]]
        /\ mainQ' = Append(mainQ, "ok") /\ sent' = [sent EXCEPT !.ok = @ + 1]
    BY <1>1, <1>8 DEF Established
  <2>2. /\ MemberTypes' /\ acc'.link = acc.link /\ acc'.impl = acc.link
        /\ acc'.tickle = l /\ acc'.connected = TRUE /\ acc'.connecting = FALSE
    BY <2>1 DEF IInv, Types, MemberTypes
  <2>3. TickTypes' /\ \A k \in Links : k # l => tk'[k] = tk[k]
    <3>1. [state |-> "running", fails |-> 0, on |-> acc.link] \in
             [state : {"none", "running", "stopped"}, fails : 0..TickLimit,
              on : Links \cup {NoLink}]
      BY DEF IInv, Types, MemberTypes, TickLimit
    <3>2. QED
      <4>1. acc.link \in {l, NoLink}
        BY <1>1 DEF IInv, Attempted, Result
      <4>2. QED
        BY <2>1, <3>1, <4>1 DEF IInv, Types, TickTypes, TickLimit
  <2>4. /\ mainQ' \in Seq(Signals) /\ (Lost' => Lost)
        /\ One(mainQ, {"lost"}) => One(mainQ', {"lost"})
    <3>1. mainQ \in Seq(Signals) /\ "ok" \in Signals
      BY DEF IInv, Types, ThreadTypes, Signals
    <3>2. /\ Append(mainQ, "ok") \in Seq(Signals)
          /\ Elems(Append(mainQ, "ok")) = Elems(mainQ) \cup {"ok"}
          /\ \A T : One(mainQ, T) /\ "ok" \notin T => One(Append(mainQ, "ok"), T)
      BY <3>1, Posting
    <3>3. QED
      BY <2>1, <3>1, <3>2 DEF Lost
  <2>5. /\ sent' \in [started : 0..MaxConnects, ok : Nat, fail : Nat, down : Nat]
        /\ sent'.started = sent.started /\ sent'.ok = sent.ok + 1
        /\ sent'.fail = sent.fail /\ sent'.down = sent.down
    BY <2>1 DEF IInv, Types, ThreadTypes
  <2>6. Types'
    BY <1>2, <1>3, <1>4, <2>2, <2>3, <2>4, <2>5 DEF IInv, Types, LinkTypes, ThreadTypes
  <2>7. Created'
    BY <1>1, <1>2, <1>4, <1>5, <2>2, <2>5, NothingCreated
  <2>8. Counted' /\ Ending'
    BY <1>1, <1>2, <1>5, <2>2, <2>5 DEF IInv, Counted, Ending, Types, ThreadTypes
  <2>9. ASSUME InUse'
        PROVE  Balanced' /\ Current' /\ Answering' /\ Ticking' /\ Reported'
    <3>1. /\ acc.connecting /\ ~acc.connected /\ acc.tickle = NoLink
          /\ l = acc.link /\ ~Lost /\ ~Closing
          /\ Balanced /\ Current /\ Answering /\ Ticking /\ Reported
      BY <1>1, <1>2, <2>9 DEF InUse
    <3>2. Balanced'
      BY <1>5, <2>2, <2>5, <3>1 DEF Balanced, IInv, Types, ThreadTypes
    <3>3. Current'
      <4>1. wk[l].sock = "open" /\ l # NoLink
        BY <1>1, <3>1, Kinds DEF Answering
      <4>2. acc'.link = l /\ wk' = wk /\ busy' = busy
        BY <1>2, <2>2, <3>1
      <4>3. kl'[l].obj = "alive"
        BY <1>3, <3>1, <4>1 DEF Current
      <4>4. Ev("delete", l) \notin Queued' /\ busy # [op |-> "delete", on |-> l]
        BY <1>1, <1>4, <3>1, <4>1 DEF Current
      <4>5. QED
        BY <4>1, <4>2, <4>3, <4>4 DEF Current
    <3>4. Answering'
      BY <1>1, <1>2, <1>3, <1>4, <1>5, <2>2, <3>1 DEF Answering, Result
    <3>5. Ticking'
      BY <1>1, <1>2, <2>2, <2>3, <3>1, Kinds DEF Ticking, Idle
    <3>6. Reported'
      BY <1>1, <1>2, <1>4, <2>2, <2>4, <3>1 DEF Reported, Closing, Idle
    <3>7. QED
      BY <3>2, <3>3, <3>4, <3>5, <3>6
  <2>10. QED
    BY <1>6, <1>7, <2>6, <2>7, <2>8, <2>9 DEF IInv, Using
<1>9. CASE ~kl[l].sigs
  <2>1. UNCHANGED <<acc, tk, mainQ, sent>> /\ ~InUse'
    BY <1>1, <1>2, <1>9 DEF Established, InUse
  <2>2. Types'
    BY <1>2, <1>3, <1>4, <2>1
    DEF IInv, Types, MemberTypes, LinkTypes, TickTypes, ThreadTypes
  <2>3. Created'
    BY <1>1, <1>2, <1>4, <1>5, <2>1, NothingCreated
  <2>4. Counted' /\ Using' /\ Ending'
    BY <1>1, <1>2, <1>5, <2>1 DEF IInv, Counted, Using, Ending
  <2>5. QED
    BY <1>6, <1>7, <2>2, <2>3, <2>4 DEF IInv
<1>10. QED
  BY <1>8, <1>9

(* It fails: the link is to be deleted.                                    *)
LEMMA FailedQueue ==
    ASSUME IInv, Failed
    PROVE  /\ linkQ' \in Seq(Event) /\ One(linkQ', Blocking) /\ One(linkQ', Attempts)
           /\ \A e \in Queued' : \/ e \in Rest \/ e.t = "tickStop"
                                 \/ acc.link # NoLink /\ e = Ev("delete", acc.link)
           /\ Queued' \cap Attempts = {}
           /\ Queued' \cap Blocking \subseteq Rest
<1> DEFINE q == Tail(linkQ) \o StopEvents(Owner)
           d == Ev("delete", acc.link)
<1>1. Looping /\ Rest \cap Attempts = {} /\ Owner \in Links
  <2>1. Handling("failed")
    BY DEF Failed
  <2>2. QED
    BY <2>1, ResultTaken
<1>2. /\ q \in Seq(Event) /\ One(q, Blocking) /\ One(q, Attempts)
      /\ Elems(q) = Rest \cup Elems(StopEvents(Owner))
      /\ \A e \in Elems(StopEvents(Owner)) : e.t = "tickStop"
  BY <1>1, PoppedMore, StopEventsAre
<1>3. Elems(q) \cap Attempts = {} /\ Elems(q) \cap Blocking \subseteq Rest
  BY <1>1, <1>2 DEF Attempts, Blocking
<1>4. /\ linkQ' = q \/ linkQ' = q \o <<>> \/ (acc.link # NoLink /\ linkQ' = q \o <<d>>)
  BY DEF Failed
<1>5. acc.link # NoLink => d \in Event /\ d.t = "delete" /\ d \notin Blocking \cup Attempts
  BY Events, Kinds DEF Owned, IInv, Types, MemberTypes
<1> HIDE DEF q, d
<1>6. q \o <<>> = q
  BY <1>2
<1>7. CASE linkQ' = q
  <2>1. Queued' = Elems(q)
    BY <1>7 DEF Queued
  <2>2. QED
    BY <1>2, <1>3, <1>7, <2>1
<1>8. CASE acc.link # NoLink /\ linkQ' = q \o <<d>>
  <2>1. linkQ' = Append(q, d)
    <3>1. <<d>> \in Seq(Event)
      BY <1>5, <1>8
    <3>2. QED
      BY <1>2, <1>5, <1>8, <3>1
  <2>2. /\ linkQ' \in Seq(Event) /\ Elems(linkQ') = Elems(q) \cup {d}
        /\ \A T : One(q, T) /\ d \notin T => One(linkQ', T)
    <3>1. /\ Append(q, d) \in Seq(Event) /\ Elems(Append(q, d)) = Elems(q) \cup {d}
          /\ \A T : One(q, T) /\ (d \notin T \/ Elems(q) \cap T = {})
                       => One(Append(q, d), T)
      BY <1>2, <1>5, <1>8, Posting
    <3>2. QED
      BY <2>1, <3>1
  <2>3. One(linkQ', Blocking) /\ One(linkQ', Attempts)
    BY <1>2, <1>5, <1>8, <2>2
  <2>4. Queued' = Elems(q) \cup {d}
    BY <2>2 DEF Queued
  <2>5. QED
    BY <1>2, <1>3, <1>5, <1>8, <2>2, <2>3, <2>4 DEF d
<1>9. QED
  BY <1>4, <1>6, <1>7, <1>8

LEMMA FailedKeeps == IInv /\ Failed => IInv'
<1> SUFFICES ASSUME IInv, Failed PROVE IInv'
  OBVIOUS
<1>1. PICK l \in Links :
         /\ l = Owner /\ Head(linkQ) = Ev("failed", l)
         /\ busy = Idle /\ main \notin {"finishing", "gone"}
         /\ UnderWay /\ (\A k \in Links : ~Running(k)) /\ Rest \subseteq Queued
         /\ InUse => /\ acc.connecting /\ ~acc.connected /\ acc.tickle = NoLink
                     /\ l = acc.link /\ kl[l].sigs /\ ~Lost /\ ~Closing
                     /\ Balanced /\ Current /\ Answering /\ Ticking /\ Reported
  <2>1. Handling("failed")
    BY DEF Failed
  <2>2. QED
    BY <2>1, ResultTaken
<1>2. /\ kl' = [kl EXCEPT ![l].conn = FALSE, ![l].fd = FALSE, ![l].err = TRUE]
      /\ UNCHANGED <<wk, tk, gone, busy, main, eng, calls>>
  BY <1>1 DEF Failed
<1>3. /\ kl' \in Objects
      /\ \A k \in Links : kl'[k].obj = kl[k].obj /\ kl'[k].sigs = kl[k].sigs
                          /\ kl'[k].worker = kl[k].worker
  <2>1. kl' \in Objects
    <3> DEFINE r == [kl[l] EXCEPT !.conn = FALSE, !.fd = FALSE, !.err = TRUE]
    <3>1. kl \in Objects /\ kl[l] \in Object
      BY DEF IInv, Types, LinkTypes, Objects
    <3>2. r \in Object
      BY <3>1 DEF Object
    <3>3. kl' = [kl EXCEPT ![l] = r]
      BY <1>2, <3>1 DEF Objects, Object
    <3> HIDE DEF r
    <3>4. QED
      BY <3>1, <3>2, <3>3 DEF Objects
  <2>2. \A k \in Links : kl'[k].obj = kl[k].obj /\ kl'[k].sigs = kl[k].sigs
                          /\ kl'[k].worker = kl[k].worker
    BY <1>2 DEF IInv, Types, LinkTypes, Objects, Object
  <2>3. QED
    BY <2>1, <2>2
<1>4. /\ linkQ' \in Seq(Event) /\ One(linkQ', Blocking) /\ One(linkQ', Attempts)
      /\ \A e \in Queued' : \/ e \in Rest \/ e.t = "tickStop"
                            \/ acc.link # NoLink /\ e = Ev("delete", acc.link)
      /\ Queued' \cap Attempts = {} /\ Queued' \cap Blocking \subseteq Rest
  BY FailedQueue
<1>5. /\ \A k \in Links : Running(k)' = Running(k)
      /\ Used' = Used /\ Alive' = Alive /\ ~UnderWay'
  BY <1>1, <1>2, <1>3, <1>4 DEF Running, Used, Alive, UnderWay
<1>6. Attempted'
  <2>1. acc'.link = acc.link \/ acc'.link = NoLink
    BY DEF Failed, IInv, Types, MemberTypes
  <2>2. QED
    BY <1>3, <1>4, <1>5, <2>1, NoNewAttempt
<1>7. Blocked'
  <2>1. Ev("resetImpl", NoLink) \in Blocking
    BY Events, Kinds DEF Plain
  <2>2. QED
    BY <1>1, <1>2, <1>4, <2>1 DEF IInv, Blocked
<1>8. CASE kl[l].sigs
  <2>1. /\ acc' = [acc EXCEPT !.link = NoLink, !.connecting = FALSE, !.connected = FALSE]
        /\ mainQ' = Append(mainQ, "fail") /\ sent' = [sent EXCEPT !.fail = @ + 1]
    BY <1>1, <1>8 DEF Failed
  <2>2. /\ MemberTypes' /\ acc'.link = NoLink /\ acc'.tickle = acc.tickle
        /\ acc'.connected = FALSE /\ acc'.connecting = FALSE
    BY <2>1 DEF IInv, Types, MemberTypes
  <2>3. /\ mainQ' \in Seq(Signals) /\ (Lost' => Lost)
        /\ One(mainQ, {"lost"}) => One(mainQ', {"lost"})
    <3>1. mainQ \in Seq(Signals) /\ "fail" \in Signals
      BY DEF IInv, Types, ThreadTypes, Signals
    <3>2. /\ Append(mainQ, "fail") \in Seq(Signals)
          /\ Elems(Append(mainQ, "fail")) = Elems(mainQ) \cup {"fail"}
          /\ \A T : One(mainQ, T) /\ "fail" \notin T => One(Append(mainQ, "fail"), T)
      BY <3>1, Posting
    <3>3. QED
      BY <2>1, <3>1, <3>2 DEF Lost
  <2>4. /\ sent' \in [started : 0..MaxConnects, ok : Nat, fail : Nat, down : Nat]
        /\ sent'.started = sent.started /\ sent'.ok = sent.ok
        /\ sent'.fail = sent.fail + 1 /\ sent'.down = sent.down
    BY <2>1 DEF IInv, Types, ThreadTypes
  <2>5. Types'
    BY <1>2, <1>3, <1>4, <2>2, <2>3, <2>4 DEF IInv, Types, LinkTypes, TickTypes, ThreadTypes
  <2>6. Created'
    <3>1. \A e \in Queued' : e \in Queued \/ (e.t = "delete" /\ e.l \in Used)
                                          \/ e.t \in {"tickStop", "tickDelete"}
      BY <1>1, <1>4, Events DEF IInv, Created
    <3>2. QED
      BY <1>2, <1>5, <2>2, <2>4, <3>1, NothingCreated
  <2>7. Counted' /\ Ending'
    BY <1>1, <1>2, <1>5, <2>2, <2>4 DEF IInv, Counted, Ending, Types, ThreadTypes
  <2>8. ASSUME InUse'
        PROVE  Balanced' /\ Current' /\ Answering' /\ Ticking' /\ Reported'
    <3>1. /\ acc.connecting /\ ~acc.connected /\ acc.tickle = NoLink
          /\ l = acc.link /\ ~Lost /\ ~Closing
          /\ Balanced /\ Current /\ Answering /\ Ticking /\ Reported
      BY <1>1, <1>2, <2>8 DEF InUse
    <3>2. Balanced' /\ Current'
      BY <1>5, <2>2, <2>4, <3>1 DEF Balanced, Current, IInv, Types, ThreadTypes
    <3>3. Answering'
      <4>1. \A k \in Links : Ev("established", k) \in Attempts /\ Ev("failed", k) \in Attempts
        BY Events, Kinds DEF Owned
      <4>2. QED
        BY <1>1, <1>2, <1>4, <1>5, <4>1 DEF Answering, Result, Running
    <3>4. Ticking'
      BY <1>1, <1>2, <2>2, <3>1 DEF Ticking, Idle
    <3>5. Reported'
      <4>1. Ev("disconnect", NoLink) \in Queued' => Ev("disconnect", NoLink) \in Queued
        BY <1>1, <1>4, Events
      <4>2. QED
        BY <1>1, <1>2, <2>2, <2>3, <3>1, <4>1 DEF Reported, Closing, Idle
    <3>6. QED
      BY <3>2, <3>3, <3>4, <3>5
  <2>9. QED
    BY <1>6, <1>7, <2>5, <2>6, <2>7, <2>8 DEF IInv, Using
<1>9. CASE ~kl[l].sigs
  <2>1. UNCHANGED <<acc, mainQ, sent>> /\ ~InUse'
    BY <1>1, <1>2, <1>9 DEF Failed, InUse
  <2>2. Types'
    BY <1>2, <1>3, <1>4, <2>1
    DEF IInv, Types, MemberTypes, LinkTypes, TickTypes, ThreadTypes
  <2>3. Created'
    <3>1. \A e \in Queued' : e \in Queued \/ (e.t = "delete" /\ e.l \in Used)
                                          \/ e.t \in {"tickStop", "tickDelete"}
      BY <1>1, <1>4, Events DEF IInv, Created
    <3>2. QED
      BY <1>2, <1>5, <2>1, <3>1, NothingCreated
  <2>4. Counted' /\ Using' /\ Ending'
    BY <1>1, <1>2, <1>5, <2>1 DEF IInv, Counted, Using, Ending
  <2>5. QED
    BY <1>6, <1>7, <2>2, <2>3, <2>4 DEF IInv
<1>10. QED
  BY <1>8, <1>9

-----------------------------------------------------------------------------
(* The invariant, and what it says.                                        *)

LEMMA InitHolds == Init => IInv
<1> SUFFICES ASSUME Init PROVE IInv
  OBVIOUS
<1>1. /\ linkQ = <<>> /\ mainQ = <<>> /\ busy = Idle /\ main = "idle"
      /\ \A l \in Links : kl[l].obj = "none" /\ wk[l].stage = "none" /\ tk[l].state = "none"
      /\ ~acc.connecting /\ ~acc.connected /\ acc.link = NoLink /\ acc.tickle = NoLink
      /\ sent = [started |-> 0, ok |-> 0, fail |-> 0, down |-> 0]
  BY DEF Init
<1>2. /\ linkQ \in Seq(Event) /\ Queued = {} /\ \A T : One(linkQ, T)
      /\ mainQ \in Seq(Signals) /\ ~Lost /\ \A T : One(mainQ, T)
  BY <1>1, Emptied DEF Queued, Lost
<1>3. MemberTypes /\ TickTypes
  BY DEF Init, MemberTypes, TickTypes, TickLimit
<1>4. LinkTypes
  BY DEF Init, LinkTypes, Objects, Object, Workers, Stages
<1>5. ThreadTypes
  BY <1>1, <1>2, ConstantsAssumption DEF Init, ThreadTypes, Mains
<1>6. (\A l \in Links : ~Running(l)) /\ Used = {} /\ ~UnderWay
  BY <1>1, <1>2 DEF Running, Used, UnderWay
<1>7. Blocked /\ Attempted /\ Counted /\ Ending
  BY <1>1, <1>2, <1>6 DEF Blocked, Attempted, Counted, Ending, Idle
<1>8. Created
  BY <1>1, <1>2, <1>6 DEF Created
<1>9. Using
  BY <1>1, <1>2, <1>6
  DEF Using, Balanced, Current, Answering, Result, Ticking, Reported, Closing, Idle
<1>10. QED
  BY <1>3, <1>4, <1>5, <1>7, <1>8, <1>9 DEF IInv, Types

LEMMA StepKeeps == IInv /\ [Next]_vars => IInv'
<1> SUFFICES ASSUME IInv, [Next]_vars PROVE IInv'
  OBVIOUS
<1>1. CASE MainStep
  BY <1>1, ConnectKeeps, CallKeeps, SignalKeeps, ClosingKeeps, DestroyKeeps DEF MainStep
<1>2. CASE LinkStep
  <2>1. CASE DoConnect \/ Established \/ Failed
    BY <2>1, DoConnectKeeps, EstablishedKeeps, FailedKeeps
  <2>2. CASE DoCancel \/ DoDisconnect \/ DeleteLink \/ DeleteChild
    BY <2>2, CancelKeeps, DisconnectKeeps, DeleteKeeps
  <2>3. CASE CancelReturns \/ DisconnectReturns \/ DeleteReturns \/ LinkThreadFinishes
    BY <2>3, CancelEnds, DisconnectEnds, DeleteEnds, ThreadEnds
  <2>4. CASE ResetImpl \/ DoPause \/ DoResume \/ TickStop \/ TickDelete
    BY <2>4, PopKeeps
  <2>5. CASE DlpCall \/ TerminateWorker
    BY <2>5, DlpKeeps, TerminateKeeps
  <2>6. QED
    BY <1>2, <2>1, <2>2, <2>3, <2>4, <2>5 DEF LinkStep
<1>3. CASE EngineCheck \/ EnginePost
  BY <1>3, EngineKeeps
<1>4. CASE \E l \in Links : WorkerStep(l) \/ SendTick(l) \/ DeviceGone(l)
  BY <1>4, WorkerKeeps, TickKeeps, GoneKeeps
<1>5. CASE UNCHANGED vars
  <2>1. UNCHANGED <<acc, kl, wk, tk, gone, linkQ, busy, main, mainQ, eng, calls, sent>>
    BY <1>5 DEF vars
  <2>2. /\ Queued' = Queued /\ UnderWay' = UnderWay /\ Used' = Used /\ Alive' = Alive
        /\ Lost' = Lost /\ Closing' = Closing /\ \A l \in Links : Running(l)' = Running(l)
    BY <2>1 DEF Queued, UnderWay, Used, Alive, Lost, Closing, Running
  <2>3. Types'
    BY <2>1 DEF IInv, Types, MemberTypes, LinkTypes, TickTypes, ThreadTypes
  <2>4. Blocked' /\ Attempted' /\ Created' /\ Counted' /\ Ending'
    BY <2>1, <2>2 DEF IInv, Blocked, Attempted, Created, Counted, Ending, Result
  <2>5. Using'
    BY <2>1, <2>2 DEF IInv, Using, InUse, Balanced, Current, Answering, Result, Ticking, Reported
  <2>6. QED
    BY <2>3, <2>4, <2>5 DEF IInv
<1>6. QED
  BY <1>1, <1>2, <1>3, <1>4, <1>5 DEF Next

LEMMA Invariant == Spec => []IInv
BY InitHolds, StepKeeps, PTL DEF Spec

(* The members of PalmDeviceAccess, KPilotDeviceLink, ConnectionWorker and *)
(* PalmTickle, the event queues and the threads keep to their types,       *)
(* whatever calls, results and ticks come in whatever order.               *)
THEOREM TypeCorrect == Spec => []TypeOK
<1>1. IInv => TypeOK
  <2> SUFFICES ASSUME IInv PROVE TypeOK
    OBVIOUS
  <2>1. Event \subseteq [t : LinkEvents, l : Links \cup {NoLink}]
    <3>1. [t : Plain, l : {NoLink}] \subseteq [t : LinkEvents, l : Links \cup {NoLink}]
      BY DEF Plain, LinkEvents
    <3>2. [t : Owned, l : Links] \subseteq [t : LinkEvents, l : Links \cup {NoLink}]
      BY DEF Owned, LinkEvents
    <3>3. QED
      BY <3>1, <3>2 DEF Event
  <2>2. linkQ \in Seq([t : LinkEvents, l : Links \cup {NoLink}])
    <3>1. ASSUME NEW S, NEW T, S \subseteq T, NEW q \in Seq(S)
          PROVE  q \in Seq(T)
      BY <3>1
    <3>2. linkQ \in Seq(Event)
      BY DEF IInv, Types, ThreadTypes
    <3>3. QED
      BY <2>1, <3>1, <3>2
  <2>3. busy \in [op : {"idle", "cancel", "disconnect", "delete"}, on : Links \cup {NoLink}]
    <3>1. CASE busy = Idle
      BY <3>1 DEF Idle
    <3>2. CASE busy \in [op : {"cancel", "disconnect", "delete"}, on : Links]
      BY <3>2
    <3>3. QED
      BY <3>1, <3>2 DEF IInv, Types, ThreadTypes
  <2>4. sent \in [started : 0..MaxConnects, ok : 0..MaxConnects,
                  fail : 0..MaxConnects, down : 0..MaxConnects]
    <3>1. /\ sent \in [started : 0..MaxConnects, ok : Nat, fail : Nat, down : Nat]
          /\ sent.ok + sent.fail <= sent.started /\ sent.down <= sent.ok
      BY DEF IInv, Types, ThreadTypes, Counted
    <3>2. /\ sent.started \in 0..MaxConnects /\ sent.ok \in Nat /\ sent.fail \in Nat
          /\ sent.down \in Nat
      BY <3>1
    <3>3. sent.ok \in 0..MaxConnects /\ sent.fail \in 0..MaxConnects
          /\ sent.down \in 0..MaxConnects
      BY <3>1, <3>2, ConstantsAssumption
    <3>4. QED
      BY <3>1, <3>2, <3>3
  <2>5. QED
    BY <2>2, <2>3, <2>4 DEF IInv, Types, MemberTypes, LinkTypes, TickTypes, ThreadTypes,
       Objects, Object, Workers, TypeOK, Mains, Waiting, Signals
<1>2. QED
  BY <1>1, Invariant, PTL

(* Two ConnectionWorkers never run at once: the guards of connectDevice    *)
(* and the wait in cleanupWorker keep the serial port to one attempt.      *)
THEOREM NeverTwoAttempts == Spec => []OneAttempt
<1>1. IInv => OneAttempt
  <2> SUFFICES ASSUME IInv PROVE OneAttempt
    OBVIOUS
  <2> DEFINE R == {l \in Links : Running(l)}
  <2>1. CASE R = {}
    BY <2>1, FS_EmptySet DEF OneAttempt
  <2>2. CASE \E l \in Links : R = {l}
    BY <2>2, FS_Singleton DEF OneAttempt
  <2>3. QED
    BY <2>1, <2>2 DEF IInv, Attempted
<1>2. QED
  BY <1>1, Invariant, PTL

(* Every accepted connectDevice gets exactly one connectFinished, and      *)
(* m_connecting is up until it comes; closing the object adds none.        *)
THEOREM OneAnswer == Spec => []OneCompletion
<1>1. IInv => OneCompletion
  BY DEF IInv, Counted, Using, Balanced, OneCompletion
<1>2. QED
  BY <1>1, Invariant, PTL

(* deviceDisconnected comes once for each success, and m_connected is up   *)
(* exactly in between; closing the object adds none.                       *)
THEOREM OneGoodbye == Spec => []DownFollowsUp
<1>1. IInv => DownFollowsUp
  BY DEF IInv, Counted, Using, Balanced, DownFollowsUp
<1>2. QED
  BY <1>1, Invariant, PTL

(* While connected and not being torn down, m_impl and m_tickle are wired  *)
(* to the current link, which is alive and open.                           *)
THEOREM WiredToTheLink == Spec => []WiredWhileConnected
<1>1. IInv => WiredWhileConnected
  BY DEF IInv, Using, Current, Ticking, WiredWhileConnected
<1>2. QED
  BY <1>1, Invariant, PTL

(* PalmTickle::sendTickle never pings a closed descriptor or a dead link.  *)
THEOREM TicksReachTheDevice == Spec => []TickleOnOpenSocket
<1>1. IInv => TickleOnOpenSocket
  <2> SUFFICES ASSUME IInv, InUse, NEW t \in Links, tk[t].state = "running"
               PROVE  wk[t].sock = "open" /\ kl[t].obj = "alive"
    BY DEF TickleOnOpenSocket
  <2>1. t = acc.link /\ acc.connected /\ acc.link # NoLink
    BY Kinds DEF IInv, Using, Ticking, Current
  <2>2. QED
    BY <2>1 DEF IInv, Using, Current
<1>2. QED
  BY <1>1, Invariant, PTL

(* ~PalmDeviceAccess leaves no link, no tickle and no worker behind.       *)
THEOREM DestroysAll == Spec => []NothingSurvives
<1>1. IInv => NothingSurvives
  BY DEF IInv, Ending, Alive, Attempted, NothingSurvives
<1>2. QED
  BY <1>1, Invariant, PTL

(* The assertion of palmdeviceaccess.cpp, that a link is current when a    *)
(* success is wired, holds until somebody closes the object.               *)
THEOREM AssertedInUse == Spec => [](InUse => AssertDeviceLink)
<1>1. IInv => (InUse => AssertDeviceLink)
  BY ResultTaken, Kinds DEF AssertDeviceLink
<1>2. QED
  BY <1>1, Invariant, PTL

(* A tickle watches the status of the link it was made for, or, when the   *)
(* success came in while the object was being closed, of none: whoever     *)
(* looks for the tickles of a link (StopEvents) need look at one.          *)
THEOREM WatchesOwnLink == Spec => [](\A l \in Links : tk[l].on \in {l, NoLink})
<1>1. IInv => \A l \in Links : tk[l].on \in {l, NoLink}
  BY DEF IInv, Types, TickTypes
<1>2. QED
  BY <1>1, Invariant, PTL


-----------------------------------------------------------------------------
(* What is queued for a link that was deleted.  A delete is posted behind  *)
(* the result of the link's worker, which has ended by then, and only once.*)

Ours(l) == {Ev("established", l), Ev("failed", l), Ev("delete", l)}
After(q, l) == \A i, j \in DOMAIN q :
    i < j /\ q[i] = Ev("delete", l) => q[j] \notin Ours(l)
Busy(t, l) == busy = [op |-> t, on |-> l]

Ordered ==
    main \notin {"finishing", "gone"} => \A l \in Links :
        /\ After(linkQ, l)
        /\ Ev("delete", l) \in Queued \/ Busy("delete", l)
              => ~Running(l) /\ acc.link # l /\ kl[l].obj = "alive"
        /\ Busy("delete", l) \/ kl[l].obj = "dead" => Queued \cap Ours(l) = {}
        /\ acc.link = l => kl[l].obj = "alive"
        /\ Busy("disconnect", l) => acc.link = l

LEMMA AfterPost ==
    ASSUME NEW q \in Seq(Event), NEW e \in Event, NEW l \in Links, After(q, l),
           e \notin Ours(l) \/ Ev("delete", l) \notin Elems(q)
    PROVE  After(Append(q, e), l)
<1> DEFINE r == Append(q, e)
           d == Ev("delete", l)
           S == Ours(l)
<1>1. /\ Len(r) = Len(q) + 1 /\ DOMAIN r = 1..Len(r)
      /\ DOMAIN q = 1..Len(q) /\ Len(q) \in Nat
      /\ \A i \in 1..Len(q) : r[i] = q[i]
      /\ r[Len(q) + 1] = e
  OBVIOUS
<1> HIDE DEF r, d, S
<1>2. e \notin S \/ \A i \in 1..Len(q) : q[i] # d
  BY <1>1 DEF Elems, d, S
<1>3. \A i, j \in 1..Len(q) : i < j /\ q[i] = d => q[j] \notin S
  BY <1>1 DEF After, d, S
<1>4. ASSUME NEW i \in 1..Len(r), NEW j \in 1..Len(r), i < j, r[i] = d
      PROVE  r[j] \notin S
  <2>1. i \in 1..Len(q) /\ q[i] = d
    BY <1>1, <1>4
  <2>2. j \in 1..Len(q) \/ j = Len(q) + 1
    BY <1>1
  <2>3. QED
    BY <1>1, <1>2, <1>3, <1>4, <2>1, <2>2
<1>5. QED
  BY <1>1, <1>4 DEF After, r, d, S

LEMMA AfterTake ==
    ASSUME NEW q \in Seq(Event), q # <<>>, NEW l \in Links, After(q, l)
    PROVE  /\ After(Tail(q), l)
           /\ Head(q) = Ev("delete", l) => Elems(Tail(q)) \cap Ours(l) = {}
<1> DEFINE r == Tail(q)
           d == Ev("delete", l)
           S == Ours(l)
<1>1. /\ Len(r) = Len(q) - 1 /\ DOMAIN r = 1..Len(r)
      /\ DOMAIN q = 1..Len(q) /\ Len(q) \in Nat \ {0}
      /\ \A i \in 1..Len(r) : r[i] = q[i + 1]
      /\ Head(q) = q[1]
  OBVIOUS
<1> HIDE DEF r, d, S
<1>2. \A i, j \in 1..Len(q) : i < j /\ q[i] = d => q[j] \notin S
  BY <1>1 DEF After, d, S
<1>3. \A i \in 1..Len(r) : i + 1 \in 1..Len(q) /\ 1 \in 1..Len(q) /\ 1 < i + 1
  BY <1>1
<1>4. ASSUME NEW i \in 1..Len(r), NEW j \in 1..Len(r), i < j, r[i] = d
      PROVE  r[j] \notin S
  <2>1. i + 1 < j + 1 /\ q[i + 1] = d
    BY <1>1, <1>4
  <2>2. QED
    BY <1>1, <1>2, <1>3, <2>1
<1>5. ASSUME Head(q) = d, NEW j \in 1..Len(r) PROVE r[j] \notin S
  BY <1>1, <1>2, <1>3, <1>5
<1>6. QED
  BY <1>1, <1>4, <1>5 DEF After, Elems, r, d, S

(* Steps that post nothing of a link, or take what is at the head.         *)
Posts(q, r) ==
    \/ r = q
    \/ \E e \in Event : e.t \notin {"established", "failed", "delete"} /\ r = Append(q, e)

LEMMA QuietQueue ==
    ASSUME linkQ \in Seq(Event),
           Posts(linkQ, linkQ') \/ (linkQ # <<>> /\ Posts(Tail(linkQ), linkQ')),
           NEW l \in Links, After(linkQ, l)
    PROVE  After(linkQ', l) /\ Queued' \cap Ours(l) \subseteq Queued
<1>1. ASSUME NEW q \in Seq(Event), Posts(q, linkQ'), After(q, l), Elems(q) \subseteq Queued
      PROVE  After(linkQ', l) /\ Queued' \cap Ours(l) \subseteq Queued
  <2>1. CASE linkQ' = q
    BY <1>1, <2>1 DEF Queued
  <2>2. ASSUME NEW e \in Event, e.t \notin {"established", "failed", "delete"},
               linkQ' = Append(q, e)
        PROVE  After(linkQ', l) /\ Queued' \cap Ours(l) \subseteq Queued
    <3>1. e \notin Ours(l)
      BY <2>2, Events DEF Ours
    <3>2. Queued' = Elems(q) \cup {e}
      BY <2>2, Posting DEF Queued
    <3>3. QED
      BY <1>1, <2>2, <3>1, <3>2, AfterPost
  <2>3. QED
    BY <1>1, <2>1, <2>2 DEF Posts
<1>2. CASE Posts(linkQ, linkQ')
  BY <1>1, <1>2 DEF Queued
<1>3. CASE linkQ # <<>> /\ Posts(Tail(linkQ), linkQ')
  <2>1. Tail(linkQ) \in Seq(Event) /\ Elems(Tail(linkQ)) \subseteq Queued
    BY <1>3, PopEvent DEF Rest
  <2>2. QED
    BY <1>1, <1>3, <2>1, AfterTake
<1>4. QED
  BY <1>2, <1>3

LEMMA KeepsOrder ==
    ASSUME IInv, Ordered,
           Posts(linkQ, linkQ') \/ (linkQ # <<>> /\ Posts(Tail(linkQ), linkQ')),
           \A l \in Links : (Running(l)' => Running(l)) /\ kl'[l].obj = kl[l].obj,
           acc'.link \in {acc.link, NoLink},
           \A l \in Links : Busy("delete", l)' => Busy("delete", l),
           main' \notin {"finishing", "gone"} =>
              /\ main \notin {"finishing", "gone"}
              /\ \A l \in Links : Busy("disconnect", l)' => acc'.link = l
    PROVE  Ordered'
<1> SUFFICES ASSUME main' \notin {"finishing", "gone"}, NEW l \in Links
             PROVE  /\ After(linkQ, l)'
                    /\ (Ev("delete", l) \in Queued \/ Busy("delete", l))'
                          => (~Running(l) /\ acc.link # l /\ kl[l].obj = "alive")'
                    /\ (Busy("delete", l) \/ kl[l].obj = "dead")'
                          => (Queued \cap Ours(l) = {})'
                    /\ (acc.link = l)' => (kl[l].obj = "alive")'
                    /\ Busy("disconnect", l)' => (acc.link = l)'
  BY DEF Ordered
<1>1. /\ After(linkQ, l)
      /\ Ev("delete", l) \in Queued \/ Busy("delete", l)
            => ~Running(l) /\ acc.link # l /\ kl[l].obj = "alive"
      /\ Busy("delete", l) \/ kl[l].obj = "dead" => Queued \cap Ours(l) = {}
      /\ acc.link = l => kl[l].obj = "alive"
  BY DEF Ordered
<1>2. After(linkQ', l) /\ Queued' \cap Ours(l) \subseteq Queued
  BY <1>1, QuietQueue DEF IInv, Types, ThreadTypes
<1>3. Ev("delete", l) \in Queued' => Ev("delete", l) \in Queued
  BY <1>2 DEF Ours
<1>4. acc'.link = l => acc.link = l
  BY Kinds
<1>5. (Ev("delete", l) \in Queued' \/ Busy("delete", l)')
         => ~Running(l)' /\ acc'.link # l /\ kl'[l].obj = "alive"
  BY <1>1, <1>3, <1>4
<1>6. (Busy("delete", l)' \/ kl'[l].obj = "dead") => Queued' \cap Ours(l) = {}
  BY <1>1, <1>2
<1>7. acc'.link = l => kl'[l].obj = "alive"
  BY <1>1, <1>4
<1>8. Busy("disconnect", l)' => acc'.link = l
  OBVIOUS
<1>9. QED
  BY <1>2, <1>5, <1>6, <1>7, <1>8

LEMMA MainOrder == IInv /\ Ordered /\ MainStep => Ordered'
<1> SUFFICES ASSUME IInv, Ordered, MainStep PROVE Ordered'
  OBVIOUS
<1>1. /\ UNCHANGED <<wk, busy>> /\ acc'.link = acc.link
      /\ main' \notin {"finishing", "gone"} => main \notin {"finishing", "gone"}
      /\ \E t \in Plain : linkQ' = linkQ \/ linkQ' = Append(linkQ, Ev(t, NoLink))
  BY DEF MainStep, ConnectDevice, CancelConnect, DisconnectDevice, PauseTickle, ResumeTickle,
         HandleMain, DestroyBegin, DestroyDisconnect, DestroyImpl, Destroyed, Block, Plain,
         IInv, Types, MemberTypes
<1>2. \A l \in Links : kl'[l].obj = kl[l].obj
  BY DEF MainStep, ConnectDevice, CancelConnect, DisconnectDevice, PauseTickle, ResumeTickle,
         HandleMain, DestroyBegin, DestroyDisconnect, DestroyImpl, Destroyed,
         IInv, Types, LinkTypes, Objects, Object
<1>3. Posts(linkQ, linkQ')
  BY <1>1, Events DEF Posts, Plain
<1>4. \A l \in Links : (Running(l)' <=> Running(l)) /\ (Busy("delete", l)' <=> Busy("delete", l))
                       /\ (Busy("disconnect", l)' <=> Busy("disconnect", l))
  BY <1>1 DEF Running, Busy
<1>5. main' \notin {"finishing", "gone"} =>
         \A l \in Links : Busy("disconnect", l)' => acc'.link = l
  BY <1>1, <1>4 DEF Ordered
<1>6. QED
  BY <1>1, <1>2, <1>3, <1>4, <1>5, KeepsOrder

LEMMA StopsPosted ==
    ASSUME NEW q \in Seq(Event), NEW l \in Links
    PROVE  Posts(q, q \o StopEvents(l)) /\ q \o StopEvents(l) \in Seq(Event)
<1> DEFINE a == Ev("tickStop", l)
<1>1. a \in Event /\ a.t = "tickStop"
  BY Events DEF Owned
<1> HIDE DEF a
<1>2. StopEvents(l) = <<>> \/ StopEvents(l) = <<a>>
  BY DEF StopEvents, a
<1>3. q \o <<>> = q /\ q \o <<a>> = Append(q, a) /\ Append(q, a) \in Seq(Event)
  BY <1>1, PostMore
<1>4. QED
  BY <1>1, <1>2, <1>3 DEF Posts

(* The steps of the link thread that neither create nor delete a link.     *)
LEMMA QuietOrder ==
    IInv /\ Ordered /\
    (Established \/ DoCancel \/ CancelReturns \/ ResetImpl \/ DoPause \/ DoResume
       \/ TickStop \/ TickDelete \/ DlpCall \/ TerminateWorker \/ EngineCheck \/ EnginePost)
    => Ordered'
<1> SUFFICES ASSUME IInv, Ordered,
                    Established \/ DoCancel \/ CancelReturns \/ ResetImpl \/ DoPause \/ DoResume
                      \/ TickStop \/ TickDelete \/ DlpCall \/ TerminateWorker
                      \/ EngineCheck \/ EnginePost
             PROVE  Ordered'
  OBVIOUS
<1>1. /\ acc'.link = acc.link
      /\ busy' = busy \/ busy' = Idle \/ busy'.op = "cancel"
  <2>1. CASE Established
    BY <2>1 DEF Established, IInv, Types, MemberTypes
  <2>2. CASE ResetImpl
    BY <2>2 DEF ResetImpl, IInv, Types, MemberTypes
  <2>3. CASE DoCancel
    BY <2>3 DEF DoCancel
  <2>4. CASE CancelReturns
    BY <2>4 DEF CancelReturns
  <2>5. CASE DlpCall \/ TerminateWorker \/ EngineCheck \/ EnginePost
    BY <2>5 DEF DlpCall, TerminateWorker, EngineCheck, EnginePost
  <2>6. CASE DoPause \/ DoResume \/ TickStop \/ TickDelete
    BY <2>6 DEF DoPause, DoResume, TickStop, TickDelete
  <2>7. QED
    BY <2>1, <2>2, <2>3, <2>4, <2>5, <2>6
<1>2. main' \notin {"finishing", "gone"} => main \notin {"finishing", "gone"}
  <2>1. CASE main' = main
    BY <2>1
  <2>2. CASE ResetImpl \/ DoPause \/ DoResume
    BY <2>2 DEF ResetImpl, DoPause, DoResume, Handling, Looping
  <2>3. CASE main' # main /\ ~(ResetImpl \/ DoPause \/ DoResume)
    BY <2>3 DEF Established, DoCancel, CancelReturns, TickStop,
         TickDelete, DlpCall, TerminateWorker, EngineCheck, EnginePost
  <2>4. QED
    BY <2>1, <2>2, <2>3
<1>3. \A l \in Links : kl'[l].obj = kl[l].obj
  <2>1. CASE kl' = kl
    BY <2>1
  <2>2. CASE Established
    BY <2>2 DEF Established, IInv, Types, LinkTypes, Objects, Object
  <2>3. CASE CancelReturns
    BY <2>3 DEF CancelReturns, IInv, Types, LinkTypes, Objects, Object
  <2>4. CASE DlpCall
    <3>1. CASE \E l \in Links, c \in BOOLEAN :
                  kl' = [kl EXCEPT ![l].err = TRUE, ![l].conn = c /\ kl[l].conn]
      BY <3>1 DEF IInv, Types, LinkTypes, Objects, Object
    <3>2. QED
      BY <2>1, <2>4, <3>1 DEF DlpCall
  <2>5. QED
    BY <2>1, <2>2, <2>3, <2>4 DEF DoCancel, ResetImpl, DoPause, DoResume, TickStop,
         TickDelete, TerminateWorker, EngineCheck, EnginePost
<1>4. \A l \in Links : Running(l)' => Running(l)
  <2>1. CASE wk' = wk
    BY <2>1 DEF Running
  <2>2. CASE DoCancel
    BY <2>2 DEF DoCancel, RequestCancel, Running, IInv, Types, LinkTypes, Workers
  <2>3. CASE TerminateWorker
    BY <2>3 DEF TerminateWorker, Running, IInv, Types, LinkTypes, Workers
  <2>4. QED
    BY <2>1, <2>2, <2>3 DEF Established, CancelReturns, ResetImpl, DoPause, DoResume, TickStop,
         TickDelete, DlpCall, EngineCheck, EnginePost
<1>5. Posts(linkQ, linkQ') \/ (linkQ # <<>> /\ Posts(Tail(linkQ), linkQ'))
  <2>1. CASE CancelReturns \/ TerminateWorker \/ EngineCheck
    BY <2>1 DEF CancelReturns, TerminateWorker, EngineCheck, Posts
  <2>2. CASE EnginePost
    BY <2>2, Events DEF EnginePost, Posts, Plain
  <2>3. CASE Established \/ DoCancel \/ ResetImpl \/ DoPause \/ DoResume
             \/ TickStop \/ TickDelete
    BY <2>3 DEF Established, DoCancel, ResetImpl, DoPause, DoResume, TickStop, TickDelete,
            Handling, Looping, Pop, Posts
  <2>4. CASE DlpCall
    <3>1. linkQ # <<>> /\ Tail(linkQ) \in Seq(Event)
      BY <2>4, PopEvent DEF DlpCall, Handling, Looping, IInv, Types, ThreadTypes
    <3>2. CASE linkQ' = Tail(linkQ)
      BY <3>1, <3>2 DEF Posts
    <3>3. ASSUME NEW l \in Links, linkQ' = Tail(linkQ) \o StopEvents(l)
          PROVE  Posts(Tail(linkQ), linkQ')
      BY <3>1, <3>3, StopsPosted
    <3>4. QED
      BY <2>4, <3>1, <3>2, <3>3 DEF DlpCall, Pop
  <2>5. QED
    BY <2>1, <2>2, <2>3, <2>4
<1>6. \A l \in Links : /\ Busy("delete", l)' => Busy("delete", l)
                       /\ Busy("disconnect", l)' => Busy("disconnect", l)
  BY <1>1 DEF Busy, Idle
<1>7. main' \notin {"finishing", "gone"} =>
         \A l \in Links : Busy("disconnect", l)' => acc'.link = l
  BY <1>1, <1>2, <1>6 DEF Ordered
<1>8. QED
  BY <1>1, <1>2, <1>3, <1>4, <1>5, <1>6, <1>7, KeepsOrder

LEMMA WorkerOrder ==
    \A l \in Links : IInv /\ Ordered /\ (WorkerStep(l) \/ SendTick(l) \/ DeviceGone(l)) => Ordered'
<1> SUFFICES ASSUME NEW k \in Links, IInv, Ordered,
                    WorkerStep(k) \/ SendTick(k) \/ DeviceGone(k)
             PROVE  Ordered'
  OBVIOUS
<1>1. UNCHANGED <<acc, kl, busy, main>>
  BY DEF WorkerStep, WorkerProbe, WorkerAccept, WorkerHandshake, SendTick, DeviceGone
<1>2. \A l \in Links : /\ Busy("delete", l)' <=> Busy("delete", l)
                       /\ Busy("disconnect", l)' <=> Busy("disconnect", l)
  BY <1>1 DEF Busy
<1>3. CASE linkQ' = linkQ /\ \A l \in Links : Running(l)' => Running(l)
  <2>1. Posts(linkQ, linkQ')
    BY <1>3 DEF Posts
  <2>2. main' \notin {"finishing", "gone"} =>
           \A l \in Links : Busy("disconnect", l)' => acc'.link = l
    BY <1>1, <1>2 DEF Ordered
  <2>3. QED
    BY <1>1, <1>2, <1>3, <2>1, <2>2, KeepsOrder
<1>4. ASSUME NEW t \in {"established", "failed"}, Running(k), Post(k, t)
      PROVE  Ordered'
  <2> DEFINE e == Ev(t, k)
  <2>1. e \in Event /\ (\A l : e # Ev("delete", l)) /\ (\A l \in Links : l # k => e \notin Ours(l))
    BY Events DEF Owned, Ours
  <2>2. linkQ' = Append(linkQ, e) /\ \A l \in Links : Running(l)' => l # k /\ Running(l)
    BY <1>4 DEF Post, Running, IInv, Types, LinkTypes, Workers
  <2>3. Queued' = Queued \cup {e} /\ linkQ \in Seq(Event)
    BY <2>1, <2>2, PostEvent DEF IInv, Types, ThreadTypes
  <2>4. kl[k].obj = "alive"
    BY <1>4 DEF IInv, Attempted
  <2> HIDE DEF e
  <2>5. SUFFICES ASSUME main' \notin {"finishing", "gone"}, NEW l \in Links
                 PROVE  /\ After(linkQ', l)
                        /\ (Ev("delete", l) \in Queued' \/ Busy("delete", l)')
                              => (~Running(l)' /\ acc'.link # l /\ kl'[l].obj = "alive")
                        /\ (Busy("delete", l)' \/ kl'[l].obj = "dead")
                              => Queued' \cap Ours(l) = {}
                        /\ acc'.link = l => kl'[l].obj = "alive"
                        /\ Busy("disconnect", l)' => acc'.link = l
    BY DEF Ordered
  <2>6. /\ After(linkQ, l)
        /\ Ev("delete", l) \in Queued \/ Busy("delete", l)
              => ~Running(l) /\ acc.link # l /\ kl[l].obj = "alive"
        /\ Busy("delete", l) \/ kl[l].obj = "dead" => Queued \cap Ours(l) = {}
        /\ acc.link = l => kl[l].obj = "alive"
        /\ Busy("disconnect", l) => acc.link = l
    BY <1>1, <2>5 DEF Ordered
  <2>7. After(linkQ', l)
    <3>1. e \notin Ours(l) \/ Ev("delete", l) \notin Elems(linkQ)
      BY <1>4, <2>1, <2>6 DEF Queued
    <3>2. QED
      BY <2>1, <2>2, <2>3, <2>6, <3>1, AfterPost
  <2>8. Ev("delete", l) \in Queued' => Ev("delete", l) \in Queued
    BY <2>1, <2>3
  <2>9. (Busy("delete", l) \/ kl[l].obj = "dead") => Queued' \cap Ours(l) = {}
    BY <1>4, <2>1, <2>3, <2>4, <2>6
  <2>10. QED
    BY <1>1, <1>2, <2>2, <2>6, <2>7, <2>8, <2>9
<1>5. CASE SendTick(k) \/ DeviceGone(k)
  BY <1>3, <1>5 DEF SendTick, DeviceGone, Running
<1>6. CASE WorkerStep(k)
  <2>1. Running(k)
    BY <1>6 DEF WorkerStep, WorkerProbe, WorkerAccept, WorkerHandshake, Running
  <2>2. CASE \E t \in {"established", "failed"} : Post(k, t)
    BY <1>4, <2>1, <2>2
  <2>3. CASE linkQ' = linkQ /\ \E s \in {"accepting", "handshake"} :
                \/ wk' = [wk EXCEPT ![k].stage = s]
                \/ wk' = [wk EXCEPT ![k].stage = s, ![k].sock = "open"]
    <3>1. \A l \in Links : Running(l)' => Running(l)
      BY <2>1, <2>3 DEF Running, IInv, Types, LinkTypes, Workers
    <3>2. QED
      BY <1>3, <2>3, <3>1
  <2>4. QED
    BY <1>6, <2>2, <2>3 DEF WorkerStep, WorkerProbe, WorkerAccept, WorkerHandshake
<1>7. QED
  BY <1>5, <1>6

LEMMA DoConnectOrder == IInv /\ Ordered /\ DoConnect => Ordered'
<1> SUFFICES ASSUME IInv, Ordered, DoConnect PROVE Ordered'
  OBVIOUS
<1>1. /\ Looping /\ linkQ' = Tail(linkQ) /\ UNCHANGED <<busy, main>>
      /\ busy = Idle /\ main \notin {"finishing", "gone"} /\ linkQ # <<>>
  BY DEF DoConnect, Handling, Pop, Looping
<1>2. PICK k \in Links :
         /\ k \notin Used
         /\ kl' = [kl EXCEPT ![k] = [obj |-> "alive", conn |-> FALSE, fd |-> FALSE,
                                     worker |-> TRUE, err |-> FALSE, sigs |-> TRUE]]
         /\ wk' = [wk EXCEPT ![k].stage = "probing"]
         /\ acc' = [acc EXCEPT !.link = k, !.owns = TRUE]
  BY NextLink
<1>3. /\ kl'[k].obj = "alive" /\ acc'.link = k
      /\ \A l \in Links : l # k => kl'[l].obj = kl[l].obj /\ (Running(l)' <=> Running(l))
  BY <1>2 DEF Running, IInv, Types, LinkTypes, MemberTypes, Objects, Object, Workers
<1>4. Ev("delete", k) \notin Queued
  BY <1>2, Events DEF IInv, Created
<1>5. Queued' \subseteq Queued
  BY <1>1, PopEvent DEF Queued, Rest, IInv, Types, ThreadTypes
<1>6. \A t, l : Busy(t, l)' <=> Busy(t, l)
  BY <1>1 DEF Busy
<1>7. \A l \in Links : ~Busy("delete", l) /\ ~Busy("disconnect", l)
  BY <1>1 DEF Busy, Idle
<1>8. SUFFICES ASSUME NEW l \in Links
               PROVE  /\ After(linkQ', l)
                      /\ Ev("delete", l) \in Queued'
                            => (~Running(l)' /\ acc'.link # l /\ kl'[l].obj = "alive")
                      /\ kl'[l].obj = "dead" => Queued' \cap Ours(l) = {}
                      /\ acc'.link = l => kl'[l].obj = "alive"
  BY <1>6, <1>7 DEF Ordered
<1>9. /\ After(linkQ, l)
      /\ Ev("delete", l) \in Queued \/ Busy("delete", l)
            => ~Running(l) /\ acc.link # l /\ kl[l].obj = "alive"
      /\ Busy("delete", l) \/ kl[l].obj = "dead" => Queued \cap Ours(l) = {}
  BY <1>1 DEF Ordered
<1>10. After(linkQ', l)
  BY <1>1, <1>9, AfterTake DEF IInv, Types, ThreadTypes
<1>11. QED
  BY <1>3, <1>4, <1>5, <1>9, <1>10

LEMMA DisconnectOrder == IInv /\ Ordered /\ DoDisconnect => Ordered'
<1> SUFFICES ASSUME IInv, Ordered, DoDisconnect PROVE Ordered'
  OBVIOUS
<1>1. Looping /\ linkQ # <<>> /\ busy = Idle /\ main \notin {"finishing", "gone"} /\ kl' = kl
  BY DEF DoDisconnect, Handling, Looping
<1>2. acc'.link = acc.link
  BY DEF DoDisconnect, Disconnected, IInv, Types, MemberTypes
<1>3. busy' = busy \/ (busy' = [op |-> "disconnect", on |-> acc.link])
  BY DEF DoDisconnect, Disconnected
<1>4. \A l \in Links : Running(l)' => Running(l)
  BY DEF DoDisconnect, RequestCancel, Running, IInv, Types, LinkTypes, Workers
<1>5. Posts(Tail(linkQ), linkQ')
  <2>1. acc.tickle # NoLink => Ev("tickDelete", acc.tickle) \in Event
    BY Events DEF Owned, IInv, Types, MemberTypes
  <2>2. QED
    BY <2>1, Events DEF DoDisconnect, Posts
<1>6. \A l \in Links : /\ ~Busy("delete", l)'
                       /\ Busy("disconnect", l)' => acc'.link = l
  BY <1>1, <1>2, <1>3 DEF Busy, Idle
<1>7. QED
  BY <1>1, <1>2, <1>4, <1>5, <1>6, KeepsOrder

(* A delete is posted for the link that was current.                       *)
LEMMA DeletePosted ==
    ASSUME IInv, Ordered, main \notin {"finishing", "gone"}, busy' = Idle,
           NEW k \in Links, acc.link = k, acc'.link = NoLink, ~Running(k)',
           \A l \in Links : (Running(l)' => Running(l)) /\ kl'[l].obj = kl[l].obj,
           NEW q \in Seq(Event), linkQ' = Append(q, Ev("delete", k)),
           \A l \in Links : After(q, l) /\ Elems(q) \cap Ours(l) \subseteq Queued
    PROVE  Ordered'
<1> DEFINE e == Ev("delete", k)
<1>1. e \in Event /\ \A l \in Links : l # k => e \notin Ours(l) /\ e # Ev("delete", l)
  BY Events DEF Owned, Ours
<1>2. Queued' = Elems(q) \cup {e}
  BY <1>1, Posting DEF Queued
<1>3. /\ \A l \in Links : Ev("delete", l) \in Queued => acc.link # l
      /\ kl[k].obj = "alive"
  BY DEF Ordered
<1>4. e \notin Elems(q) /\ linkQ' = Append(q, e)
  BY <1>3 DEF Ours
<1> HIDE DEF e
<1>5. SUFFICES ASSUME NEW l \in Links
               PROVE  /\ After(linkQ', l)
                      /\ Ev("delete", l) \in Queued'
                            => (~Running(l)' /\ acc'.link # l /\ kl'[l].obj = "alive")
                      /\ kl'[l].obj = "dead" => Queued' \cap Ours(l) = {}
                      /\ acc'.link # l /\ ~Busy("delete", l)' /\ ~Busy("disconnect", l)'
  BY DEF Ordered
<1>6. /\ Ev("delete", l) \in Queued => ~Running(l) /\ kl[l].obj = "alive"
      /\ kl[l].obj = "dead" => Queued \cap Ours(l) = {}
  BY DEF Ordered
<1>7. After(linkQ', l)
  <2>1. e \notin Ours(l) \/ Ev("delete", l) \notin Elems(q)
    BY <1>1, <1>4 DEF e
  <2>2. QED
    BY <1>1, <1>4, <2>1, AfterPost
<1>8. ~Busy("delete", l)' /\ ~Busy("disconnect", l)' /\ acc'.link # l
  BY Kinds DEF Busy, Idle
<1>9. Ev("delete", l) \in Queued' => (~Running(l)' /\ kl'[l].obj = "alive")
  <2>1. CASE l = k
    BY <1>3, <2>1
  <2>2. CASE l # k
    <3>1. Ev("delete", l) \in Queued' => Ev("delete", l) \in Queued
      BY <1>1, <1>2, <2>2 DEF Ours
    <3>2. QED
      BY <1>6, <3>1
  <2>3. QED
    BY <2>1, <2>2
<1>10. kl'[l].obj = "dead" => Queued' \cap Ours(l) = {}
  BY <1>1, <1>2, <1>3, <1>6
<1>11. QED
  BY <1>7, <1>8, <1>9, <1>10

LEMMA FailedOrder == IInv /\ Ordered /\ Failed => Ordered'
<1> SUFFICES ASSUME IInv, Ordered, Failed PROVE Ordered'
  OBVIOUS
<1> DEFINE q == Tail(linkQ) \o StopEvents(Owner)
<1>1. /\ Looping /\ linkQ # <<>> /\ busy = Idle /\ main \notin {"finishing", "gone"}
      /\ Owner \in Links /\ \A k \in Links : ~Running(k)
  <2>1. Handling("failed")
    BY DEF Failed
  <2>2. QED
    BY <2>1, ResultTaken DEF Looping
<1>2. /\ UNCHANGED <<wk, busy, main>>
      /\ \A k \in Links : kl'[k].obj = kl[k].obj /\ Running(k)' = Running(k)
  BY DEF Failed, Running, IInv, Types, LinkTypes, Objects, Object
<1>3. /\ Tail(linkQ) \in Seq(Event) /\ q \in Seq(Event) /\ Posts(Tail(linkQ), q)
      /\ Elems(Tail(linkQ)) \subseteq Queued
  BY <1>1, StopsPosted, PopEvent DEF IInv, Types, ThreadTypes, Rest
<1>4. \/ linkQ' = q /\ acc' = acc
      \/ linkQ' = q \o <<>> /\ acc'.link = NoLink /\ acc.link = NoLink
      \/ /\ acc.link # NoLink /\ acc'.link = NoLink
         /\ linkQ' = q \o <<Ev("delete", acc.link)>>
  BY DEF Failed, IInv, Types, MemberTypes
<1> HIDE DEF q
<1>5. CASE linkQ' = q /\ acc'.link = acc.link
  <2>1. \A l \in Links : ~Busy("delete", l)' /\ ~Busy("disconnect", l)'
    BY <1>1, <1>2 DEF Busy, Idle
  <2>2. QED
    BY <1>1, <1>2, <1>3, <1>5, <2>1, KeepsOrder
<1>6. CASE acc.link # NoLink /\ acc'.link = NoLink /\ linkQ' = q \o <<Ev("delete", acc.link)>>
  <2>1. acc.link \in Links
    BY <1>6 DEF IInv, Types, MemberTypes
  <2>2. linkQ' = Append(q, Ev("delete", acc.link))
    <3>1. Ev("delete", acc.link) \in Event
      BY <2>1, Events DEF Owned
    <3>2. q \o <<Ev("delete", acc.link)>> = Append(q, Ev("delete", acc.link))
      BY <1>3, <3>1, PostMore
    <3>3. QED
      BY <1>6, <3>2
  <2>3. ASSUME NEW l \in Links
        PROVE  After(q, l) /\ Elems(q) \cap Ours(l) \subseteq Queued
    <3>1. After(Tail(linkQ), l)
      BY <1>1, AfterTake DEF Ordered, IInv, Types, ThreadTypes
    <3>2. CASE q = Tail(linkQ)
      BY <1>3, <3>1, <3>2
    <3>3. ASSUME NEW e \in Event, e.t \notin {"established", "failed", "delete"},
                 q = Append(Tail(linkQ), e)
          PROVE  After(q, l) /\ Elems(q) \cap Ours(l) \subseteq Queued
      <4>1. e \notin Ours(l)
        BY <3>3, Events DEF Ours
      <4>2. Elems(q) = Elems(Tail(linkQ)) \cup {e}
        <5> DEFINE s == Tail(linkQ)
        <5>1. s \in Seq(Event) /\ q = Append(s, e)
          BY <1>3, <3>3
        <5> HIDE DEF s
        <5>2. Elems(Append(s, e)) = Elems(s) \cup {e}
          BY <3>3, <5>1, Posting
        <5>3. QED
          BY <5>1, <5>2 DEF s
      <4>3. QED
        BY <1>3, <3>1, <3>3, <4>1, <4>2, AfterPost
    <3>4. QED
      BY <1>3, <3>2, <3>3 DEF Posts
  <2>4. QED
    BY <1>1, <1>2, <1>3, <1>6, <2>1, <2>2, <2>3, DeletePosted
<1>7. QED
  BY <1>3, <1>4, <1>5, <1>6, PostMore

LEMMA DisconnectedOrder == IInv /\ Ordered /\ DisconnectReturns => Ordered'
<1> SUFFICES ASSUME IInv, Ordered, DisconnectReturns PROVE Ordered'
  OBVIOUS
<1> DEFINE k == busy.on
<1>1. /\ k \in Links /\ busy = [op |-> "disconnect", on |-> k]
      /\ main \notin {"finishing", "gone"} /\ linkQ \in Seq(Event)
  BY DEF DisconnectReturns, IInv, Types, ThreadTypes, Blocked, Waiting, Idle
<1>2. acc.link = k /\ acc'.link = NoLink /\ busy' = Idle
      /\ linkQ' = Append(linkQ, Ev("delete", k))
  BY <1>1 DEF DisconnectReturns, Disconnected, Ordered, Busy, IInv, Types, MemberTypes
<1>3. ~Running(k)
  BY <1>1 DEF DisconnectReturns, Finished, IInv, Attempted
<1>4. \A l \in Links : (Running(l)' <=> Running(l)) /\ kl'[l].obj = kl[l].obj
  BY <1>1 DEF DisconnectReturns, CloseLink, Running, IInv, Types, LinkTypes, Workers,
              Objects, Object
<1> HIDE DEF k
<1>5. \A l \in Links : After(linkQ, l) /\ Elems(linkQ) \cap Ours(l) \subseteq Queued
  BY <1>1 DEF Ordered, Queued
<1>6. QED
  BY <1>1, <1>2, <1>3, <1>4, <1>5, DeletePosted

LEMMA DeleteOrder == IInv /\ Ordered /\ (DeleteLink \/ DeleteChild) => Ordered'
<1> SUFFICES ASSUME IInv, Ordered, DeleteLink \/ DeleteChild PROVE Ordered'
  OBVIOUS
<1>1. CASE DeleteChild
  BY <1>1 DEF DeleteChild, Delete, Ordered
<1>2. CASE DeleteLink
  <2> DEFINE k == Owner
  <2>1. /\ Looping /\ linkQ # <<>> /\ busy = Idle /\ main \notin {"finishing", "gone"}
        /\ linkQ' = Tail(linkQ) /\ busy' = [op |-> "delete", on |-> k]
        /\ UNCHANGED <<acc, kl, main>> /\ Head(linkQ).t = "delete"
    BY <1>2 DEF DeleteLink, Delete, Handling, Looping, Pop
  <2>2. /\ Head(linkQ) \in Event /\ Queued = {Head(linkQ)} \cup Rest /\ linkQ \in Seq(Event)
    BY <2>1, PopEvent DEF IInv, Types, ThreadTypes
  <2>3. k \in Links /\ Head(linkQ) = Ev("delete", k)
    BY <2>1, <2>2, Events DEF Owner, Plain
  <2>4. \A l \in Links : Running(l)' => Running(l)
    BY <1>2, <2>3 DEF DeleteLink, Delete, RequestCancel, Running, IInv, Types, LinkTypes, Workers
  <2>5. Queued' = Rest /\ Rest \cap Ours(k) = {} /\ \A l \in Links : After(linkQ', l)
    BY <2>1, <2>2, <2>3, AfterTake DEF Ordered, Queued, Rest
  <2> HIDE DEF k
  <2>6. SUFFICES ASSUME NEW l \in Links
                 PROVE  /\ Ev("delete", l) \in Queued' \/ Busy("delete", l)'
                              => (~Running(l)' /\ acc'.link # l /\ kl'[l].obj = "alive")
                        /\ (Busy("delete", l)' \/ kl'[l].obj = "dead")
                              => Queued' \cap Ours(l) = {}
                        /\ acc'.link = l => kl'[l].obj = "alive"
                        /\ ~Busy("disconnect", l)'
    BY <2>5 DEF Ordered
  <2>7. /\ Ev("delete", l) \in Queued => ~Running(l) /\ acc.link # l /\ kl[l].obj = "alive"
        /\ kl[l].obj = "dead" => Queued \cap Ours(l) = {}
        /\ acc.link = l => kl[l].obj = "alive"
    BY <2>1 DEF Ordered
  <2>8. ~Busy("disconnect", l)' /\ (Busy("delete", l)' => l = k)
    BY <2>1 DEF Busy
  <2>9. Ev("delete", l) \in Queued' \/ Busy("delete", l)'
           => (~Running(l)' /\ acc'.link # l /\ kl'[l].obj = "alive")
    BY <2>1, <2>2, <2>3, <2>4, <2>5, <2>7, <2>8
  <2>10. QED
    BY <2>1, <2>2, <2>5, <2>7, <2>8, <2>9
<1>3. QED
  BY <1>1, <1>2

LEMMA DeletedOrder == IInv /\ Ordered /\ (DeleteReturns \/ LinkThreadFinishes) => Ordered'
<1> SUFFICES ASSUME IInv, Ordered, DeleteReturns \/ LinkThreadFinishes PROVE Ordered'
  OBVIOUS
<1>1. CASE LinkThreadFinishes
  BY <1>1 DEF LinkThreadFinishes, Ordered
<1>2. CASE DeleteReturns
  <2> DEFINE k == busy.on
  <2>1. /\ k \in Links /\ busy = [op |-> "delete", on |-> k] /\ busy' = Idle
        /\ UNCHANGED <<acc, linkQ, main>>
    BY <1>2 DEF DeleteReturns, IInv, Types, ThreadTypes, Idle
  <2>2. /\ kl'[k].obj = "dead"
        /\ \A l \in Links : (l # k => kl'[l].obj = kl[l].obj) /\ (Running(l)' <=> Running(l))
    BY <1>2, <2>1 DEF DeleteReturns, Running, IInv, Types, LinkTypes, Objects, Object, Workers
  <2> HIDE DEF k
  <2>3. SUFFICES ASSUME main \notin {"finishing", "gone"}, NEW l \in Links
                 PROVE  /\ After(linkQ', l)
                        /\ Ev("delete", l) \in Queued'
                              => (~Running(l)' /\ acc'.link # l /\ kl'[l].obj = "alive")
                        /\ kl'[l].obj = "dead" => Queued' \cap Ours(l) = {}
                        /\ acc'.link = l => kl'[l].obj = "alive"
                        /\ ~Busy("delete", l)' /\ ~Busy("disconnect", l)'
    BY <2>1 DEF Ordered
  <2>4. /\ After(linkQ, l)
        /\ Ev("delete", l) \in Queued \/ Busy("delete", l)
              => ~Running(l) /\ acc.link # l /\ kl[l].obj = "alive"
        /\ Busy("delete", l) \/ kl[l].obj = "dead" => Queued \cap Ours(l) = {}
        /\ acc.link = l => kl[l].obj = "alive"
        /\ Busy("delete", l) <=> l = k
    BY <2>1, <2>3 DEF Ordered, Busy
  <2>5. ~Busy("delete", l)' /\ ~Busy("disconnect", l)'
    BY <2>1 DEF Busy, Idle
  <2>6. Queued' = Queued /\ (l = k => Ev("delete", l) \notin Queued)
    BY <2>1, <2>4 DEF Queued, Ours
  <2>7. CASE l = k
    BY <2>1, <2>4, <2>5, <2>6, <2>7
  <2>8. CASE l # k
    BY <2>1, <2>2, <2>4, <2>5, <2>6, <2>8
  <2>9. QED
    BY <2>7, <2>8
<1>3. QED
  BY <1>1, <1>2

LEMMA Ordering == Spec => []Ordered
<1>1. Init => Ordered
  <2> SUFFICES ASSUME Init PROVE Ordered
    OBVIOUS
  <2>1. /\ Queued = {} /\ busy = Idle /\ acc.link = NoLink
        /\ \A l \in Links : kl[l].obj = "none" /\ After(linkQ, l)
    BY DEF Init, Queued, Elems, After
  <2>2. QED
    BY <2>1, Kinds DEF Ordered, Busy, Idle
<1>2. IInv /\ Ordered /\ [Next]_vars => Ordered'
  <2> SUFFICES ASSUME IInv, Ordered, [Next]_vars PROVE Ordered'
    OBVIOUS
  <2>1. CASE MainStep
    BY <2>1, MainOrder
  <2>2. CASE LinkStep
    BY <2>2, QuietOrder, DoConnectOrder, DisconnectOrder, FailedOrder, DisconnectedOrder,
       DeleteOrder, DeletedOrder DEF LinkStep
  <2>3. CASE EngineCheck \/ EnginePost
    BY <2>3, QuietOrder
  <2>4. CASE \E l \in Links : WorkerStep(l) \/ SendTick(l) \/ DeviceGone(l)
    BY <2>4, WorkerOrder
  <2>5. CASE UNCHANGED vars
    <3>1. UNCHANGED <<acc, kl, wk, linkQ, busy, main>>
      BY <2>5 DEF vars
    <3>2. QED
      BY <3>1 DEF Ordered, Queued, After, Busy, Running
  <2>6. QED
    BY <2>1, <2>2, <2>3, <2>4, <2>5 DEF Next
<1>3. QED
  BY <1>1, <1>2, Invariant, PTL DEF Spec

(* While the link thread handles events, every result and every delete in  *)
(* its queue is for a link that is alive: deleteLater and the wait for the *)
(* worker in closeConnection leave nothing for a link that is gone, so no  *)
(* handler of a deleted KPilotDeviceLink is ever due.                      *)
THEOREM NoneForDead ==
    Spec => [](main \notin {"finishing", "gone"} =>
                 \A i \in DOMAIN linkQ :
                    linkQ[i].t \in {"established", "failed", "delete"}
                       => kl[linkQ[i].l].obj = "alive")
<1>1. IInv /\ Ordered => (main \notin {"finishing", "gone"} =>
                 \A i \in DOMAIN linkQ :
                    linkQ[i].t \in {"established", "failed", "delete"}
                       => kl[linkQ[i].l].obj = "alive")
  <2> SUFFICES ASSUME IInv, Ordered, main \notin {"finishing", "gone"}, NEW i \in DOMAIN linkQ,
                      linkQ[i].t \in {"established", "failed", "delete"}
               PROVE  kl[linkQ[i].l].obj = "alive"
    OBVIOUS
  <2> DEFINE e == linkQ[i]
  <2>1. e \in Queued /\ e \in Event
    BY DEF Queued, Elems, IInv, Types, ThreadTypes
  <2>2. e.l \in Links /\ e = Ev(e.t, e.l)
    BY <2>1, Events DEF Plain
  <2>3. e \in Ours(e.l)
    BY <2>2 DEF Ours
  <2>4. kl[e.l].obj # "dead"
    BY <2>1, <2>2, <2>3 DEF Ordered
  <2>5. kl[e.l].obj # "none"
    BY <2>1 DEF IInv, Created, Used
  <2>6. kl[e.l].obj \in {"none", "alive", "dead"}
    BY <2>2 DEF IInv, Types, LinkTypes, Objects, Object
  <2>7. QED
    BY <2>4, <2>5, <2>6
<1>2. QED
  BY <1>1, Invariant, Ordering, PTL
=============================================================================
