------------------------ MODULE RecordAccess_proofs -------------------------
(***************************************************************************)
(* The handle discipline of RecordAccess, for any set of databases,        *)
(* records and handles, and what a create reports.  The lemmas follow the  *)
(* calls from the inside out: close, open, flush, read, write.             *)
(***************************************************************************)
EXTENDS RecordAccess, TLAPS

(* A link between two calls.                                               *)
Sound(L) ==
    /\ L \in LinkType
    /\ L.wh = NoHandle <=> L.wdb = NoDb
    /\ L.wh # NoHandle => L.open[L.wh] = L.wdb
    /\ L.conn => \A h \in Handles : L.open[h] # NoDb => h = L.wh \/ h \in L.lost

(* A link inside a scope that holds handle `h': nothing is cached.         *)
Scoped(L, h) ==
    /\ L \in LinkType
    /\ L.wh = NoHandle /\ L.wdb = NoDb
    /\ h \in Handles /\ L.open[h] \in Dbs
    /\ L.conn => \A k \in Handles : L.open[k] # NoDb => k = h \/ k \in L.lost

-----------------------------------------------------------------------------
(* An error touches nothing but the status and the connection flag.        *)
LEMMA ErrorSound ==
    ASSUME NEW L, NEW K \in {Err(L), Dead(L)}, L \in LinkType
    PROVE  /\ K \in LinkType
           /\ K.wh = L.wh /\ K.wdb = L.wdb /\ K.open = L.open /\ K.lost = L.lost
           /\ K.conn => L.conn
           /\ Sound(L) => Sound(K)
           /\ \A h : Scoped(L, h) => Scoped(K, h)
<1>1. /\ K \in LinkType
      /\ K.wh = L.wh /\ K.wdb = L.wdb /\ K.open = L.open /\ K.lost = L.lost
      /\ K.conn => L.conn
  BY DEF Err, Dead, LinkType
<1>2. Sound(L) => Sound(K)
  BY <1>1 DEF Sound
<1>3. \A h : Scoped(L, h) => Scoped(K, h)
  BY <1>1 DEF Scoped
<1> QED BY <1>1, <1>2, <1>3

(* Closing a handle closes it, loses it, or finds the link dead.           *)
LEMMA CloseGives ==
    ASSUME NEW L \in LinkType, NEW h \in Handles, NEW K \in CloseDatabase(L, h)
    PROVE  /\ K \in LinkType
           /\ K.wh = L.wh /\ K.wdb = L.wdb /\ K.conn = L.conn
           /\ L.lost \subseteq K.lost
           /\ \A k \in Handles \ {h} : K.open[k] = L.open[k]
           /\ K.conn => K.open[h] = NoDb \/ h \in K.lost
<1>1. CASE ~L.conn
  BY <1>1, ErrorSound DEF CloseDatabase, LinkType
<1>2. CASE L.conn /\ K = [L EXCEPT !.open[h] = NoDb]
  BY <1>2 DEF LinkType
<1>3. CASE L.conn /\ K = [Err(L) EXCEPT !.open[h] = NoDb]
  BY <1>3 DEF LinkType, Err
<1>4. CASE L.conn /\ K = [Err(L) EXCEPT !.lost = @ \cup {h}]
  BY <1>4 DEF LinkType, Err
<1> QED BY <1>1, <1>2, <1>3, <1>4 DEF CloseDatabase, Failing, LinkType

(* A flush leaves a sound link without a cached handle.                    *)
LEMMA FlushSound ==
    ASSUME ConstantsAssumption, NEW L, Sound(L), NEW K \in FlushWriteHandle(L)
    PROVE  Sound(K) /\ K.wh = NoHandle
<1>1. CASE L.wh = NoHandle
  <2>1. K = [L EXCEPT !.wh = NoHandle, !.wdb = NoDb]
    BY <1>1 DEF FlushWriteHandle
  <2>2. /\ K \in LinkType /\ K.wh = NoHandle /\ K.wdb = NoDb
        /\ K.open = L.open /\ K.conn = L.conn /\ K.lost = L.lost
    BY <2>1 DEF Sound, LinkType
  <2> QED BY <1>1, <2>2 DEF Sound
<1>2. CASE L.wh # NoHandle
  <2>1. PICK C \in CloseDatabase(L, L.wh) : K = [C EXCEPT !.wh = NoHandle, !.wdb = NoDb]
    BY <1>2 DEF FlushWriteHandle
  <2>2. L \in LinkType /\ L.wh \in Handles
    BY <1>2 DEF Sound, LinkType
  <2>3. /\ C \in LinkType /\ C.conn = L.conn /\ L.lost \subseteq C.lost
        /\ \A k \in Handles \ {L.wh} : C.open[k] = L.open[k]
        /\ C.conn => C.open[L.wh] = NoDb \/ L.wh \in C.lost
    BY <2>1, <2>2, CloseGives
  <2>4. /\ K \in LinkType /\ K.wh = NoHandle /\ K.wdb = NoDb
        /\ K.open = C.open /\ K.conn = C.conn /\ K.lost = C.lost
    BY <2>1, <2>3 DEF LinkType
  <2> QED BY <2>2, <2>3, <2>4 DEF Sound
<1> QED BY <1>1, <1>2

(* Opening a database gives a scope on it, or fails.                       *)
LEMMA OpenGives ==
    ASSUME ConstantsAssumption, NEW L, Sound(L), L.wh = NoHandle,
           NEW db \in Dbs, NEW o \in OpenDatabase(L, db)
    PROVE  /\ o = [l |-> o.l, h |-> o.h]
           /\ \/ o.h = NoHandle /\ Sound(o.l) /\ o.l.wh = NoHandle
              \/ Scoped(o.l, o.h) /\ o.l.open[o.h] = db /\ o.l.conn
<1>0. L \in LinkType
  BY DEF Sound
<1>1. CASE \E k \in {Err(L), Dead(L)} : o = [l |-> k, h |-> NoHandle]
  BY <1>0, <1>1, ErrorSound
<1>2. CASE L.conn /\ \E h \in Handles : /\ L.open[h] = NoDb
                                         /\ o = [l |-> [L EXCEPT !.open[h] = db], h |-> h]
  <2>1. PICK h \in Handles : /\ L.open[h] = NoDb
                              /\ o = [l |-> [L EXCEPT !.open[h] = db], h |-> h]
    BY <1>2
  <2>2. Scoped([L EXCEPT !.open[h] = db], h)
    BY <1>0, <1>2, <2>1 DEF Scoped, Sound, LinkType, ConstantsAssumption
  <2>3. [L EXCEPT !.open[h] = db].open[h] = db /\ [L EXCEPT !.open[h] = db].conn
    BY <1>0, <1>2 DEF LinkType
  <2> QED BY <2>1, <2>2, <2>3
<1> QED BY <1>1, <1>2 DEF OpenDatabase, Failing

LEMMA ScopeGives ==
    ASSUME ConstantsAssumption, NEW L, Sound(L),
           NEW db \in Dbs, NEW o \in ScopeOpened(L, db)
    PROVE  \/ o.h = NoHandle /\ Sound(o.l) /\ o.l.wh = NoHandle
           \/ Scoped(o.l, o.h) /\ o.l.open[o.h] = db /\ o.l.conn
<1>1. PICK k \in FlushWriteHandle(L) : o \in OpenDatabase(k, db)
  BY DEF ScopeOpened
<1>2. Sound(k) /\ k.wh = NoHandle
  BY <1>1, FlushSound
<1> QED BY <1>1, <1>2, OpenGives

(* Leaving a scope.                                                        *)
LEMMA ScopeCloses ==
    ASSUME ConstantsAssumption, NEW L, NEW h, Scoped(L, h), NEW K \in CloseDatabase(L, h)
    PROVE  Sound(K)
<1>1. L \in LinkType /\ h \in Handles
  BY DEF Scoped
<1>2. /\ K \in LinkType
      /\ K.wh = L.wh /\ K.wdb = L.wdb /\ K.conn = L.conn
      /\ L.lost \subseteq K.lost
      /\ \A k \in Handles \ {h} : K.open[k] = L.open[k]
      /\ K.conn => K.open[h] = NoDb \/ h \in K.lost
  BY <1>1, CloseGives
<1> QED BY <1>2 DEF Sound, Scoped

LEMMA ReadKeepsScope ==
    ASSUME NEW L, NEW h, Scoped(L, h), NEW list \in List, NEW r \in ReadRecords(L, list)
    PROVE  /\ r = [l |-> r.l, list |-> r.list]
           /\ Scoped(r.l, h) /\ r.list \in List
<1>0. L \in LinkType
  BY DEF Scoped
<1>1. CASE r = [l |-> Err(L), list |-> Empty]
  BY <1>0, <1>1, ErrorSound DEF List, Empty
<1>2. CASE r = [l |-> L, list |-> list]
  BY <1>2
<1>3. CASE \E k \in {Err(L), Dead(L)}, S \in SUBSET Ids :
              r = [l |-> k, list |-> [i \in Ids |-> IF i \in S THEN list[i] ELSE NoRec]]
  <2>1. PICK k \in {Err(L), Dead(L)}, S \in SUBSET Ids :
           r = [l |-> k, list |-> [i \in Ids |-> IF i \in S THEN list[i] ELSE NoRec]]
    BY <1>3
  <2>2. Scoped(k, h)
    BY <1>0, ErrorSound
  <2>3. [i \in Ids |-> IF i \in S THEN list[i] ELSE NoRec] \in List
    BY DEF List
  <2> QED BY <2>1, <2>2, <2>3
<1> QED BY <1>1, <1>2, <1>3 DEF ReadRecords, Failing

(* Reading all records of a database leaves a sound link.                  *)
LEMMA ReadAllSound ==
    ASSUME ConstantsAssumption, device \in [Dbs -> List], NEW L, Sound(L),
           NEW db \in Dbs, NEW r \in ReadAllRecords(L, db)
    PROVE  Sound(r.l) /\ r.list \in List
<1>1. PICK o \in ScopeOpened(L, db) :
          r \in IF o.h = NoHandle
                THEN {[l |-> o.l, list |-> Empty]}
                ELSE UNION {{[q EXCEPT !.l = k] : k \in CloseDatabase(q.l, o.h)} :
                               q \in ReadRecords(o.l, device[o.l.open[o.h]])}
  BY DEF ReadAllRecords
<1>2. CASE o.h = NoHandle
  <2>1. Sound(o.l)
    BY <1>2, ScopeGives DEF Scoped, ConstantsAssumption
  <2> QED BY <1>1, <1>2, <2>1 DEF List, Empty
<1>3. CASE o.h # NoHandle
  <2>1. Scoped(o.l, o.h) /\ o.l.open[o.h] = db
    BY <1>3, ScopeGives
  <2>2. PICK q \in ReadRecords(o.l, device[o.l.open[o.h]]) :
            r \in {[q EXCEPT !.l = k] : k \in CloseDatabase(q.l, o.h)}
    BY <1>1, <1>3
  <2>3. q = [l |-> q.l, list |-> q.list] /\ Scoped(q.l, o.h) /\ q.list \in List
    BY <2>1, <2>2, ReadKeepsScope
  <2>4. PICK k \in CloseDatabase(q.l, o.h) : r = [q EXCEPT !.l = k]
    BY <2>2
  <2>5. Sound(k)
    BY <2>3, <2>4, ScopeCloses
  <2>6. r.l = k /\ r.list = q.list
    BY <2>3, <2>4
  <2> QED BY <2>3, <2>5, <2>6
<1> QED BY <1>2, <1>3

LEMMA ScopedCallSound ==
    ASSUME ConstantsAssumption, NEW L, Sound(L), NEW db \in Dbs,
           NEW K \in ScopedCall(L, db)
    PROVE  Sound(K)
<1>1. PICK o \in ScopeOpened(L, db) :
          K \in IF o.h = NoHandle THEN {o.l}
                ELSE UNION {CloseDatabase(k, o.h) :
                               k \in IF o.l.conn THEN {o.l} \cup Failing({Err(o.l)})
                                     ELSE {Err(o.l)}}
  BY DEF ScopedCall
<1>2. CASE o.h = NoHandle
  BY <1>1, <1>2, ScopeGives DEF Scoped, ConstantsAssumption
<1>3. CASE o.h # NoHandle
  <2>1. Scoped(o.l, o.h)
    BY <1>3, ScopeGives
  <2>2. PICK k \in {o.l, Err(o.l)} : K \in CloseDatabase(k, o.h)
    BY <1>1, <1>3 DEF Failing
  <2>3. Scoped(k, o.h)
    BY <2>1, ErrorSound DEF Scoped
  <2> QED BY <2>2, <2>3, ScopeCloses
<1> QED BY <1>2, <1>3

-----------------------------------------------------------------------------
(* The write handle is open on the database asked for.                     *)
LEMMA EnsureGives ==
    ASSUME ConstantsAssumption, NEW L, Sound(L),
           NEW db \in Dbs, NEW o \in EnsureWriteHandle(L, db)
    PROVE  /\ Sound(o.l)
           /\ o.h # NoHandle => o.h \in Handles /\ o.l.open[o.h] = db
<1>1. CASE L.wh # NoHandle /\ L.wdb = db
  BY <1>1 DEF EnsureWriteHandle, Sound, LinkType
<1>2. CASE ~(L.wh # NoHandle /\ L.wdb = db)
  <2>0. PICK k \in FlushWriteHandle(L) :
            o \in {IF p.h = NoHandle THEN p ELSE [p EXCEPT !.l.wh = p.h, !.l.wdb = db] :
                      p \in OpenDatabase(k, db)}
    BY <1>2 DEF EnsureWriteHandle
  <2>1. PICK p \in OpenDatabase(k, db) :
            o = IF p.h = NoHandle THEN p ELSE [p EXCEPT !.l.wh = p.h, !.l.wdb = db]
    BY <2>0
  <2>2. Sound(k) /\ k.wh = NoHandle
    BY <2>0, FlushSound
  <2>3. /\ p = [l |-> p.l, h |-> p.h]
        /\ \/ p.h = NoHandle /\ Sound(p.l)
           \/ Scoped(p.l, p.h) /\ p.l.open[p.h] = db /\ p.l.conn
    BY <2>1, <2>2, OpenGives
  <2>4. CASE p.h = NoHandle
    BY <2>1, <2>3, <2>4 DEF Scoped, ConstantsAssumption
  <2>5. CASE p.h # NoHandle
    <3>1. Scoped(p.l, p.h) /\ p.l.open[p.h] = db
      BY <2>3, <2>5
    <3>2. o.h = p.h /\ o.l = [p.l EXCEPT !.wh = p.h, !.wdb = db]
      BY <2>1, <2>3, <2>5
    <3>3. Sound([p.l EXCEPT !.wh = p.h, !.wdb = db])
      BY <3>1 DEF Sound, Scoped, LinkType, ConstantsAssumption
    <3>4. o.l.open = p.l.open
      BY <3>1, <3>2 DEF Scoped, LinkType
    <3> QED BY <3>1, <3>2, <3>3, <3>4 DEF Scoped
  <2> QED BY <2>4, <2>5
<1> QED BY <1>1, <1>2

(* A write reaches the database it was meant for and no other; when it is  *)
(* reported to have worked, it has.                                        *)
LEMMA WriteThroughGives ==
    ASSUME ConstantsAssumption, device \in [Dbs -> List], NEW L, Sound(L),
           NEW db \in Dbs, NEW i \in Ids, NEW new \in Values \cup {NoRec},
           NEW w \in WriteThrough(L, db, i, new)
    PROVE  /\ Sound(w.l) /\ w.ok \in BOOLEAN
           /\ w.dev \in [Dbs -> List]
           /\ \A d \in Dbs \ {db} : w.dev[d] = device[d]
           /\ w.ok => w.dev[db][i] = new
<1>1. PICK o \in EnsureWriteHandle(L, db) :
          w \in IF o.h = NoHandle
                THEN {[l |-> o.l, dev |-> device, ok |-> FALSE]}
                ELSE {[l |-> c.l, dev |-> [device EXCEPT ![o.l.open[o.h]] = c.list],
                       ok |-> c.ok] :
                         c \in ChangeRecord(o.l, device[o.l.open[o.h]], i, new)}
  BY DEF WriteThrough
<1>2. Sound(o.l) /\ (o.h # NoHandle => o.l.open[o.h] = db)
  BY <1>1, EnsureGives
<1>3. CASE o.h = NoHandle
  <2>1. w = [l |-> o.l, dev |-> device, ok |-> FALSE]
    BY <1>1, <1>3
  <2>2. w.l = o.l /\ w.dev = device /\ w.ok = FALSE
    BY <2>1
  <2> QED BY <1>2, <2>2
<1>4. CASE o.h # NoHandle
  <2>1. PICK c \in ChangeRecord(o.l, device[db], i, new) :
            w = [l |-> c.l, dev |-> [device EXCEPT ![db] = c.list], ok |-> c.ok]
    BY <1>1, <1>2, <1>4
  <2>2. device[db] \in List /\ [device[db] EXCEPT ![i] = new] \in List
    BY DEF List
  <2>3. /\ c.l \in {o.l, Err(o.l)}
        /\ c.list \in {device[db], [device[db] EXCEPT ![i] = new]}
        /\ c.ok \in BOOLEAN
        /\ c.ok => c.list = [device[db] EXCEPT ![i] = new]
    <3>1. \/ c = [l |-> Err(o.l), list |-> device[db], ok |-> FALSE]
          \/ c = [l |-> o.l, list |-> [device[db] EXCEPT ![i] = new], ok |-> TRUE]
          \/ \E k \in {device[db], [device[db] EXCEPT ![i] = new]} :
                 c = [l |-> Err(o.l), list |-> k, ok |-> FALSE]
      BY Zenon DEF ChangeRecord, Failing
    <3>2. ASSUME NEW k, c = [l |-> Err(o.l), list |-> k, ok |-> FALSE]
          PROVE  c.l = Err(o.l) /\ c.list = k /\ c.ok = FALSE
      BY <3>2
    <3>3. ASSUME c = [l |-> o.l, list |-> [device[db] EXCEPT ![i] = new], ok |-> TRUE]
          PROVE  c.l = o.l /\ c.list = [device[db] EXCEPT ![i] = new] /\ c.ok = TRUE
      BY <3>3
    <3> QED BY <3>1, <3>2, <3>3
  <2>4. Sound(c.l)
    BY <1>2, <2>3, ErrorSound DEF Sound
  <2>5. c.list \in List /\ (c.ok => c.list[i] = new)
    BY <2>2, <2>3 DEF List
  <2> QED BY <2>1, <2>3, <2>4, <2>5
<1> QED BY <1>3, <1>4

-----------------------------------------------------------------------------
(* The inductive invariant.  Once m_impl is reset there is no cached write *)
(* handle, which is why the link may be closed without looking at it; an   *)
(* engine call that is under way has a database.                           *)
Inv ==
    /\ TypeOK
    /\ Sound(link)
    /\ phase # "open" => link.wh = NoHandle
    /\ eng.at # "idle" => eng.db \in Dbs

LEMMA RestTypes == Idle \in EngType /\ NoAns \in AnsType /\ Empty \in List
<1>1. Empty \in List
  BY DEF Empty, List
<1> QED BY <1>1 DEF Idle, NoAns, EngType, AnsType

LEMMA InvInit == ASSUME ConstantsAssumption, Init PROVE Inv
<1>1. link \in LinkType /\ Sound(link) /\ link.wh = NoHandle /\ link.wdb = NoDb
  BY DEF Init, LinkType, Sound, ConstantsAssumption
<1>2. cache \in [Dbs -> List \cup {NoList}] /\ device \in [Dbs -> List] /\ phase = "open"
  BY DEF Init
<1>3. eng = Idle /\ ans = NoAns /\ eng.at = "idle"
  BY DEF Init, Idle
<1> QED BY <1>1, <1>2, <1>3, RestTypes DEF Inv, TypeOK

(* A write, whatever it reports.                                           *)
LEMMA WriteKeepsInv ==
    ASSUME ConstantsAssumption, Inv, NEW db \in Dbs, NEW i \in Ids,
           NEW new \in Values \cup {NoRec}, NEW created \in [BOOLEAN -> AnsType],
           Write(db, i, new, created)
    PROVE  Inv'
<1>1. eng' = eng /\ phase' = phase
  BY DEF Write
<1>2. CASE Impl
  <2>1. PICK w \in WriteThrough(link, db, i, new) :
            /\ device' = w.dev /\ link' = w.l
            /\ cache' = Uncached(db, w.ok)
            /\ ans' = created[w.ok]
    BY <1>2 DEF Write
  <2>2. Sound(w.l) /\ w.ok \in BOOLEAN /\ w.dev \in [Dbs -> List]
    BY <2>1, WriteThroughGives DEF Inv, TypeOK
  <2>3. cache' \in [Dbs -> List \cup {NoList}]
    BY <2>1 DEF Uncached, Inv, TypeOK
  <2>4. ans' \in AnsType
    BY <2>1, <2>2
  <2> QED BY <1>1, <1>2, <2>1, <2>2, <2>3, <2>4 DEF Inv, TypeOK, Sound, Impl
<1>3. CASE ~Impl
  <2>1. ans' \in AnsType /\ device' = device /\ link' = link /\ cache' = cache
    BY <1>3 DEF Write
  <2> QED BY <1>1, <2>1 DEF Inv, TypeOK, Sound
<1> QED BY <1>2, <1>3

(* The answers a write may give are answers.                               *)
LEMMA CreateAnswerType ==
    ASSUME NEW db \in Dbs, NEW i \in Ids
    PROVE  CreateAnswer(db, i) \in [BOOLEAN -> AnsType]
<1>1. NoAns \in AnsType
  BY RestTypes
<1>2. ASSUME NEW ok \in BOOLEAN
      PROVE  [NoAns EXCEPT !.of = "create", !.db = db, !.ok = ok \/ db \notin Cached,
                           !.id = IF ok THEN i ELSE NoId] \in AnsType
  BY <1>1 DEF AnsType
<1> QED BY <1>2 DEF CreateAnswer

(* Every step keeps the invariant.                                         *)
LEMMA InvNext == ASSUME ConstantsAssumption, Inv, [Next]_vars PROVE Inv'
<1> USE RestTypes
<1>1. ASSUME NEW db \in Dbs, LoadBegin(db) PROVE Inv'
  <2>1. device' = device /\ link' = link /\ phase' = phase /\ cache' = cache
    BY <1>1 DEF LoadBegin
  <2>2. eng' \in EngType /\ ans' \in AnsType /\ (eng'.at # "idle" => eng'.db \in Dbs)
    <3>1. [Idle EXCEPT !.at = "checked", !.db = db] \in EngType
      BY DEF EngType
    <3>2. [Idle EXCEPT !.at = "checked", !.db = db].db = db
      BY DEF Idle
    <3>3. [NoAns EXCEPT !.of = "load", !.db = db] \in AnsType
      BY DEF AnsType
    <3> QED BY <1>1, <3>1, <3>2, <3>3 DEF LoadBegin, Inv, TypeOK, Begin
  <2> QED BY <2>1, <2>2 DEF Inv, TypeOK, Sound
<1>2. CASE LoadRead
  <2>1. device' = device /\ phase' = phase /\ cache' = cache /\ ans' = ans /\ eng.db \in Dbs
    BY <1>2 DEF LoadRead, Inv
  <2>2. CASE Impl
    <3>1. PICK r \in ReadAllRecords(link, eng.db) :
              link' = r.l /\ eng' = [eng EXCEPT !.at = "read", !.list = r.list]
      BY <1>2, <2>2 DEF LoadRead
    <3>2. Sound(r.l) /\ r.list \in List
      BY <2>1, <3>1, ReadAllSound DEF Inv, TypeOK
    <3>3. eng' \in EngType /\ eng'.db = eng.db
      BY <3>1, <3>2 DEF Inv, TypeOK, EngType
    <3> QED BY <2>1, <2>2, <3>1, <3>2, <3>3 DEF Inv, TypeOK, Sound, Impl
  <2>3. CASE ~Impl
    <3>1. link' = link /\ eng' = [eng EXCEPT !.at = "read"]
      BY <1>2, <2>3 DEF LoadRead
    <3>2. eng' \in EngType /\ eng'.db = eng.db
      BY <3>1 DEF Inv, TypeOK, EngType
    <3> QED BY <2>1, <3>1, <3>2 DEF Inv, TypeOK, Sound
  <2> QED BY <2>2, <2>3
<1>3. CASE LoadCheck
  <2>1. device' = device /\ link' = link /\ phase' = phase /\ cache' = cache
        /\ eng' = Idle /\ eng'.at = "idle"
    BY <1>3 DEF LoadCheck, Idle
  <2>2. ans' \in AnsType
    <3>1. eng.list \in List /\ eng.db \in Dbs \cup {NoDb} /\ Connected \in BOOLEAN
      BY DEF Inv, TypeOK, EngType, Connected
    <3> QED BY <1>3, <3>1 DEF LoadCheck, AnsType
  <2> QED BY <2>1, <2>2 DEF Inv, TypeOK, Sound
<1>4. ASSUME NEW db \in Dbs, LoadCached(db) PROVE Inv'
  <2>1. device' = device /\ phase' = phase /\ eng' = eng /\ ans' = NoAns
    BY <1>4 DEF LoadCached
  <2>2. CASE link' = link /\ cache' = cache
    BY <2>1, <2>2 DEF Inv, TypeOK, Sound
  <2>3. CASE Impl /\ \E r \in ReadAllRecords(link, db) :
                link' = r.l /\ cache' = [cache EXCEPT ![db] = r.list]
    <3>1. PICK r \in ReadAllRecords(link, db) :
                link' = r.l /\ cache' = [cache EXCEPT ![db] = r.list]
      BY <2>3
    <3>2. Sound(r.l) /\ r.list \in List
      BY <3>1, ReadAllSound DEF Inv, TypeOK
    <3>3. cache' \in [Dbs -> List \cup {NoList}]
      BY <3>1, <3>2 DEF Inv, TypeOK
    <3> QED BY <2>1, <2>3, <3>1, <3>2, <3>3 DEF Inv, TypeOK, Sound, Impl
  <2>4. CASE link' = link /\ cache' = [cache EXCEPT ![db] = Empty]
    <3>1. cache' \in [Dbs -> List \cup {NoList}]
      BY <2>4 DEF Inv, TypeOK
    <3> QED BY <2>1, <2>4, <3>1 DEF Inv, TypeOK, Sound
  <2> QED BY <1>4, <2>2, <2>3, <2>4 DEF LoadCached
<1>5. ASSUME NEW db \in Dbs, NEW i \in Ids, NEW v \in Values, CreateRecord(db, i, v)
      PROVE  Inv'
  BY <1>5, WriteKeepsInv, CreateAnswerType DEF CreateRecord
<1>6. ASSUME NEW db \in Dbs, NEW i \in Ids, NEW v \in Values, UpdateRecord(db, i, v)
      PROVE  Inv'
  BY <1>6, WriteKeepsInv DEF UpdateRecord
<1>7. ASSUME NEW db \in Dbs, NEW i \in Ids, DeleteRecord(db, i) PROVE Inv'
  BY <1>7, WriteKeepsInv DEF DeleteRecord
<1>8. ASSUME NEW db \in Dbs, OtherCall(db) PROVE Inv'
  <2>1. device' = device /\ phase' = phase /\ cache' = cache /\ eng' = eng
        /\ ans' = NoAns /\ Impl
    BY <1>8 DEF OtherCall
  <2>2. Sound(link')
    BY <1>8, ScopedCallSound, FlushSound DEF OtherCall, Inv
  <2> QED BY <2>1, <2>2 DEF Inv, TypeOK, Sound, Impl
<1>9. ASSUME NEW db \in Dbs, WipeBegin(db) PROVE Inv'
  <2>1. device' = device /\ phase' = phase /\ cache' = cache /\ ans' = NoAns
    BY <1>9 DEF WipeBegin
  <2>2. ASSUME NEW S \in SUBSET Ids
        PROVE  LET e == [Idle EXCEPT !.at = "wipe", !.db = db, !.left = S]
               IN  e \in EngType /\ e.db = db
    BY DEF EngType
  <2>3. CASE Impl
    <3>1. PICK r \in ReadAllRecords(link, db) :
              link' = r.l /\ eng' = [Idle EXCEPT !.at = "wipe", !.db = db,
                                                 !.left = Listed(r.list)]
      BY <1>9, <2>3 DEF WipeBegin
    <3>2. Sound(r.l)
      BY <3>1, ReadAllSound DEF Inv, TypeOK
    <3>3. eng' \in EngType /\ eng'.db = db
      BY <2>2, <3>1 DEF Listed
    <3> QED BY <2>1, <2>3, <3>1, <3>2, <3>3 DEF Inv, TypeOK, Sound, Impl
  <2>4. CASE ~Impl
    <3>1. link' = link /\ eng' = [Idle EXCEPT !.at = "wipe", !.db = db]
      BY <1>9, <2>4 DEF WipeBegin
    <3>2. eng' \in EngType /\ eng'.db = db
      BY <3>1 DEF EngType
    <3> QED BY <2>1, <3>1, <3>2 DEF Inv, TypeOK, Sound
  <2> QED BY <2>3, <2>4
<1>10. ASSUME NEW i \in Ids, WipeDelete(i) PROVE Inv'
  <2>1. phase' = phase /\ cache' = cache /\ ans' = ans /\ eng.db \in Dbs
    BY <1>10 DEF WipeDelete, Inv
  <2>2. CASE Impl
    <3>1. PICK w \in WriteThrough(link, eng.db, i, NoRec) :
              /\ device' = w.dev /\ link' = w.l
              /\ eng' = [eng EXCEPT !.left = @ \ {i}, !.ok = @ /\ w.ok]
      BY <1>10, <2>2 DEF WipeDelete
    <3>2. Sound(w.l) /\ w.ok \in BOOLEAN /\ w.dev \in [Dbs -> List]
      BY <2>1, <3>1, WriteThroughGives DEF Inv, TypeOK
    <3>3. eng' \in EngType /\ eng'.db = eng.db
      BY <3>1, <3>2 DEF Inv, TypeOK, EngType
    <3> QED BY <2>1, <2>2, <3>1, <3>2, <3>3 DEF Inv, TypeOK, Sound, Impl
  <2>3. CASE ~Impl
    <3>1. /\ device' = device /\ link' = link
          /\ eng' = [eng EXCEPT !.left = @ \ {i}, !.ok = FALSE]
      BY <1>10, <2>3 DEF WipeDelete
    <3>2. eng' \in EngType /\ eng'.db = eng.db
      BY <3>1 DEF Inv, TypeOK, EngType
    <3> QED BY <2>1, <3>1, <3>2 DEF Inv, TypeOK, Sound
  <2> QED BY <2>2, <2>3
<1>11. CASE WipeEnd
  <2>1. device' = device /\ phase' = phase /\ eng' = Idle /\ eng'.at = "idle"
    BY <1>11 DEF WipeEnd, Idle
  <2>2. cache' \in [Dbs -> List \cup {NoList}]
    BY <1>11 DEF WipeEnd, Inv, TypeOK
  <2>3. eng.db \in Dbs \cup {NoDb} /\ eng.ok \in BOOLEAN
    BY DEF Inv, TypeOK, EngType
  <2>4. CASE Impl
    <3>1. PICK k \in FlushWriteHandle(link) :
              /\ link' = IF k.conn THEN k ELSE Err(k)
              /\ \E has \in IF ~k.conn THEN {FALSE} ELSE {TRUE} \cup Failing({FALSE}) :
                     ans' = [NoAns EXCEPT !.of = "wipe", !.db = eng.db,
                                          !.ok = eng.ok /\ has]
      BY <1>11, <2>4 DEF WipeEnd
    <3>2. Sound(k)
      BY <3>1, FlushSound DEF Inv
    <3>3. Sound(link')
      BY <3>1, <3>2, ErrorSound DEF Sound
    <3>4. PICK has \in BOOLEAN : ans' = [NoAns EXCEPT !.of = "wipe", !.db = eng.db,
                                                     !.ok = eng.ok /\ has]
      BY <3>1 DEF Failing
    <3>5. ans' \in AnsType
      BY <2>3, <3>4 DEF AnsType
    <3> QED BY <2>1, <2>2, <2>4, <3>3, <3>5 DEF Inv, TypeOK, Sound, Impl
  <2>5. CASE ~Impl
    <3>1. link' = link /\ ans' = [NoAns EXCEPT !.of = "wipe", !.db = eng.db]
      BY <1>11, <2>5 DEF WipeEnd
    <3>2. ans' \in AnsType
      BY <2>3, <3>1 DEF AnsType
    <3> QED BY <2>1, <2>2, <3>1, <3>2 DEF Inv, TypeOK, Sound
  <2> QED BY <2>4, <2>5
<1>12. CASE FlushWrites
  <2>1. UNCHANGED <<device, phase, cache, eng, ans>>
    BY <1>12 DEF FlushWrites
  <2>2. Sound(link') /\ link'.wh = NoHandle
    BY <1>12, FlushSound DEF FlushWrites, Inv
  <2> QED BY <2>1, <2>2 DEF Inv, TypeOK, Sound
<1>13. CASE DisconnectBegin
  <2>1. UNCHANGED <<device, cache, eng, ans>> /\ phase' = "closing"
    BY <1>13 DEF DisconnectBegin
  <2>2. Sound(link') /\ link'.wh = NoHandle
    BY <1>13, FlushSound DEF DisconnectBegin, Inv
  <2> QED BY <2>1, <2>2 DEF Inv, TypeOK, Sound
<1>14. CASE DisconnectEnd
  <2>1. UNCHANGED <<device, cache, eng, ans>> /\ phase' = "closed" /\ phase = "closing"
    BY <1>14 DEF DisconnectEnd
  <2>2. link' \in LinkType /\ link'.wh = link.wh /\ link'.wdb = link.wdb /\ ~link'.conn
    BY <1>14 DEF DisconnectEnd, Inv, Sound, LinkType
  <2>3. link.wh = NoHandle /\ (link.wh = NoHandle <=> link.wdb = NoDb)
    BY <2>1 DEF Inv, TypeOK
  <2> QED BY <2>1, <2>2, <2>3 DEF Inv, TypeOK, Sound
<1>15. CASE UNCHANGED vars
  BY <1>15 DEF vars, Inv, TypeOK, Sound
<1> QED
  BY <1>1, <1>2, <1>3, <1>4, <1>5, <1>6, <1>7, <1>8, <1>9, <1>10, <1>11, <1>12,
     <1>13, <1>14, <1>15 DEF Next

LEMMA Invariance == Spec => []Inv
<1>1. Init => Inv
  BY InvInit, ConstantsAssumption
<1>2. Inv /\ [Next]_vars => Inv'
  BY InvNext, ConstantsAssumption
<1> QED BY <1>1, <1>2, PTL DEF Spec

(* Every variable keeps to its type, and m_writeDbName goes with its       *)
(* handle, for any databases, records and handles.                         *)
THEOREM TypeCorrect == Spec => []TypeOK
<1>1. Inv => TypeOK
  BY DEF Inv
<1> QED BY <1>1, Invariance, PTL

(* No path through a call, however it fails, leaves a handle open that     *)
(* nobody will close, except one the device refused to close.              *)
THEOREM HandlesNeverLeak == Spec => []NoHandleLeak
<1>1. Inv => NoHandleLeak
  BY DEF Inv, Sound, NoHandleLeak
<1> QED BY <1>1, Invariance, PTL

(* The cached write handle is open on the database it is cached for.       *)
THEOREM WritesGoHome == Spec => []WriteHandleRight
<1>1. Inv => WriteHandleRight
  BY DEF Inv, Sound, WriteHandleRight
<1> QED BY <1>1, Invariance, PTL

-----------------------------------------------------------------------------
(* What a create reports.  An answer to a create is the last thing that    *)
(* happened to the engine thread, so no write comes between it and its     *)
(* record.                                                                 *)
Created ==
    /\ CreatedExists
    /\ ans.of = "create" => eng.at = "idle" /\ ans.db \in Dbs /\ ans.id \in Ids \cup {NoId}

LEMMA CreatedNext ==
    ASSUME ConstantsAssumption, Inv, Created, [Next]_vars
    PROVE  Created'
<1>1. ASSUME ans' = NoAns \/ ans'.of \in {"none", "load", "wipe"}
      PROVE  Created'
  BY <1>1 DEF Created, CreatedExists, NoAns
<1>2. ASSUME UNCHANGED <<device, ans>>, eng' = eng \/ eng.at # "idle"
      PROVE  Created'
  BY <1>2 DEF Created, CreatedExists
<1>3. ASSUME NEW db \in Dbs, NEW i \in Ids, NEW v \in Values, CreateRecord(db, i, v)
      PROVE  Created'
  <2>1. eng' = eng /\ eng.at = "idle"
    BY <1>3 DEF CreateRecord, Write, Begin
  <2>2. \A ok \in BOOLEAN :
            /\ CreateAnswer(db, i)[ok].of = "create" /\ CreateAnswer(db, i)[ok].db = db
            /\ CreateAnswer(db, i)[ok].ok = (ok \/ db \notin Cached)
            /\ CreateAnswer(db, i)[ok].id = IF ok THEN i ELSE NoId
    BY <1>3 DEF CreateAnswer, NoAns
  <2>3. CASE Impl
    <3>1. PICK w \in WriteThrough(link, db, i, v) :
              device' = w.dev /\ ans' = CreateAnswer(db, i)[w.ok]
      BY <1>3, <2>3 DEF CreateRecord, Write
    <3>2. w.ok \in BOOLEAN /\ (w.ok => w.dev[db][i] = v)
      BY <3>1, WriteThroughGives DEF Inv, TypeOK
    <3>3. i # NoId /\ v # NoRec
      BY DEF ConstantsAssumption
    <3> QED BY <2>1, <2>2, <3>1, <3>2, <3>3 DEF Created, CreatedExists
  <2>4. CASE ~Impl
    <3>1. ans' = CreateAnswer(db, i)[FALSE]
      BY <1>3, <2>4 DEF CreateRecord, Write
    <3> QED BY <2>1, <2>2, <3>1 DEF Created, CreatedExists
  <2> QED BY <2>3, <2>4
<1>4. ASSUME NEW db \in Dbs, NEW i \in Ids,
             NEW new \in Values \cup {NoRec},
             Write(db, i, new, [ok \in BOOLEAN |-> NoAns])
      PROVE  Created'
  <2>1. CASE Impl
    <3>1. PICK w \in WriteThrough(link, db, i, new) :
              ans' = [ok \in BOOLEAN |-> NoAns][w.ok]
      BY <1>4, <2>1 DEF Write
    <3>2. ans' = NoAns
      BY <3>1, WriteThroughGives DEF Inv, TypeOK
    <3> QED BY <1>1, <3>2
  <2>2. CASE ~Impl
    BY <1>1, <1>4, <2>2 DEF Write
  <2> QED BY <2>1, <2>2
<1>5. ASSUME NEW db \in Dbs,
             LoadBegin(db) \/ LoadCached(db) \/ OtherCall(db) \/ WipeBegin(db)
      PROVE  Created'
  <2>1. ans' = NoAns \/ ans'.of = "load"
    BY <1>5 DEF LoadBegin, LoadCached, OtherCall, WipeBegin, NoAns
  <2> QED BY <1>1, <2>1
<1>6. ASSUME NEW db \in Dbs, NEW i \in Ids, DeleteRecord(db, i)
      PROVE  Created'
  BY <1>4, <1>6 DEF DeleteRecord
<1>7. ASSUME NEW db \in Dbs, NEW i \in Ids, NEW v \in Values, UpdateRecord(db, i, v)
      PROVE  Created'
  BY <1>4, <1>7 DEF UpdateRecord
<1>8. CASE LoadRead
  BY <1>2, <1>8 DEF LoadRead
<1>9. CASE LoadCheck \/ WipeEnd
  <2>1. ans'.of = "load" \/ ans'.of = "wipe"
    BY <1>9 DEF LoadCheck, WipeEnd, NoAns
  <2> QED BY <1>1, <2>1
<1>10. ASSUME NEW i \in Ids, WipeDelete(i)
       PROVE  Created'
  <2>1. ans' = ans /\ eng.at = "wipe"
    BY <1>10 DEF WipeDelete
  <2>2. ans'.of # "create"
    BY <2>1 DEF Created
  <2> QED BY <2>2 DEF Created, CreatedExists
<1>11. CASE FlushWrites \/ DisconnectBegin \/ DisconnectEnd \/ UNCHANGED vars
  BY <1>2, <1>11 DEF FlushWrites, DisconnectBegin, DisconnectEnd, vars
<1> QED
  BY <1>3, <1>5, <1>6, <1>7, <1>8, <1>9, <1>10, <1>11 DEF Next

(* A record that a PalmBackend reports as created is on the device and has *)
(* an identifier of its own, whatever call failed and whatever became of   *)
(* the connection.                                                         *)
THEOREM CreationHonest == Spec => []CreatedExists
<1>1. Init => Created
  BY DEF Init, NoAns, Created, CreatedExists
<1>2. Inv /\ Created /\ [Next]_vars => Created'
  BY CreatedNext, ConstantsAssumption
<1>3. Created => CreatedExists
  BY DEF Created
<1> QED BY <1>1, <1>2, <1>3, Invariance, PTL DEF Spec

-----------------------------------------------------------------------------
(* Honesty.  A status once PilotLinkError stays so, and every call that    *)
(* gives less than it was asked for has set it: this is what the sources   *)
(* rely on when they look at nothing but the status.                       *)

LEMMA CloseErr ==
    ASSUME NEW L \in LinkType, NEW h \in Handles, NEW K \in CloseDatabase(L, h)
    PROVE  L.err => K.err
<1>1. CASE ~L.conn
  BY <1>1 DEF CloseDatabase, Err, LinkType
<1>2. CASE L.conn /\ K = [L EXCEPT !.open[h] = NoDb]
  BY <1>2 DEF LinkType
<1>3. CASE L.conn /\ K = [Err(L) EXCEPT !.open[h] = NoDb]
  BY <1>3 DEF LinkType, Err
<1>4. CASE L.conn /\ K = [Err(L) EXCEPT !.lost = @ \cup {h}]
  BY <1>4 DEF LinkType, Err
<1> QED BY <1>1, <1>2, <1>3, <1>4 DEF CloseDatabase, Failing, LinkType

LEMMA FlushErr ==
    ASSUME ConstantsAssumption, NEW L, Sound(L), NEW K \in FlushWriteHandle(L)
    PROVE  L.err => K.err
<1>0. L \in LinkType
  BY DEF Sound
<1>1. CASE L.wh = NoHandle
  <2>1. K = [L EXCEPT !.wh = NoHandle, !.wdb = NoDb]
    BY <1>1 DEF FlushWriteHandle
  <2> QED BY <1>0, <2>1 DEF LinkType
<1>2. CASE L.wh # NoHandle
  <2>1. PICK C \in CloseDatabase(L, L.wh) : K = [C EXCEPT !.wh = NoHandle, !.wdb = NoDb]
    BY <1>2 DEF FlushWriteHandle
  <2>2. L.wh \in Handles
    BY <1>0, <1>2 DEF LinkType
  <2>3. C \in LinkType /\ (L.err => C.err)
    BY <1>0, <2>1, <2>2, CloseErr, CloseGives
  <2> QED BY <2>1, <2>3 DEF LinkType
<1> QED BY <1>1, <1>2

(* No database is refused silently.                                        *)
LEMMA OpenErr ==
    ASSUME ConstantsAssumption, NEW L \in LinkType, NEW db \in Dbs,
           NEW o \in OpenDatabase(L, db)
    PROVE  /\ L.err => o.l.err
           /\ o.h = NoHandle => o.l.err
<1>1. CASE \E k \in {Err(L), Dead(L)} : o = [l |-> k, h |-> NoHandle]
  <2>1. Err(L).err = TRUE /\ Dead(L).err = TRUE
    BY DEF Err, Dead, LinkType
  <2> QED BY <1>1, <2>1
<1>2. CASE \E h \in Handles : o = [l |-> [L EXCEPT !.open[h] = db], h |-> h]
  BY <1>2 DEF LinkType, ConstantsAssumption
<1> QED BY <1>1, <1>2 DEF OpenDatabase, Failing

LEMMA ScopeErr ==
    ASSUME ConstantsAssumption, NEW L, Sound(L), NEW db \in Dbs,
           NEW o \in ScopeOpened(L, db)
    PROVE  /\ L.err => o.l.err
           /\ o.h = NoHandle => o.l.err
<1>1. PICK k \in FlushWriteHandle(L) : o \in OpenDatabase(k, db)
  BY DEF ScopeOpened
<1>2. Sound(k) /\ (L.err => k.err)
  BY <1>1, FlushSound, FlushErr
<1> QED BY <1>1, <1>2, OpenErr DEF Sound

(* A list that is cut short, or empty for want of a link, is noted.        *)
LEMMA ReadErr ==
    ASSUME NEW L \in LinkType, NEW list, NEW r \in ReadRecords(L, list)
    PROVE  /\ L.err => r.l.err
           /\ ~r.l.err => r.list = list
<1>1. CASE r = [l |-> Err(L), list |-> Empty]
  BY <1>1 DEF Err, LinkType
<1>2. CASE r = [l |-> L, list |-> list]
  BY <1>2
<1>3. CASE \E k \in {Err(L), Dead(L)}, S \in SUBSET Ids :
              r = [l |-> k, list |-> [i \in Ids |-> IF i \in S THEN list[i] ELSE NoRec]]
  <2>1. Err(L).err = TRUE /\ Dead(L).err = TRUE
    BY DEF Err, Dead, LinkType
  <2>2. r.l \in {Err(L), Dead(L)}
    BY <1>3
  <2> QED BY <2>1, <2>2
<1> QED BY <1>1, <1>2, <1>3 DEF ReadRecords, Failing

LEMMA ReadAllHonest ==
    ASSUME ConstantsAssumption, device \in [Dbs -> List], NEW L, Sound(L),
           NEW db \in Dbs, NEW r \in ReadAllRecords(L, db)
    PROVE  /\ L.err => r.l.err
           /\ ~r.l.err => r.list = device[db]
<1>1. PICK o \in ScopeOpened(L, db) :
          r \in IF o.h = NoHandle
                THEN {[l |-> o.l, list |-> Empty]}
                ELSE UNION {{[q EXCEPT !.l = k] : k \in CloseDatabase(q.l, o.h)} :
                               q \in ReadRecords(o.l, device[o.l.open[o.h]])}
  BY DEF ReadAllRecords
<1>2. (L.err => o.l.err) /\ (o.h = NoHandle => o.l.err)
  BY <1>1, ScopeErr
<1>3. CASE o.h = NoHandle
  BY <1>1, <1>2, <1>3
<1>4. CASE o.h # NoHandle
  <2>1. Scoped(o.l, o.h) /\ o.l.open[o.h] = db
    BY <1>4, ScopeGives
  <2>2. PICK q \in ReadRecords(o.l, device[o.l.open[o.h]]) :
            r \in {[q EXCEPT !.l = k] : k \in CloseDatabase(q.l, o.h)}
    BY <1>1, <1>4
  <2>3. q = [l |-> q.l, list |-> q.list] /\ Scoped(q.l, o.h)
    BY <2>1, <2>2, ReadKeepsScope
  <2>4. PICK k \in CloseDatabase(q.l, o.h) : r = [q EXCEPT !.l = k]
    BY <2>2
  <2>5. (o.l.err => q.l.err) /\ (~q.l.err => q.list = device[db])
    BY <2>1, <2>2, ReadErr DEF Scoped
  <2>6. q.l.err => k.err
    BY <2>3, <2>4, CloseErr DEF Scoped
  <2>7. r.l = k /\ r.list = q.list
    BY <2>3, <2>4
  <2>8. q.l.err \in BOOLEAN /\ k.err \in BOOLEAN
    BY <2>3, <2>4, CloseGives DEF Scoped, LinkType
  <2> QED BY <1>2, <2>5, <2>6, <2>7, <2>8
<1> QED BY <1>3, <1>4

LEMMA ScopedCallErr ==
    ASSUME ConstantsAssumption, NEW L, Sound(L), NEW db \in Dbs,
           NEW K \in ScopedCall(L, db)
    PROVE  L.err => K.err
<1>1. PICK o \in ScopeOpened(L, db) :
          K \in IF o.h = NoHandle THEN {o.l}
                ELSE UNION {CloseDatabase(k, o.h) :
                               k \in IF o.l.conn THEN {o.l} \cup Failing({Err(o.l)})
                                     ELSE {Err(o.l)}}
  BY DEF ScopedCall
<1>2. L.err => o.l.err
  BY <1>1, ScopeErr
<1>3. CASE o.h = NoHandle
  BY <1>1, <1>2, <1>3
<1>4. CASE o.h # NoHandle
  <2>1. Scoped(o.l, o.h)
    BY <1>4, ScopeGives
  <2>2. PICK k \in {o.l, Err(o.l)} : K \in CloseDatabase(k, o.h)
    BY <1>1, <1>4 DEF Failing
  <2>3. k \in LinkType /\ (o.l.err => k.err) /\ o.h \in Handles
    BY <2>1 DEF Scoped, Err, LinkType
  <2> QED BY <1>2, <2>2, <2>3, CloseErr
<1> QED BY <1>3, <1>4

(* A write that did not work is noted, and no write touches another record.*)
LEMMA WriteThroughHonest ==
    ASSUME ConstantsAssumption, device \in [Dbs -> List], NEW L, Sound(L),
           NEW db \in Dbs, NEW i \in Ids, NEW new \in Values \cup {NoRec},
           NEW w \in WriteThrough(L, db, i, new)
    PROVE  /\ L.err => w.l.err
           /\ ~w.l.err => w.ok
           /\ \A j \in Ids \ {i} : w.dev[db][j] = device[db][j]
<1>1. PICK o \in EnsureWriteHandle(L, db) :
          w \in IF o.h = NoHandle
                THEN {[l |-> o.l, dev |-> device, ok |-> FALSE]}
                ELSE {[l |-> c.l, dev |-> [device EXCEPT ![o.l.open[o.h]] = c.list],
                       ok |-> c.ok] :
                         c \in ChangeRecord(o.l, device[o.l.open[o.h]], i, new)}
  BY DEF WriteThrough
<1>2. Sound(o.l) /\ (o.h # NoHandle => o.l.open[o.h] = db)
  BY <1>1, EnsureGives
<1>3. (L.err => o.l.err) /\ (o.h = NoHandle => o.l.err)
  <2>1. CASE L.wh # NoHandle /\ L.wdb = db
    <3>1. o = [l |-> L, h |-> L.wh]
      BY <1>1, <2>1 DEF EnsureWriteHandle
    <3> QED BY <2>1, <3>1
  <2>2. CASE ~(L.wh # NoHandle /\ L.wdb = db)
    <3>1. PICK k \in FlushWriteHandle(L) :
              o \in {IF p.h = NoHandle THEN p ELSE [p EXCEPT !.l.wh = p.h, !.l.wdb = db] :
                        p \in OpenDatabase(k, db)}
      BY <1>1, <2>2 DEF EnsureWriteHandle
    <3>2. PICK p \in OpenDatabase(k, db) :
              o = IF p.h = NoHandle THEN p ELSE [p EXCEPT !.l.wh = p.h, !.l.wdb = db]
      BY <3>1
    <3>3. Sound(k) /\ k.wh = NoHandle /\ (L.err => k.err)
      BY <3>1, FlushSound, FlushErr
    <3>4. (k.err => p.l.err) /\ (p.h = NoHandle => p.l.err)
      BY <3>2, <3>3, OpenErr DEF Sound
    <3>5. p = [l |-> p.l, h |-> p.h] /\ (Sound(p.l) \/ Scoped(p.l, p.h))
      BY <3>2, <3>3, OpenGives
    <3>6. CASE p.h = NoHandle
      BY <3>2, <3>3, <3>4, <3>6
    <3>7. CASE p.h # NoHandle
      <4>1. o.h = p.h /\ o.l = [p.l EXCEPT !.wh = p.h, !.wdb = db]
        BY <3>2, <3>5, <3>7
      <4>2. o.l.err = p.l.err
        BY <3>5, <4>1 DEF Sound, Scoped, LinkType
      <4> QED BY <3>3, <3>4, <4>1, <4>2
    <3> QED BY <3>6, <3>7
  <2> QED BY <2>1, <2>2
<1>4. CASE o.h = NoHandle
  <2>1. w.l = o.l /\ w.dev = device /\ w.ok = FALSE
    BY <1>1, <1>4
  <2> QED BY <1>3, <1>4, <2>1
<1>5. CASE o.h # NoHandle
  <2>1. PICK c \in ChangeRecord(o.l, device[db], i, new) :
            w = [l |-> c.l, dev |-> [device EXCEPT ![db] = c.list], ok |-> c.ok]
    BY <1>1, <1>2, <1>5
  <2>2. \/ c = [l |-> Err(o.l), list |-> device[db], ok |-> FALSE]
        \/ c = [l |-> o.l, list |-> [device[db] EXCEPT ![i] = new], ok |-> TRUE]
        \/ \E k \in {device[db], [device[db] EXCEPT ![i] = new]} :
               c = [l |-> Err(o.l), list |-> k, ok |-> FALSE]
    BY Zenon, <2>1 DEF ChangeRecord, Failing
  <2>3. /\ (c.l = o.l /\ c.ok = TRUE) \/ (c.l = Err(o.l) /\ c.ok = FALSE)
        /\ c.list \in {device[db], [device[db] EXCEPT ![i] = new]}
    BY <2>2
  <2>4. Err(o.l).err = TRUE
    BY <1>2 DEF Err, Sound, LinkType
  <2>5. \A j \in Ids \ {i} : c.list[j] = device[db][j]
    BY <2>3 DEF List
  <2>6. w.l = c.l /\ w.ok = c.ok /\ w.dev[db] = c.list
    BY <2>1
  <2> QED BY <1>3, <2>3, <2>4, <2>5, <2>6
<1> QED BY <1>4, <1>5

(* What holds as long as the link has seen no error and m_impl is set.  A  *)
(* read that waits for its second test has the whole database; an answer   *)
(* is the last thing that happened to the engine thread, and still true;   *)
(* the cache differs from the device only while a wipe deletes, and a wipe *)
(* has on its list whatever is left.                                       *)
Faultless == ~link.err /\ Impl

Honest ==
    /\ eng.at # "idle" => ans.of = "none"
    /\ ans.of \in {"load", "wipe"} => ans.db \in Dbs
    /\ eng.at = "wipe" => eng.db \in Cached
    /\ eng.at \in {"checked", "read"} => eng.db \notin Cached
    /\ Faultless =>
         /\ eng.at = "read" => eng.list = device[eng.db]
         /\ \A db \in Cached : \/ cache[db] \in {NoList, device[db]}
                               \/ eng.at = "wipe" /\ eng.db = db
         /\ eng.at = "wipe" => \A i \in Ids \ eng.left : device[eng.db][i] = NoRec
         /\ ans.of = "load" /\ ans.ok => ans.list = device[ans.db]
         /\ ans.of = "wipe" /\ ans.ok => device[ans.db] = Empty

LEMMA IdleFields ==
    /\ Idle.at = "idle" /\ NoAns.of = "none"
    /\ \A a, d, S : LET e == [Idle EXCEPT !.at = a, !.db = d, !.left = S]
                    IN  e.at = a /\ e.db = d /\ e.left = S
    /\ \A a, d : LET e == [Idle EXCEPT !.at = a, !.db = d]
                 IN  e.at = a /\ e.db = d
BY DEF Idle, NoAns

LEMMA HonestInit == ASSUME ConstantsAssumption, Init PROVE Honest
BY IdleFields DEF Init, Honest

(* Steps that answer nothing new and leave device, cache and engine alone. *)
LEMMA HonestAside ==
    ASSUME Honest, UNCHANGED <<device, cache, eng>>, ans' \in {ans, NoAns},
           Faultless' => Faultless
    PROVE  Honest'
BY IdleFields DEF Honest

(* A write of a record outside a wipe.                                     *)
LEMMA HonestWrite ==
    ASSUME ConstantsAssumption, Inv, Honest, NEW db \in Dbs, NEW i \in Ids,
           NEW new \in Values \cup {NoRec}, NEW created,
           \A ok \in BOOLEAN : created[ok].of \in {"none", "create"},
           Write(db, i, new, created)
    PROVE  Honest'
<1>1. eng' = eng /\ phase' = phase /\ eng.at = "idle"
  BY DEF Write, Begin
<1>2. CASE Impl
  <2>1. PICK w \in WriteThrough(link, db, i, new) :
            /\ device' = w.dev /\ link' = w.l
            /\ cache' = Uncached(db, w.ok)
            /\ ans' = created[w.ok]
    BY <1>2 DEF Write
  <2>2. /\ w.ok \in BOOLEAN /\ (link.err => w.l.err) /\ (~w.l.err => w.ok)
        /\ \A d \in Dbs \ {db} : w.dev[d] = device[d]
    BY <2>1, WriteThroughGives, WriteThroughHonest DEF Inv, TypeOK
  <2>3. ans'.of \in {"none", "create"}
    BY <2>1, <2>2
  <2>4. CASE ~Faultless'
    BY <1>1, <2>3, <2>4 DEF Honest
  <2>5. CASE Faultless'
    <3>1. Faultless /\ w.ok
      BY <1>1, <2>1, <2>2, <2>5 DEF Faultless, Impl
    <3>2. ASSUME NEW d \in Cached
          PROVE  cache'[d] \in {NoList, device'[d]}
      <4>1. CASE d = db
        BY <2>1, <3>1, <4>1 DEF Uncached, Inv, TypeOK
      <4>2. CASE d # db
        <5>1. cache'[d] = cache[d]
          BY <2>1, <4>2 DEF Uncached
        <5>2. device'[d] = device[d]
          BY <2>1, <2>2, <4>2 DEF ConstantsAssumption
        <5> QED BY <1>1, <3>1, <5>1, <5>2 DEF Honest
      <4> QED BY <4>1, <4>2
    <3> QED BY <1>1, <2>3, <3>2 DEF Honest
  <2> QED BY <2>4, <2>5
<1>3. CASE ~Impl
  <2>1. ans' = created[FALSE] /\ UNCHANGED <<device, link, cache>>
    BY <1>3 DEF Write
  <2>2. ~Faultless'
    BY <1>1, <1>3 DEF Faultless, Impl
  <2> QED BY <1>1, <2>1, <2>2 DEF Honest
<1> QED BY <1>2, <1>3

LEMMA HonestNext == ASSUME ConstantsAssumption, Inv, Honest, [Next]_vars PROVE Honest'
<1> USE IdleFields
<1>1. ASSUME NEW db \in Dbs, LoadBegin(db) PROVE Honest'
  <2>1. /\ UNCHANGED <<device, link, phase, cache>> /\ db \notin Cached /\ eng.at = "idle"
        /\ \/ eng' = [Idle EXCEPT !.at = "checked", !.db = db] /\ ans' = NoAns
           \/ eng' = eng /\ ~Connected /\ ans' = [NoAns EXCEPT !.of = "load", !.db = db]
    BY <1>1 DEF LoadBegin, Begin
  <2>2. Faultless' = Faultless
    BY <2>1 DEF Faultless, Impl
  <2>3. CASE eng' = [Idle EXCEPT !.at = "checked", !.db = db] /\ ans' = NoAns
    <3>1. eng'.at = "checked" /\ eng'.db = db /\ ans'.of = "none"
      BY <2>3
    <3> QED BY <2>1, <2>2, <3>1 DEF Honest
  <2>4. CASE eng' = eng /\ ~Connected /\ ans' = [NoAns EXCEPT !.of = "load", !.db = db]
    <3>1. ans'.of = "load" /\ ans'.db = db
      BY <2>4 DEF NoAns
    <3>2. ~Faultless'
      BY <2>1, <2>2, <2>4 DEF Faultless, Impl, Connected
    <3> QED BY <2>1, <2>4, <3>1, <3>2 DEF Honest
  <2> QED BY <2>1, <2>3, <2>4
<1>2. CASE LoadRead
  <2>1. UNCHANGED <<device, phase, cache, ans>> /\ eng.at = "checked" /\ eng.db \in Dbs
        /\ eng \in EngType
    BY <1>2 DEF LoadRead, Inv, TypeOK
  <2>2. CASE Impl
    <3>1. PICK r \in ReadAllRecords(link, eng.db) :
              link' = r.l /\ eng' = [eng EXCEPT !.at = "read", !.list = r.list]
      BY <1>2, <2>2 DEF LoadRead
    <3>2. (link.err => link'.err) /\ (~link'.err => r.list = device[eng.db])
      BY <2>1, <3>1, ReadAllHonest DEF Inv, TypeOK
    <3>3. eng'.at = "read" /\ eng'.list = r.list /\ eng'.db = eng.db
      BY <2>1, <3>1 DEF EngType
    <3>4. Faultless' => Faultless /\ ~link'.err
      BY <2>1, <3>2 DEF Faultless, Impl
    <3> QED BY <2>1, <3>2, <3>3, <3>4 DEF Honest
  <2>3. CASE ~Impl
    <3>1. link' = link /\ eng' = [eng EXCEPT !.at = "read"]
      BY <1>2, <2>3 DEF LoadRead
    <3>2. eng'.at = "read" /\ eng'.db = eng.db /\ ~Faultless'
      BY <2>1, <2>3, <3>1 DEF EngType, Faultless, Impl
    <3> QED BY <2>1, <3>2 DEF Honest
  <2> QED BY <2>2, <2>3
<1>3. CASE LoadCheck
  <2>1. UNCHANGED <<device, link, phase, cache>> /\ eng.at = "read" /\ eng' = Idle
        /\ eng.db \in Dbs
        /\ ans' = [NoAns EXCEPT !.of = "load", !.db = eng.db, !.ok = Connected,
                                !.list = IF Connected THEN eng.list ELSE Empty]
    BY <1>3 DEF LoadCheck, Inv
  <2>2. ans'.of = "load" /\ ans'.db = eng.db
        /\ ans'.list = IF Connected THEN eng.list ELSE Empty
    BY <2>1 DEF NoAns
  <2>3. Faultless' = Faultless /\ (Faultless => Connected)
    BY <2>1 DEF Faultless, Impl, Connected
  <2>4. eng'.at = "idle"
    BY <2>1
  <2> QED BY <2>1, <2>2, <2>3, <2>4 DEF Honest
<1>4. ASSUME NEW db \in Dbs, LoadCached(db) PROVE Honest'
  <2>1. UNCHANGED <<device, phase, eng>> /\ ans' = NoAns /\ db \in Cached /\ eng.at = "idle"
    BY <1>4 DEF LoadCached, Begin
  <2>2. CASE UNCHANGED <<link, cache>>
    <3>1. Faultless' = Faultless
      BY <2>1, <2>2 DEF Faultless, Impl
    <3> QED BY <2>1, <2>2, <3>1, HonestAside
  <2>3. CASE Impl /\ \E r \in ReadAllRecords(link, db) :
                link' = r.l /\ cache' = [cache EXCEPT ![db] = r.list]
    <3>1. PICK r \in ReadAllRecords(link, db) :
                link' = r.l /\ cache' = [cache EXCEPT ![db] = r.list]
      BY <2>3
    <3>2. (link.err => link'.err) /\ (~link'.err => r.list = device[db])
      BY <3>1, ReadAllHonest DEF Inv, TypeOK
    <3>3. Faultless' => Faultless /\ ~link'.err
      BY <2>1, <3>2 DEF Faultless, Impl
    <3>4. \A d \in Cached : cache'[d] = IF d = db THEN r.list ELSE cache[d]
      BY <3>1 DEF Inv, TypeOK, ConstantsAssumption
    <3> QED BY <2>1, <3>2, <3>3, <3>4 DEF Honest
  <2>4. CASE ~Impl
    <3>1. ~Faultless'
      BY <2>1, <2>4 DEF Faultless, Impl
    <3> QED BY <2>1, <3>1 DEF Honest
  <2> QED BY <1>4, <2>2, <2>3, <2>4 DEF LoadCached
<1>5. ASSUME NEW db \in Dbs, NEW i \in Ids, NEW v \in Values, CreateRecord(db, i, v)
      PROVE  Honest'
  <2>1. \A ok \in BOOLEAN : CreateAnswer(db, i)[ok].of \in {"none", "create"}
    BY DEF CreateAnswer, NoAns
  <2> QED BY <1>5, <2>1, HonestWrite DEF CreateRecord
<1>6. ASSUME NEW db \in Dbs, NEW i \in Ids, NEW v \in Values, UpdateRecord(db, i, v)
      PROVE  Honest'
  BY <1>6, HonestWrite DEF UpdateRecord
<1>7. ASSUME NEW db \in Dbs, NEW i \in Ids, DeleteRecord(db, i) PROVE Honest'
  BY <1>7, HonestWrite DEF DeleteRecord
<1>8. ASSUME NEW db \in Dbs, OtherCall(db) PROVE Honest'
  <2>1. UNCHANGED <<device, phase, cache, eng>> /\ ans' = NoAns
    BY <1>8 DEF OtherCall
  <2>2. link.err => link'.err
    BY <1>8, ScopedCallErr, FlushErr DEF OtherCall, Inv
  <2> QED BY <2>1, <2>2, HonestAside DEF Faultless, Impl
<1>9. ASSUME NEW db \in Dbs, WipeBegin(db) PROVE Honest'
  <2>1. UNCHANGED <<device, phase, cache>> /\ ans' = NoAns /\ db \in Cached /\ eng.at = "idle"
    BY <1>9 DEF WipeBegin, Begin
  <2>2. CASE Impl
    <3>1. PICK r \in ReadAllRecords(link, db) :
              link' = r.l /\ eng' = [Idle EXCEPT !.at = "wipe", !.db = db,
                                                 !.left = Listed(r.list)]
      BY <1>9, <2>2 DEF WipeBegin
    <3>2. (link.err => link'.err) /\ (~link'.err => r.list = device[db])
      BY <3>1, ReadAllHonest DEF Inv, TypeOK
    <3>3. eng'.at = "wipe" /\ eng'.db = db /\ eng'.left = Listed(r.list)
      BY <3>1
    <3>4. Faultless' => Faultless /\ ~link'.err
      BY <2>1, <3>2 DEF Faultless, Impl
    <3>5. Faultless' => \A i \in Ids \ eng'.left : device'[db][i] = NoRec
      BY <2>1, <3>2, <3>3, <3>4 DEF Listed
    <3> QED BY <2>1, <3>3, <3>4, <3>5 DEF Honest
  <2>3. CASE ~Impl
    <3>1. eng' = [Idle EXCEPT !.at = "wipe", !.db = db] /\ ~Faultless'
      BY <1>9, <2>1, <2>3 DEF WipeBegin, Faultless, Impl
    <3>2. eng'.at = "wipe" /\ eng'.db = db
      BY <3>1
    <3> QED BY <2>1, <3>1, <3>2 DEF Honest
  <2> QED BY <2>2, <2>3
<1>10. ASSUME NEW i \in Ids, WipeDelete(i) PROVE Honest'
  <2>1. /\ UNCHANGED <<phase, cache, ans>> /\ eng.db \in Dbs
        /\ eng.at = "wipe" /\ eng \in EngType
    BY <1>10 DEF WipeDelete, Inv, TypeOK
  <2>2. CASE Impl
    <3>1. PICK w \in WriteThrough(link, eng.db, i, NoRec) :
              /\ device' = w.dev /\ link' = w.l
              /\ eng' = [eng EXCEPT !.left = @ \ {i}, !.ok = @ /\ w.ok]
      BY <1>10, <2>2 DEF WipeDelete
    <3>2. /\ link.err => link'.err
          /\ ~link'.err => w.ok
          /\ w.ok => device'[eng.db][i] = NoRec
          /\ \A j \in Ids \ {i} : device'[eng.db][j] = device[eng.db][j]
          /\ \A d \in Dbs \ {eng.db} : device'[d] = device[d]
      BY <2>1, <3>1, WriteThroughGives, WriteThroughHonest DEF Inv, TypeOK
    <3>3. eng'.at = "wipe" /\ eng'.db = eng.db /\ eng'.left = eng.left \ {i}
      BY <2>1, <3>1 DEF EngType
    <3>4. Faultless' => Faultless /\ ~link'.err
      BY <2>1, <3>2 DEF Faultless, Impl
    <3>5. ASSUME Faultless', NEW j \in Ids \ eng'.left
          PROVE  device'[eng.db][j] = NoRec
      BY <2>1, <3>2, <3>3, <3>4, <3>5 DEF Honest
    <3>6. ASSUME Faultless', NEW d \in Cached, d # eng.db
          PROVE  cache'[d] \in {NoList, device'[d]}
      BY <2>1, <3>2, <3>4, <3>6 DEF Honest, ConstantsAssumption
    <3>7. ans'.of = "none"
      BY <2>1 DEF Honest
    <3> QED BY <2>1, <3>3, <3>5, <3>6, <3>7 DEF Honest
  <2>3. CASE ~Impl
    <3>1. eng' = [eng EXCEPT !.left = @ \ {i}, !.ok = FALSE] /\ ~Faultless'
      BY <1>10, <2>1, <2>3 DEF WipeDelete, Faultless, Impl
    <3>2. eng'.at = "wipe" /\ eng'.db = eng.db
      BY <2>1, <3>1 DEF EngType
    <3> QED BY <2>1, <3>1, <3>2 DEF Honest
  <2> QED BY <2>2, <2>3
<1>11. CASE WipeEnd
  <2>1. /\ UNCHANGED <<device, phase>> /\ eng.at = "wipe" /\ eng.left = {} /\ eng' = Idle
        /\ cache' = [cache EXCEPT ![eng.db] = NoList] /\ eng.db \in Dbs
    BY <1>11 DEF WipeEnd, Inv
  <2>2. ans'.of = "wipe" /\ ans'.db = eng.db /\ (Impl => (link.err => link'.err))
    <3>1. CASE Impl
      <4>1. PICK k \in FlushWriteHandle(link) :
                /\ link' = IF k.conn THEN k ELSE Err(k)
                /\ \E has \in IF ~k.conn THEN {FALSE} ELSE {TRUE} \cup Failing({FALSE}) :
                       ans' = [NoAns EXCEPT !.of = "wipe", !.db = eng.db,
                                            !.ok = eng.ok /\ has]
        BY <1>11, <3>1 DEF WipeEnd
      <4>2. Sound(k) /\ (link.err => k.err)
        BY <4>1, FlushSound, FlushErr DEF Inv
      <4>3. link.err => link'.err
        BY <4>1, <4>2 DEF Err, Sound, LinkType
      <4> QED BY <4>1, <4>3 DEF NoAns
    <3>2. CASE ~Impl
      BY ZenonT(40), <1>11, <3>2 DEF WipeEnd, NoAns
    <3> QED BY <3>1, <3>2
  <2>3. Faultless' => Faultless
    BY <2>1, <2>2 DEF Faultless, Impl
  <2>4. ASSUME Faultless'
        PROVE  device'[eng.db] = Empty
    <3>1. \A i \in Ids : device[eng.db][i] = NoRec
      BY <2>1, <2>3, <2>4 DEF Honest
    <3>2. device[eng.db] \in [Ids -> Values \cup {NoRec}]
      BY <2>1 DEF Inv, TypeOK, List
    <3> QED BY <2>1, <3>1, <3>2 DEF Empty
  <2>5. \A d \in Cached : cache'[d] = IF d = eng.db THEN NoList ELSE cache[d]
    BY <2>1 DEF Inv, TypeOK, ConstantsAssumption
  <2>6. eng'.at = "idle"
    BY <2>1
  <2> QED BY <2>1, <2>2, <2>3, <2>4, <2>5, <2>6 DEF Honest
<1>12. CASE FlushWrites
  <2>1. link.err => link'.err
    BY <1>12, FlushErr DEF FlushWrites, Inv
  <2> QED BY <1>12, <2>1, HonestAside DEF FlushWrites, Faultless, Impl
<1>13. CASE DisconnectBegin \/ DisconnectEnd
  <2>1. UNCHANGED <<device, cache, eng, ans>> /\ ~Faultless'
    BY <1>13 DEF DisconnectBegin, DisconnectEnd, Faultless, Impl
  <2> QED BY <2>1 DEF Honest
<1>14. CASE UNCHANGED vars
  BY <1>14, HonestAside DEF vars, Faultless, Impl
<1> QED
  BY <1>1, <1>2, <1>3, <1>4, <1>5, <1>6, <1>7, <1>8, <1>9, <1>10, <1>11, <1>12,
     <1>13, <1>14 DEF Next

LEMMA Honesty == Spec => []Honest
<1>1. Init => Honest
  BY HonestInit, ConstantsAssumption
<1>2. Inv /\ Honest /\ [Next]_vars => Honest'
  BY HonestNext, ConstantsAssumption
<1> QED BY <1>1, <1>2, Invariance, PTL DEF Spec

(* A load that succeeds on a link without an error returns the database as *)
(* it is on the device: nothing that the engine thread does between the    *)
(* read and the answer can make the list stale.                            *)
THEOREM LoadsHonest == Spec => []LoadHonest
<1>1. Honest => LoadHonest
  BY DEF Honest, Faultless, LoadHonest
<1> QED BY <1>1, Honesty, PTL

(* Between two calls, m_palmRecordsCache holds nothing for a database or   *)
(* what the device holds, however loads, writes and wipes follow.          *)
THEOREM CacheNeverStale == Spec => []CacheCoherent
<1>1. Honest => CacheCoherent
  BY DEF Honest, Faultless, CacheCoherent
<1> QED BY <1>1, Honesty, PTL

(* A wipe that reports success on a link without an error left nothing.    *)
THEOREM WipesHonest == Spec => []WipeHonest
<1>1. Honest => WipeHonest
  BY DEF Honest, Faultless, WipeHonest
<1> QED BY <1>1, Honesty, PTL

=============================================================================
