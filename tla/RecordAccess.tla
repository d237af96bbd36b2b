---------------------------- MODULE RecordAccess ----------------------------
(***************************************************************************)
(* How an engine thread reads and writes the records of a connected Palm:  *)
(* the Palm backends, their IPalmDatabaseAccess over the DLP link with its *)
(* cached write handle, and the record cache of PalmBackend, while the     *)
(* link fails under them and main tears the connection down.               *)
(*                                                                         *)
(* One connection is modelled, up to its end.  Every call that reaches the *)
(* link thread is one step there; its outcomes are a set, because each DLP *)
(* call in it may fail.  A list of records is a function on the record     *)
(* identifiers; the order, the category and the flags of records are not   *)
(* told apart.                                                             *)
(***************************************************************************)
CONSTANTS
    Dbs, NoDb,          \* databases on the device
    Ids, NoId,          \* record identifiers; NoId is 0, which no record has
    Values, NoRec,      \* contents of a record, and its absence
    Handles, NoHandle,  \* DLP handles: as many as the device opens at once
    NoList,             \* no entry in the record cache
    Cached,             \* databases that are served by a PalmBackend; the
                        \* others by the memo, to-do or contacts backend
    DlpErrors           \* FALSE: every DLP call succeeds

ASSUME ConstantsAssumption ==
    /\ NoDb \notin Dbs /\ NoId \notin Ids /\ NoHandle \notin Handles
    /\ NoRec \notin Values /\ NoList \notin [Ids -> Values \cup {NoRec}]
    /\ Cached \subseteq Dbs /\ DlpErrors \in BOOLEAN

VARIABLES
    device,   \* the records on the device
    link,     \* the KPilotDeviceLink, the handles open on the device and
              \* the write handle of PilotLinkPalmDatabaseAccess
    phase,    \* how far doDisconnect got
    cache,    \* m_palmRecordsCache
    eng,      \* where the engine thread is in a backend call
    ans       \* what the last backend call returned

vars == <<device, link, phase, cache, eng, ans>>

-----------------------------------------------------------------------------
List == [Ids -> Values \cup {NoRec}]
Empty == [i \in Ids |-> NoRec]
Listed(list) == {i \in Ids : list[i] # NoRec}

(* PalmDeviceAccess::isConnected reads m_connected; m_impl is reset before *)
(* the link is closed, m_connected falls after.                            *)
Connected == phase # "closed"
Impl == phase = "open"

Idle == [at |-> "idle", db |-> NoDb, list |-> Empty, left |-> {}, ok |-> TRUE]
NoAns == [of |-> "none", db |-> NoDb, ok |-> FALSE, list |-> Empty, id |-> NoId]

Init ==
    /\ device \in [Dbs -> List]
    /\ link = [conn |-> TRUE, err |-> FALSE, open |-> [h \in Handles |-> NoDb],
               wh |-> NoHandle, wdb |-> NoDb, lost |-> {}]
    /\ phase = "open"
    /\ cache = [d \in Dbs |-> NoList]
    /\ eng = Idle /\ ans = NoAns

-----------------------------------------------------------------------------
(* KPilotDeviceLink.  Every failure sets the status to PilotLinkError; the *)
(* unrecoverable ones of openDatabase and readAllRecords clear             *)
(* m_isConnected too, and from then on nothing reaches the device.         *)
Err(L) == [L EXCEPT !.err = TRUE]
Dead(L) == [Err(L) EXCEPT !.conn = FALSE]
Failing(S) == IF DlpErrors THEN S ELSE {}

OpenDatabase(L, db) ==
    IF ~L.conn
    THEN {[l |-> Err(L), h |-> NoHandle]}
    ELSE {[l |-> [L EXCEPT !.open[h] = db], h |-> h] :
              h \in {k \in Handles : L.open[k] = NoDb}}
         \cup {[l |-> k, h |-> NoHandle] : k \in Failing({Err(L), Dead(L)})}

(* `lost' notes the handles that the device refused to close.              *)
CloseDatabase(L, h) ==
    IF ~L.conn
    THEN {Err(L)}
    ELSE {[L EXCEPT !.open[h] = NoDb]}
         \cup Failing({[Err(L) EXCEPT !.open[h] = NoDb],
                       [Err(L) EXCEPT !.lost = @ \cup {h}]})

(* A mutant of ReadRecords: the error is not noted.                        *)
ReadRecords_Unnoted(L, list) ==
    IF ~L.conn
    THEN {[l |-> Err(L), list |-> Empty]}
    ELSE {[l |-> L, list |-> list]}
         \cup Failing({[l |-> L,
                        list |-> [i \in Ids |-> IF i \in S THEN list[i] ELSE NoRec]] :
                            S \in SUBSET Ids})

(* An error ends the loop: the records read so far are returned.           *)
ReadRecords(L, list) ==
    IF ~L.conn
    THEN {[l |-> Err(L), list |-> Empty]}
    ELSE {[l |-> L, list |-> list]}
         \cup Failing({[l |-> k,
                        list |-> [i \in Ids |-> IF i \in S THEN list[i] ELSE NoRec]] :
                            k \in {Err(L), Dead(L)}, S \in SUBSET Ids})

(* One DLP call that changes record `i': it works, it fails, or it works   *)
(* and its answer is lost.  A record that is not there cannot be deleted.  *)
ChangeRecord(L, list, i, new) ==
    IF ~L.conn \/ (new = NoRec /\ list[i] = NoRec)
    THEN {[l |-> Err(L), list |-> list, ok |-> FALSE]}
    ELSE {[l |-> L, list |-> [list EXCEPT ![i] = new], ok |-> TRUE]}
         \cup Failing({[l |-> Err(L), list |-> k, ok |-> FALSE] :
                           k \in {list, [list EXCEPT ![i] = new]}})

-----------------------------------------------------------------------------
(* PilotLinkPalmDatabaseAccess.                                            *)

(* Mutants of FlushWriteHandle: the handle is closed but not forgotten; the *)
(* handle is forgotten but not the name.                                   *)
FlushWriteHandle_Kept(L) ==
    IF L.wh = NoHandle THEN {L} ELSE CloseDatabase(L, L.wh)

FlushWriteHandle_NameKept(L) ==
    {[k EXCEPT !.wh = NoHandle] :
        k \in IF L.wh = NoHandle THEN {L} ELSE CloseDatabase(L, L.wh)}

FlushWriteHandle(L) ==
    {[k EXCEPT !.wh = NoHandle, !.wdb = NoDb] :
        k \in IF L.wh = NoHandle THEN {L} ELSE CloseDatabase(L, L.wh)}

(* A mutant of EnsureWriteHandle: the name is not compared.                *)
EnsureWriteHandle_AnyDb(L, db) ==
    IF L.wh # NoHandle
    THEN {[l |-> L, h |-> L.wh]}
    ELSE {IF o.h = NoHandle THEN o
          ELSE [o EXCEPT !.l.wh = o.h, !.l.wdb = db] : o \in OpenDatabase(L, db)}

EnsureWriteHandle(L, db) ==
    IF L.wh # NoHandle /\ L.wdb = db
    THEN {[l |-> L, h |-> L.wh]}
    ELSE UNION {{IF o.h = NoHandle THEN o
                 ELSE [o EXCEPT !.l.wh = o.h, !.l.wdb = db] : o \in OpenDatabase(k, db)} :
                    k \in FlushWriteHandle(L)}

(* A DbScope after the write handle was flushed.                           *)
ScopeOpened(L, db) == UNION {OpenDatabase(k, db) : k \in FlushWriteHandle(L)}

(* A mutant of ReadAllRecords: the scope is not closed.                    *)
ReadAllRecords_Unclosed(L, db) ==
    UNION {IF o.h = NoHandle
           THEN {[l |-> o.l, list |-> Empty]}
           ELSE ReadRecords(o.l, device[o.l.open[o.h]]) : o \in ScopeOpened(L, db)}

ReadAllRecords(L, db) ==
    UNION {IF o.h = NoHandle
           THEN {[l |-> o.l, list |-> Empty]}
           ELSE UNION {{[r EXCEPT !.l = k] : k \in CloseDatabase(r.l, o.h)} :
                          r \in ReadRecords(o.l, device[o.l.open[o.h]])} :
           o \in ScopeOpened(L, db)}

(* createRecord, updateRecord and deleteRecord; the change goes to the     *)
(* database the handle is open on.                                         *)
WriteThrough(L, db, i, new) ==
    UNION {IF o.h = NoHandle
           THEN {[l |-> o.l, dev |-> device, ok |-> FALSE]}
           ELSE LET d == o.l.open[o.h] IN
                {[l |-> c.l, dev |-> [device EXCEPT ![d] = c.list], ok |-> c.ok] :
                     c \in ChangeRecord(o.l, device[d], i, new)} :
           o \in EnsureWriteHandle(L, db)}

(* readRecord, recordsModifiedSince, readAppBlock and writeAppBlock: a     *)
(* scope around DLP calls that change no record.                           *)
ScopedCall(L, db) ==
    UNION {IF o.h = NoHandle THEN {o.l}
           ELSE UNION {CloseDatabase(k, o.h) :
                          k \in IF o.l.conn THEN {o.l} \cup Failing({Err(o.l)})
                                ELSE {Err(o.l)}} :
           o \in ScopeOpened(L, db)}

-----------------------------------------------------------------------------
(* The engine thread.                                                      *)

Begin(db) == eng.at = "idle" /\ db \in Dbs

(* loadRecordsOrError of the memo, to-do and contacts backends and         *)
(* fetchItems of the calendar backend: the connection is tested, the       *)
(* records are read on the link thread, the connection is tested again.    *)
LoadBegin(db) ==
    /\ Begin(db) /\ db \notin Cached
    /\ IF Connected
       THEN eng' = [Idle EXCEPT !.at = "checked", !.db = db] /\ ans' = NoAns
       ELSE ans' = [NoAns EXCEPT !.of = "load", !.db = db] /\ UNCHANGED eng
    /\ UNCHANGED <<device, link, phase, cache>>

LoadRead ==
    /\ eng.at = "checked"
    /\ IF Impl
       THEN \E r \in ReadAllRecords(link, eng.db) :
                link' = r.l /\ eng' = [eng EXCEPT !.at = "read", !.list = r.list]
       ELSE eng' = [eng EXCEPT !.at = "read"] /\ UNCHANGED link
    /\ UNCHANGED <<device, phase, cache, ans>>

LoadCheck ==
    /\ eng.at = "read"
    /\ ans' = [NoAns EXCEPT !.of = "load", !.db = eng.db, !.ok = Connected,
                            !.list = IF Connected THEN eng.list ELSE Empty]
    /\ eng' = Idle
    /\ UNCHANGED <<device, link, phase, cache>>

(* PalmBackend::loadPalmRecords: whatever a read returns is cached.        *)
LoadCached(db) ==
    /\ Begin(db) /\ db \in Cached
    /\ \/ cache[db] # NoList /\ UNCHANGED <<link, cache>>
       \/ /\ cache[db] = NoList /\ Impl
          /\ \E r \in ReadAllRecords(link, db) :
                 link' = r.l /\ cache' = [cache EXCEPT ![db] = r.list]
       \/ /\ cache[db] = NoList /\ ~Impl
          /\ cache' = [cache EXCEPT ![db] = Empty] /\ UNCHANGED link
    /\ ans' = NoAns
    /\ UNCHANGED <<device, phase, eng>>

(* A mutant of Uncached: the entry stays.                                  *)
Uncached_Kept(db, ok) == cache

(* The cache after a write.                                                *)
Uncached(db, ok) ==
    IF ok /\ db \in Cached THEN [cache EXCEPT ![db] = NoList] ELSE cache

Write(db, i, new, created) ==
    /\ Begin(db)
    /\ IF Impl
       THEN \E w \in WriteThrough(link, db, i, new) :
                /\ device' = w.dev /\ link' = w.l
                /\ cache' = Uncached(db, w.ok)
                /\ ans' = created[w.ok]
       ELSE /\ ans' = created[FALSE]
            /\ UNCHANGED <<device, link, cache>>
    /\ UNCHANGED <<phase, eng>>

(* What createRecord returns.  The device assigns the identifier.          *)
(* PalmBackend returns none after a failure; the other backends encode it, *)
(* and report the record "palm:<kind>:0".                                  *)
CreateAnswer(db, i) ==
    [ok \in BOOLEAN |-> [NoAns EXCEPT !.of = "create", !.db = db,
                                      !.ok = ok \/ db \notin Cached,
                                      !.id = IF ok THEN i ELSE NoId]]

CreateRecord(db, i, v) ==
    /\ device[db][i] = NoRec
    /\ Write(db, i, v, CreateAnswer(db, i))

UpdateRecord(db, i, v) == Write(db, i, v, [ok \in BOOLEAN |-> NoAns])

DeleteRecord(db, i) == Write(db, i, NoRec, [ok \in BOOLEAN |-> NoAns])

(* The other calls of a backend, of which none changes a record.           *)
OtherCall(db) ==
    /\ Begin(db) /\ Impl
    /\ \/ link' \in ScopedCall(link, db)
       \/ link' \in FlushWriteHandle(link)    \* availableDatabases
    /\ ans' = NoAns
    /\ UNCHANGED <<device, phase, cache, eng>>

(* wipePalmDatabase: the records a read returns are deleted one by one,    *)
(* the database is looked up and the cache entry is dropped.               *)
WipeBegin(db) ==
    /\ Begin(db) /\ db \in Cached
    /\ IF Impl
       THEN \E r \in ReadAllRecords(link, db) :
                /\ link' = r.l
                /\ eng' = [Idle EXCEPT !.at = "wipe", !.db = db,
                                       !.left = Listed(r.list)]
       ELSE eng' = [Idle EXCEPT !.at = "wipe", !.db = db] /\ UNCHANGED link
    /\ ans' = NoAns
    /\ UNCHANGED <<device, phase, cache>>

WipeDelete(i) ==
    /\ eng.at = "wipe" /\ i \in eng.left
    /\ IF Impl
       THEN \E w \in WriteThrough(link, eng.db, i, NoRec) :
                /\ device' = w.dev /\ link' = w.l
                /\ eng' = [eng EXCEPT !.left = @ \ {i}, !.ok = @ /\ w.ok]
       ELSE /\ eng' = [eng EXCEPT !.left = @ \ {i}, !.ok = FALSE]
            /\ UNCHANGED <<device, link>>
    /\ UNCHANGED <<phase, cache, ans>>

(* createDatabase is hasDatabase; a list that breaks off may miss the name.*)
WipeEnd ==
    /\ eng.at = "wipe" /\ eng.left = {}
    /\ IF Impl
       THEN \E k \in FlushWriteHandle(link) :
                /\ link' = IF k.conn THEN k ELSE Err(k)
                /\ \E has \in IF ~k.conn THEN {FALSE}
                              ELSE {TRUE} \cup Failing({FALSE}) :
                       ans' = [NoAns EXCEPT !.of = "wipe", !.db = eng.db,
                                            !.ok = eng.ok /\ has]
       ELSE ans' = [NoAns EXCEPT !.of = "wipe", !.db = eng.db] /\ UNCHANGED link
    /\ cache' = [cache EXCEPT ![eng.db] = NoList]
    /\ eng' = Idle
    /\ UNCHANGED <<device, phase>>

-----------------------------------------------------------------------------
(* The rest of the program.                                                *)

(* The lease of a run flushes the write handle when the run checkpoints.   *)
FlushWrites ==
    /\ Impl
    /\ link' \in FlushWriteHandle(link)
    /\ UNCHANGED <<device, phase, cache, eng, ans>>

(* doDisconnect on the link thread: m_impl is reset, whose destructor      *)
(* flushes; the link is closed, which takes seconds; m_connected falls.    *)
DisconnectBegin ==
    /\ phase = "open" /\ phase' = "closing"
    /\ link' \in FlushWriteHandle(link)
    /\ UNCHANGED <<device, cache, eng, ans>>

DisconnectEnd ==
    /\ phase = "closing" /\ phase' = "closed"
    /\ link' = [link EXCEPT !.conn = FALSE, !.open = [h \in Handles |-> NoDb]]
    /\ UNCHANGED <<device, cache, eng, ans>>

-----------------------------------------------------------------------------
Next ==
    \/ \E db \in Dbs :
         \/ LoadBegin(db) \/ LoadCached(db) \/ OtherCall(db) \/ WipeBegin(db)
         \/ \E i \in Ids : \/ DeleteRecord(db, i)
                           \/ \E v \in Values : \/ CreateRecord(db, i, v)
                                                \/ UpdateRecord(db, i, v)
    \/ LoadRead \/ LoadCheck \/ WipeEnd
    \/ \E i \in Ids : WipeDelete(i)
    \/ FlushWrites \/ DisconnectBegin \/ DisconnectEnd

Spec == Init /\ [][Next]_vars

-----------------------------------------------------------------------------
LinkType == [conn : BOOLEAN, err : BOOLEAN, open : [Handles -> Dbs \cup {NoDb}],
             wh : Handles \cup {NoHandle}, wdb : Dbs \cup {NoDb}, lost : SUBSET Handles]
EngType == [at : {"idle", "checked", "read", "wipe"}, db : Dbs \cup {NoDb},
            list : List, left : SUBSET Ids, ok : BOOLEAN]
AnsType == [of : {"none", "load", "create", "wipe"}, db : Dbs \cup {NoDb},
            ok : BOOLEAN, list : List, id : Ids \cup {NoId}]

(* Every variable keeps to its type; m_writeDbName is set exactly while    *)
(* there is a cached write handle.                                         *)
TypeOK ==
    /\ device \in [Dbs -> List]
    /\ link \in LinkType /\ (link.wh = NoHandle <=> link.wdb = NoDb)
    /\ phase \in {"open", "closing", "closed"}
    /\ cache \in [Dbs -> List \cup {NoList}]
    /\ eng \in EngType /\ ans \in AnsType

(* Between two calls, the only handle open on the device is the cached     *)
(* write handle, except one that the device refused to close: no path      *)
(* through a call leaks the handle of its scope, however it fails.         *)
NoHandleLeak ==
    link.conn => \A h \in Handles :
        link.open[h] # NoDb => h = link.wh \/ h \in link.lost

(* The cached write handle is open on the database it is cached for, so a  *)
(* batch of writes cannot land in the database of the batch before.        *)
WriteHandleRight ==
    link.wh # NoHandle => link.open[link.wh] = link.wdb

(* While the link has seen no error and is not being torn down, a load     *)
(* that succeeds returns what is on the device.                            *)
LoadHonest ==
    ans.of = "load" /\ ans.ok /\ ~link.err /\ Impl => ans.list = device[ans.db]

(* Likewise the record cache is what the device holds, between two calls.  *)
CacheCoherent ==
    eng.at = "idle" /\ ~link.err /\ Impl =>
        \A db \in Cached : cache[db] \in {NoList, device[db]}

(* Likewise a wipe that succeeds leaves an empty database to push into.    *)
WipeHonest ==
    ans.of = "wipe" /\ ans.ok /\ ~link.err /\ Impl => device[ans.db] = Empty

(* A record that a PalmBackend reports as created is on the device, in    *)
(* the database that was asked for, whatever fails.                        *)
CreatedExists ==
    ans.of = "create" /\ ans.ok /\ ans.db \in Cached =>
        ans.id # NoId /\ device[ans.db][ans.id] # NoRec

-----------------------------------------------------------------------------
(* What the sources say and the model refutes.                             *)

(* ipalmdatabaseaccess.h, isConnected: consulted after each read to        *)
(* distinguish "0 records" from "couldn't read".                           *)
LoadComplete ==
    ans.of = "load" /\ ans.ok => ans.list = device[ans.db]

(* ipalmdatabaseaccess.h, createRecord: the identifier assigned, or 0 on   *)
(* failure.  So no backend reports a record that has none.                 *)
CreatedHasId == ans.of = "create" /\ ans.ok => ans.id # NoId
=============================================================================
