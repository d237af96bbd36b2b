------------------------------- MODULE Journal -------------------------------
(***************************************************************************)
(* SyncState with its IDMappingStore and BaselineStore: which Palm record  *)
(* is which file of the PC, with what categories, and what the files       *)
(* looked like after the last sync, kept in one JSON file.                 *)
(*                                                                         *)
(* A save truncates the file and then writes it; the process may die at    *)
(* any moment, between the two as well.  The destructor saves.             *)
(* The ids are not empty.  Dates are abstracted to whether there is one,   *)
(* the conflicts that are stored along to nothing (they are libkalburator's*)
(* ConflictStore).                                                         *)
(***************************************************************************)
EXTENDS Naturals, FiniteSets

CONSTANTS PalmIds, PcIds,
          NoId,         \* the empty id
          Categories,   \* category data of a mapping
          NoCategory,   \* that of a new mapping
          Hashes, NoHash

ASSUME JournalAssumption ==
  /\ NoId \notin PalmIds \cup PcIds
  /\ NoCategory \notin Categories
  /\ NoHash \notin Hashes

VARIABLES mappings,    \* m_mappings, by Palm id
          reverseMap,  \* m_reverseMap, by PC id
          hashes,      \* the baseline, by PC id
          synced,      \* m_lastSyncTime.isValid()
          file,        \* mappings.json: absent, torn or complete
          phase,       \* the object: none, open, saving, closing
          left         \* history, while there is no object: the memory the destructor saved

memory == <<mappings, reverseMap, hashes, synced>>
vars == <<mappings, reverseMap, hashes, synced, file, phase, left>>

NoMapping == [target |-> NoId, category |-> NoCategory]
MappingType == [target : PcIds, category : Categories \cup {NoCategory}] \cup {NoMapping}
Contents ==
  [mappings : [PalmIds -> MappingType], hashes : [PcIds -> Hashes \cup {NoHash}],
   synced : BOOLEAN]
Absent == [state |-> "absent"]
Torn == [state |-> "torn"]
Complete(content) == [state |-> "complete", content |-> content]
Nothing == [state |-> "nothing"]

NoMappings == [p \in PalmIds |-> NoMapping]
NoReverse == [t \in PcIds |-> NoId]
NoHashes == [t \in PcIds |-> NoHash]

Init == /\ mappings = NoMappings /\ reverseMap = NoReverse
        /\ hashes = NoHashes /\ synced = FALSE
        /\ file = Absent
        /\ phase = "none"
        /\ left = Nothing

-----------------------------------------------------------------------------
(* IDMappingStore.                                                         *)

PcIdForPalm(s) == mappings[s].target
PalmIdForPC(t) == reverseMap[t]

(* The two maps after mapIds(s, t): first the old partner of s forgets it, *)
(* then the old partner of t goes.                                         *)
Unlinked(s) == IF mappings[s] = NoMapping THEN reverseMap
               ELSE [reverseMap EXCEPT ![mappings[s].target] = NoId]

Relinked_KeepsRival(s, t) == [mappings EXCEPT ![s] = [target |-> t, category |-> NoCategory]]

Relinked(s, t) ==
  LET rival == Unlinked(s)[t]
  IN  [p \in PalmIds |-> IF p = s THEN [target |-> t, category |-> NoCategory]
                         ELSE IF p = rival THEN NoMapping ELSE mappings[p]]

MapIds(s, t) ==
  /\ phase = "open"
  /\ reverseMap' = [Unlinked(s) EXCEPT ![t] = s]
  /\ mappings' = Relinked(s, t)
  /\ UNCHANGED <<hashes, synced, file, phase, left>>

RemoveBySource(s) ==
  /\ phase = "open" /\ mappings[s] # NoMapping
  /\ reverseMap' = [reverseMap EXCEPT ![mappings[s].target] = NoId]
  /\ mappings' = [mappings EXCEPT ![s] = NoMapping]
  /\ UNCHANGED <<hashes, synced, file, phase, left>>

RemoveByTarget(t) ==
  /\ phase = "open" /\ reverseMap[t] # NoId
  /\ mappings' = [mappings EXCEPT ![reverseMap[t]] = NoMapping]
  /\ reverseMap' = [reverseMap EXCEPT ![t] = NoId]
  /\ UNCHANGED <<hashes, synced, file, phase, left>>

UpdateCategories(s, category) ==
  /\ phase = "open" /\ mappings[s] # NoMapping
  /\ mappings' = [mappings EXCEPT ![s].category = category]
  /\ UNCHANGED <<reverseMap, hashes, synced, file, phase, left>>

-----------------------------------------------------------------------------
(* BaselineStore, and what SyncState keeps itself.                         *)

SetHash(t, h) ==
  /\ phase = "open"
  /\ hashes' = [hashes EXCEPT ![t] = h]
  /\ UNCHANGED <<mappings, reverseMap, synced, file, phase, left>>

(* The baseline after a sync is that of the files there are.               *)
SaveBaseline(files) ==
  /\ phase = "open"
  /\ \E h \in Hashes : hashes' = [t \in PcIds |-> IF t \in files THEN h ELSE NoHash]
  /\ UNCHANGED <<mappings, reverseMap, synced, file, phase, left>>

SetLastSyncTime ==
  /\ phase = "open"
  /\ synced' = TRUE
  /\ UNCHANGED <<mappings, reverseMap, hashes, file, phase, left>>

Clear ==
  /\ phase = "open"
  /\ mappings' = NoMappings /\ reverseMap' = NoReverse /\ hashes' = NoHashes /\ synced' = FALSE
  /\ UNCHANGED <<file, phase, left>>

-----------------------------------------------------------------------------
(* Persistence.                                                            *)

Content == [mappings |-> mappings, hashes |-> hashes, synced |-> synced]

(* The reverse map is not in the file; fromJson builds it from the list,   *)
(* the last entry of a target wins.                                        *)
ReverseOf(m) ==
  [t \in PcIds |-> IF \E p \in PalmIds : m[p].target = t
                   THEN CHOOSE p \in PalmIds : m[p].target = t ELSE NoId]

(* load: an empty list or object in the file leaves what is in memory; a   *)
(* torn file is a parse error and leaves everything.                       *)
LoadInto(m, r, h) ==
  CASE file.state = "complete" ->
         /\ mappings' = IF file.content.mappings = NoMappings THEN m ELSE file.content.mappings
         /\ reverseMap' = IF file.content.mappings = NoMappings THEN r
                          ELSE ReverseOf(file.content.mappings)
         /\ hashes' = IF file.content.hashes = NoHashes THEN h ELSE file.content.hashes
         /\ synced' = file.content.synced
    [] OTHER -> mappings' = m /\ reverseMap' = r /\ hashes' = h /\ UNCHANGED synced

(* A new object on the same directory, and its first load.                 *)
Open ==
  /\ phase = "none"
  /\ LoadInto(NoMappings, NoReverse, NoHashes)
  /\ phase' = "open" /\ left' = Nothing
  /\ UNCHANGED file

Reload ==
  /\ phase = "open"
  /\ LoadInto(mappings, reverseMap, hashes)
  /\ UNCHANGED <<file, phase, left>>

(* open(WriteOnly) truncates; if it fails the save fails.                  *)
SaveOpens ==
  /\ phase = "open"
  /\ phase' = "saving" /\ file' = Torn
  /\ UNCHANGED <<mappings, reverseMap, hashes, synced, left>>

SaveWrites ==
  /\ phase = "saving"
  /\ phase' = "open" /\ file' = Complete(Content)
  /\ UNCHANGED <<mappings, reverseMap, hashes, synced, left>>

Forget == mappings' = NoMappings /\ reverseMap' = NoReverse /\ hashes' = NoHashes /\ synced' = FALSE

Destroy ==
  /\ phase = "open"
  /\ phase' = "closing" /\ file' = Torn
  /\ UNCHANGED <<mappings, reverseMap, hashes, synced, left>>

Destroyed_NoBaseline ==
  /\ phase = "closing"
  /\ phase' = "none" /\ file' = Complete([Content EXCEPT !.hashes = NoHashes])
  /\ left' = [state |-> "kept", memory |-> memory]
  /\ Forget

Destroyed ==
  /\ phase = "closing"
  /\ phase' = "none" /\ file' = Complete(Content)
  /\ left' = [state |-> "kept", memory |-> memory]
  /\ Forget

(* The directory cannot be written: the destructor's save fails silently.  *)
DestroyedUnsaved ==
  /\ phase = "open"
  /\ phase' = "none" /\ left' = Nothing
  /\ Forget
  /\ UNCHANGED file

Crash ==
  /\ phase # "none"
  /\ phase' = "none" /\ left' = Nothing
  /\ Forget
  /\ UNCHANGED file

(* What SyncState passes on to its two stores.                             *)
MappingOperation ==
  \/ \E s \in PalmIds, t \in PcIds : MapIds(s, t)
  \/ \E s \in PalmIds : RemoveBySource(s)
  \/ \E t \in PcIds : RemoveByTarget(t)
  \/ \E s \in PalmIds, c \in Categories : UpdateCategories(s, c)

BaselineOperation ==
  \/ \E t \in PcIds, h \in Hashes \cup {NoHash} : SetHash(t, h)
  \/ \E files \in SUBSET PcIds : SaveBaseline(files)

Next ==
  \/ MappingOperation
  \/ BaselineOperation
  \/ SetLastSyncTime
  \/ Clear
  \/ Open
  \/ Reload
  \/ SaveOpens
  \/ SaveWrites
  \/ Destroy
  \/ Destroyed
  \/ DestroyedUnsaved
  \/ Crash

Spec == Init /\ [][Next]_vars

-----------------------------------------------------------------------------
(* Types of the two stores, the file and the object's life.                *)
JournalTypeOK ==
  /\ mappings \in [PalmIds -> MappingType]
  /\ reverseMap \in [PcIds -> PalmIds \cup {NoId}]
  /\ hashes \in [PcIds -> Hashes \cup {NoHash}]
  /\ synced \in BOOLEAN
  /\ file \in {Absent, Torn} \cup {Complete(content) : content \in Contents}
  /\ phase \in {"none", "open", "saving", "closing"}

Injective(m) ==
  \A p, q \in PalmIds : m[p].target \in PcIds /\ m[p].target = m[q].target => p = q

(* The two maps of the mapping store are each other's inverse, through any *)
(* re-mapping, removal, crash and reload (idmappingstore.h: "the old       *)
(* mapping is removed to maintain 1:1 correspondence"): no Palm record and *)
(* no file ever has two partners.                                          *)
OneToOne ==
  \A p \in PalmIds, t \in PcIds : (PcIdForPalm(p) = t) <=> (PalmIdForPC(t) = p)

(* What a file holds can be taken back without two records for a target.   *)
FileOneToOne == file.state = "complete" => Injective(file.content.mappings)

(* What an object knew when it was destroyed, the next one on the same     *)
(* directory knows after its load, unless a save failed or the process     *)
(* died in between.                                                        *)
CleanRestart ==
  [][phase = "none" /\ phase' = "open" /\ left.state = "kept" => memory' = left.memory]_vars
=============================================================================
