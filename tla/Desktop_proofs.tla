--------------------------- MODULE Desktop_proofs ---------------------------
(***************************************************************************)
(* The parts that live on the desktop side alone and share no variable.    *)
(* The journal, for any set of Palm ids and of PC ids: its types, that the *)
(* two maps of the mapping store stay each other's inverse, and what a     *)
(* restart brings back.  Whole databases as files, for any databases and   *)
(* any names of files: what a backup or restore that reports success has   *)
(* done, and that the install queue loses nothing.  The status panel, for  *)
(* any mappings and modes and any number of runs: its summary is the last  *)
(* run's, and it offers a sync only of a device that is there.             *)
(***************************************************************************)
EXTENDS DeviceFiles, Journal, Dashboard, FiniteSetTheorems, WellFoundedInduction, TLAPS

-----------------------------------------------------------------------------
(* The journal.                                                            *)

(* A mapping's target is empty only when there is no mapping.              *)
LEMMA NoTarget ==
    ASSUME NEW m \in MappingType
    PROVE  /\ m.target \in PcIds \cup {NoId}
           /\ m.target \in PcIds <=> m # NoMapping
BY JournalAssumption DEF MappingType, NoMapping

LEMMA EmptyStores ==
    /\ NoMappings \in [PalmIds -> MappingType]
    /\ NoReverse \in [PcIds -> PalmIds \cup {NoId}]
    /\ NoHashes \in [PcIds -> Hashes \cup {NoHash}]
    /\ \A p \in PalmIds : NoMappings[p].target = NoId
BY DEF NoMappings, NoReverse, NoHashes, NoMapping, MappingType

-----------------------------------------------------------------------------
(* The reverse map that a load builds is the inverse of an injective one.  *)

Inverses(m, r) == \A p \in PalmIds, t \in PcIds : (m[p].target = t) <=> (r[t] = p)

LEMMA ReverseOfType ==
    ASSUME NEW m
    PROVE  ReverseOf(m) \in [PcIds -> PalmIds \cup {NoId}]
<1> SUFFICES ASSUME NEW t \in PcIds
             PROVE  ReverseOf(m)[t] \in PalmIds \cup {NoId}
  BY DEF ReverseOf
<1>1. CASE \E p \in PalmIds : m[p].target = t
  BY <1>1 DEF ReverseOf
<1>2. CASE ~\E p \in PalmIds : m[p].target = t
  BY <1>2 DEF ReverseOf
<1> QED BY <1>1, <1>2

LEMMA ReverseOfInverts ==
    ASSUME NEW m, Injective(m)
    PROVE  Inverses(m, ReverseOf(m))
<1> SUFFICES ASSUME NEW p \in PalmIds, NEW t \in PcIds
             PROVE  (m[p].target = t) <=> (ReverseOf(m)[t] = p)
  BY DEF Inverses
<1>1. CASE \E q \in PalmIds : m[q].target = t
  <2> DEFINE q == CHOOSE q \in PalmIds : m[q].target = t
  <2>1. q \in PalmIds /\ m[q].target = t /\ ReverseOf(m)[t] = q
    BY <1>1 DEF ReverseOf
  <2>2. m[p].target = t => p = q
    BY <2>1 DEF Injective
  <2> QED BY <2>1, <2>2
<1>2. CASE ~\E q \in PalmIds : m[q].target = t
  <2>1. ReverseOf(m)[t] = NoId
    BY <1>2 DEF ReverseOf
  <2> QED BY <1>2, <2>1, JournalAssumption
<1> QED BY <1>1, <1>2

LEMMA InversesInjective ==
    ASSUME NEW m, NEW r, Inverses(m, r)
    PROVE  Injective(m)
BY DEF Inverses, Injective

(* There is one inverse.                                                   *)
LEMMA InverseIsReverseOf ==
    ASSUME NEW m, NEW r \in [PcIds -> PalmIds \cup {NoId}], Inverses(m, r)
    PROVE  r = ReverseOf(m)
<1>1. Inverses(m, ReverseOf(m))
  BY InversesInjective, ReverseOfInverts
<1>2. ReverseOf(m) \in [PcIds -> PalmIds \cup {NoId}]
  BY ReverseOfType
<1>3. ASSUME NEW t \in PcIds
      PROVE  r[t] = ReverseOf(m)[t]
  <2>1. CASE \E p \in PalmIds : m[p].target = t
    BY <1>1, <2>1 DEF Inverses
  <2>2. CASE ~\E p \in PalmIds : m[p].target = t
    <3>1. r[t] = NoId
      BY <2>2 DEF Inverses
    <3>2. ReverseOf(m)[t] = NoId
      BY <2>2 DEF ReverseOf
    <3> QED BY <3>1, <3>2
  <2> QED BY <2>1, <2>2
<1> HIDE DEF ReverseOf
<1> QED BY <1>2, <1>3

LEMMA EmptyInverses == Inverses(NoMappings, NoReverse)
BY EmptyStores, JournalAssumption DEF Inverses, NoReverse

-----------------------------------------------------------------------------
(* The inductive invariant.  The maps are inverse in memory, what a file   *)
(* holds is injective, so that a load makes them inverse again, and what   *)
(* the last destructor saved is in the file.                               *)

FileTypeOK == file \in {Absent, Torn} \cup {Complete(content) : content \in Contents}

Kept(m, r, h, s) == [state |-> "kept", memory |-> <<m, r, h, s>>]

KeptInFile ==
  \/ left = Nothing
  \/ /\ phase = "none"
     /\ \E m \in [PalmIds -> MappingType], r \in [PcIds -> PalmIds \cup {NoId}],
           h \in [PcIds -> Hashes \cup {NoHash}], s \in BOOLEAN :
          /\ left = Kept(m, r, h, s)
          /\ file = Complete([mappings |-> m, hashes |-> h, synced |-> s])
          /\ Inverses(m, r)

IInv == JournalTypeOK /\ OneToOne /\ FileOneToOne /\ KeptInFile

LEMMA OneToOneInverses == OneToOne <=> Inverses(mappings, reverseMap)
BY DEF OneToOne, Inverses, PcIdForPalm, PalmIdForPC

LEMMA FileContent ==
    ASSUME FileTypeOK, file.state = "complete"
    PROVE  file.content \in Contents /\ file = Complete(file.content)
BY DEF FileTypeOK, Absent, Torn, Complete

(* Whatever is loaded into, the three stores keep their types and stay     *)
(* inverse.                                                                *)
LEMMA LoadKeeps ==
    ASSUME JournalTypeOK, FileOneToOne,
           NEW m \in [PalmIds -> MappingType], NEW r \in [PcIds -> PalmIds \cup {NoId}],
           NEW h \in [PcIds -> Hashes \cup {NoHash}],
           Inverses(m, r), LoadInto(m, r, h)
    PROVE  /\ mappings' \in [PalmIds -> MappingType]
           /\ reverseMap' \in [PcIds -> PalmIds \cup {NoId}]
           /\ hashes' \in [PcIds -> Hashes \cup {NoHash}]
           /\ synced' \in BOOLEAN
           /\ Inverses(mappings', reverseMap')
<1>1. CASE file.state = "complete"
  <2> DEFINE c == file.content
  <2>1. c \in Contents
    BY <1>1, FileContent DEF JournalTypeOK, FileTypeOK
  <2>2. /\ c.mappings \in [PalmIds -> MappingType]
        /\ c.hashes \in [PcIds -> Hashes \cup {NoHash}]
        /\ c.synced \in BOOLEAN
    BY <2>1 DEF Contents
  <2>3. Injective(c.mappings)
    BY <1>1 DEF FileOneToOne
  <2>4. Inverses(c.mappings, ReverseOf(c.mappings))
    BY <2>3, ReverseOfInverts
  <2>5. ReverseOf(c.mappings) \in [PcIds -> PalmIds \cup {NoId}]
    BY ReverseOfType
  <2>6. /\ mappings' = IF c.mappings = NoMappings THEN m ELSE c.mappings
        /\ reverseMap' = IF c.mappings = NoMappings THEN r ELSE ReverseOf(c.mappings)
        /\ hashes' = IF c.hashes = NoHashes THEN h ELSE c.hashes
        /\ synced' = c.synced
    BY <1>1 DEF LoadInto
  <2> HIDE DEF c
  <2>7. CASE c.mappings = NoMappings
    BY <2>2, <2>6, <2>7
  <2>8. CASE c.mappings # NoMappings
    BY <2>2, <2>4, <2>5, <2>6, <2>8
  <2> QED BY <2>7, <2>8
<1>2. CASE file.state # "complete"
  <2>1. mappings' = m /\ reverseMap' = r /\ hashes' = h /\ synced' = synced
    BY <1>2 DEF LoadInto
  <2> QED BY <2>1 DEF JournalTypeOK
<1> QED BY <1>1, <1>2

(* A new pair: the old partners of both lose them.                         *)
LEMMA MapIdsKeeps ==
    ASSUME JournalTypeOK, OneToOne, NEW s \in PalmIds, NEW t \in PcIds, MapIds(s, t)
    PROVE  /\ mappings' \in [PalmIds -> MappingType]
           /\ reverseMap' \in [PcIds -> PalmIds \cup {NoId}]
           /\ Inverses(mappings', reverseMap')
<1> DEFINE rival == Unlinked(s)[t]
<1>1. Inverses(mappings, reverseMap)
  BY OneToOneInverses
<1>2. /\ Unlinked(s) \in [PcIds -> PalmIds \cup {NoId}]
      /\ \A u \in PcIds : Unlinked(s)[u] = IF mappings[s].target = u THEN NoId ELSE reverseMap[u]
  <2>1. mappings[s] \in MappingType
    BY DEF JournalTypeOK
  <2>2. CASE mappings[s] = NoMapping
    BY <2>2, JournalAssumption DEF Unlinked, JournalTypeOK, NoMapping
  <2>3. CASE mappings[s] # NoMapping
    BY <2>1, <2>3, NoTarget DEF Unlinked, JournalTypeOK
  <2> QED BY <2>2, <2>3
<1>3. /\ reverseMap' = [Unlinked(s) EXCEPT ![t] = s]
      /\ mappings' = [p \in PalmIds |-> IF p = s THEN [target |-> t, category |-> NoCategory]
                                        ELSE IF p = rival THEN NoMapping ELSE mappings[p]]
  BY DEF MapIds, Relinked
<1>4. [target |-> t, category |-> NoCategory] \in MappingType /\ NoMapping \in MappingType
  BY DEF MappingType
<1>5. \A p \in PalmIds : mappings[p] \in MappingType
  BY DEF JournalTypeOK
<1>6. mappings' \in [PalmIds -> MappingType]
  BY <1>3, <1>4, <1>5
<1>7. reverseMap' \in [PcIds -> PalmIds \cup {NoId}]
  BY <1>2, <1>3
<1>8. ASSUME NEW p \in PalmIds, NEW u \in PcIds
      PROVE  (mappings'[p].target = u) <=> (reverseMap'[u] = p)
  <2>1. reverseMap'[u] = IF u = t THEN s ELSE IF mappings[s].target = u THEN NoId ELSE reverseMap[u]
    BY <1>2, <1>3
  <2>2. rival = IF mappings[s].target = t THEN NoId ELSE reverseMap[t]
    BY <1>2
  <2> HIDE DEF rival
  <2>3. CASE p = s
    BY <1>1, <1>3, <2>1, <2>3, JournalAssumption DEF Inverses
  <2>4. CASE p # s /\ p = rival
    <3>1. mappings[p].target = t
      BY <1>1, <2>2, <2>4, JournalAssumption DEF Inverses
    <3>2. mappings'[p].target = NoId
      BY <1>3, <2>4 DEF NoMapping
    <3> QED BY <1>1, <2>1, <2>4, <3>1, <3>2, JournalAssumption DEF Inverses
  <2>5. CASE p # s /\ p # rival
    <3>1. mappings'[p] = mappings[p]
      BY <1>3, <2>5
    <3>2. mappings[p].target # t
      BY <1>1, <2>2, <2>5, JournalAssumption DEF Inverses
    <3> QED BY <1>1, <2>1, <2>5, <3>1, <3>2, JournalAssumption DEF Inverses
  <2> QED BY <2>3, <2>4, <2>5
<1> QED BY <1>6, <1>7, <1>8 DEF Inverses

-----------------------------------------------------------------------------
LEMMA InitIInv == Init => IInv
<1> SUFFICES ASSUME Init PROVE IInv
  OBVIOUS
<1>1. JournalTypeOK
  BY EmptyStores DEF Init, JournalTypeOK
<1>2. OneToOne
  BY EmptyInverses, OneToOneInverses DEF Init
<1>3. FileOneToOne
  BY DEF Init, FileOneToOne, Absent
<1> QED BY <1>1, <1>2, <1>3 DEF Init, IInv, KeptInFile

(* A step that leaves the file and the last object's memory alone, while   *)
(* there is an object or it is the first one's beginning.                  *)
LEMMA SameFile ==
    ASSUME FileTypeOK, FileOneToOne, UNCHANGED file
    PROVE  FileTypeOK' /\ FileOneToOne'
BY DEF FileTypeOK, FileOneToOne, Injective

(* While an object lives, nothing of the last one is remembered.           *)
LEMMA NothingKept ==
    ASSUME KeptInFile, phase # "none"
    PROVE  left = Nothing
BY DEF KeptInFile

(* The file a save writes.                                                 *)
LEMMA SavedFile ==
    ASSUME JournalTypeOK, OneToOne, file' = Complete(Content)
    PROVE  FileTypeOK' /\ FileOneToOne'
<1>1. Content \in Contents
  BY DEF JournalTypeOK, Content, Contents
<1>2. Injective(mappings)
  BY OneToOneInverses, InversesInjective
<1>3. file'.content.mappings = mappings
  BY DEF Complete, Content
<1> QED BY <1>1, <1>2, <1>3 DEF FileTypeOK, FileOneToOne, Injective

LEMMA TornFile ==
    ASSUME file' = Torn
    PROVE  FileTypeOK' /\ FileOneToOne'
BY DEF FileTypeOK, FileOneToOne, Torn

LEMMA Forgotten ==
    ASSUME Forget
    PROVE  /\ mappings' \in [PalmIds -> MappingType]
           /\ reverseMap' \in [PcIds -> PalmIds \cup {NoId}]
           /\ hashes' \in [PcIds -> Hashes \cup {NoHash}]
           /\ synced' \in BOOLEAN
           /\ Inverses(mappings', reverseMap')
BY EmptyStores, EmptyInverses DEF Forget

(* The invariant after a step, from what each step shows of its parts.     *)
LEMMA Assemble ==
    ASSUME /\ mappings' \in [PalmIds -> MappingType]
           /\ reverseMap' \in [PcIds -> PalmIds \cup {NoId}]
           /\ hashes' \in [PcIds -> Hashes \cup {NoHash}]
           /\ synced' \in BOOLEAN
           /\ Inverses(mappings', reverseMap'),
           phase' \in {"none", "open", "saving", "closing"},
           FileTypeOK', FileOneToOne', KeptInFile'
    PROVE  IInv'
BY DEF IInv, JournalTypeOK, FileTypeOK, OneToOne, Inverses, PcIdForPalm, PalmIdForPC

LEMMA StepIInv == IInv /\ [Next]_vars => IInv'
<1> SUFFICES ASSUME IInv, [Next]_vars PROVE IInv'
  OBVIOUS
<1>1. /\ JournalTypeOK /\ OneToOne /\ FileOneToOne /\ KeptInFile /\ FileTypeOK
      /\ mappings \in [PalmIds -> MappingType]
      /\ reverseMap \in [PcIds -> PalmIds \cup {NoId}]
      /\ hashes \in [PcIds -> Hashes \cup {NoHash}]
      /\ synced \in BOOLEAN
      /\ phase \in {"none", "open", "saving", "closing"}
      /\ Inverses(mappings, reverseMap)
  BY OneToOneInverses DEF IInv, JournalTypeOK, FileTypeOK
<1>2. ASSUME phase = "open", UNCHANGED <<file, phase, left>>
      PROVE  FileTypeOK' /\ FileOneToOne' /\ KeptInFile' /\ phase' = "open"
  <2>1. left' = Nothing
    BY <1>1, <1>2, NothingKept
  <2> QED BY <1>1, <1>2, <2>1, SameFile DEF KeptInFile
<1>3. ASSUME NEW s \in PalmIds, NEW t \in PcIds, MapIds(s, t)
      PROVE  IInv'
  <2>1. phase = "open" /\ UNCHANGED <<hashes, synced, file, phase, left>>
    BY <1>3 DEF MapIds
  <2>2. /\ mappings' \in [PalmIds -> MappingType]
        /\ reverseMap' \in [PcIds -> PalmIds \cup {NoId}]
        /\ Inverses(mappings', reverseMap')
    BY <1>1, <1>3, MapIdsKeeps
  <2> QED BY <1>1, <1>2, <2>1, <2>2, Assemble
<1>4. ASSUME NEW s \in PalmIds, RemoveBySource(s)
      PROVE  IInv'
  <2>1. /\ phase = "open" /\ UNCHANGED <<hashes, synced, file, phase, left>>
        /\ mappings[s] # NoMapping
        /\ reverseMap' = [reverseMap EXCEPT ![mappings[s].target] = NoId]
        /\ mappings' = [mappings EXCEPT ![s] = NoMapping]
    BY <1>4 DEF RemoveBySource
  <2>2. mappings[s].target \in PcIds
    BY <1>1, <2>1, NoTarget
  <2>3. /\ mappings' \in [PalmIds -> MappingType]
        /\ reverseMap' \in [PcIds -> PalmIds \cup {NoId}]
    BY <1>1, <2>1 DEF MappingType
  <2>4. ASSUME NEW p \in PalmIds, NEW u \in PcIds
        PROVE  (mappings'[p].target = u) <=> (reverseMap'[u] = p)
    <3>1. mappings'[p] = IF p = s THEN NoMapping ELSE mappings[p]
      BY <1>1, <2>1
    <3>2. reverseMap'[u] = IF u = mappings[s].target THEN NoId ELSE reverseMap[u]
      BY <1>1, <2>1
    <3>3. NoMapping.target = NoId
      BY DEF NoMapping
    <3> QED BY <1>1, <3>1, <3>2, <3>3, JournalAssumption DEF Inverses
  <2>5. Inverses(mappings', reverseMap')
    BY <2>4 DEF Inverses
  <2> QED BY <1>1, <1>2, <2>1, <2>3, <2>5, Assemble
<1>5. ASSUME NEW t \in PcIds, RemoveByTarget(t)
      PROVE  IInv'
  <2>1. /\ phase = "open" /\ UNCHANGED <<hashes, synced, file, phase, left>>
        /\ reverseMap[t] # NoId
        /\ reverseMap' = [reverseMap EXCEPT ![t] = NoId]
        /\ mappings' = [mappings EXCEPT ![reverseMap[t]] = NoMapping]
    BY <1>5 DEF RemoveByTarget
  <2>2. reverseMap[t] \in PalmIds
    BY <1>1, <2>1
  <2>3. /\ mappings' \in [PalmIds -> MappingType]
        /\ reverseMap' \in [PcIds -> PalmIds \cup {NoId}]
    BY <1>1, <2>1 DEF MappingType
  <2>4. ASSUME NEW p \in PalmIds, NEW u \in PcIds
        PROVE  (mappings'[p].target = u) <=> (reverseMap'[u] = p)
    <3>1. mappings'[p] = IF p = reverseMap[t] THEN NoMapping ELSE mappings[p]
      BY <1>1, <2>1
    <3>2. reverseMap'[u] = IF u = t THEN NoId ELSE reverseMap[u]
      BY <1>1, <2>1
    <3>3. NoMapping.target = NoId
      BY DEF NoMapping
    <3> QED BY <1>1, <2>2, <3>1, <3>2, <3>3, JournalAssumption DEF Inverses
  <2>5. Inverses(mappings', reverseMap')
    BY <2>4 DEF Inverses
  <2> QED BY <1>1, <1>2, <2>1, <2>3, <2>5, Assemble
<1>6. ASSUME NEW s \in PalmIds, NEW c \in Categories, UpdateCategories(s, c)
      PROVE  IInv'
  <2>1. /\ phase = "open" /\ UNCHANGED <<reverseMap, hashes, synced, file, phase, left>>
        /\ mappings[s] # NoMapping
        /\ mappings' = [mappings EXCEPT ![s].category = c]
    BY <1>6 DEF UpdateCategories
  <2>2. mappings[s] \in [target : PcIds, category : Categories \cup {NoCategory}]
    BY <1>1, <2>1 DEF MappingType
  <2>3. mappings' = [mappings EXCEPT ![s] = [mappings[s] EXCEPT !.category = c]]
    BY <2>1
  <2>4. [mappings[s] EXCEPT !.category = c] \in [target : PcIds, category : Categories \cup {NoCategory}]
    BY <2>2
  <2>5. mappings' \in [PalmIds -> MappingType]
    BY <1>1, <2>3, <2>4 DEF MappingType
  <2>6. \A p \in PalmIds : mappings'[p].target = mappings[p].target
    BY <1>1, <2>2, <2>3
  <2>7. Inverses(mappings', reverseMap')
    BY <1>1, <2>1, <2>6 DEF Inverses
  <2> QED BY <1>1, <1>2, <2>1, <2>5, <2>7, Assemble
<1>7. ASSUME NEW t \in PcIds, NEW h \in Hashes \cup {NoHash}, SetHash(t, h)
      PROVE  IInv'
  <2>1. /\ phase = "open" /\ UNCHANGED <<mappings, reverseMap, synced, file, phase, left>>
        /\ hashes' \in [PcIds -> Hashes \cup {NoHash}]
    BY <1>1, <1>7 DEF SetHash
  <2> QED BY <1>1, <1>2, <2>1, Assemble
<1>8. ASSUME NEW files \in SUBSET PcIds, SaveBaseline(files)
      PROVE  IInv'
  <2>1. /\ phase = "open" /\ UNCHANGED <<mappings, reverseMap, synced, file, phase, left>>
        /\ hashes' \in [PcIds -> Hashes \cup {NoHash}]
    BY <1>8 DEF SaveBaseline
  <2> QED BY <1>1, <1>2, <2>1, Assemble
<1>9. CASE SetLastSyncTime
  <2>1. /\ phase = "open" /\ UNCHANGED <<mappings, reverseMap, hashes, file, phase, left>>
        /\ synced' \in BOOLEAN
    BY <1>9 DEF SetLastSyncTime
  <2> QED BY <1>1, <1>2, <2>1, Assemble
<1>10. CASE Clear
  <2>1. phase = "open" /\ UNCHANGED <<file, phase, left>> /\ Forget
    BY <1>10 DEF Clear, Forget
  <2> QED BY <1>1, <1>2, <2>1, Forgotten, Assemble
<1>11. CASE Open
  <2>1. LoadInto(NoMappings, NoReverse, NoHashes) /\ UNCHANGED file /\ phase' = "open" /\ left' = Nothing
    BY <1>11 DEF Open
  <2>2. FileTypeOK' /\ FileOneToOne' /\ KeptInFile'
    BY <1>1, <2>1, SameFile DEF KeptInFile
  <2> QED BY <1>1, <2>1, <2>2, EmptyStores, EmptyInverses, LoadKeeps, Assemble
<1>12. CASE Reload
  <2>1. LoadInto(mappings, reverseMap, hashes) /\ phase = "open" /\ UNCHANGED <<file, phase, left>>
    BY <1>12 DEF Reload
  <2> QED BY <1>1, <1>2, <2>1, LoadKeeps, Assemble
<1>13. CASE SaveOpens
  <2>1. /\ phase = "open" /\ phase' = "saving" /\ file' = Torn
        /\ UNCHANGED <<mappings, reverseMap, hashes, synced, left>>
    BY <1>13 DEF SaveOpens
  <2>2. KeptInFile'
    BY <1>1, <2>1, NothingKept DEF KeptInFile
  <2> QED BY <1>1, <2>1, <2>2, TornFile, Assemble
<1>14. CASE SaveWrites
  <2>1. /\ phase = "saving" /\ phase' = "open" /\ file' = Complete(Content)
        /\ UNCHANGED <<mappings, reverseMap, hashes, synced, left>>
    BY <1>14 DEF SaveWrites
  <2>2. KeptInFile'
    BY <1>1, <2>1, NothingKept DEF KeptInFile
  <2> QED BY <1>1, <2>1, <2>2, SavedFile, Assemble
<1>15. CASE Destroy
  <2>1. /\ phase = "open" /\ phase' = "closing" /\ file' = Torn
        /\ UNCHANGED <<mappings, reverseMap, hashes, synced, left>>
    BY <1>15 DEF Destroy
  <2>2. KeptInFile'
    BY <1>1, <2>1, NothingKept DEF KeptInFile
  <2> QED BY <1>1, <2>1, <2>2, TornFile, Assemble
<1>16. CASE Destroyed
  <2>1. /\ phase' = "none" /\ file' = Complete(Content) /\ Forget
        /\ left' = Kept(mappings, reverseMap, hashes, synced)
    BY <1>16 DEF Destroyed, Kept, memory
  <2>2. KeptInFile'
    BY <1>1, <2>1 DEF KeptInFile, Content
  <2> QED BY <1>1, <2>1, <2>2, SavedFile, Forgotten, Assemble
<1>17. CASE DestroyedUnsaved \/ Crash
  <2>1. phase' = "none" /\ left' = Nothing /\ Forget /\ UNCHANGED file
    BY <1>17 DEF DestroyedUnsaved, Crash
  <2>2. KeptInFile'
    BY <2>1 DEF KeptInFile
  <2> QED BY <1>1, <2>1, <2>2, SameFile, Forgotten, Assemble
<1>18. CASE UNCHANGED vars
  BY <1>1, <1>18 DEF vars, IInv, JournalTypeOK, OneToOne, FileOneToOne, KeptInFile, Injective,
                     PcIdForPalm, PalmIdForPC
<1> QED BY <1>3, <1>4, <1>5, <1>6, <1>7, <1>8, <1>9, <1>10, <1>11, <1>12, <1>13, <1>14, <1>15,
           <1>16, <1>17, <1>18
           DEF Next, MappingOperation, BaselineOperation

LEMMA AlwaysIInv == Spec => []IInv
BY InitIInv, StepIInv, PTL DEF Spec

(* The two maps of the mapping store, the hashes, the file and the life of *)
(* the object stay of their types.                                         *)
THEOREM JournalTypes == Spec => []JournalTypeOK
<1>1. IInv => JournalTypeOK
  BY DEF IInv
<1> QED BY <1>1, AlwaysIInv, PTL

(* IDMappingStore's two maps are each other's inverse, whatever pairs are  *)
(* mapped and removed, whatever file is loaded and wherever the process    *)
(* died: no record and no file has two partners.                           *)
THEOREM PartnersOneToOne == Spec => []OneToOne
<1>1. IInv => OneToOne
  BY DEF IInv
<1> QED BY <1>1, AlwaysIInv, PTL

(* No complete file holds two records of one target.                       *)
THEOREM FilesOneToOne == Spec => []FileOneToOne
<1>1. IInv => FileOneToOne
  BY DEF IInv
<1> QED BY <1>1, AlwaysIInv, PTL

-----------------------------------------------------------------------------
(* What the destructor saved, the next object's load brings back, although *)
(* the reverse map is not in the file and an empty list is not loaded.     *)
LEMMA LoadRestores ==
    ASSUME KeptInFile, left.state = "kept", Open
    PROVE  memory' = left.memory
<1>0. left # Nothing
  <2>1. Nothing.state = "nothing"
    BY DEF Nothing
  <2> QED BY <2>1
<1>1. PICK m \in [PalmIds -> MappingType], r \in [PcIds -> PalmIds \cup {NoId}],
           h \in [PcIds -> Hashes \cup {NoHash}], s \in BOOLEAN :
        /\ left = Kept(m, r, h, s)
        /\ file = Complete([mappings |-> m, hashes |-> h, synced |-> s])
        /\ Inverses(m, r)
  BY <1>0 DEF KeptInFile
<1>2. /\ mappings' = IF m = NoMappings THEN NoMappings ELSE m
      /\ reverseMap' = IF m = NoMappings THEN NoReverse ELSE ReverseOf(m)
      /\ hashes' = IF h = NoHashes THEN NoHashes ELSE h
      /\ synced' = s
  BY <1>1 DEF Open, LoadInto, Complete
<1>3. r = ReverseOf(m)
  BY <1>1, InverseIsReverseOf
<1>4. NoReverse = ReverseOf(NoMappings)
  BY EmptyStores, EmptyInverses, InverseIsReverseOf
<1>5. mappings' = m /\ reverseMap' = r /\ hashes' = h /\ synced' = s
  BY <1>2, <1>3, <1>4
<1> QED BY <1>1, <1>5 DEF memory, Kept

(* A SyncState that was destroyed and saved is there again, in all it knew,*)
(* when the next one loads.                                                *)
THEOREM RestartRestores == Spec => CleanRestart
<1>1. ASSUME IInv, [Next]_vars
      PROVE  [phase = "none" /\ phase' = "open" /\ left.state = "kept" => memory' = left.memory]_vars
  <2>1. CASE Open
    BY <1>1, <2>1, LoadRestores DEF IInv
  <2>2. CASE Next /\ ~Open
    <3>1. ~(phase = "none" /\ phase' = "open")
      BY <2>2 DEF Next, MappingOperation, BaselineOperation, MapIds, RemoveBySource, RemoveByTarget,
                  UpdateCategories, SetHash, SaveBaseline, SetLastSyncTime, Clear, Reload, SaveOpens,
                  SaveWrites, Destroy, Destroyed, DestroyedUnsaved, Crash
    <3> QED BY <3>1
  <2>3. CASE UNCHANGED vars
    BY <2>3
  <2> QED BY <1>1, <2>1, <2>2, <2>3
<1> QED BY <1>1, AlwaysIInv, PTL DEF Spec, CleanRestart

-----------------------------------------------------------------------------
(* Whole databases as files.                                               *)

OwnName(f, content) ==
    content = NoFile \/ \E db \in Databases, v \in Versions \cup {Gone} :
                            FileOf[db] = f /\ content = FileWith(db, v)

JobsOver(K, S) == [kind : K, all : SUBSET S, todo : SUBSET S, done : SUBSET S, ok : BOOLEAN]

Jobs == JobsOver({"backup"}, Databases) \cup JobsOver({"restore", "install"}, Files)

FilesTypeOK ==
    /\ device \in [Databases -> Versions \cup {Gone}]
    /\ DOMAIN backup = Files /\ \A f \in Files : OwnName(f, backup[f])
    /\ DOMAIN queue = Files /\ \A f \in Files : OwnName(f, queue[f])
    /\ job = NoJob \/ job \in Jobs

BackedUp(db) == OwnFile(db) => backup[FileOf[db]] = FileWith(db, device[db])
Restored(f) == device[backup[f].db] = backup[f].version

(* The inductive invariant: a job that had no failure so far has done what *)
(* it set out to do, but for what is left to do; a report is only believed *)
(* while nothing changes.                                                  *)
SoFar ==
    /\ job # NoJob => report = NoReport
    /\ job # NoJob /\ job.kind = "backup" /\ job.ok =>
           \A db \in (job.all \ job.todo) \ Untransferable : BackedUp(db)
    /\ job # NoJob /\ job.kind = "restore" =>
           /\ job.todo \subseteq job.all /\ \A f \in job.all : backup[f] # NoFile
           /\ job.ok => \A f \in job.all \ job.todo : Restored(f)

FilesInv == FilesTypeOK /\ SoFar /\ ReportHonest

LEMMA FileIsFile ==
    /\ \A db, v : FileWith(db, v) # NoFile
    /\ \A db, v : FileWith(db, v).db = db /\ FileWith(db, v).version = v
BY DEF FileWith, NoFile

LEMMA JobIsJob ==
    /\ \A kind, todo : [kind |-> kind, all |-> todo, todo |-> todo, done |-> {},
                        ok |-> TRUE] # NoJob
    /\ NoJob \notin Jobs
BY DEF NoJob, Jobs, JobsOver

LEMMA FilesInitInv == FilesInit => FilesInv
BY DEF FilesInit, FilesInv, FilesTypeOK, SoFar, ReportHonest, NoReport, OwnName

(* A backup, a restore or an installation begins with nothing done.        *)
LEMMA BeginInv ==
    ASSUME FilesInv, NEW kind, NEW todo, Begin(kind, todo),
           UNCHANGED <<device, backup, queue>>,
           \/ kind = "backup" /\ todo \subseteq Databases
           \/ kind = "install" /\ todo \subseteq Files
           \/ kind = "restore" /\ todo \subseteq Files /\ \A f \in todo : backup[f] # NoFile
    PROVE  FilesInv'
<1>1. job' = [kind |-> kind, all |-> todo, todo |-> todo, done |-> {}, ok |-> TRUE]
      /\ report' = NoReport
  BY DEF Begin
<1>2. job' \in Jobs /\ job' # NoJob
  BY <1>1, JobIsJob DEF Jobs, JobsOver
<1>3. /\ job'.kind = kind /\ job'.all = todo /\ job'.todo = todo
  BY <1>1
<1>4. FilesTypeOK'
  BY <1>2 DEF FilesInv, FilesTypeOK
<1>5. SoFar'
  BY <1>1, <1>3 DEF SoFar
<1>6. ReportHonest'
  BY <1>1 DEF ReportHonest, NoReport
<1>7. QED
  BY <1>4, <1>5, <1>6 DEF FilesInv

(* A step of a job keeps its kind and its list; a failure is remembered.   *)
LEMMA JobStep ==
    ASSUME NEW K, NEW S, job \in JobsOver(K, S)
    PROVE  /\ \A x \in job.todo : Done(x) \/ Skipped(x) =>
                  /\ job' \in JobsOver(K, S) /\ job'.kind = job.kind /\ job'.all = job.all
                  /\ job'.ok = job.ok /\ job'.todo = job.todo \ {x}
           /\ Broken => /\ job' \in JobsOver(K, S) /\ job'.kind = job.kind
                        /\ job'.all = job.all /\ ~job'.ok /\ job'.todo = {}
<1>1. /\ job.todo \in SUBSET S /\ job.done \in SUBSET S
  BY DEF JobsOver
<1>2. ASSUME NEW x \in job.todo, Done(x)
      PROVE  job' = [job EXCEPT !.todo = job.todo \ {x}, !.done = job.done \cup {x}]
  BY <1>2 DEF Done
<1>3. ASSUME NEW x \in job.todo, Skipped(x)
      PROVE  job' = [job EXCEPT !.todo = job.todo \ {x}]
  BY <1>3 DEF Skipped
<1>4. ASSUME Broken PROVE job' = [job EXCEPT !.todo = {}, !.ok = FALSE]
  BY <1>4 DEF Broken
<1>5. ASSUME NEW x \in job.todo, Done(x)
      PROVE  /\ job' \in JobsOver(K, S) /\ job'.kind = job.kind /\ job'.all = job.all
             /\ job'.ok = job.ok /\ job'.todo = job.todo \ {x}
  <2>1. job.done \cup {x} \in SUBSET S /\ job.todo \ {x} \in SUBSET S
    BY <1>1
  <2>2. QED
    BY <1>2, <1>5, <2>1 DEF JobsOver
<1>6. ASSUME NEW x \in job.todo, Skipped(x)
      PROVE  /\ job' \in JobsOver(K, S) /\ job'.kind = job.kind /\ job'.all = job.all
             /\ job'.ok = job.ok /\ job'.todo = job.todo \ {x}
  BY <1>1, <1>3, <1>6 DEF JobsOver
<1>7. ASSUME Broken
      PROVE  /\ job' \in JobsOver(K, S) /\ job'.kind = job.kind
             /\ job'.all = job.all /\ ~job'.ok /\ job'.todo = {}
  BY <1>4, <1>7 DEF JobsOver
<1>8. QED
  BY <1>5, <1>6, <1>7

(* So while a job is on its way the report says nothing.                   *)
LEMMA JobParts ==
    ASSUME FilesInv, job # NoJob
    PROVE  /\ job \in Jobs /\ report = NoReport
           /\ job.kind = "backup" <=> job \in JobsOver({"backup"}, Databases)
           /\ job.kind # "backup" <=> job \in JobsOver({"restore", "install"}, Files)
           /\ \A x \in job.todo : Done(x) \/ Skipped(x) =>
                  /\ job' \in Jobs /\ job'.kind = job.kind /\ job'.all = job.all
                  /\ job'.ok = job.ok /\ job'.todo = job.todo \ {x}
           /\ Broken => /\ job' \in Jobs /\ job'.kind = job.kind
                        /\ job'.all = job.all /\ ~job'.ok /\ job'.todo = {}
<1>1. job \in Jobs /\ report = NoReport
  BY DEF FilesInv, FilesTypeOK, SoFar
<1>2. /\ job.kind = "backup" <=> job \in JobsOver({"backup"}, Databases)
      /\ job.kind # "backup" <=> job \in JobsOver({"restore", "install"}, Files)
  BY <1>1 DEF Jobs, JobsOver
<1>3. QED
  BY <1>1, <1>2, JobStep DEF Jobs

(* A folder with one file more, or one file less.                          *)
LEMMA FolderStep ==
    ASSUME NEW folder, DOMAIN folder = Files, \A f \in Files : OwnName(f, folder[f]),
           NEW f \in Files, NEW content, OwnName(f, content)
    PROVE  LET new == [folder EXCEPT ![f] = content] IN
           /\ DOMAIN new = Files /\ \A g \in Files : OwnName(g, new[g])
           /\ new[f] = content /\ \A g \in Files \ {f} : new[g] = folder[g]
OBVIOUS

LEMMA RetrieveInv ==
    ASSUME FilesInv, NEW db \in Databases, RetrieveDatabase(db)
    PROVE  FilesInv'
<1>1. job # NoJob /\ job.kind = "backup" /\ db \in job.todo
  BY DEF RetrieveDatabase
<1>2. /\ UNCHANGED <<device, queue, report>> /\ report = NoReport
      /\ job' # NoJob /\ job' \in Jobs /\ job'.kind = "backup" /\ job'.all = job.all
      /\ job'.ok => job'.ok = job.ok /\ job'.todo = job.todo \ {db}
  BY <1>1, JobParts, JobIsJob DEF RetrieveDatabase
<1>3. /\ DOMAIN backup' = Files /\ \A f \in Files : OwnName(f, (backup')[f])
      /\ job'.ok => \A f \in Files : f # FileOf[db] => (backup')[f] = backup[f]
      /\ job'.ok /\ db \notin Untransferable => (backup')[FileOf[db]] = FileWith(db, device[db])
  <2>1. DOMAIN backup = Files /\ \A f \in Files : OwnName(f, backup[f])
    BY DEF FilesInv, FilesTypeOK
  <2>2. FileOf[db] \in Files /\ device[db] \in Versions \cup {Gone}
    BY DEF Files, FilesInv, FilesTypeOK
  <2>3. OwnName(FileOf[db], FileWith(db, device[db])) /\ OwnName(FileOf[db], NoFile)
    BY <2>2 DEF OwnName
  <2>4. CASE db \in Untransferable /\ UNCHANGED backup
    BY <2>1, <2>4
  <2>5. CASE backup' = [backup EXCEPT ![FileOf[db]] = FileWith(db, device[db])]
    BY <2>1, <2>2, <2>3, <2>5, FolderStep
  <2>6. CASE backup' = [backup EXCEPT ![FileOf[db]] = NoFile] /\ Broken
    BY <1>1, <2>1, <2>2, <2>3, <2>6, FolderStep, JobParts
  <2>7. CASE UNCHANGED backup /\ Broken
    BY <1>1, <2>1, <2>7, JobParts
  <2>8. QED
    BY <2>4, <2>5, <2>6, <2>7 DEF RetrieveDatabase
<1>4. FilesTypeOK'
  BY <1>2, <1>3 DEF FilesInv, FilesTypeOK
<1>5. SoFar'
  <2>1. SUFFICES ASSUME job'.ok, NEW x \in (job.all \ (job.todo \ {db})) \ Untransferable,
                        OwnFile(x)
                 PROVE  (backup')[FileOf[x]] = FileWith(x, device[x])
    BY <1>2 DEF SoFar, BackedUp
  <2>2. CASE x = db
    BY <1>3, <2>1, <2>2
  <2>3. CASE x # db
    <3>1. job.all \subseteq Databases
      BY <1>1, JobParts DEF JobsOver
    <3>2. FileOf[x] \in Files /\ FileOf[x] # FileOf[db]
      BY <2>1, <2>3, <3>1 DEF Files, OwnFile
    <3>3. backup[FileOf[x]] = FileWith(x, device[x])
      BY <1>1, <1>2, <2>1, <2>3 DEF FilesInv, SoFar, BackedUp
    <3>4. QED
      BY <1>3, <2>1, <3>2, <3>3
  <2>4. QED
    BY <2>2, <2>3
<1>6. ReportHonest'
  BY <1>2 DEF ReportHonest, NoReport
<1>7. QED
  BY <1>4, <1>5, <1>6 DEF FilesInv

(* A restore puts the databases of two files in two places.                *)
LEMMA OwnDatabase ==
    ASSUME FilesInv, NEW f \in Files, NEW g \in Files,
           backup[f] # NoFile, backup[g] # NoFile, backup[f].db = backup[g].db
    PROVE  f = g
BY FileIsFile DEF FilesInv, FilesTypeOK, OwnName

(* What any file that is installed does to the device.                     *)
LEMMA InstallType ==
    ASSUME FilesInv, NEW f, NEW content, OwnName(f, content), content # NoFile
    PROVE  /\ PiFileInstall(content) \/ PiFileInstallFails(content) =>
                  device' \in [Databases -> Versions \cup {Gone}]
           /\ PiFileInstall(content) =>
                  /\ device'[content.db] = content.version
                  /\ \A db \in Databases \ {content.db} : device'[db] = device[db]
<1>1. PICK db \in Databases, v \in Versions \cup {Gone} : content = FileWith(db, v)
  BY DEF OwnName
<1>2. content.db = db /\ content.version = v
  BY <1>1, FileIsFile
<1>3. device \in [Databases -> Versions \cup {Gone}]
  BY DEF FilesInv, FilesTypeOK
<1>4. QED
  BY <1>2, <1>3 DEF PiFileInstall, PiFileInstallFails

LEMMA InstallInv ==
    ASSUME FilesInv, NEW f \in Files, InstallFile(f)
    PROVE  FilesInv'
<1>1. job # NoJob /\ job.kind = "restore" /\ f \in job.todo
  BY DEF InstallFile
<1>2. /\ UNCHANGED <<backup, queue, report>> /\ report = NoReport
      /\ job' # NoJob /\ job' \in Jobs /\ job'.kind = "restore" /\ job'.all = job.all
      /\ job'.todo \subseteq job.todo
      /\ job'.ok => job'.ok = job.ok /\ job'.todo = job.todo \ {f} /\ PiFileInstall(backup[f])
  BY <1>1, JobParts, JobIsJob DEF InstallFile
<1>3. /\ job.todo \subseteq job.all /\ job.all \subseteq Files
      /\ \A g \in job.all : backup[g] # NoFile
  BY <1>1, JobParts DEF FilesInv, SoFar, JobsOver
<1>4. OwnName(f, backup[f]) /\ backup[f] # NoFile
  BY <1>1, <1>3 DEF FilesInv, FilesTypeOK
<1>5. device' \in [Databases -> Versions \cup {Gone}]
  BY <1>4, InstallType DEF InstallFile
<1>6. FilesTypeOK'
  BY <1>2, <1>5 DEF FilesInv, FilesTypeOK
<1>7. SoFar'
  <2>1. SUFFICES ASSUME job'.ok, NEW g \in job.all \ (job.todo \ {f})
                 PROVE  device'[backup[g].db] = backup[g].version
    BY <1>2, <1>3 DEF SoFar, Restored
  <2>2. CASE g = f
    BY <1>2, <1>4, <2>1, <2>2, InstallType
  <2>3. CASE g # f
    <3>1. g \in Files /\ backup[g] # NoFile /\ OwnName(g, backup[g])
      BY <1>3, <2>1 DEF FilesInv, FilesTypeOK
    <3>2. backup[g].db # backup[f].db
      BY <1>4, <2>3, <3>1, OwnDatabase
    <3>3. backup[g].db \in Databases
      BY <3>1, FileIsFile DEF OwnName
    <3>4. device[backup[g].db] = backup[g].version
      BY <1>1, <1>2, <2>1, <2>3 DEF FilesInv, SoFar, Restored
    <3>5. QED
      BY <1>2, <1>4, <2>1, <3>2, <3>3, <3>4, InstallType
  <2>4. QED
    BY <2>2, <2>3
<1>8. ReportHonest'
  BY <1>2 DEF ReportHonest, NoReport
<1>9. QED
  BY <1>6, <1>7, <1>8 DEF FilesInv

(* The end of a backup or restore, the first moment at which its report is *)
(* to be believed.                                                         *)
LEMMA EndInv ==
    ASSUME FilesInv, JobEnds
    PROVE  FilesInv'
<1>1. /\ job # NoJob /\ job.todo = {} /\ job' = NoJob
      /\ report' = [kind |-> job.kind, ok |-> job.ok, all |-> job.all]
      /\ UNCHANGED <<device, backup, queue>>
  BY DEF JobEnds
<1>2. /\ report'.kind = job.kind /\ report'.ok = job.ok /\ report'.all = job.all
  BY <1>1
<1>3. FilesTypeOK' /\ SoFar'
  BY <1>1 DEF FilesInv, FilesTypeOK, SoFar
<1>4. ReportHonest'
  BY <1>1, <1>2 DEF FilesInv, SoFar, ReportHonest, BackedUp, Restored
<1>5. QED
  BY <1>3, <1>4 DEF FilesInv

(* Steps of the queue and of an installation touch no backup.              *)
LEMMA QueueInv ==
    ASSUME FilesInv, FilesTypeOK', UNCHANGED <<backup, report>>,
           \/ UNCHANGED <<job, device>>
           \/ job # NoJob /\ job.kind = "install" /\ job' = NoJob /\ UNCHANGED device
           \/ job # NoJob /\ job.kind = "install" /\ job' # NoJob /\ job'.kind = "install"
    PROVE  FilesInv'
<1>1. CASE UNCHANGED <<job, device>>
  BY <1>1 DEF FilesInv, SoFar, ReportHonest, BackedUp, Restored
<1>2. CASE job # NoJob /\ job.kind = "install"
  <2>1. report = NoReport
    BY <1>2, JobParts
  <2>2. QED
    BY <1>2, <2>1 DEF FilesInv, SoFar, ReportHonest, NoReport
<1>3. QED
  BY <1>1, <1>2

LEMMA FilesStep == FilesInv /\ [FilesNext]_filesVars => FilesInv'
<1> SUFFICES ASSUME FilesInv, [FilesNext]_filesVars PROVE FilesInv'
  OBVIOUS
<1>1. FilesTypeOK
  BY DEF FilesInv
<1>2. CASE Backup
  BY <1>2, BeginInv DEF Backup, ListDatabases
<1>3. CASE Restore
  BY <1>3, BeginInv DEF Restore, Present
<1>4. CASE Collect
  BY <1>4, BeginInv DEF Collect, Present
<1>5. CASE \E db \in Databases : RetrieveDatabase(db)
  BY <1>5, RetrieveInv
<1>6. CASE \E f \in Files : InstallFile(f)
  BY <1>6, InstallInv
<1>7. CASE JobEnds
  BY <1>7, EndInv
<1>8. ASSUME NEW f \in Files, NEW content, OwnName(f, content), OnInstallFiles(f, content)
      PROVE  FilesInv'
  <2>1. DOMAIN queue' = Files /\ \A g \in Files : OwnName(g, (queue')[g])
    BY <1>1, <1>8, FolderStep DEF FilesTypeOK, OnInstallFiles
  <2>2. FilesTypeOK'
    BY <1>1, <1>8, <2>1 DEF FilesTypeOK, OnInstallFiles
  <2>3. QED
    BY <1>8, <2>2, QueueInv DEF OnInstallFiles
<1>9. ASSUME NEW db \in Databases, NEW v \in Versions,
             OnInstallFiles(FileOf[db], FileWith(db, v))
      PROVE  FilesInv'
  BY <1>8, <1>9 DEF OwnName, Files
<1>10. ASSUME NEW f \in Files, Execute(f) PROVE FilesInv'
  <2>1. job # NoJob /\ job.kind = "install" /\ f \in job.todo
    BY <1>10 DEF Execute
  <2>2. job' \in Jobs /\ job'.kind = "install" /\ job' # NoJob
    BY <1>10, <2>1, JobParts, JobIsJob DEF Execute
  <2>3. device' \in [Databases -> Versions \cup {Gone}]
    BY <1>1, <1>10, InstallType DEF Execute, FilesTypeOK
  <2>4. FilesTypeOK'
    BY <1>1, <1>10, <2>2, <2>3 DEF FilesTypeOK, Execute
  <2>5. QED
    BY <1>10, <2>1, <2>2, <2>4, QueueInv DEF Execute
<1>11. CASE Cancel
  <2>1. job # NoJob /\ job.kind = "install"
        /\ job' \in Jobs /\ job'.kind = "install" /\ job' # NoJob
    BY <1>11, JobParts, JobIsJob DEF Cancel
  <2>2. FilesTypeOK'
    BY <1>1, <1>11, <2>1 DEF FilesTypeOK, Cancel
  <2>3. QED
    BY <1>11, <2>1, <2>2, QueueInv DEF Cancel
<1>12. CASE MoveSucceededToInstalled
  <2>1. FilesTypeOK'
    BY <1>1, <1>12 DEF FilesTypeOK, MoveSucceededToInstalled, OwnName
  <2>2. QED
    BY <1>12, <2>1, QueueInv DEF MoveSucceededToInstalled
<1>13. CASE LinkChanges \/ UNCHANGED filesVars
  <2>1. FilesTypeOK'
    BY <1>1, <1>13 DEF FilesTypeOK, LinkChanges, filesVars
  <2>2. QED
    BY <1>13, <2>1, QueueInv DEF LinkChanges, filesVars
<1>14. ASSUME NEW db \in Databases, NEW content \in Versions \cup {Gone},
              PalmUserEdits(db, content)
       PROVE  FilesInv'
  BY <1>14 DEF PalmUserEdits, FilesInv, FilesTypeOK, SoFar, ReportHonest, NoReport
<1>15. ASSUME NEW f \in Files, queue[f] # NoFile, OnInstallFiles(f, NoFile) PROVE FilesInv'
  BY <1>8, <1>15 DEF OwnName
<1>16. QED
  BY <1>2, <1>3, <1>4, <1>5, <1>6, <1>7, <1>9, <1>10, <1>11, <1>12, <1>13, <1>14, <1>15
     DEF FilesNext

(* A backup or restore that reports success has done what it set out to    *)
(* do, whatever earlier jobs left behind, for every set of databases and   *)
(* every way to name their files.                                          *)
THEOREM ReportsHonest == FilesSpec => []ReportHonest
<1>1. FilesInv => ReportHonest
  BY DEF FilesInv
<1>2. QED
  BY <1>1, FilesInitInv, FilesStep, PTL DEF FilesSpec

(* A queued file only changes by the user's hand, or goes once its name    *)
(* was installed.                                                          *)
THEOREM QueueLosesNothing == FilesSpec => QueueKept
<1>1. FilesInv /\ [FilesNext]_filesVars =>
          [\A f \in Files : queue'[f] # queue[f] => job' = job \/ f \in job.done]_filesVars
  <2> SUFFICES ASSUME FilesNext, NEW f \in Files, queue'[f] # queue[f], job' # job
               PROVE  f \in job.done
    OBVIOUS
  <2>1. ~UNCHANGED queue
    OBVIOUS
  <2>2. MoveSucceededToInstalled
    BY <2>1 DEF FilesNext, Backup, RetrieveDatabase, Restore, InstallFile, JobEnds,
                OnInstallFiles, Collect, Execute, Cancel, LinkChanges, PalmUserEdits
  <2>3. QED
    BY <2>2 DEF MoveSucceededToInstalled
<1>2. QED
  BY <1>1, FilesInitInv, FilesStep, PTL DEF FilesSpec, QueueKept

-----------------------------------------------------------------------------
(* The status panel.                                                       *)

(* Every set of naturals has a least member.                               *)
LEMMA LessIsWellFounded ==
    IsWellFoundedOn({p \in Nat \X Nat : p[1] < p[2]}, Nat)
BY NatLessThanWellFounded DEF OpToRel

LEMMA LeastExists ==
    ASSUME NEW T \in SUBSET Nat, T # {}
    PROVE  \E m \in T : \A k \in T : m <= k
<1> DEFINE R == {p \in Nat \X Nat : p[1] < p[2]}
<1>1. IsWellFoundedOn(R, Nat)
  BY LessIsWellFounded
<1> HIDE DEF R
<1>2. PICK m \in T : \A k \in T : <<k, m>> \notin R
  BY <1>1, WFMin
<1>3. \A k \in T : ~(k < m)
  BY <1>2 DEF R
<1> QED BY <1>3

(* A finite set of places has an n-th one, up to its size.                 *)
LEMMA NthExists ==
    ASSUME NEW n \in Nat, NEW K \in SUBSET (1..n), NEW i \in 1..Cardinality(K)
    PROVE  \E k \in K : Cardinality({j \in K : j < k}) = i - 1
<1> DEFINE Upto(m) == {j \in K : j <= m}
           T == {m \in 0..n : Cardinality(Upto(m)) >= i}
<1>0. \A j \in K : j \in Nat /\ 1 <= j /\ j <= n
  OBVIOUS
<1>1. IsFiniteSet(1..n) /\ IsFiniteSet(K) /\ Cardinality(K) \in Nat
  <2>1. IsFiniteSet(1..n)
    BY FS_Interval
  <2>2. IsFiniteSet(K)
    BY <2>1, FS_Subset
  <2> QED BY <2>1, <2>2, FS_CardinalityType
<1>2. \A m \in 0..n : IsFiniteSet(Upto(m)) /\ Cardinality(Upto(m)) \in Nat
  <2> SUFFICES ASSUME NEW m \in 0..n
               PROVE  IsFiniteSet(Upto(m)) /\ Cardinality(Upto(m)) \in Nat
    OBVIOUS
  <2>1. Upto(m) \in SUBSET K
    OBVIOUS
  <2> QED BY <1>1, <2>1, FS_Subset, FS_CardinalityType
<1>3. Upto(n) = K /\ Upto(0) = {}
  <2>1. \A j \in K : j <= n /\ ~(j <= 0)
    BY <1>0
  <2> QED BY <2>1
<1>4. T \in SUBSET Nat /\ n \in T /\ \A m \in 0..n : m \in T <=> Cardinality(Upto(m)) >= i
  <2> HIDE DEF Upto
  <2>1. Cardinality(Upto(n)) >= i
    BY <1>1, <1>3
  <2> QED BY <2>1
<1>5. PICK k \in T : \A m \in T : k <= m
  <2> HIDE DEF T
  <2> QED BY <1>4, LeastExists
<1> HIDE DEF T
<1>6. k \in 0..n /\ k # 0
  <2>1. k \in 0..n /\ Cardinality(Upto(k)) >= i
    BY <1>4, <1>5 DEF T
  <2>2. Cardinality(Upto(0)) = 0
    BY <1>3, FS_EmptySet
  <2> HIDE DEF Upto
  <2> QED BY <1>1, <2>1, <2>2
<1>7. k - 1 \in 0..n /\ k - 1 \notin T
  BY <1>5, <1>6
<1>8. Cardinality(Upto(k - 1)) <= i - 1 /\ Cardinality(Upto(k)) >= i
  <2> HIDE DEF Upto
  <2> QED BY <1>1, <1>2, <1>4, <1>5, <1>6, <1>7
<1>9. k \in K
  <2> SUFFICES ASSUME k \notin K PROVE FALSE
    OBVIOUS
  <2>1. \A j \in K : j <= k <=> j <= k - 1
    BY <1>0, <1>6
  <2>2. Upto(k) = Upto(k - 1)
    BY <2>1
  <2> HIDE DEF Upto
  <2> QED BY <1>1, <1>2, <1>7, <1>8, <2>2
<1>10. Upto(k) = Upto(k - 1) \cup {k} /\ k \notin Upto(k - 1)
  <2>1. \A j \in K : j <= k <=> (j <= k - 1 \/ j = k)
    BY <1>0, <1>6
  <2>2. ~(k <= k - 1)
    BY <1>6
  <2> QED BY <1>9, <2>1, <2>2
<1>11. Cardinality(Upto(k)) = Cardinality(Upto(k - 1)) + 1
  <2> HIDE DEF Upto
  <2> QED BY <1>2, <1>7, <1>10, FS_AddElement
<1>12. Cardinality(Upto(k - 1)) = i - 1
  <2> HIDE DEF Upto
  <2> QED BY <1>1, <1>2, <1>7, <1>8, <1>11
<1>13. {j \in K : j < k} = Upto(k - 1)
  <2>1. \A j \in K : j < k <=> j <= k - 1
    BY <1>0, <1>6
  <2> QED BY <2>1
<1> QED BY <1>9, <1>12, <1>13

(* What is kept of a queue was in it, and was for the window or the panel. *)
LEMMA KeptWasThere ==
    ASSUME NEW q \in Seq(Signals)
    PROVE  /\ ForUs(q) \in Seq(Signals)
           /\ \A i \in DOMAIN ForUs(q) : \E k \in DOMAIN q : ForUs(q)[i] = q[k]
<1> DEFINE kept == {k \in DOMAIN q : q[k].t \in {"mappings", "window", "panel"}}
           Nth(i) == CHOOSE k \in kept : Cardinality({j \in kept : j < k}) = i - 1
           size == Cardinality(kept)
<1>1. DOMAIN q = 1..Len(q) /\ Len(q) \in Nat /\ kept \in SUBSET (1..Len(q))
  OBVIOUS
<1>2. size \in Nat
  <2> HIDE DEF kept
  <2>1. IsFiniteSet(1..Len(q))
    BY <1>1, FS_Interval
  <2>2. IsFiniteSet(kept)
    BY <1>1, <2>1, FS_Subset
  <2> QED BY <2>2, FS_CardinalityType
<1>3. ASSUME NEW i \in 1..size
      PROVE  Nth(i) \in kept
  <2> HIDE DEF kept
  <2>1. \E k \in kept : Cardinality({j \in kept : j < k}) = i - 1
    BY <1>1, NthExists
  <2> QED BY <2>1
<1>4. ForUs(q) = [i \in 1..size |-> q[Nth(i)]]
  BY DEF ForUs
<1>5. \A i \in 1..size : Nth(i) \in DOMAIN q
  BY <1>3
<1> HIDE DEF kept, Nth, size
<1>6. \A i \in 1..size : q[Nth(i)] \in Signals
  BY <1>1, <1>5
<1> QED BY <1>2, <1>4, <1>5, <1>6

(* The queue as a set of signals.                                          *)
Posted == {posted[i] : i \in DOMAIN posted}
Ends == {"running", "window", "panel"}

LEMMA QueueParts ==
    ASSUME NEW q \in Seq(Signals)
    PROVE  /\ \A s \in Signals : /\ Append(q, s) \in Seq(Signals)
                                 /\ {Append(q, s)[i] : i \in DOMAIN Append(q, s)}
                                       = {q[i] : i \in DOMAIN q} \cup {s}
           /\ q # <<>> => /\ Head(q) \in Signals /\ Tail(q) \in Seq(Signals)
                          /\ {q[i] : i \in DOMAIN q}
                                = {Head(q)} \cup {Tail(q)[i] : i \in DOMAIN Tail(q)}
<1>1. ASSUME NEW s \in Signals
      PROVE  /\ Append(q, s) \in Seq(Signals)
             /\ {Append(q, s)[i] : i \in DOMAIN Append(q, s)} = {q[i] : i \in DOMAIN q} \cup {s}
  <2> DEFINE a == Append(q, s)
  <2>1. /\ a \in Seq(Signals) /\ Len(a) = Len(q) + 1 /\ Len(q) \in Nat
        /\ DOMAIN a = 1..(Len(q) + 1) /\ DOMAIN q = 1..Len(q)
        /\ \A i \in 1..Len(q) : a[i] = q[i]
        /\ a[Len(q) + 1] = s
    OBVIOUS
  <2> HIDE DEF a
  <2>2. \A i \in DOMAIN a : a[i] \in {q[k] : k \in DOMAIN q} \cup {s}
    BY <2>1
  <2>3. \A i \in DOMAIN q : i \in DOMAIN a /\ a[i] = q[i]
    BY <2>1
  <2>4. Len(q) + 1 \in DOMAIN a
    BY <2>1
  <2>5. {a[i] : i \in DOMAIN a} = {q[k] : k \in DOMAIN q} \cup {s}
    BY <2>1, <2>2, <2>3, <2>4
  <2> QED BY <2>1, <2>5 DEF a
<1>2. ASSUME q # <<>>
      PROVE  /\ Head(q) \in Signals /\ Tail(q) \in Seq(Signals)
             /\ {q[i] : i \in DOMAIN q} = {Head(q)} \cup {Tail(q)[i] : i \in DOMAIN Tail(q)}
  <2> DEFINE t == Tail(q)
  <2>1. /\ Head(q) = q[1] /\ t \in Seq(Signals) /\ Len(q) \in Nat /\ Len(q) >= 1
        /\ DOMAIN q = 1..Len(q) /\ DOMAIN t = 1..(Len(q) - 1)
        /\ \A i \in 1..(Len(q) - 1) : t[i] = q[i + 1]
    BY <1>2
  <2> HIDE DEF t
  <2>2. \A i \in DOMAIN q : i = 1 \/ (i - 1 \in DOMAIN t /\ t[i - 1] = q[i])
    BY <2>1
  <2>3. \A i \in DOMAIN t : i + 1 \in DOMAIN q /\ t[i] = q[i + 1]
    BY <2>1
  <2>4. 1 \in DOMAIN q /\ q[1] \in Signals
    BY <2>1
  <2>5. {q[i] : i \in DOMAIN q} = {q[1]} \cup {t[i] : i \in DOMAIN t}
    BY <2>2, <2>3, <2>4
  <2> QED BY <2>1, <2>4, <2>5 DEF t
<1> QED BY <1>1, <1>2

(* The slots of the panel.                                                 *)
Digests == {NoDigest} \cup [valid : {TRUE}, label : Labels, success : BOOLEAN]
Panels == [link : LinkStates, chips : [Mappings -> ChipStates], error : BOOLEAN,
           digest : Digests, label : Labels \cup {NoLabel}]

(* Writing one field of the panel leaves the others.                       *)
LEMMA SetStateIs ==
    ASSUME NEW p \in Panels, NEW s \in LinkStates
    PROVE  /\ SetState(p, s) \in Panels /\ SetState(p, s).link = s
           /\ SetState(p, s).digest = p.digest /\ SetState(p, s).label = p.label
BY DEF SetState, Panels

LEMMA ErrorIs ==
    ASSUME NEW p \in Panels, NEW b \in BOOLEAN
    PROVE  LET q == [p EXCEPT !.error = b] IN
           /\ q \in Panels /\ q.link = p.link /\ q.digest = p.digest /\ q.label = p.label
BY DEF Panels

LEMMA ChipsAre ==
    ASSUME NEW p \in Panels, NEW c \in [Mappings -> ChipStates]
    PROVE  LET q == [p EXCEPT !.chips = c] IN
           /\ q \in Panels /\ q.link = p.link /\ q.digest = p.digest /\ q.label = p.label
BY DEF Panels

LEMMA DigestIs ==
    ASSUME NEW p \in Panels, NEW d \in Digests
    PROVE  LET q == [p EXCEPT !.digest = d] IN
           /\ q \in Panels /\ q.link = p.link /\ q.digest = d /\ q.label = p.label
BY DEF Panels

LEMMA LabelIs ==
    ASSUME NEW p \in Panels, NEW l \in Labels
    PROVE  LET q == [p EXCEPT !.label = l] IN
           /\ q \in Panels /\ q.link = p.link /\ q.digest = p.digest /\ q.label = l
BY DEF Panels

LEMMA PendingChips == Pending \in [Mappings -> ChipStates]
BY DEF Pending, ChipStates

LEMMA LinkStatesAre ==
    /\ "listening" \in LinkStates /\ "detected" \in LinkStates /\ "handshaking" \in LinkStates
    /\ "connected" \in LinkStates /\ "syncing" \in LinkStates /\ "disconnected" \in LinkStates
BY DEF LinkStates

(* The slots that the lemmas above build up field by field.                *)
LEMMA ConnectionComplete ==
    ASSUME NEW p \in Panels, NEW ok \in BOOLEAN
    PROVE  LET q == OnConnectionComplete(p, ok) IN
           /\ q \in Panels /\ q.digest = p.digest /\ q.label = p.label
           /\ q.link = IF ok THEN "connected" ELSE "listening"
<1> DEFINE e == [p EXCEPT !.error = ~ok]
<1>1. e \in Panels /\ e.digest = p.digest /\ e.label = p.label
  BY ErrorIs
<1>2. OnConnectionComplete(p, ok) = SetState(e, IF ok THEN "connected" ELSE "listening")
  BY DEF OnConnectionComplete
<1> HIDE DEF e
<1>3. ASSUME NEW s \in {"connected", "listening"}
      PROVE  /\ SetState(e, s) \in Panels /\ SetState(e, s).link = s
             /\ SetState(e, s).digest = p.digest /\ SetState(e, s).label = p.label
  <2>1. s \in LinkStates
    BY LinkStatesAre
  <2> QED BY <1>1, <2>1, SetStateIs
<1>4. CASE ok
  BY <1>2, <1>3, <1>4
<1>5. CASE ~ok
  BY <1>2, <1>3, <1>5
<1> QED BY <1>4, <1>5

LEMMA RunStarted ==
    ASSUME NEW p \in Panels, NEW l \in Labels
    PROVE  LET q == OnRunStarted(p, l) IN
           /\ q \in Panels /\ q.digest = NoDigest /\ q.label = l /\ q.link = "syncing"
<1> DEFINE a == [p EXCEPT !.label = l]
           b == [a EXCEPT !.error = FALSE]
           c == [b EXCEPT !.chips = Pending]
           d == [c EXCEPT !.digest = NoDigest]
<1>1. OnRunStarted(p, l) = SetState(d, "syncing")
  BY DEF OnRunStarted, Panels
<1>2. a \in Panels /\ a.label = l
  BY LabelIs
<1> HIDE DEF a
<1>3. b \in Panels /\ b.label = l
  BY <1>2, ErrorIs
<1> HIDE DEF b
<1>4. c \in Panels /\ c.label = l
  BY <1>3, ChipsAre, PendingChips
<1> HIDE DEF c
<1>5. d \in Panels /\ d.label = l /\ d.digest = NoDigest
  <2>1. NoDigest \in Digests
    BY DEF Digests
  <2> QED BY <1>4, <2>1, DigestIs
<1> HIDE DEF d
<1>6. "syncing" \in LinkStates
  BY LinkStatesAre
<1>7. /\ SetState(d, "syncing") \in Panels /\ SetState(d, "syncing").link = "syncing"
      /\ SetState(d, "syncing").digest = d.digest /\ SetState(d, "syncing").label = d.label
  BY <1>5, <1>6, SetStateIs
<1> QED BY <1>1, <1>5, <1>7

LEMMA RunFinished ==
    ASSUME NEW p \in Panels, p.label \in Labels, NEW ok \in BOOLEAN
    PROVE  LET q == OnRunFinished(p, ok) IN
           /\ q \in Panels /\ q.digest = Digest(p.label, ok) /\ q.label = p.label
           /\ q.link = IF p.link = "syncing" THEN "connected" ELSE p.link
<1> DEFINE a == [p EXCEPT !.digest = Digest(p.label, ok)]
           b == [a EXCEPT !.error = @ \/ ~ok]
<1>1. OnRunFinished(p, ok) = IF p.link = "syncing" THEN SetState(b, "connected") ELSE b
  BY DEF OnRunFinished, Panels
<1>2. /\ a \in Panels /\ a.digest = Digest(p.label, ok) /\ a.label = p.label
      /\ a.link = p.link
  <2>1. Digest(p.label, ok) \in Digests
    BY DEF Digest, Digests
  <2> QED BY <2>1, DigestIs
<1>3. a.error \in BOOLEAN
  BY <1>2 DEF Panels
<1> HIDE DEF a
<1>4. (a.error \/ ~ok) \in BOOLEAN
  BY <1>3
<1>5. /\ b \in Panels /\ b.digest = Digest(p.label, ok) /\ b.label = p.label
      /\ b.link = p.link
  BY <1>2, <1>4, ErrorIs
<1> HIDE DEF b
<1>6. "connected" \in LinkStates
  BY LinkStatesAre
<1>7. /\ SetState(b, "connected") \in Panels /\ SetState(b, "connected").link = "connected"
      /\ SetState(b, "connected").digest = b.digest /\ SetState(b, "connected").label = b.label
  BY <1>5, <1>6, SetStateIs
<1>8. CASE p.link = "syncing"
  BY <1>1, <1>5, <1>7, <1>8
<1>9. CASE p.link # "syncing"
  BY <1>1, <1>5, <1>9
<1> QED BY <1>8, <1>9

LEMMA PushedIs ==
    ASSUME NEW p \in Panels, NEW ok \in BOOLEAN
    PROVE  LET q == Pushed(p, ok) IN
           /\ q \in Panels /\ q.link = p.link /\ q.digest = p.digest /\ q.label = p.label
BY ChipsAre, PendingChips DEF Pushed, SeedConduits

-----------------------------------------------------------------------------
(* The invariant of the panel.  The label it shows is that of the run      *)
(* whose end it waits for.  While no two runs' signals overlap, a summary  *)
(* is the last run's, and an end under way will make it so; a panel that   *)
(* says there is a link, when there is none and nothing misled it, has the *)
(* news in the queue.                                                      *)
Labelled ==
    run # NoRun \/ (\E s \in Posted : s.t = "panel") => panel.label \in Labels

Summed ==
    ~overlapped =>
        /\ panel.digest # NoDigest => panel.digest = last
        /\ run.st = "active" => /\ panel.label = run.label /\ panel.digest = NoDigest
                                /\ \A s \in Posted : s.t \notin Ends
        /\ run.st \in {"window", "panel"} => last = Digest(panel.label, run.ok)
        /\ \A s \in Posted : s.t = "panel" => last = Digest(panel.label, s.ok)

Heard ==
    ~blind /\ panel.link \in {"connected", "syncing"} /\ access # "connected" =>
        \E s \in Posted : s.t \in {"down", "fail"}

PanelInv == PanelTypeOK /\ Labelled /\ Summed /\ Heard

(* The signals that the actions post.                                      *)
LEMMA SignalsAre ==
    /\ \A t \in {"ok", "fail", "down", "running"} : Signal(t) \in Signals /\ Signal(t).t = t
    /\ \A r \in [Mappings -> BOOLEAN] : [t |-> "mappings", results |-> r] \in Signals
    /\ \A t \in {"window", "panel"}, b \in BOOLEAN : [t |-> t, ok |-> b] \in Signals
BY DEF Signal, Signals

(* The types one by one, of a state and of the next.                       *)
LEMMA PanelTypes ==
    PanelTypeOK <=>
    /\ access \in {"none", "idle", "connecting", "connected"}
    /\ running \in BOOLEAN /\ blind \in BOOLEAN /\ abandoned \in BOOLEAN /\ overlapped \in BOOLEAN
    /\ run \in {NoRun} \cup [st : {"active"}, label : Labels]
              \cup [st : {"window", "panel"}, label : Labels, ok : BOOLEAN]
    /\ posted \in Seq(Signals) /\ panel \in Panels /\ last \in Digests
    /\ asked \in [runs : Nat, connects : Nat]
BY DEF PanelTypeOK, Panels, Digests

LEMMA PanelTypesNext ==
    ASSUME (/\ access \in {"none", "idle", "connecting", "connected"}
           /\ running \in BOOLEAN /\ blind \in BOOLEAN /\ abandoned \in BOOLEAN
           /\ overlapped \in BOOLEAN
           /\ run \in {NoRun} \cup [st : {"active"}, label : Labels]
                     \cup [st : {"window", "panel"}, label : Labels, ok : BOOLEAN]
           /\ posted \in Seq(Signals) /\ panel \in Panels /\ last \in Digests
           /\ asked \in [runs : Nat, connects : Nat])'
    PROVE  PanelTypeOK'
BY DEF PanelTypeOK, Panels, Digests

(* Dropping the device leaves the queue and adds what the access had left, *)
(* the loss of the link among it.                                          *)
LEMMA DroppedIs ==
    ASSUME NEW q \in Seq(Signals), Dropped(q),
           access \in {"none", "idle", "connecting", "connected"}
    PROVE  /\ access' = "none" /\ posted' \in Seq(Signals)
           /\ {q[i] : i \in DOMAIN q} \subseteq Posted'
           /\ \A s \in Posted' : s \in {q[i] : i \in DOMAIN q} \/ s.t \in {"ok", "fail", "down"}
           /\ access = "connected" => \E s \in Posted' : s.t = "down"
<1> DEFINE Elems(s) == {s[i] : i \in DOMAIN s}
           a == Append(q, Signal("down"))
           b == Append(q, Signal("fail"))
           c == Append(q, Signal("ok"))
           d == Append(c, Signal("down"))
<1>1. /\ Signal("down") \in Signals /\ Signal("fail") \in Signals /\ Signal("ok") \in Signals
      /\ Signal("down").t = "down" /\ Signal("fail").t = "fail" /\ Signal("ok").t = "ok"
  BY SignalsAre
<1>2. a \in Seq(Signals) /\ Elems(a) = Elems(q) \cup {Signal("down")}
  BY <1>1, QueueParts
<1>3. b \in Seq(Signals) /\ Elems(b) = Elems(q) \cup {Signal("fail")}
  BY <1>1, QueueParts
<1>4. c \in Seq(Signals) /\ Elems(c) = Elems(q) \cup {Signal("ok")}
  BY <1>1, QueueParts
<1>5. q \o <<Signal("ok"), Signal("down")>> = d
  BY <1>1
<1> HIDE DEF c
<1>6. d \in Seq(Signals) /\ Elems(d) = Elems(c) \cup {Signal("down")}
  BY <1>1, <1>4, QueueParts
<1>7. Elems(posted') = Posted'
  BY DEF Posted
<1>8. \/ posted' = a /\ access = "connected"
      \/ posted' \in {q, b, c, d} /\ access # "connected"
  BY <1>5 DEF Dropped, c
<1>9. access' = "none"
  BY DEF Dropped
<1> HIDE DEF a, b, d
<1>10. CASE posted' = a /\ access = "connected"
  BY <1>1, <1>2, <1>7, <1>9, <1>10
<1>11. CASE posted' \in {q, b, c, d} /\ access # "connected"
  <2>1. posted' \in Seq(Signals)
    BY <1>3, <1>4, <1>6, <1>11
  <2>2. \/ Posted' = Elems(q) \/ Posted' = Elems(q) \cup {Signal("fail")}
        \/ Posted' = Elems(q) \cup {Signal("ok")}
        \/ Posted' = Elems(q) \cup {Signal("ok")} \cup {Signal("down")}
    <3> HIDE DEF Elems
    <3> QED BY <1>3, <1>4, <1>6, <1>7, <1>11
  <2> QED BY <1>1, <1>9, <1>11, <2>1, <2>2
<1> QED BY <1>8, <1>10, <1>11

(* A signal posted joins the queue.                                        *)
LEMMA PostOne ==
    ASSUME PanelInv, NEW s \in Signals, Post(<<s>>)
    PROVE  posted' \in Seq(Signals) /\ Posted' = Posted \cup {s}
<1>1. posted \in Seq(Signals)
  BY PanelTypes DEF PanelInv
<1>2. posted' = Append(posted, s)
  BY <1>1 DEF Post
<1> QED BY <1>1, <1>2, QueueParts DEF Posted

(* What a signal to the runtime or to the window alone, or none, leaves.   *)
LEMMA WindowFinishedIs ==
    ASSUME NEW q \in Seq(Signals), NEW ok, NEW up, WindowFinished(ok, up, q),
           access \in {"none", "idle", "connecting", "connected"}
    PROVE  /\ posted' \in Seq(Signals) /\ {q[i] : i \in DOMAIN q} \subseteq Posted'
           /\ \A s \in Posted' : s \in {q[i] : i \in DOMAIN q} \/ s.t \in {"ok", "fail", "down"}
           /\ \/ access' = access
              \/ access' = "none" /\ (access = "connected" => \E s \in Posted' : s.t = "down")
<1>1. CASE posted' = q /\ UNCHANGED access
  BY <1>1 DEF Posted
<1>2. CASE Dropped(q)
  BY <1>2, DroppedIs
<1> QED BY <1>1, <1>2 DEF WindowFinished

(* A step that neither starts nor ends a run, nor shows the panel an end.  *)
LEMMA Aside ==
    ASSUME PanelInv, UNCHANGED <<run, last, overlapped>>,
           panel'.label = panel.label, panel'.digest = panel.digest,
           \A s \in Posted' : s \in Posted \/ s.t \notin Ends
    PROVE  Labelled' /\ Summed'
<1>1. \A s \in Posted' : s.t \in Ends => s \in Posted
  OBVIOUS
<1>2. \A s : s.t = "panel" => s.t \in Ends
  BY DEF Ends
<1>3. Labelled'
  BY <1>1, <1>2 DEF PanelInv, Labelled
<1>4. Summed'
  BY <1>1, <1>2 DEF PanelInv, Summed
<1> QED BY <1>3, <1>4

(* The device comes and goes.                                              *)
LEMMA LinkSteps ==
    ASSUME PanelInv,
           \/ Connect \/ LinkLost \/ Disconnect \/ UsbPlugged \/ UsbUnplugged
           \/ \E ok \in BOOLEAN : AttemptEnds(ok)
    PROVE  PanelInv'
<1> USE PanelTypes, PanelTypesNext DEF PanelInv
<1>1. CASE Connect
  <2>1. /\ panel' \in Panels /\ panel'.label = panel.label /\ panel'.digest = panel.digest
        /\ panel'.link = "handshaking"
    <3>1. "handshaking" \in LinkStates /\ panel \in Panels
      BY LinkStatesAre
    <3>2. panel' = SetState(panel, "handshaking")
      BY <1>1 DEF Connect, OnConnectionStarted
    <3> QED BY <3>1, <3>2, SetStateIs
  <2>2. /\ UNCHANGED <<running, run, posted, last, abandoned, overlapped>> /\ blind' = FALSE
        /\ access' = "connecting" /\ asked' = [asked EXCEPT !.connects = @ + 1]
    BY <1>1 DEF Connect
  <2>3. Posted' = Posted
    BY <2>2 DEF Posted
  <2>4. PanelTypeOK'
    <3>1. asked' \in [runs : Nat, connects : Nat]
      BY <2>2
    <3> QED BY <2>1, <2>2, <3>1
  <2>5. Labelled' /\ Summed'
    BY <2>1, <2>2, <2>3, Aside
  <2> QED BY <2>1, <2>4, <2>5 DEF Heard
<1>2. CASE LinkLost
  <2>1. /\ UNCHANGED <<running, run, panel, asked, last, blind, abandoned, overlapped>>
        /\ access' = "idle" /\ Post(<<Signal("down")>>)
    BY <1>2 DEF LinkLost
  <2>2. posted' \in Seq(Signals) /\ Posted' = Posted \cup {Signal("down")}
    BY <2>1, PostOne, SignalsAre
  <2>3. PanelTypeOK'
    BY <2>1, <2>2
  <2>4. Signal("down").t = "down"
    BY SignalsAre
  <2>5. Labelled' /\ Summed'
    BY <2>1, <2>2, <2>4, Aside DEF Ends
  <2>6. Heard'
    BY <2>2, <2>4 DEF Heard
  <2> QED BY <2>3, <2>5, <2>6
<1>3. CASE Disconnect
  <2>1. /\ UNCHANGED <<running, run, panel, asked, last, blind, abandoned, overlapped>>
        /\ Dropped(posted)
    BY <1>3 DEF Disconnect
  <2>2. /\ access' = "none" /\ posted' \in Seq(Signals) /\ Posted \subseteq Posted'
        /\ \A s \in Posted' : s \in Posted \/ s.t \in {"ok", "fail", "down"}
        /\ access = "connected" => \E s \in Posted' : s.t = "down"
    BY <2>1, DroppedIs DEF Posted
  <2>3. PanelTypeOK'
    BY <2>1, <2>2
  <2>4. Labelled' /\ Summed'
    BY <2>1, <2>2, Aside DEF Ends
  <2>5. Heard'
    BY <2>1, <2>2 DEF Heard
  <2> QED BY <2>3, <2>4, <2>5
<1>4. CASE UsbPlugged \/ UsbUnplugged
  <2>1. /\ panel' \in Panels /\ panel'.label = panel.label /\ panel'.digest = panel.digest
        /\ panel'.link \in {panel.link, "detected", "disconnected"}
    <3>1. "detected" \in LinkStates /\ "disconnected" \in LinkStates /\ panel \in Panels
      BY LinkStatesAre
    <3>2. panel' \in {panel, SetState(panel, "detected"), SetState(panel, "disconnected")}
      BY <1>4 DEF UsbPlugged, UsbUnplugged, OnDeviceDetected, OnDeviceLost
    <3>3. ASSUME NEW s \in {"detected", "disconnected"}, panel' = SetState(panel, s)
          PROVE  /\ panel' \in Panels /\ panel'.label = panel.label
                 /\ panel'.digest = panel.digest /\ panel'.link = s
      BY <3>1, <3>3, SetStateIs
    <3> QED BY <3>1, <3>2, <3>3
  <2>2. /\ UNCHANGED <<access, running, run, posted, asked, last, abandoned, overlapped>>
        /\ blind' = blind \/ (panel'.link = "disconnected" /\ blind' = FALSE)
    <3>1. CASE UsbPlugged
      BY <3>1 DEF UsbPlugged
    <3>2. CASE UsbUnplugged
      <4>1. "disconnected" \in LinkStates /\ panel \in Panels
        BY LinkStatesAre
      <4>2. panel'.link = "disconnected"
        BY <3>2, <4>1, SetStateIs DEF UsbUnplugged, OnDeviceLost
      <4> QED BY <3>2, <4>2 DEF UsbUnplugged
    <3> QED BY <1>4, <3>1, <3>2
  <2>3. Posted' = Posted
    BY <2>2 DEF Posted
  <2>4. PanelTypeOK'
    BY <2>1, <2>2
  <2>5. Labelled' /\ Summed'
    BY <2>1, <2>2, <2>3, Aside
  <2>6. Heard'
    BY <2>1, <2>2, <2>3 DEF Heard
  <2> QED BY <2>4, <2>5, <2>6
<1>5. ASSUME NEW ok \in BOOLEAN, AttemptEnds(ok)
      PROVE  PanelInv'
  <2> DEFINE s == Signal(IF ok THEN "ok" ELSE "fail")
  <2>1. /\ UNCHANGED <<running, run, panel, asked, last, blind, abandoned, overlapped>>
        /\ access = "connecting" /\ access' = (IF ok THEN "connected" ELSE "idle") /\ Post(<<s>>)
    BY <1>5 DEF AttemptEnds
  <2>2. s \in Signals /\ s.t \in {"ok", "fail"}
    BY SignalsAre
  <2> HIDE DEF s
  <2>3. posted' \in Seq(Signals) /\ Posted' = Posted \cup {s}
    BY <2>1, <2>2, PostOne
  <2>4. PanelTypeOK'
    BY <2>1, <2>3
  <2>5. Labelled' /\ Summed'
    BY <2>1, <2>2, <2>3, Aside DEF Ends
  <2>6. Heard'
    BY <2>1, <2>3 DEF Heard
  <2> QED BY <2>4, <2>5, <2>6
<1> QED BY <1>1, <1>2, <1>3, <1>4, <1>5

(* The window's request: no two runs overlap only if no end is on its way. *)
LEMMA AsksIs ==
    ASSUME PanelInv, Asks
    PROVE  /\ asked' \in [runs : Nat, connects : Nat] /\ overlapped' \in BOOLEAN
           /\ ~overlapped' => ~overlapped /\ run = NoRun /\ \A s \in Posted : s.t \notin Ends
           /\ access # "none"
<1>1. overlapped' = (overlapped \/ Ending) /\ access # "none"
      /\ asked' = [asked EXCEPT !.runs = @ + 1]
  BY DEF Asks
<1>2. asked' \in [runs : Nat, connects : Nat]
  BY <1>1, PanelTypes DEF PanelInv
<1>3. overlapped \in BOOLEAN /\ Ending \in BOOLEAN
  BY PanelTypes DEF PanelInv, Ending
<1>4. ~Ending => run = NoRun /\ \A s \in Posted : s.t \notin Ends
  BY DEF Ending, Posted, Ends
<1> QED BY <1>1, <1>2, <1>3, <1>4

(* What each state of a run carries.                                       *)
LEMMA RunIs ==
    ASSUME PanelInv
    PROVE  /\ run.st = "active" => run # NoRun /\ run.label \in Labels
           /\ run.st \in {"window", "panel"} =>
                 run # NoRun /\ run.label \in Labels /\ run.ok \in BOOLEAN
           /\ NoRun.st \notin {"active", "window", "panel"}
BY PanelTypes DEF PanelInv, NoRun

(* A run starts, or is turned down with both of its signals at once.       *)
LEMMA StartSteps ==
    ASSUME PanelInv, NEW label \in Labels, Start(label) \/ Rejected(label)
    PROVE  PanelInv'
<1> USE PanelTypes, PanelTypesNext DEF PanelInv
<1> DEFINE p == OnRunStarted(panel, label)
           q == OnRunFinished(p, FALSE)
<1>1. p \in Panels /\ p.digest = NoDigest /\ p.label = label /\ p.link = "syncing"
  BY RunStarted
<1> HIDE DEF p
<1>2. /\ q \in Panels /\ q.digest = Digest(label, FALSE) /\ q.label = label
      /\ q.link = "connected"
  BY <1>1, RunFinished
<1> HIDE DEF q
<1>3. CASE Start(label)
  <2>1. /\ Asks /\ running' = TRUE /\ run' = [st |-> "active", label |-> label]
        /\ panel' = p /\ blind' = (access # "connected")
        /\ UNCHANGED <<access, posted, last, abandoned>>
    BY <1>3 DEF Start, p
  <2>2. Posted' = Posted
    BY <2>1 DEF Posted
  <2>3. PanelTypeOK'
    <3>1. run' \in [st : {"active"}, label : Labels]
      BY <2>1
    <3> QED BY <1>1, <2>1, <3>1, AsksIs
  <2>4. Labelled'
    BY <1>1, <2>1 DEF Labelled
  <2>5. run'.st = "active" /\ run'.label = label
    BY <2>1
  <2>6. Summed'
    <3>1. ~overlapped' => \A s \in Posted' : s.t \notin Ends
      BY <2>1, <2>2, AsksIs
    <3> QED BY <1>1, <2>1, <2>5, <3>1 DEF Summed, Ends
  <2>7. Heard'
    BY <2>1 DEF Heard
  <2> QED BY <2>3, <2>4, <2>6, <2>7
<1>4. CASE Rejected(label)
  <2>1. /\ Asks /\ last' = Digest(label, FALSE) /\ panel' = q
        /\ blind' = (access # "connected") /\ WindowFinished(FALSE, FALSE, posted)
        /\ UNCHANGED <<running, run, abandoned>>
    BY <1>4 DEF Rejected, p, q
  <2>2. /\ posted' \in Seq(Signals) /\ Posted \subseteq Posted'
        /\ \A s \in Posted' : s \in Posted \/ s.t \in {"ok", "fail", "down"}
        /\ \/ access' = access
           \/ access' = "none" /\ (access = "connected" => \E s \in Posted' : s.t = "down")
    BY <2>1, WindowFinishedIs DEF Posted
  <2>3. PanelTypeOK'
    <3>1. Digest(label, FALSE) \in Digests
      BY DEF Digest, Digests
    <3>2. access' \in {"none", "idle", "connecting", "connected"}
      BY <2>2
    <3> QED BY <1>2, <2>1, <2>2, <3>1, <3>2, AsksIs
  <2>4. Labelled'
    BY <1>2, <2>1 DEF Labelled
  <2>5. Summed'
    <3> SUFFICES ASSUME ~overlapped'
                 PROVE  Summed'
      BY DEF Summed
    <3>1. run' = NoRun /\ \A s \in Posted' : s.t \notin Ends
      BY <2>1, <2>2, AsksIs DEF Ends
    <3>2. panel'.digest = last'
      BY <1>2, <2>1
    <3>3. run'.st \notin {"active", "window", "panel"}
      BY <3>1, RunIs
    <3> QED BY <3>1, <3>2, <3>3 DEF Summed, Ends
  <2>6. Heard'
    BY <2>1, <2>2 DEF Heard
  <2> QED BY <2>3, <2>4, <2>5, <2>6
<1> QED BY <1>3, <1>4

(* A run ends, signal by signal; a backup or a restore all at once.        *)
LEMMA EndSteps ==
    ASSUME PanelInv, RunEnds \/ PostsOn \/ \E ok \in BOOLEAN : RawRunEnds(ok)
    PROVE  PanelInv'
<1> USE PanelTypes, PanelTypesNext DEF PanelInv
<1>1. CASE RunEnds
  <2>1. run.st = "active"
    BY <1>1 DEF RunEnds
  <2>2. PICK ok \in BOOLEAN, results \in [Mappings -> BOOLEAN] :
          /\ run' = [st |-> "window", label |-> run.label, ok |-> ok]
          /\ Post(<<[t |-> "mappings", results |-> results], Signal("running")>>)
          /\ last' = Digest(run.label, ok)
    BY <1>1 DEF RunEnds
  <2>3. UNCHANGED <<access, running, panel, asked, blind, abandoned, overlapped>>
    BY <1>1 DEF RunEnds
  <2>4. run.label \in Labels /\ run # NoRun
    BY <2>1, RunIs
  <2> DEFINE m == [t |-> "mappings", results |-> results]
             r == Signal("running")
             a == Append(posted, m)
  <2>5. m \in Signals /\ m.t = "mappings" /\ r \in Signals /\ r.t = "running"
    BY SignalsAre
  <2>6. posted' = Append(a, r)
    <3>1. \A x, y \in Signals : posted \o <<x, y>> = Append(Append(posted, x), y)
      OBVIOUS
    <3>2. posted' = posted \o <<m, r>>
      BY <2>2 DEF Post
    <3> HIDE DEF m, r
    <3> QED BY <2>5, <3>1, <3>2
  <2> HIDE DEF m, r
  <2>7. a \in Seq(Signals) /\ {a[i] : i \in DOMAIN a} = Posted \cup {m}
    BY <2>5, QueueParts DEF Posted
  <2> HIDE DEF a
  <2>8. posted' \in Seq(Signals) /\ Posted' = Posted \cup {m} \cup {r}
    <3>1. /\ Append(a, r) \in Seq(Signals)
          /\ {Append(a, r)[i] : i \in DOMAIN Append(a, r)} = {a[i] : i \in DOMAIN a} \cup {r}
      BY <2>5, <2>7, QueueParts
    <3>2. {posted'[i] : i \in DOMAIN posted'} = {a[i] : i \in DOMAIN a} \cup {r}
      BY <2>6, <3>1
    <3> QED BY <2>6, <2>7, <3>1, <3>2 DEF Posted
  <2>9. PanelTypeOK'
    <3>1. run' \in [st : {"window", "panel"}, label : Labels, ok : BOOLEAN]
      BY <2>2, <2>4
    <3>2. last' \in Digests
      BY <2>2, <2>4 DEF Digest, Digests
    <3> QED BY <2>3, <2>8, <3>1, <3>2
  <2>10. Labelled'
    BY <2>3, <2>4 DEF Labelled
  <2>11. Summed'
    <3> SUFFICES ASSUME ~overlapped'
                 PROVE  Summed'
      BY DEF Summed
    <3>1. /\ panel.label = run.label /\ panel.digest = NoDigest
          /\ \A s \in Posted : s.t \notin Ends
      BY <2>1, <2>3 DEF Summed
    <3>2. \A s \in Posted' : s.t # "panel"
      BY <2>5, <2>8, <3>1 DEF Ends
    <3>3. run'.st = "window" /\ run'.ok = ok
      BY <2>2
    <3> QED BY <2>2, <2>3, <3>1, <3>2, <3>3 DEF Summed
  <2>12. Heard'
    BY <2>3, <2>8 DEF Heard
  <2> QED BY <2>9, <2>10, <2>11, <2>12
<1>2. CASE PostsOn
  <2> DEFINE s == [t |-> run.st, ok |-> run.ok]
  <2>1. run.st \in {"window", "panel"} /\ Post(<<s>>)
        /\ run' = IF run.st = "window" THEN [run EXCEPT !.st = "panel"] ELSE NoRun
    BY <1>2 DEF PostsOn
  <2>2. UNCHANGED <<access, running, panel, asked, last, blind, abandoned, overlapped>>
    BY <1>2 DEF PostsOn
  <2>3. run \in [st : {"window", "panel"}, label : Labels, ok : BOOLEAN] /\ run # NoRun
    BY <2>1, RunIs DEF NoRun
  <2>4. s \in Signals /\ s.t = run.st /\ s.ok = run.ok
    BY <2>3, SignalsAre
  <2> HIDE DEF s
  <2>5. posted' \in Seq(Signals) /\ Posted' = Posted \cup {s}
    BY <2>1, <2>4, PostOne
  <2>6. \/ /\ run.st = "window" /\ run'.st = "panel" /\ run'.ok = run.ok
           /\ run' \in [st : {"window", "panel"}, label : Labels, ok : BOOLEAN]
        \/ run.st = "panel" /\ run' = NoRun
    BY <2>1, <2>3
  <2>7. PanelTypeOK'
    BY <2>2, <2>5, <2>6
  <2>8. Labelled'
    BY <2>2, <2>3 DEF Labelled
  <2>9. Summed'
    <3> SUFFICES ASSUME ~overlapped'
                 PROVE  Summed'
      BY DEF Summed
    <3>1. /\ panel.digest # NoDigest => panel.digest = last
          /\ last = Digest(panel.label, run.ok)
          /\ \A x \in Posted : x.t = "panel" => last = Digest(panel.label, x.ok)
      BY <2>1, <2>2 DEF Summed
    <3>2. \A x \in Posted' : x.t = "panel" => last = Digest(panel.label, x.ok)
      BY <2>4, <2>5, <3>1
    <3>3. run'.st # "active"
      BY <2>6, RunIs
    <3>4. run'.st \in {"window", "panel"} => run'.ok = run.ok
      BY <2>6, RunIs
    <3> QED BY <2>2, <3>1, <3>2, <3>3, <3>4 DEF Summed
  <2>10. Heard'
    BY <2>2, <2>5 DEF Heard
  <2> QED BY <2>7, <2>8, <2>9, <2>10
<1>3. ASSUME NEW ok \in BOOLEAN, RawRunEnds(ok)
      PROVE  PanelInv'
  <2> DEFINE p == Pushed(panel, ok)
             q == OnRunFinished(p, ok)
  <2>1. /\ run.st = "active" /\ run' = NoRun /\ running' = FALSE
        /\ last' = Digest(run.label, ok) /\ panel' = q
        /\ WindowFinished(ok, FALSE, posted)
        /\ UNCHANGED <<asked, blind, abandoned, overlapped>>
    BY <1>3 DEF RawRunEnds
  <2>2. run # NoRun /\ run.label \in Labels
    BY <2>1, RunIs
  <2>3. /\ p \in Panels /\ p.link = panel.link /\ p.digest = panel.digest
        /\ p.label = panel.label
    BY PushedIs
  <2> HIDE DEF p
  <2>4. p.label \in Labels
    BY <2>2, <2>3 DEF Labelled
  <2>5. /\ q \in Panels /\ q.digest = Digest(panel.label, ok) /\ q.label = panel.label
        /\ q.link = IF panel.link = "syncing" THEN "connected" ELSE panel.link
    BY <2>3, <2>4, RunFinished
  <2> HIDE DEF q
  <2>6. /\ posted' \in Seq(Signals) /\ Posted \subseteq Posted'
        /\ \A s \in Posted' : s \in Posted \/ s.t \in {"ok", "fail", "down"}
        /\ \/ access' = access
           \/ access' = "none" /\ (access = "connected" => \E s \in Posted' : s.t = "down")
    BY <2>1, WindowFinishedIs DEF Posted
  <2>7. PanelTypeOK'
    <3>1. last' \in Digests
      BY <2>1, <2>2 DEF Digest, Digests
    <3>2. access' \in {"none", "idle", "connecting", "connected"}
      BY <2>6
    <3> QED BY <2>1, <2>5, <2>6, <3>1, <3>2
  <2>8. Labelled'
    BY <2>1, <2>3, <2>4, <2>5 DEF Labelled
  <2>9. Summed'
    <3> SUFFICES ASSUME ~overlapped'
                 PROVE  Summed'
      BY DEF Summed
    <3>1. panel.label = run.label /\ \A s \in Posted : s.t \notin Ends
      BY <2>1 DEF Summed
    <3>2. panel'.digest = last'
      BY <2>1, <2>5, <3>1
    <3>3. \A s \in Posted' : s.t # "panel"
      BY <2>6, <3>1 DEF Ends
    <3>4. run'.st \notin {"active", "window", "panel"}
      BY <2>1, RunIs
    <3> QED BY <3>2, <3>3, <3>4 DEF Summed
  <2>10. Heard'
    <3>1. panel'.link \in {"connected", "syncing"} => panel.link \in {"connected", "syncing"}
      BY <2>1, <2>5
    <3> QED BY <2>1, <2>6, <3>1 DEF Heard
  <2> QED BY <2>7, <2>8, <2>9, <2>10
<1> QED BY <1>1, <1>2, <1>3

(* The main loop handles the first signal in the queue.                    *)
LEMMA HandleStep ==
    ASSUME PanelInv, Handle
    PROVE  PanelInv'
<1> USE PanelTypes, PanelTypesNext DEF PanelInv
<1> DEFINE s == Head(posted)
           rest == Tail(posted)
           Rest == {rest[i] : i \in DOMAIN rest}
<1>1. posted # <<>> /\ UNCHANGED <<run, asked, last, abandoned, overlapped>>
  BY DEF Handle
<1>2. s \in Signals /\ rest \in Seq(Signals) /\ Posted = {s} \cup Rest
  BY <1>1, QueueParts DEF Posted
<1>3. posted' = rest => Posted' = Rest
  BY DEF Posted
<1>4. \/ /\ s.t = "ok" /\ posted' = rest /\ UNCHANGED <<access, running>>
         /\ panel' = OnConnectionComplete(panel, TRUE) /\ blind' = (access # "connected")
      \/ /\ s.t = "fail" /\ posted' = rest /\ UNCHANGED <<access, running>>
         /\ panel' = OnConnectionComplete(panel, FALSE) /\ blind' = FALSE
      \/ /\ s.t = "down" /\ posted' = rest /\ UNCHANGED <<access, running>>
         /\ panel' = OnDeviceLost(panel) /\ blind' = FALSE
      \/ /\ s.t = "mappings" /\ posted' = rest /\ UNCHANGED <<access, running, blind>>
         /\ panel' = [panel EXCEPT !.chips = [m \in Mappings |->
                         OnMappingSyncFinished(panel, m, s.results[m]).chips[m]]]
      \/ /\ s.t = "running" /\ posted' = rest /\ running' = FALSE
         /\ UNCHANGED <<access, panel, blind>>
      \/ /\ s.t = "window" /\ panel' = Pushed(panel, s.ok)
         /\ WindowFinished(s.ok, running, rest) /\ UNCHANGED <<running, blind>>
      \/ /\ s.t = "panel" /\ posted' = rest /\ UNCHANGED <<access, running, blind>>
         /\ panel' = OnRunFinished(panel, s.ok)
  BY DEF Handle
<1>5. s.t \in {"window", "panel"} => s.ok \in BOOLEAN
  BY <1>2 DEF Signals, Signal
<1>6. s.t = "mappings" => s.results \in [Mappings -> BOOLEAN]
  BY <1>2 DEF Signals, Signal
<1> HIDE DEF s, rest
<1>7. ASSUME s.t \in {"ok", "fail", "down", "mappings", "running"}, posted' = rest,
             UNCHANGED access, running' \in BOOLEAN, blind' \in BOOLEAN, panel' \in Panels,
             panel'.digest = panel.digest, panel'.label = panel.label, Heard'
      PROVE  PanelInv'
  <2>1. PanelTypeOK'
    BY <1>1, <1>2, <1>7
  <2>2. Labelled' /\ Summed'
    BY <1>1, <1>2, <1>3, <1>7, Aside
  <2> QED BY <1>7, <2>1, <2>2
<1>8. CASE /\ s.t = "ok" /\ posted' = rest /\ UNCHANGED <<access, running>>
           /\ panel' = OnConnectionComplete(panel, TRUE) /\ blind' = (access # "connected")
  <2>1. panel' \in Panels /\ panel'.digest = panel.digest /\ panel'.label = panel.label
    BY <1>8, ConnectionComplete
  <2>2. Heard'
    BY <1>8 DEF Heard
  <2> QED BY <1>7, <1>8, <2>1, <2>2
<1>9. CASE /\ s.t = "fail" /\ posted' = rest /\ UNCHANGED <<access, running>>
           /\ panel' = OnConnectionComplete(panel, FALSE) /\ blind' = FALSE
  <2>1. /\ panel' \in Panels /\ panel'.digest = panel.digest /\ panel'.label = panel.label
        /\ panel'.link = "listening"
    BY <1>9, ConnectionComplete
  <2>2. Heard'
    BY <2>1 DEF Heard
  <2> QED BY <1>7, <1>9, <2>1, <2>2
<1>10. CASE /\ s.t = "down" /\ posted' = rest /\ UNCHANGED <<access, running>>
            /\ panel' = OnDeviceLost(panel) /\ blind' = FALSE
  <2>1. /\ panel' \in Panels /\ panel'.digest = panel.digest /\ panel'.label = panel.label
        /\ panel'.link = "disconnected"
    BY <1>10, SetStateIs, LinkStatesAre DEF OnDeviceLost
  <2>2. Heard'
    BY <2>1 DEF Heard
  <2> QED BY <1>7, <1>10, <2>1, <2>2
<1>11. CASE /\ s.t = "mappings" /\ posted' = rest /\ UNCHANGED <<access, running, blind>>
            /\ panel' = [panel EXCEPT !.chips = [m \in Mappings |->
                           OnMappingSyncFinished(panel, m, s.results[m]).chips[m]]]
  <2> DEFINE c == [m \in Mappings |-> OnMappingSyncFinished(panel, m, s.results[m]).chips[m]]
  <2>1. ASSUME NEW m \in Mappings
        PROVE  OnMappingSyncFinished(panel, m, s.results[m]).chips[m] \in ChipStates
    BY DEF OnMappingSyncFinished, Panels, ChipStates
  <2>2. c \in [Mappings -> ChipStates]
    BY <2>1
  <2> HIDE DEF c
  <2>3. /\ panel' \in Panels /\ panel'.digest = panel.digest /\ panel'.label = panel.label
        /\ panel'.link = panel.link
    BY <1>11, <2>2, ChipsAre DEF c
  <2>4. \A x \in Posted : x.t \in {"down", "fail"} => x \in Rest
    BY <1>2, <1>11
  <2>5. Heard'
    BY <1>3, <1>11, <2>3, <2>4 DEF Heard
  <2> QED BY <1>7, <1>11, <2>3, <2>5
<1>12. CASE /\ s.t = "running" /\ posted' = rest /\ running' = FALSE
            /\ UNCHANGED <<access, panel, blind>>
  <2>1. \A x \in Posted : x.t \in {"down", "fail"} => x \in Rest
    BY <1>2, <1>12
  <2>2. Heard'
    BY <1>3, <1>12, <2>1 DEF Heard
  <2> QED BY <1>7, <1>12, <2>2
<1>13. CASE /\ s.t = "window" /\ panel' = Pushed(panel, s.ok)
            /\ WindowFinished(s.ok, running, rest) /\ UNCHANGED <<running, blind>>
  <2>1. /\ panel' \in Panels /\ panel'.link = panel.link /\ panel'.digest = panel.digest
        /\ panel'.label = panel.label
    BY <1>5, <1>13, PushedIs
  <2>2. /\ posted' \in Seq(Signals) /\ Rest \subseteq Posted'
        /\ \A x \in Posted' : x \in Rest \/ x.t \in {"ok", "fail", "down"}
        /\ \/ access' = access
           \/ access' = "none" /\ (access = "connected" => \E x \in Posted' : x.t = "down")
    BY <1>2, <1>13, WindowFinishedIs
  <2>3. PanelTypeOK'
    <3>1. access' \in {"none", "idle", "connecting", "connected"}
      BY <2>2
    <3> QED BY <1>1, <1>13, <2>1, <2>2, <3>1
  <2>4. Labelled' /\ Summed'
    BY <1>1, <1>2, <2>1, <2>2, Aside DEF Ends
  <2>5. \A x \in Posted : x.t \in {"down", "fail"} => x \in Posted'
    BY <1>2, <1>13, <2>2
  <2>6. Heard'
    BY <1>13, <2>1, <2>2, <2>5 DEF Heard
  <2> QED BY <2>3, <2>4, <2>6
<1>14. CASE /\ s.t = "panel" /\ posted' = rest /\ UNCHANGED <<access, running, blind>>
            /\ panel' = OnRunFinished(panel, s.ok)
  <2>1. s \in Posted /\ s.ok \in BOOLEAN /\ panel.label \in Labels
    BY <1>2, <1>5, <1>14 DEF Labelled
  <2>2. /\ panel' \in Panels /\ panel'.digest = Digest(panel.label, s.ok)
        /\ panel'.label = panel.label
        /\ panel'.link = IF panel.link = "syncing" THEN "connected" ELSE panel.link
    BY <1>14, <2>1, RunFinished
  <2>3. PanelTypeOK'
    BY <1>1, <1>2, <1>14, <2>2
  <2>4. Labelled'
    BY <2>1, <2>2 DEF Labelled
  <2>5. Summed'
    <3> SUFFICES ASSUME ~overlapped'
                 PROVE  Summed'
      BY DEF Summed
    <3>1. /\ run.st # "active"
          /\ run.st \in {"window", "panel"} => last = Digest(panel.label, run.ok)
          /\ \A x \in Posted : x.t = "panel" => last = Digest(panel.label, x.ok)
      BY <1>1, <1>14, <2>1 DEF Summed, Ends
    <3> QED BY <1>1, <1>2, <1>3, <1>14, <2>1, <2>2, <3>1 DEF Summed
  <2>6. \A x \in Posted : x.t \in {"down", "fail"} => x \in Rest
    BY <1>2, <1>14
  <2>7. panel'.link \in {"connected", "syncing"} => panel.link \in {"connected", "syncing"}
    BY <2>2
  <2>8. Heard'
    BY <1>3, <1>14, <2>6, <2>7 DEF Heard
  <2> QED BY <2>3, <2>4, <2>5, <2>8
<1> QED BY <1>4, <1>8, <1>9, <1>10, <1>11, <1>12, <1>13, <1>14

(* Another profile.                                                        *)
LEMMA LoadProfileStep ==
    ASSUME PanelInv, LoadProfile
    PROVE  PanelInv'
<1> USE PanelTypes, PanelTypesNext DEF PanelInv
<1>1. /\ access' = "none" /\ running' = FALSE /\ run' = NoRun /\ posted' = ForUs(posted)
      /\ panel' = SeedConduits(panel) /\ blind' = (panel.link \in {"connected", "syncing"})
      /\ abandoned' = (panel.link = "syncing") /\ UNCHANGED <<asked, last, overlapped>>
  BY DEF LoadProfile
<1>2. /\ panel' \in Panels /\ panel'.link = panel.link /\ panel'.digest = panel.digest
      /\ panel'.label = panel.label
  BY <1>1, ChipsAre, PendingChips DEF SeedConduits
<1>3. posted' \in Seq(Signals) /\ Posted' \subseteq Posted
  BY <1>1, KeptWasThere DEF Posted
<1>4. PanelTypeOK'
  <2>1. blind' \in BOOLEAN /\ abandoned' \in BOOLEAN
    BY <1>1
  <2>2. running' \in BOOLEAN /\ overlapped' \in BOOLEAN /\ last' \in Digests
        /\ asked' \in [runs : Nat, connects : Nat]
    BY <1>1
  <2>3. access' \in {"none", "idle", "connecting", "connected"} /\ run' \in {NoRun}
    BY <1>1
  <2> QED BY <1>2, <1>3, <2>1, <2>2, <2>3
<1>5. Labelled'
  BY <1>1, <1>2, <1>3 DEF Labelled
<1>6. run'.st \notin {"active", "window", "panel"}
  BY <1>1, RunIs
<1>7. Summed'
  BY <1>1, <1>2, <1>3, <1>6 DEF Summed
<1>8. Heard'
  BY <1>1, <1>2 DEF Heard
<1> QED BY <1>4, <1>5, <1>7, <1>8

(* Every step keeps the invariant, and it starts true.                     *)
LEMMA PanelStep == PanelInv /\ [PanelNext]_panelVars => PanelInv'
<1> SUFFICES ASSUME PanelInv, [PanelNext]_panelVars PROVE PanelInv'
  OBVIOUS
<1>1. CASE UNCHANGED panelVars
  <2>1. /\ UNCHANGED <<access, running, run, posted, panel>>
        /\ UNCHANGED <<asked, last, blind, abandoned, overlapped>>
    BY <1>1 DEF panelVars
  <2>2. Posted' = Posted
    BY <2>1 DEF Posted
  <2>3. PanelTypeOK'
    BY <2>1, PanelTypes, PanelTypesNext DEF PanelInv
  <2>4. Labelled'
    BY <2>1, <2>2 DEF PanelInv, Labelled
  <2>5. Summed'
    BY <2>1, <2>2 DEF PanelInv, Summed
  <2>6. Heard'
    BY <2>1, <2>2 DEF PanelInv, Heard
  <2> QED BY <2>3, <2>4, <2>5, <2>6 DEF PanelInv
<1>2. CASE PanelNext
  BY <1>2, LinkSteps, StartSteps, EndSteps, HandleStep, LoadProfileStep DEF PanelNext
<1> QED BY <1>1, <1>2

LEMMA PanelStarts == PanelInit => PanelInv
<1> SUFFICES ASSUME PanelInit PROVE PanelInv
  OBVIOUS
<1>1. posted = <<>> /\ Posted = {} /\ run = NoRun
  BY DEF PanelInit, Posted
<1>2. panel \in Panels /\ panel.digest = NoDigest /\ panel.link = "listening"
  BY PendingChips, LinkStatesAre DEF PanelInit, Panels, Digests
<1>3. PanelTypeOK
  <2>1. /\ access = "none" /\ running = FALSE /\ blind = FALSE /\ abandoned = FALSE
        /\ overlapped = FALSE /\ asked = [runs |-> 0, connects |-> 0] /\ last = NoDigest
    BY DEF PanelInit
  <2>2. NoDigest \in Digests
    BY DEF Digests
  <2>3. asked \in [runs : Nat, connects : Nat]
    BY <2>1
  <2>4. posted \in Seq(Signals)
    BY <1>1
  <2> QED BY <1>1, <1>2, <2>1, <2>2, <2>3, <2>4, PanelTypes
<1>4. NoRun.st \notin {"active", "window", "panel"}
  BY DEF NoRun
<1> QED BY <1>1, <1>2, <1>3, <1>4 DEF PanelInv, Labelled, Summed, Heard

LEMMA AlwaysPanelInv == PanelSpec => []PanelInv
BY PanelStarts, PanelStep, PTL DEF PanelSpec

(* The panel keeps to its types; the mode in its summary is one of a run.  *)
THEOREM PanelTypeCorrect == PanelSpec => []PanelTypeOK
<1>1. PanelInv => PanelTypeOK
  BY DEF PanelInv
<1> QED BY <1>1, AlwaysPanelInv, PTL

(* For any mappings, modes and numbers of runs and connects: with no run   *)
(* going on, the summary in the headline is that of the last run, unless   *)
(* the signals of two runs overlapped.                                     *)
THEOREM SummaryRight == PanelSpec => []DigestRight
<1>1. PanelInv => DigestRight
  BY PanelTypes DEF PanelInv, Summed, DigestRight, NoDigest, Digests
<1> QED BY <1>1, AlwaysPanelInv, PTL

(* However late its signals are: once all have arrived, a panel that       *)
(* offers a sync has a device, unless `blind' says what misled it.         *)
THEOREM OffersHonest == PanelSpec => []ConnectedHonest
<1>1. ASSUME PanelInv, posted = <<>>, ~blind, PrimaryAction(panel) = "sync"
      PROVE  access = "connected"
  <2>1. Posted = {}
    BY <1>1 DEF Posted
  <2>2. panel.link = "connected"
    BY <1>1 DEF PrimaryAction
  <2> QED BY <1>1, <2>1, <2>2 DEF PanelInv, Heard
<1>2. PanelInv => ConnectedHonest
  BY <1>1 DEF ConnectedHonest
<1> QED BY <1>2, AlwaysPanelInv, PTL
=============================================================================
