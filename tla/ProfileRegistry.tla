--------------------------- MODULE ProfileRegistry ---------------------------
(***************************************************************************)
(* ProfileRegistry: the list of profiles the application knows, kept in    *)
(* its settings file, with the serial number of the handheld bound to      *)
(* each.  Every operation rewrites the file before it returns, so one      *)
(* value stands for the cache and the file, and what a restart reads is    *)
(* that value.  The operations are functions on it.                        *)
(*                                                                         *)
(* Ids are the numbers of "profile<n>".  A folder is named after an id,    *)
(* under the default root or elsewhere.                                    *)
(***************************************************************************)
EXTENDS Integers, Sequences, FiniteSets

CONSTANTS
    MaxId,        \* bound: the last id that allocateNewId hands out
    Elsewhere,    \* ids whose folder exists outside the default root as well
    Serials, NoSerial   \* serial numbers, and the empty one

ASSUME RegistryAssumption ==
    /\ MaxId \in Nat \ {0} /\ Elsewhere \subseteq 1..MaxId
    /\ NoSerial \notin Serials

Ids == 1..MaxId
NoId == 0
Home(i) == [root |-> "default", base |-> i]
Folders == {Home(i) : i \in Ids} \cup {[root |-> "elsewhere", base |-> i] : i \in Elsewhere}

EntryType == [id : Ids, path : Folders, serial : Serials \cup {NoSerial}]

(* The registry of a first launch.                                         *)
NoProfiles == [cache |-> <<>>, last |-> NoId, tombs |-> {}]

-----------------------------------------------------------------------------
Entries(reg) == {reg.cache[k] : k \in DOMAIN reg.cache}
Known(reg) == {e.id : e \in Entries(reg)}
Index(reg, i) == CHOOSE k \in DOMAIN reg.cache : reg.cache[k].id = i

(* findBySerial: no entry for the empty serial.                            *)
FindBySerial(reg, s) == {e \in Entries(reg) : s # NoSerial /\ e.serial = s}

Highest(S) == IF S = {} THEN 0 ELSE CHOOSE i \in S : \A j \in S : j <= i

(* Mutant: tombstones are not looked at.                                   *)
AllocateNewId_Cache(reg) == Highest(Known(reg)) + 1

(* allocateNewId: past every id that is known or retired.                  *)
AllocateNewId(reg) == Highest(Known(reg) \cup reg.tombs) + 1

(* The newest entry comes first: the cache is sorted by last use.          *)
WithEntry(reg, e) == [reg EXCEPT !.cache = <<e>> \o @]

(* registerNew, with the folder it makes under the default root.           *)
RegisterNew(reg) ==
    LET i == AllocateNewId(reg) IN
    WithEntry(reg, [id |-> i, path |-> Home(i), serial |-> NoSerial])

(* registerExisting; `conf' is the id that the folder's profile.conf       *)
(* states, NoId when there is no such file.                                *)
CanRegisterExisting(reg, f, conf) == conf = f.base /\ conf \notin Known(reg)

RegisterExisting(reg, f, conf) ==
    WithEntry(reg, [id |-> conf, path |-> f, serial |-> NoSerial])

(* The list with one place erased.                                         *)
Erase(c, k) == SubSeq(c, 1, k - 1) \o SubSeq(c, k + 1, Len(c))

(* unregister: the id leaves a tombstone.                                  *)
Unregister(reg, i) ==
    IF i \notin Known(reg) THEN reg
    ELSE [cache |-> Erase(reg.cache, Index(reg, i)),
          last  |-> IF reg.last = i THEN NoId ELSE reg.last,
          tombs |-> reg.tombs \cup {i}]

(* setLastActive moves the entry to the front.                             *)
SetLastActive(reg, i) ==
    IF i \notin Known(reg) THEN reg
    ELSE [reg EXCEPT !.last = i,
                     !.cache = <<@[Index(reg, i)]>> \o Erase(@, Index(reg, i))]

(* Mutant: the former owner keeps the serial.                              *)
BindSerial_Share(reg, i, s) ==
    IF i \notin Known(reg) THEN reg
    ELSE [reg EXCEPT !.cache =
             [k \in DOMAIN @ |-> IF @[k].id = i THEN [@[k] EXCEPT !.serial = s] ELSE @[k]]]

(* bindSerial: a serial has one owner; another entry that has it loses it. *)
BindSerial(reg, i, s) ==
    IF i \notin Known(reg) THEN reg
    ELSE [reg EXCEPT !.cache =
             [k \in DOMAIN @ |->
                 IF @[k].id = i THEN [@[k] EXCEPT !.serial = s]
                 ELSE IF s # NoSerial /\ @[k].serial = s
                      THEN [@[k] EXCEPT !.serial = NoSerial] ELSE @[k]]]

=============================================================================
