------------------------------ MODULE Categories ------------------------------
(***************************************************************************)
(* The category table of one Palm database over the sessions of one        *)
(* handheld: at every connect PalmRuntime::finishConnect reads the table,  *)
(* reconciles it with the names the configuration wants, writes it back,   *)
(* lets the plugin read the names and derives the status of every route.   *)
(* The main thread does all that in one go; each DLP call may fail.        *)
(*                                                                         *)
(* A name is a member of Texts.  How names are compared, written and read  *)
(* back are functions on them: a name is cut at fifteen bytes and encoded  *)
(* to Windows-1252, and not every name survives that.                      *)
(***************************************************************************)
EXTENDS Integers, Sequences

CONSTANTS
    Texts, NoText,  \* names, and the empty name of a free slot
    Unfiled,        \* the name of slot 0
    Fold,           \* [Texts -> Texts]: equal for names that differ in case
    Kept,           \* [Texts -> Texts]: what categoryName reads back of a
                    \* name that setCategory wrote
    Shown,          \* [Texts -> Texts]: what categoryappinforeader reads
                    \* where categoryName reads a text
    Wanted,         \* the names that the configuration may want
    UserNames,      \* the names that the user gives on the device
    MaxWanted,      \* bound: how many it wants at once
    LastSlot,       \* MAX_CATEGORIES - 1, which is 15
    MaxId           \* the largest category id, which is 255

ASSUME ConstantsAssumption ==
    /\ NoText \notin Texts /\ Unfiled \in Texts
    /\ Fold \in [Texts -> Texts] /\ Kept \in [Texts -> Texts] /\ Shown \in [Texts -> Texts]
    /\ UserNames \subseteq Texts /\ \A n \in UserNames : Kept[n] = n
    /\ Wanted \subseteq Texts /\ MaxWanted \in Nat
    /\ LastSlot \in Nat \ {0} /\ MaxId \in Nat \ {0}

Slots == 0..LastSlot
None == -1

VARIABLES
    table,    \* the category table on the device
    at,       \* the next step of the session
    list,     \* the names wanted in this session
    next,     \* the position in `list' of the name to bind next
    routes,   \* the names that enabled routes refer to
    work,     \* the table as CategoryInfo holds it
    mutated,  \* `work' was changed
    noFree,   \* m_categoryNoFreeSlot
    clean,    \* no DLP call of this session failed
    store     \* the plugin's CategoryMappingStore, for slots 1 and up

vars == <<table, at, list, next, routes, work, mutated, noFree, clean, store>>

-----------------------------------------------------------------------------
Empty(t, i) == t[i].name = NoText
Named(t) == {i \in Slots : ~Empty(t, i)}

(* What `work' holds while no block is parsed.                             *)
NoTable == [i \in Slots |-> [name |-> NoText, id |-> 0]]

Init ==
    /\ table = [i \in Slots |-> [name |-> IF i = 0 THEN Unfiled ELSE NoText, id |-> 0]]
    /\ at = "away" /\ list = <<>> /\ next = 1 /\ routes = {}
    /\ work = NoTable /\ mutated = FALSE /\ noFree = {} /\ clean = TRUE
    /\ store = [i \in 1..LastSlot |-> NoText]

-----------------------------------------------------------------------------
(* CategoryInfo.                                                           *)

Lowest(S) == CHOOSE i \in S : \A j \in S : i <= j

(* A mutant of CategoryIndex: the case of letters counts.                  *)
CategoryIndex_Exact(t, n) ==
    LET same == {i \in Named(t) : t[i].name = n} IN
    IF same = {} THEN None ELSE Lowest(same)

CategoryIndex(t, n) ==
    LET same == {i \in Named(t) : Fold[t[i].name] = Fold[n]} IN
    IF same = {} THEN None ELSE Lowest(same)

(* Mutants of FindEmptySlot: the last slot is not looked at; a full table  *)
(* is not noticed.                                                         *)
FindEmptySlot_NotLast(t) ==
    LET free == {i \in 1..(LastSlot - 1) : Empty(t, i)} IN
    IF free = {} THEN None ELSE Lowest(free)

FindEmptySlot_Full(t) ==
    LET free == {i \in 1..LastSlot : Empty(t, i)} IN
    IF free = {} THEN LastSlot ELSE Lowest(free)

FindEmptySlot(t) ==
    LET free == {i \in 1..LastSlot : Empty(t, i)} IN
    IF free = {} THEN None ELSE Lowest(free)

HighestId(t) == CHOOSE m \in {t[i].id : i \in Slots} : \A i \in Slots : t[i].id <= m

(* Mutants of NewId: it does not wrap around; the highest id is reused.    *)
NewId_Wide(t) == HighestId(t) + 1

NewId_Highest(t) == HighestId(t)

(* The id is an unsigned char.                                             *)
NewId(t) == (HighestId(t) + 1) % (MaxId + 1)

SetCategory(t, i, n) ==
    [t EXCEPT ![i] = [name |-> Kept[n], id |-> IF @.id = 0 THEN NewId(t) ELSE @.id]]

-----------------------------------------------------------------------------
(* A session.                                                              *)

(* The names wanted are those of the profile and then those of the routes, *)
(* each of the latter unless it is in the list already but for case.  No   *)
(* name is wanted twice.                                                   *)
Lists == {l \in UNION {[1..n -> Wanted] : n \in 0..MaxWanted} :
             \A i, j \in DOMAIN l : l[i] = l[j] => i = j}

Connect ==
    /\ at = "away"
    /\ \E l \in Lists, R \in SUBSET Wanted :
          /\ \A n \in R : \E i \in DOMAIN l : Fold[l[i]] = Fold[n]
          /\ list' = l /\ routes' = R
          /\ at' = IF l = <<>> THEN "show" ELSE "read"
    /\ UNCHANGED <<table, next, work, mutated, noFree, clean, store>>

(* An empty block is skipped, and with it the reconciliation.              *)
ReadBlock ==
    /\ at = "read"
    /\ \/ work' = table /\ at' = "bind" /\ UNCHANGED clean
       \/ at' = "show" /\ clean' = FALSE /\ UNCHANGED work
    /\ UNCHANGED <<table, list, next, routes, mutated, noFree, store>>

(* A mutant of Bind: a claimed slot does not make the table worth writing. *)
Bind_Unmutated ==
    /\ at = "bind" /\ next <= Len(list)
    /\ next' = next + 1
    /\ LET n == list[next] IN
       \/ /\ CategoryIndex(work, n) # None
          /\ UNCHANGED <<work, mutated, noFree>>
       \/ /\ CategoryIndex(work, n) = None /\ FindEmptySlot(work) # None
          /\ work' = SetCategory(work, FindEmptySlot(work), n)
          /\ UNCHANGED <<mutated, noFree>>
       \/ /\ CategoryIndex(work, n) = None /\ FindEmptySlot(work) = None
          /\ noFree' = noFree \cup {n}
          /\ UNCHANGED <<work, mutated>>
    /\ UNCHANGED <<table, at, list, routes, clean, store>>

(* One name of reconcileCategories: it is found, or it claims a slot, or   *)
(* there is none.                                                          *)
Bind ==
    /\ at = "bind" /\ next <= Len(list)
    /\ next' = next + 1
    /\ LET n == list[next] IN
       \/ /\ CategoryIndex(work, n) # None
          /\ UNCHANGED <<work, mutated, noFree>>
       \/ /\ CategoryIndex(work, n) = None /\ FindEmptySlot(work) # None
          /\ work' = SetCategory(work, FindEmptySlot(work), n)
          /\ mutated' = TRUE
          /\ UNCHANGED noFree
       \/ /\ CategoryIndex(work, n) = None /\ FindEmptySlot(work) = None
          /\ noFree' = noFree \cup {n}
          /\ UNCHANGED <<work, mutated>>
    /\ UNCHANGED <<table, at, list, routes, clean, store>>

Bound ==
    /\ at = "bind" /\ next > Len(list)
    /\ at' = IF mutated THEN "write" ELSE "show"
    /\ UNCHANGED <<table, list, next, routes, work, mutated, noFree, clean, store>>

(* The write works, fails, or works and its answer is lost; a failure is   *)
(* logged and the session goes on.                                         *)
WriteBlock ==
    /\ at = "write" /\ at' = "show"
    /\ \/ table' = work /\ UNCHANGED clean
       \/ table' \in {table, work} /\ clean' = FALSE
    /\ UNCHANGED <<list, next, routes, work, mutated, noFree, store>>

(* populateFromAppInfo sets the names it reads; it clears none.            *)
Populated ==
    [i \in 1..LastSlot |-> IF Empty(table, i) THEN store[i] ELSE Shown[table[i].name]]

(* A mutant of RouteStatus: any name in the store will do.                 *)
RouteStatus_Any(s, n) ==
    IF \A i \in DOMAIN s : s[i] = NoText THEN "waiting" ELSE "active"

(* translateRouteSpec, for an enabled route by name.                       *)
RouteStatus(s, n) ==
    IF \A i \in DOMAIN s : s[i] = NoText THEN "waiting"
    ELSE IF n # Unfiled /\ \E i \in DOMAIN s : s[i] = n THEN "active" ELSE "noFree"

(* The plugin reads the names; that may fail too.  Then the routes are     *)
(* translated, with RouteStatus(store', n) for each, and what the session  *)
(* worked with goes out of use.                                            *)
ShowNames ==
    /\ at = "show" /\ at' = "away"
    /\ store' \in {Populated, store}
    /\ list' = <<>> /\ next' = 1 /\ routes' = {} /\ work' = NoTable
    /\ mutated' = FALSE /\ noFree' = {} /\ clean' = TRUE
    /\ UNCHANGED table

(* Between two sessions the user names and deletes categories on the       *)
(* device, which keeps names and ids apart (environment).                  *)
DeviceNames(i, n, id) ==
    /\ at = "away"
    /\ \A j \in Named(table) \ {i} : Fold[table[j].name] # Fold[n]
    /\ \A j \in Slots \ {i} : table[j].id # id
    /\ table' = [table EXCEPT ![i] = [name |-> n, id |-> id]]
    /\ UNCHANGED <<at, list, next, routes, work, mutated, noFree, clean, store>>

DeviceDeletes(i) ==
    /\ at = "away" /\ ~Empty(table, i)
    /\ \E id \in {0, table[i].id} :
          table' = [table EXCEPT ![i] = [name |-> NoText, id |-> id]]
    /\ UNCHANGED <<at, list, next, routes, work, mutated, noFree, clean, store>>

DeviceEdit ==
    \E i \in 1..LastSlot :
        DeviceDeletes(i) \/ \E n \in UserNames, id \in 1..MaxId : DeviceNames(i, n, id)

Next ==
    \/ Connect \/ ReadBlock \/ Bind \/ Bound \/ WriteBlock \/ ShowNames
    \/ DeviceEdit

Spec == Init /\ [][Next]_vars

-----------------------------------------------------------------------------
Table == [Slots -> [name : Texts \cup {NoText}, id : 0..MaxId]]

(* Every variable keeps to its type; an id fits its byte.                  *)
TypeOK ==
    /\ table \in Table /\ work \in Table
    /\ at \in {"away", "read", "bind", "write", "show"}
    /\ list \in Lists /\ next \in 1..(Len(list) + 1)
    /\ routes \subseteq Wanted /\ noFree \subseteq Wanted
    /\ mutated \in BOOLEAN /\ clean \in BOOLEAN
    /\ store \in [1..LastSlot -> Texts \cup {NoText}]

(* A session never touches a category that is on the device: it only fills *)
(* free slots, and never slot 0.                                           *)
OthersKept ==
    [][WriteBlock => \A i \in Slots : i = 0 \/ ~Empty(table, i) => table'[i] = table[i]]_vars

(* A name on the device, as far as the device can hold it.                 *)
OnDevice(t, n) == \E i \in Named(t) : Fold[t[i].name] \in {Fold[n], Fold[Kept[n]]}

(* A session without failures leaves every wanted name on the device or    *)
(* reported as having no slot.                                             *)
Accounted ==
    at = "show" /\ clean => \A i \in DOMAIN list :
        list[i] \in noFree \/ OnDevice(table, list[i])

(* A name is only reported as having no slot when none was free.           *)
RefusedOnlyIfFull ==
    at \in {"bind", "write"} /\ noFree # {} => \A i \in 1..LastSlot : ~Empty(work, i)

(* What is left of a wanted name that the device cannot hold.              *)
Mangled(n) == \E m \in Wanted : Fold[Kept[m]] = Fold[n] /\ Fold[Kept[m]] # Fold[m]

Distinct(t) ==
    \A i, j \in Named(t) :
        Fold[t[i].name] = Fold[t[j].name] => i = j \/ Mangled(t[i].name)

(* However often sessions are repeated and whatever fails in them, no two  *)
(* slots carry the same name but for case, unless it is a mangled one.     *)
NoDuplicates == Distinct(table)

(* A claimed slot gets an id of its own, as long as ids have not run out.  *)
FreshIds ==
    [][Bind => \A i \in Slots : work'[i] # work[i] =>
          \/ \E j \in Slots : work[j].id = MaxId
          \/ work'[i].id # 0 /\ \A j \in Slots \ {i} : work'[j].id # work'[i].id]_vars

(* No spelling of the name is one that the device cannot hold where it     *)
(* holds another (the Kelvin sign is a k but for case), and the plugin     *)
(* reads it only where the device has it (not, say, a control character    *)
(* for a byte of Windows-1252).                                            *)
Legible(n) ==
    /\ \A m \in Wanted : Fold[m] = Fold[n] => Fold[Kept[m]] = Fold[Kept[n]]
    /\ \A m \in Texts : Shown[m] = n => Fold[m] \in {Fold[n], Fold[Kept[n]]}

(* The device holds the name, and no other differs from it in case only.   *)
Plain(n) == Kept[n] = n /\ Shown[n] = n /\ \A m \in Texts : Fold[m] = Fold[n] => m = n

(* A session without failures derives route statuses that tell the truth   *)
(* about the device, though the store may hold names that the device has   *)
(* lost: an active route has its category there, and one whose name no     *)
(* other differs from in case is active exactly if it was not refused.     *)
RouteStatusRight ==
    [][ShowNames /\ clean /\ store' = Populated => \A n \in routes \ {Unfiled} : Legible(n) =>
          /\ RouteStatus(store', n) = "active" => OnDevice(table, n)
          /\ Plain(n) => (RouteStatus(store', n) = "active" <=> n \notin noFree)]_vars

-----------------------------------------------------------------------------
(* What the sources say and the model refutes.                             *)

(* categoryreconciler.h: names are matched case-insensitively against the  *)
(* device table, and free slots are claimed for missing names.  So a name  *)
(* that a session put there is not put there again by the next.            *)
ClaimedOnce ==
    \A i, j \in Named(table) : Fold[table[i].name] = Fold[table[j].name] => i = j
=============================================================================
