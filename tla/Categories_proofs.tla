-------------------------- MODULE Categories_proofs --------------------------
(***************************************************************************)
(* The category table, for any names, any number of slots and ids and any  *)
(* number of sessions: types, what a session leaves alone, when a name is  *)
(* refused, duplicates and ids.                                            *)
(***************************************************************************)
EXTENDS Categories, WellFoundedInduction, TLAPS

(* Every set of naturals has a least member; so `Lowest' names one.        *)
LEMMA LessIsWellFounded ==
    IsWellFoundedOn({p \in Nat \X Nat : p[1] < p[2]}, Nat)
BY NatLessThanWellFounded DEF OpToRel

LEMMA LeastExists ==
    ASSUME NEW T \in SUBSET Nat, T # {}
    PROVE  \E m \in T : \A k \in T : m <= k
<1> DEFINE R == {p \in Nat \X Nat : p[1] < p[2]}
<1>1. IsWellFoundedOn(R, Nat)
  BY LessIsWellFounded
<1> HIDE DEF R
<1>2. PICK m \in T : \A k \in T : <<k, m>> \notin R
  BY <1>1, WFMin
<1>3. \A k \in T : ~(k < m)
  BY <1>2 DEF R
<1> QED BY <1>3

LEMMA LowestIsIn ==
    ASSUME NEW S \in SUBSET Nat, S # {}
    PROVE  Lowest(S) \in S
BY LeastExists DEF Lowest

(* The slot that a name gets is a free one, and there is one unless the    *)
(* table is full.                                                          *)
LEMMA EmptySlotIsEmpty ==
    ASSUME NEW t
    PROVE  LET e == FindEmptySlot(t) IN
           /\ e # None => e \in 1..LastSlot /\ Empty(t, e)
           /\ e = None => \A i \in 1..LastSlot : ~Empty(t, i)
<1> DEFINE free == {i \in 1..LastSlot : Empty(t, i)}
<1>1. CASE free = {}
  BY <1>1 DEF FindEmptySlot
<1>2. CASE free # {}
  <2>1. Lowest(free) \in free
    BY <1>2, LowestIsIn, ConstantsAssumption
  <2> QED BY <1>2, <2>1, ConstantsAssumption DEF FindEmptySlot, None
<1> QED BY <1>1, <1>2

(* A name that has no index is on no slot.                                 *)
LEMMA NotIndexed ==
    ASSUME NEW t, NEW n, CategoryIndex(t, n) = None
    PROVE  \A i \in Named(t) : Fold[t[i].name] # Fold[n]
<1> DEFINE same == {i \in Named(t) : Fold[t[i].name] = Fold[n]}
<1>1. same \subseteq 0..LastSlot
  BY DEF Named, Slots
<1>2. CASE same # {}
  <2>1. Lowest(same) \in 0..LastSlot
    BY <1>1, <1>2, LowestIsIn, ConstantsAssumption
  <2> QED BY <1>2, <2>1, ConstantsAssumption DEF CategoryIndex, None
<1> QED BY <1>2

(* The highest id of a table is one of its ids and bounds them all.        *)
LEMMA HighestIdIs ==
    ASSUME NEW t \in Table
    PROVE  /\ HighestId(t) \in 0..MaxId
           /\ \E i \in Slots : t[i].id = HighestId(t)
           /\ \A i \in Slots : t[i].id <= HighestId(t)
<1> DEFINE T == {MaxId - t[i].id : i \in Slots}
<1>1. \A i \in Slots : t[i].id \in 0..MaxId
  BY DEF Table
<1>2. T \in SUBSET Nat /\ T # {}
  BY <1>1, ConstantsAssumption DEF Slots
<1>3. PICK m \in T : \A k \in T : m <= k
  BY <1>2, LeastExists
<1>4. PICK h \in Slots : m = MaxId - t[h].id
  BY <1>3
<1>5. \A i \in Slots : t[i].id <= t[h].id
  <2> TAKE i \in Slots
  <2>1. m <= MaxId - t[i].id
    BY <1>3
  <2> QED BY <1>1, <1>4, <2>1, ConstantsAssumption
<1>6. \E k \in {t[i].id : i \in Slots} : \A i \in Slots : t[i].id <= k
  BY <1>5
<1>7. /\ HighestId(t) \in {t[i].id : i \in Slots}
      /\ \A i \in Slots : t[i].id <= HighestId(t)
  BY <1>6 DEF HighestId
<1> QED BY <1>1, <1>7

(* A new id is new, or the ids have run out.                               *)
LEMMA NewIdIs ==
    ASSUME NEW t \in Table
    PROVE  /\ NewId(t) \in 0..MaxId
           /\ \/ NewId(t) = 0 /\ \E j \in Slots : t[j].id = MaxId
              \/ NewId(t) # 0 /\ \A j \in Slots : t[j].id # NewId(t)
<1> DEFINE h == HighestId(t)
<1>1. h \in 0..MaxId /\ \A i \in Slots : t[i].id <= h
  BY HighestIdIs
<1>2. \A i \in Slots : t[i].id \in 0..MaxId
  BY DEF Table
<1>3. CASE h < MaxId
  <2>1. NewId(t) = h + 1
    BY <1>1, <1>3, ConstantsAssumption DEF NewId
  <2> QED BY <1>1, <1>2, <1>3, <2>1, ConstantsAssumption
<1>4. CASE h = MaxId
  <2>1. NewId(t) = 0
    BY <1>4, ConstantsAssumption DEF NewId
  <2> QED BY <1>4, <2>1, HighestIdIs, ConstantsAssumption
<1> QED BY <1>1, <1>3, <1>4, ConstantsAssumption

-----------------------------------------------------------------------------
(* setCategory on a free slot changes that slot only: the name is what the *)
(* device keeps of it, the id is the slot's own or a new one.              *)
LEMMA ClaimGives ==
    ASSUME NEW t \in Table, NEW e \in 1..LastSlot, Empty(t, e), NEW n \in Texts
    PROVE  LET s == SetCategory(t, e, n) IN
           /\ s \in Table
           /\ s[e].name = Kept[n]
           /\ s[e].id = IF t[e].id = 0 THEN NewId(t) ELSE t[e].id
           /\ \A i \in Slots \ {e} : s[i] = t[i]
           /\ e \in Slots /\ e \notin Named(t) /\ Named(s) = Named(t) \cup {e}
<1> DEFINE s == SetCategory(t, e, n)
           c == [name |-> Kept[n], id |-> IF t[e].id = 0 THEN NewId(t) ELSE t[e].id]
<1>1. e \in Slots
  BY ConstantsAssumption DEF Slots
<1>2. s = [t EXCEPT ![e] = c]
  BY DEF SetCategory
<1>3. Kept[n] \in Texts /\ Kept[n] # NoText
  BY ConstantsAssumption
<1>4. c \in [name : Texts \cup {NoText}, id : 0..MaxId]
  BY <1>1, <1>3, NewIdIs DEF Table
<1>5. s \in Table /\ s[e] = c /\ \A i \in Slots \ {e} : s[i] = t[i]
  BY <1>1, <1>2, <1>4 DEF Table
<1> HIDE DEF s
<1>6. e \notin Named(t)
  BY DEF Named
<1>7. \A i \in Slots : Empty(s, i) <=> i # e /\ Empty(t, i)
  BY <1>1, <1>3, <1>5 DEF Empty
<1>8. Named(s) = Named(t) \cup {e}
  BY <1>1, <1>7 DEF Named
<1> QED BY <1>1, <1>5, <1>6, <1>8 DEF s

(* A name that was on no slot makes no duplicate, or a mangled one.        *)
LEMMA ClaimKeepsDistinct ==
    ASSUME NEW t \in Table, NEW e \in 1..LastSlot, Empty(t, e), NEW n \in Wanted,
           Distinct(t), \A i \in Named(t) : Fold[t[i].name] # Fold[n]
    PROVE  Distinct(SetCategory(t, e, n))
<1> DEFINE s == SetCategory(t, e, n)
<1>1. n \in Texts
  BY ConstantsAssumption
<1>2. /\ s[e].name = Kept[n] /\ \A i \in Slots \ {e} : s[i] = t[i]
      /\ e \notin Named(t) /\ Named(s) = Named(t) \cup {e}
  BY <1>1, ClaimGives
<1> HIDE DEF s
<1>3. SUFFICES ASSUME NEW i \in Named(s), NEW j \in Named(s),
                      Fold[s[i].name] = Fold[s[j].name], i # j
               PROVE  Mangled(s[i].name)
  BY DEF Distinct, s
<1>4. \A k \in Named(t) : s[k] = t[k]
  BY <1>2 DEF Named
<1>5. CASE i \in Named(t) /\ j \in Named(t)
  BY <1>3, <1>4, <1>5 DEF Distinct
<1>6. ASSUME NEW k \in Named(t), Fold[s[e].name] = Fold[s[k].name]
      PROVE  \A m : Fold[m] = Fold[s[e].name] => Mangled(m)
  BY <1>2, <1>4, <1>6 DEF Mangled
<1>7. CASE i = e
  BY <1>2, <1>3, <1>6, <1>7
<1>8. CASE j = e
  BY <1>2, <1>3, <1>6, <1>8
<1> QED BY <1>2, <1>5, <1>7, <1>8

(* Ids that are in use are unique.                                         *)
IdsApart(t) == \A i, j \in Slots : t[i].id = t[j].id => i = j \/ t[i].id = 0

LEMMA ClaimKeepsIds ==
    ASSUME NEW t \in Table, NEW e \in 1..LastSlot, Empty(t, e), NEW n \in Texts,
           IdsApart(t)
    PROVE  LET s == SetCategory(t, e, n) IN
           /\ IdsApart(s)
           /\ \/ \E j \in Slots : t[j].id = MaxId
              \/ s[e].id # 0 /\ \A j \in Slots \ {e} : s[j].id # s[e].id
<1> DEFINE s == SetCategory(t, e, n)
<1>1. /\ s[e].id = IF t[e].id = 0 THEN NewId(t) ELSE t[e].id
      /\ \A i \in Slots \ {e} : s[i] = t[i]
      /\ e \in Slots
  BY ClaimGives
<1> HIDE DEF s
<1>2. CASE t[e].id # 0
  <2>1. \A j \in Slots : s[j].id = t[j].id
    BY <1>1, <1>2
  <2> QED BY <1>1, <1>2, <2>1 DEF IdsApart, s
<1>3. CASE t[e].id = 0
  <2>1. s[e].id = NewId(t)
    BY <1>1, <1>3
  <2>2. \/ s[e].id = 0 /\ \E j \in Slots : t[j].id = MaxId
        \/ s[e].id # 0 /\ \A j \in Slots \ {e} : s[j].id # s[e].id
    BY <1>1, <2>1, NewIdIs
  <2>3. IdsApart(s)
    <3>1. SUFFICES ASSUME NEW i \in Slots, NEW j \in Slots,
                          s[i].id = s[j].id, i # j
                   PROVE  s[i].id = 0
      BY DEF IdsApart
    <3>2. CASE i # e /\ j # e
      BY <1>1, <3>1, <3>2 DEF IdsApart
    <3>3. CASE i = e \/ j = e
      BY <2>2, <3>1, <3>3
    <3> QED BY <3>2, <3>3
  <2> QED BY <2>2, <2>3 DEF s
<1> QED BY <1>2, <1>3

-----------------------------------------------------------------------------
(* The names of a session.                                                 *)
LEMMA ListIs ==
    ASSUME NEW l \in Lists
    PROVE  l \in Seq(Wanted) /\ DOMAIN l = 1..Len(l)
BY ConstantsAssumption DEF Lists

LEMMA EmptyList == <<>> \in Lists
<1>1. <<>> \in [1..0 -> Wanted] /\ DOMAIN <<>> = {}
  OBVIOUS
<1>2. [1..0 -> Wanted] \in {[1..n -> Wanted] : n \in 0..MaxWanted}
  BY ConstantsAssumption
<1>3. <<>> \in UNION {[1..n -> Wanted] : n \in 0..MaxWanted}
  BY <1>1, <1>2
<1> QED BY <1>1, <1>3 DEF Lists

(* One name: it is found, it claims a free slot, or the table is full.     *)
LEMMA BindGives ==
    ASSUME TypeOK, Bind
    PROVE  LET n == list[next] IN
           /\ n \in Wanted /\ n \in Texts /\ next <= Len(list) /\ next' = next + 1
           /\ at = "bind"
           /\ UNCHANGED <<table, at, list, routes, clean, store>>
           /\ \/ /\ \E i \in Named(work) : Fold[work[i].name] = Fold[n]
                 /\ UNCHANGED <<work, mutated, noFree>>
              \/ /\ \A i \in Named(work) : Fold[work[i].name] # Fold[n]
                 /\ \E e \in 1..LastSlot :
                       Empty(work, e) /\ work' = SetCategory(work, e, n)
                 /\ mutated' = TRUE /\ UNCHANGED noFree
              \/ /\ \A i \in 1..LastSlot : ~Empty(work, i)
                 /\ \A i \in Named(work) : Fold[work[i].name] # Fold[n]
                 /\ noFree' = noFree \cup {n}
                 /\ UNCHANGED <<work, mutated>>
<1> DEFINE n == list[next]
<1>1. n \in Wanted /\ n \in Texts /\ next <= Len(list)
  BY ListIs, ConstantsAssumption DEF TypeOK, Bind
<1>2. CategoryIndex(work, n) # None => \E i \in Named(work) : Fold[work[i].name] = Fold[n]
  BY DEF CategoryIndex
<1>3. CategoryIndex(work, n) = None => \A i \in Named(work) : Fold[work[i].name] # Fold[n]
  BY NotIndexed
<1>4. /\ FindEmptySlot(work) # None =>
             FindEmptySlot(work) \in 1..LastSlot /\ Empty(work, FindEmptySlot(work))
      /\ FindEmptySlot(work) = None => \A i \in 1..LastSlot : ~Empty(work, i)
  BY EmptySlotIsEmpty
<1>5. CASE CategoryIndex(work, n) # None
  BY <1>1, <1>2, <1>5 DEF Bind
<1>6. CASE CategoryIndex(work, n) = None /\ FindEmptySlot(work) # None
  BY <1>1, <1>3, <1>4, <1>6 DEF Bind
<1>7. CASE CategoryIndex(work, n) = None /\ FindEmptySlot(work) = None
  BY <1>1, <1>3, <1>4, <1>7 DEF Bind
<1> QED BY <1>5, <1>6, <1>7

(* Everything keeps to its type.                                           *)
LEMMA NoTableIs ==
    /\ NoTable \in Table /\ Named(NoTable) = {}
    /\ \A i \in Slots : NoTable[i].id = 0
BY ConstantsAssumption DEF NoTable, Table, Named, Empty

(* A session starts with the first name and nothing done.                  *)
Fresh == at \in {"away", "read"} => next = 1 /\ ~mutated /\ noFree = {}

LEMMA TypeStep ==
    ASSUME TypeOK, Fresh, [Next]_vars
    PROVE  TypeOK'
<1> USE ConstantsAssumption DEF TypeOK
<1>1. <<>> \in Lists
  BY EmptyList
<1>2. CASE Connect
  <2>1. next' = 1 /\ list' \in Lists /\ routes' \subseteq Wanted
    BY <1>2 DEF Connect, Fresh
  <2>2. next' \in 1..(Len(list') + 1)
    BY <2>1, ListIs
  <2> QED BY <1>2, <2>1, <2>2 DEF Connect
<1>3. CASE ReadBlock
  BY <1>3 DEF ReadBlock
<1>4. CASE Bind
  <2>1. /\ list[next] \in Wanted /\ list[next] \in Texts
        /\ next <= Len(list) /\ next' = next + 1
        /\ UNCHANGED <<table, at, list, routes, clean, store>>
    BY <1>4, BindGives
  <2>2. next' \in 1..(Len(list) + 1)
    BY <2>1, ListIs
  <2>3. ASSUME NEW e \in 1..LastSlot, Empty(work, e), NEW n \in Texts
        PROVE  SetCategory(work, e, n) \in Table
    BY <2>3, ClaimGives
  <2>4. \/ UNCHANGED <<work, mutated, noFree>>
        \/ /\ \E e \in 1..LastSlot :
                 Empty(work, e) /\ work' = SetCategory(work, e, list[next])
           /\ mutated' = TRUE /\ UNCHANGED noFree
        \/ noFree' = noFree \cup {list[next]} /\ UNCHANGED <<work, mutated>>
    BY <1>4, BindGives
  <2>5. work' \in Table
    BY <2>1, <2>3, <2>4
  <2>6. mutated' \in BOOLEAN
    BY <2>4
  <2>7. noFree' \subseteq Wanted
    BY <2>1, <2>4
  <2> QED BY <2>1, <2>2, <2>5, <2>6, <2>7
<1>5. CASE Bound
  BY <1>5 DEF Bound
<1>6. CASE WriteBlock
  BY <1>6 DEF WriteBlock
<1>7. CASE ShowNames
  <2>1. Populated \in [1..LastSlot -> Texts \cup {NoText}]
    BY DEF Populated, Table, Slots, Empty
  <2>2. 1 \in 1..(Len(<<>>) + 1)
    OBVIOUS
  <2> QED BY <1>1, <1>7, <2>1, <2>2, NoTableIs DEF ShowNames
<1>8. CASE DeviceEdit
  <2>1. \A i \in 1..LastSlot : i \in Slots
    BY DEF Slots
  <2>2. ASSUME NEW i \in 1..LastSlot, DeviceDeletes(i)
        PROVE  table' \in Table
    BY <2>1, <2>2 DEF DeviceDeletes, Table
  <2>3. ASSUME NEW i \in 1..LastSlot, NEW n \in UserNames, NEW id \in 1..MaxId,
               DeviceNames(i, n, id)
        PROVE  table' \in Table
    BY <2>1, <2>3 DEF DeviceNames, Table
  <2>4. table' \in Table /\ UNCHANGED <<at, list, next, routes, work, mutated, noFree, clean, store>>
    BY <1>8, <2>2, <2>3 DEF DeviceEdit, DeviceDeletes, DeviceNames
  <2> QED BY <2>4
<1>9. CASE UNCHANGED vars
  BY <1>9 DEF vars
<1> QED BY <1>2, <1>3, <1>4, <1>5, <1>6, <1>7, <1>8, <1>9 DEF Next

LEMMA FreshStep ==
    ASSUME TypeOK, Fresh, [Next]_vars
    PROVE  Fresh'
<1>1. CASE Connect \/ ReadBlock \/ Bind \/ Bound \/ WriteBlock \/ ShowNames
  BY <1>1 DEF Fresh, Connect, ReadBlock, Bind, Bound, WriteBlock, ShowNames
<1>2. CASE DeviceEdit
  BY <1>2 DEF Fresh, DeviceEdit, DeviceNames, DeviceDeletes
<1>3. CASE UNCHANGED vars
  BY <1>3 DEF Fresh, vars
<1> QED BY <1>1, <1>2, <1>3 DEF Next

LEMMA Typed == Spec => [](TypeOK /\ Fresh)
<1>1. Init => TypeOK /\ Fresh
  <2> SUFFICES ASSUME Init PROVE TypeOK /\ Fresh
    OBVIOUS
  <2>1. <<>> \in Lists /\ 1 \in 1..(Len(<<>>) + 1)
    BY EmptyList
  <2>2. table \in Table
    BY ConstantsAssumption DEF Init, Table
  <2> QED BY <2>1, <2>2, NoTableIs, ConstantsAssumption DEF Init, TypeOK, Fresh
<1>2. TypeOK /\ Fresh /\ [Next]_vars => (TypeOK /\ Fresh)'
  BY TypeStep, FreshStep
<1> QED BY <1>1, <1>2, PTL DEF Spec

(* The sessions keep to their types: the table has its slots and names,    *)
(* ids fit their byte, and `next' stays within the list of names, which    *)
(* needs that every session starts with the first one.                     *)
THEOREM TypeCorrect == Spec => []TypeOK
BY Typed, PTL

-----------------------------------------------------------------------------
(* What can become of the two tables in a step.                            *)
LEMMA TablesStep ==
    ASSUME TypeOK, [Next]_vars
    PROVE  /\ \/ table' \in {table, work}
              \/ \E i \in 1..LastSlot, id \in 0..MaxId :
                     /\ table' = [table EXCEPT ![i] = [name |-> NoText, id |-> id]]
                     /\ id \in {0, table[i].id}
              \/ \E i \in 1..LastSlot, n \in UserNames, id \in 1..MaxId :
                     DeviceNames(i, n, id)
           /\ \/ work' \in {work, table, NoTable}
              \/ \E e \in 1..LastSlot, n \in Wanted :
                     /\ Empty(work, e) /\ work' = SetCategory(work, e, n)
                     /\ \A i \in Named(work) : Fold[work[i].name] # Fold[n]
<1>1. CASE Connect \/ ReadBlock \/ Bound \/ WriteBlock \/ ShowNames \/ UNCHANGED vars
  BY <1>1 DEF Connect, ReadBlock, Bound, WriteBlock, ShowNames, vars
<1>2. CASE Bind
  BY <1>2, BindGives
<1>3. ASSUME NEW i \in 1..LastSlot, DeviceDeletes(i)
      PROVE  /\ work' = work
             /\ \E id \in 0..MaxId :
                   /\ table' = [table EXCEPT ![i] = [name |-> NoText, id |-> id]]
                   /\ id \in {0, table[i].id}
  <2>1. 0 \in 0..MaxId /\ table[i].id \in 0..MaxId
    BY ConstantsAssumption DEF TypeOK, Table, Slots
  <2> QED BY <1>3, <2>1 DEF DeviceDeletes
<1>4. ASSUME NEW i \in 1..LastSlot, NEW n \in UserNames, NEW id \in 1..MaxId,
             DeviceNames(i, n, id)
      PROVE  work' = work
  BY <1>4 DEF DeviceNames
<1>5. CASE DeviceEdit
  BY <1>3, <1>4, <1>5 DEF DeviceEdit
<1> QED BY <1>1, <1>2, <1>5 DEF Next

-----------------------------------------------------------------------------
(* Duplicates.                                                             *)
Names == Distinct(table) /\ Distinct(work)

LEMMA NamesStep ==
    ASSUME TypeOK, Names, [Next]_vars
    PROVE  Names'
<1>1. table \in Table /\ work \in Table /\ \A i \in 1..LastSlot : i \in Slots
  BY DEF TypeOK, Slots
<1>2. ASSUME NEW i \in 1..LastSlot, NEW id \in 0..MaxId
      PROVE  Distinct([table EXCEPT ![i] = [name |-> NoText, id |-> id]])
  BY <1>1 DEF Names, Distinct, Named, Empty, Table
<1>3. ASSUME NEW i \in 1..LastSlot, NEW n \in UserNames, NEW id \in 1..MaxId,
             DeviceNames(i, n, id)
      PROVE  Distinct(table')
  <2>1. /\ table'[i].name = n /\ \A j \in Slots \ {i} : table'[j] = table[j]
        /\ \A j \in Named(table) \ {i} : Fold[table[j].name] # Fold[n]
    BY <1>1, <1>3 DEF DeviceNames, Table
  <2>2. \A j \in Named(table') \ {i} : j \in Named(table) /\ table'[j] = table[j]
    BY <2>1 DEF Named, Empty
  <2> QED BY <2>1, <2>2 DEF Names, Distinct
<1>4. Distinct(NoTable)
  BY NoTableIs DEF Distinct
<1>5. ASSUME NEW e \in 1..LastSlot, NEW n \in Wanted, Empty(work, e),
             \A i \in Named(work) : Fold[work[i].name] # Fold[n]
      PROVE  Distinct(SetCategory(work, e, n))
  BY <1>1, <1>5, ClaimKeepsDistinct DEF Names
<1>6. Distinct(table')
  BY <1>2, <1>3, TablesStep DEF Names
<1>7. Distinct(work')
  BY <1>4, <1>5, TablesStep DEF Names
<1> QED BY <1>6, <1>7 DEF Names, Distinct, Named, Empty

(* For any names and any way the device mangles them, any number of slots, *)
(* sessions and failures: no two slots carry one name but for case, except *)
(* what is left of a wanted name that the device cannot hold.              *)
THEOREM NeverDuplicated == Spec => []NoDuplicates
<1>1. Init => Names
  <2> SUFFICES ASSUME Init PROVE Names
    OBVIOUS
  <2>1. Named(table) \subseteq {0}
    BY ConstantsAssumption DEF Init, Named, Empty, Slots
  <2> QED BY <2>1, NoTableIs DEF Init, Names, Distinct
<1>2. TypeOK /\ Names /\ [Next]_vars => Names'
  BY NamesStep
<1>3. Names => NoDuplicates
  BY DEF Names, NoDuplicates
<1> QED BY <1>1, <1>2, <1>3, TypeCorrect, PTL DEF Spec

-----------------------------------------------------------------------------
(* Ids.                                                                    *)
Ids == IdsApart(table) /\ IdsApart(work)

LEMMA IdsStep ==
    ASSUME TypeOK, Ids, [Next]_vars
    PROVE  Ids'
<1>1. table \in Table /\ work \in Table /\ \A i \in 1..LastSlot : i \in Slots
  BY DEF TypeOK, Slots
<1>2. ASSUME NEW i \in 1..LastSlot, NEW id \in {0, table[i].id}
      PROVE  IdsApart([table EXCEPT ![i] = [name |-> NoText, id |-> id]])
  BY <1>1, <1>2 DEF Ids, IdsApart, Table
<1>3. ASSUME NEW i \in 1..LastSlot, NEW n \in UserNames, NEW id \in 1..MaxId,
             DeviceNames(i, n, id)
      PROVE  IdsApart(table')
  BY <1>1, <1>3 DEF DeviceNames, Ids, IdsApart, Table
<1>4. IdsApart(NoTable)
  BY NoTableIs DEF IdsApart
<1>5. ASSUME NEW e \in 1..LastSlot, NEW n \in Wanted, Empty(work, e)
      PROVE  IdsApart(SetCategory(work, e, n))
  BY <1>1, <1>5, ClaimKeepsIds, ConstantsAssumption DEF Ids
<1>6. IdsApart(table')
  BY <1>2, <1>3, TablesStep DEF Ids
<1>7. IdsApart(work')
  BY <1>4, <1>5, TablesStep DEF Ids
<1> QED BY <1>6, <1>7 DEF Ids, IdsApart

(* A slot that a session claims has an id that no other slot has, as long  *)
(* as no slot has the largest id: the byte wraps only then.                *)
THEOREM IdsAreFresh == Spec => FreshIds
<1>1. Init => Ids
  BY ConstantsAssumption, NoTableIs DEF Init, Ids, IdsApart
<1>2. TypeOK /\ Ids /\ [Next]_vars => Ids'
  BY IdsStep
<1> DEFINE Claim == \A i \in Slots : work'[i] # work[i] =>
                       \/ \E j \in Slots : work[j].id = MaxId
                       \/ work'[i].id # 0 /\ \A j \in Slots \ {i} : work'[j].id # work'[i].id
<1>3. TypeOK /\ Ids /\ [Next]_vars => [Bind => Claim]_vars
  <2> SUFFICES ASSUME TypeOK, Ids, Bind PROVE Claim
    OBVIOUS
  <2>1. CASE work' = work
    BY <2>1
  <2>2. ASSUME NEW e \in 1..LastSlot, NEW n \in Texts, Empty(work, e),
               work' = SetCategory(work, e, n)
        PROVE  Claim
    <3>1. \A i \in Slots \ {e} : work'[i] = work[i]
      BY <2>2, ClaimGives DEF TypeOK
    <3>2. \/ \E j \in Slots : work[j].id = MaxId
          \/ work'[e].id # 0 /\ \A j \in Slots \ {e} : work'[j].id # work'[e].id
      BY <2>2, ClaimKeepsIds DEF TypeOK, Ids
    <3> QED BY <3>1, <3>2
  <2> QED BY <2>1, <2>2, BindGives
<1>4. Spec => [](TypeOK /\ Ids)
  BY <1>1, <1>2, TypeCorrect, PTL DEF Spec
<1> QED BY <1>3, <1>4, PTL DEF Spec, FreshIds

-----------------------------------------------------------------------------
(* What a session leaves alone, and what it refuses.                       *)
Untouched ==
    at \in {"bind", "write"} =>
        \A i \in Slots : i = 0 \/ ~Empty(table, i) => work[i] = table[i]

LEMMA UntouchedStep ==
    ASSUME TypeOK, Untouched, [Next]_vars
    PROVE  Untouched'
<1>1. CASE Connect \/ ReadBlock \/ Bound \/ WriteBlock \/ ShowNames \/ DeviceEdit
           \/ UNCHANGED vars
  BY <1>1 DEF Untouched, Empty, Connect, ReadBlock, Bound, WriteBlock, ShowNames, DeviceEdit,
              DeviceNames, DeviceDeletes, vars
<1>2. CASE Bind
  <2>1. at = "bind" /\ table' = table
    BY <1>2, BindGives
  <2>2. CASE work' = work
    BY <2>1, <2>2 DEF Untouched, Empty
  <2>3. ASSUME NEW e \in 1..LastSlot, NEW n \in Texts, Empty(work, e),
               work' = SetCategory(work, e, n)
        PROVE  Untouched'
    <3>1. \A i \in Slots \ {e} : work'[i] = work[i]
      BY <2>3, ClaimGives DEF TypeOK
    <3>2. e # 0 /\ Empty(table, e)
      BY <2>1, <2>3, ConstantsAssumption DEF Untouched, Empty, Slots
    <3> QED BY <2>1, <3>1, <3>2 DEF Untouched, Empty
  <2> QED BY <1>2, <2>2, <2>3, BindGives
<1> QED BY <1>1, <1>2 DEF Next

(* A session never changes a category that is on the device, nor slot 0.   *)
THEOREM NeverDisturbed == Spec => OthersKept
<1>1. Init => Untouched
  BY DEF Init, Untouched
<1>2. TypeOK /\ Untouched /\ [Next]_vars => Untouched'
  BY UntouchedStep
<1>3. Untouched /\ [Next]_vars =>
          [WriteBlock => \A i \in Slots : i = 0 \/ ~Empty(table, i) => table'[i] = table[i]]_vars
  BY DEF Untouched, WriteBlock
<1>4. Spec => []Untouched
  BY <1>1, <1>2, TypeCorrect, PTL DEF Spec
<1> QED BY <1>3, <1>4, PTL DEF Spec, OthersKept

LEMMA RefusedStep ==
    ASSUME TypeOK, Fresh, RefusedOnlyIfFull, [Next]_vars
    PROVE  RefusedOnlyIfFull'
<1>1. CASE Connect \/ ReadBlock \/ Bound \/ WriteBlock \/ ShowNames \/ DeviceEdit
           \/ UNCHANGED vars
  BY <1>1 DEF RefusedOnlyIfFull, Fresh, Empty, Connect, ReadBlock, Bound, WriteBlock, ShowNames,
              DeviceEdit, DeviceNames, DeviceDeletes, vars
<1>2. CASE Bind
  <2>1. at = "bind"
    BY <1>2, BindGives
  <2>2. CASE UNCHANGED <<work, noFree, at>>
    BY <2>2 DEF RefusedOnlyIfFull, Empty
  <2>3. CASE work' = work /\ \A i \in 1..LastSlot : ~Empty(work, i)
    BY <2>3 DEF RefusedOnlyIfFull, Empty
  <2>4. ASSUME NEW e \in 1..LastSlot, Empty(work, e), noFree' = noFree
        PROVE  RefusedOnlyIfFull'
    BY <2>1, <2>4 DEF RefusedOnlyIfFull
  <2> QED BY <1>2, <2>2, <2>3, <2>4, BindGives
<1> QED BY <1>1, <1>2 DEF Next

(* A name is reported as having no slot only when the table is full.       *)
THEOREM RefusalHonest == Spec => []RefusedOnlyIfFull
<1>1. Init => RefusedOnlyIfFull
  BY DEF Init, RefusedOnlyIfFull
<1>2. TypeOK /\ Fresh /\ RefusedOnlyIfFull /\ [Next]_vars => RefusedOnlyIfFull'
  BY RefusedStep
<1> QED BY <1>1, <1>2, Typed, PTL DEF Spec

-----------------------------------------------------------------------------
(* Where the names are.  The names before `next' are in `work' or refused; *)
(* `work' differs from the device only if it is going to be written.       *)
Placed(w, f, n) == n \in f \/ OnDevice(w, n)

Account ==
    /\ at \in {"bind", "write"} => \A k \in 1..Len(list) : k < next => Placed(work, noFree, list[k])
    /\ at = "bind" /\ ~mutated => work = table
    /\ at = "write" => next > Len(list)
    /\ Accounted

(* A claimed slot carries its name as far as the device can hold it, and   *)
(* no other name is lost by the claim.                                     *)
LEMMA ClaimPlaces ==
    ASSUME NEW t \in Table, NEW e \in 1..LastSlot, Empty(t, e), NEW n \in Texts
    PROVE  /\ OnDevice(SetCategory(t, e, n), n)
           /\ \A m : OnDevice(t, m) => OnDevice(SetCategory(t, e, n), m)
<1> DEFINE s == SetCategory(t, e, n)
<1>1. /\ s[e].name = Kept[n] /\ \A i \in Slots \ {e} : s[i] = t[i]
      /\ e \notin Named(t) /\ Named(s) = Named(t) \cup {e}
  BY ClaimGives
<1> HIDE DEF s
<1>2. \A i \in Named(t) : s[i] = t[i] /\ i \in Named(s)
  BY <1>1 DEF Named
<1>3. OnDevice(s, n)
  BY <1>1 DEF OnDevice
<1>4. \A m : OnDevice(t, m) => OnDevice(s, m)
  BY <1>2 DEF OnDevice
<1> QED BY <1>3, <1>4 DEF s

LEMMA AccountStep ==
    ASSUME TypeOK, Fresh, Account, [Next]_vars
    PROVE  Account'
<1>1. DOMAIN list = 1..Len(list) /\ Len(list) \in Nat /\ next \in Nat
  BY ListIs DEF TypeOK
<1>2. CASE Connect
  <2>1. \/ at' = "read"
        \/ at' = "show" /\ list' = <<>>
    BY <1>2 DEF Connect
  <2> QED BY <1>2, <2>1 DEF Connect, Account, Accounted
<1>3. CASE ReadBlock
  <2>1. CASE at' = "bind"
    <3>1. next' = 1 /\ work' = table /\ table' = table
      BY <1>3, <2>1 DEF ReadBlock, Fresh
    <3> QED BY <2>1, <3>1 DEF Account, Accounted
  <2>2. CASE at' = "show" /\ clean' = FALSE
    BY <2>2 DEF Account, Accounted
  <2> QED BY <1>3, <2>1, <2>2 DEF ReadBlock
<1>4. CASE Bind
  <2>1. PICK n \in Texts : n = list[next]
    BY <1>4, BindGives
  <2>2. /\ at = "bind" /\ at' = "bind" /\ list' = list /\ table' = table
        /\ next' = next + 1
    BY <1>4, BindGives
  <2>3. ASSUME Placed(work', noFree', n),
               \A m : Placed(work, noFree, m) => Placed(work', noFree', m),
               mutated' = TRUE \/ UNCHANGED <<work, mutated>>
        PROVE  Account'
    <3>1. ASSUME NEW k \in 1..Len(list), k < next + 1
          PROVE  Placed(work', noFree', list[k])
      <4>1. CASE k = next
        BY <2>1, <2>3, <4>1
      <4>2. CASE k < next
        BY <2>2, <2>3, <4>2 DEF Account
      <4> QED BY <1>1, <3>1, <4>1, <4>2
    <3>2. \A k \in 1..Len(list') : k < next' => Placed(work', noFree', list'[k])
      BY <2>2, <3>1
    <3>3. ~mutated' => work' = table'
      BY <2>2, <2>3 DEF Account
    <3> QED BY <2>2, <3>2, <3>3 DEF Account, Accounted
  <2>4. CASE /\ \E i \in Named(work) : Fold[work[i].name] = Fold[n]
             /\ UNCHANGED <<work, mutated, noFree>>
    <3>1. OnDevice(work, n)
      BY <2>4 DEF OnDevice
    <3> QED BY <2>3, <2>4, <3>1 DEF Placed
  <2>5. ASSUME NEW e \in 1..LastSlot, Empty(work, e), work' = SetCategory(work, e, n),
               mutated' = TRUE, UNCHANGED noFree
        PROVE  Account'
    <3>1. OnDevice(work', n) /\ \A m : OnDevice(work, m) => OnDevice(work', m)
      BY <2>5, ClaimPlaces DEF TypeOK
    <3> QED BY <2>3, <2>5, <3>1 DEF Placed
  <2>6. CASE noFree' = noFree \cup {n} /\ UNCHANGED <<work, mutated>>
    BY <2>3, <2>6 DEF Placed
  <2> QED BY <1>4, <2>1, <2>4, <2>5, <2>6, BindGives
<1>5. CASE Bound
  <2>1. \A k \in DOMAIN list : Placed(work, noFree, list[k])
    BY <1>1, <1>5 DEF Bound, Account
  <2>2. CASE mutated
    BY <1>5, <2>1, <2>2 DEF Bound, Account, Accounted, Placed
  <2>3. CASE ~mutated
    BY <1>5, <2>1, <2>3 DEF Bound, Account, Accounted, Placed
  <2> QED BY <2>2, <2>3 DEF TypeOK
<1>6. CASE WriteBlock
  <2>1. \A k \in DOMAIN list : Placed(work, noFree, list[k])
    BY <1>1, <1>6 DEF WriteBlock, Account
  <2>2. at' = "show" /\ list' = list /\ noFree' = noFree
    BY <1>6 DEF WriteBlock
  <2>3. clean' => table' = work
    BY <1>6 DEF WriteBlock
  <2> QED BY <2>1, <2>2, <2>3 DEF Account, Accounted, Placed
<1>7. CASE ShowNames
  BY <1>7 DEF ShowNames, Account, Accounted
<1>8. CASE DeviceEdit
  BY <1>8 DEF DeviceEdit, DeviceNames, DeviceDeletes, Account, Accounted
<1>9. CASE UNCHANGED vars
  BY <1>9 DEF vars, Account, Accounted
<1> QED BY <1>2, <1>3, <1>4, <1>5, <1>6, <1>7, <1>8, <1>9 DEF Next

(* A session in which no call failed leaves every wanted name on the       *)
(* device, as far as the device can hold it, or reports it as refused.     *)
THEOREM EveryNameAccounted == Spec => []Accounted
<1>1. Init => Account
  BY DEF Init, Account, Accounted
<1>2. TypeOK /\ Fresh /\ Account /\ [Next]_vars => Account'
  BY AccountStep
<1>3. Account => Accounted
  BY DEF Account
<1> QED BY <1>1, <1>2, <1>3, Typed, PTL DEF Spec

-----------------------------------------------------------------------------
(* The statuses of the routes.                                             *)

(* Every slot is named, and none of them for a name that was refused.      *)
Excludes(t, f) ==
    f # {} => \A i \in 1..LastSlot : ~Empty(t, i) /\ \A n \in f : Fold[t[i].name] # Fold[n]

Routed ==
    /\ table[0].name = Unfiled
    /\ at \in {"bind", "write"} => work[0].name = Unfiled /\ Excludes(work, noFree)
    /\ at = "show" /\ clean => Excludes(table, noFree)
    /\ \A n \in routes : \E i \in DOMAIN list : Fold[list[i]] = Fold[n]

LEMMA RoutedStep ==
    ASSUME TypeOK, Fresh, Account, Routed, [Next]_vars
    PROVE  Routed'
<1>1. 0 \in Slots /\ \A i \in 1..LastSlot : i \in Slots /\ i # 0
  BY ConstantsAssumption DEF Slots
<1>2. CASE Connect
  <2>1. /\ UNCHANGED <<table, work, noFree, clean>> /\ noFree = {} /\ at' \in {"read", "show"}
        /\ \A n \in routes' : \E i \in DOMAIN list' : Fold[list'[i]] = Fold[n]
    BY <1>2 DEF Connect, Fresh
  <2> QED BY <2>1 DEF Routed, Excludes
<1>3. CASE ReadBlock
  <2>1. /\ UNCHANGED <<table, list, routes, noFree>> /\ noFree = {}
        /\ \/ at' = "bind" /\ work' = table
           \/ at' = "show" /\ ~clean'
    BY <1>3 DEF ReadBlock, Fresh
  <2> QED BY <2>1 DEF Routed, Excludes
<1>4. CASE Bind
  <2>1. PICK n \in Texts : n = list[next]
    BY <1>4, BindGives
  <2>2. /\ UNCHANGED <<table, at, list, routes, clean>> /\ at = "bind"
    BY <1>4, BindGives
  <2>3. CASE UNCHANGED <<work, mutated, noFree>>
    BY <2>2, <2>3 DEF Routed, Excludes, Empty
  <2>4. ASSUME NEW e \in 1..LastSlot, Empty(work, e), work' = SetCategory(work, e, n),
               noFree' = noFree
        PROVE  Routed'
    <3>1. work'[0] = work[0]
      BY <1>1, <2>4, ClaimGives DEF TypeOK
    <3>2. noFree = {}
      BY <2>2, <2>4 DEF Routed, Excludes
    <3> QED BY <2>2, <2>4, <3>1, <3>2 DEF Routed, Excludes
  <2>5. CASE /\ \A i \in 1..LastSlot : ~Empty(work, i)
             /\ \A i \in Named(work) : Fold[work[i].name] # Fold[n]
             /\ noFree' = noFree \cup {n} /\ work' = work
    <3>1. \A i \in 1..LastSlot : ~Empty(work, i) /\ Fold[work[i].name] # Fold[n]
      BY <1>1, <2>5 DEF Named
    <3>2. Excludes(work, noFree \cup {n})
      BY <2>2, <3>1 DEF Routed, Excludes
    <3> QED BY <2>2, <2>5, <3>2 DEF Routed, Excludes, Empty
  <2> QED BY <1>4, <2>1, <2>3, <2>4, <2>5, BindGives
<1>5. CASE Bound
  <2>1. /\ UNCHANGED <<table, work, list, routes, noFree, clean>> /\ at = "bind"
        /\ at' = IF mutated THEN "write" ELSE "show"
    BY <1>5 DEF Bound
  <2>2. CASE mutated
    BY <2>1, <2>2 DEF Routed, Excludes, Empty
  <2>3. CASE ~mutated
    <3>1. work = table /\ at' = "show"
      BY <2>1, <2>3 DEF Account
    <3> QED BY <2>1, <3>1 DEF Routed, Excludes, Empty
  <2> QED BY <2>2, <2>3
<1>6. CASE WriteBlock
  <2>1. /\ UNCHANGED <<list, routes, work, noFree>> /\ at = "write" /\ at' = "show"
        /\ table' \in {table, work} /\ (clean' => table' = work)
    BY <1>6 DEF WriteBlock
  <2> QED BY <2>1 DEF Routed, Excludes, Empty
<1>7. CASE ShowNames
  <2>1. UNCHANGED table /\ routes' = {} /\ at' = "away"
    BY <1>7 DEF ShowNames
  <2> QED BY <2>1 DEF Routed
<1>8. CASE DeviceEdit
  <2>1. PICK i \in 1..LastSlot :
            DeviceDeletes(i) \/ \E n \in UserNames, id \in 1..MaxId : DeviceNames(i, n, id)
    BY <1>8 DEF DeviceEdit
  <2>2. /\ table'[0] = table[0] /\ at = "away" /\ at' = "away"
        /\ UNCHANGED <<list, routes, work>>
    BY <1>1, <2>1 DEF DeviceDeletes, DeviceNames, TypeOK, Table
  <2> QED BY <2>2 DEF Routed
<1>9. CASE UNCHANGED vars
  BY <1>9 DEF vars, Routed, Excludes, Empty
<1> QED BY <1>2, <1>3, <1>4, <1>5, <1>6, <1>7, <1>8, <1>9 DEF Next

(* What an active route and a name that was not refused mean.              *)
LEMMA StatusMeans ==
    ASSUME TypeOK, Accounted, Routed, at = "show", clean,
           NEW n \in routes, n # Unfiled, Legible(n)
    PROVE  /\ RouteStatus(Populated, n) = "active" => OnDevice(table, n)
           /\ Plain(n) => (RouteStatus(Populated, n) = "active" <=> n \notin noFree)
<1> DEFINE p == Populated
<1>1. /\ n \in Wanted /\ n \in Texts /\ n # NoText /\ DOMAIN p = 1..LastSlot
      /\ \A i \in 1..LastSlot : i \in Slots
      /\ \A i \in 1..LastSlot : ~Empty(table, i) => p[i] = Shown[table[i].name]
      /\ \A i \in Slots : ~Empty(table, i) => table[i].name \in Texts /\ i \in Named(table)
  BY ConstantsAssumption DEF TypeOK, Populated, Slots, Table, Empty, Named
<1>2. RouteStatus(p, n) = "active" <=> \E i \in 1..LastSlot : p[i] = n
  BY <1>1 DEF RouteStatus
<1> HIDE DEF p
<1>3. ASSUME NEW i \in 1..LastSlot, ~Empty(table, i), p[i] = n
      PROVE  /\ i \in Named(table) /\ table[i].name \in Texts
             /\ Fold[table[i].name] \in {Fold[n], Fold[Kept[n]]}
  BY <1>1, <1>3 DEF Legible
<1>4. PICK k \in DOMAIN list : Fold[list[k]] = Fold[n]
  BY DEF Routed
<1>5. list[k] \in Wanted /\ list[k] \in Texts
  BY ListIs, ConstantsAssumption DEF TypeOK
<1>6. list[k] \in noFree \/ OnDevice(table, list[k])
  BY DEF Accounted
<1>7. OnDevice(table, list[k]) => OnDevice(table, n)
  BY <1>1, <1>4, <1>5 DEF OnDevice, Legible
<1>8. noFree # {} => \A i \in 1..LastSlot :
          ~Empty(table, i) /\ \A m \in noFree : Fold[table[i].name] # Fold[m]
  BY DEF Routed, Excludes
<1>9. RouteStatus(p, n) = "active" => OnDevice(table, n)
  <2>1. CASE noFree = {}
    BY <1>6, <1>7, <2>1
  <2>2. CASE noFree # {}
    BY <1>2, <1>3, <1>8, <2>2 DEF OnDevice
  <2> QED BY <2>1, <2>2
<1>10. ASSUME Plain(n)
       PROVE  RouteStatus(p, n) = "active" <=> n \notin noFree
  <2>1. Kept[n] = n /\ Shown[n] = n /\ list[k] = n
    BY <1>4, <1>5, <1>10 DEF Plain
  <2>2. ASSUME n \notin noFree
        PROVE  \E i \in 1..LastSlot : p[i] = n
    <3>1. PICK i \in Named(table) : Fold[table[i].name] = Fold[n]
      BY <1>6, <2>1, <2>2 DEF OnDevice
    <3>2. table[i].name = n
      BY <1>1, <1>10, <3>1 DEF Plain, Named
    <3>3. i \in 1..LastSlot
      BY <3>1, <3>2 DEF Routed, Named, Slots
    <3> QED BY <1>1, <2>1, <3>1, <3>2, <3>3 DEF Named
  <2>3. ASSUME n \in noFree, NEW i \in 1..LastSlot, p[i] = n
        PROVE  FALSE
    BY <1>3, <1>8, <2>1, <2>3
  <2> QED BY <1>2, <2>2, <2>3
<1> QED BY <1>9, <1>10 DEF p

(* For any names, conversions, slots and sessions: after a session without *)
(* failures an active route of a legible name has its category on the      *)
(* device, whatever the store still holds, and a plain name is active      *)
(* exactly when it was not refused.                                        *)
THEOREM StatusesTrue == Spec => RouteStatusRight
<1>1. Init => Routed
  BY ConstantsAssumption DEF Init, Routed, Slots
<1>2. TypeOK /\ Fresh /\ Account /\ Routed /\ [Next]_vars => Routed'
  BY RoutedStep
<1>3. ASSUME TypeOK, Account, Routed, ShowNames, clean, store' = Populated,
             NEW n \in routes \ {Unfiled}, Legible(n)
      PROVE  /\ RouteStatus(store', n) = "active" => OnDevice(table, n)
             /\ Plain(n) => (RouteStatus(store', n) = "active" <=> n \notin noFree)
  BY <1>3, StatusMeans DEF ShowNames, Account
<1>4. TypeOK /\ Account /\ Routed /\ [Next]_vars =>
          [ShowNames /\ clean /\ store' = Populated =>
             \A n \in routes \ {Unfiled} : Legible(n) =>
              /\ RouteStatus(store', n) = "active" => OnDevice(table, n)
              /\ Plain(n) => (RouteStatus(store', n) = "active" <=> n \notin noFree)]_vars
  BY <1>3
<1>5. Init => Account
  BY DEF Init, Account, Accounted
<1>6. TypeOK /\ Fresh /\ Account /\ [Next]_vars => Account'
  BY AccountStep
<1> QED BY <1>1, <1>2, <1>4, <1>5, <1>6, Typed, PTL DEF Spec, RouteStatusRight
=============================================================================
