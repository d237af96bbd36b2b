--------------------------- MODULE Workbench_proofs ---------------------------
(***************************************************************************)
(* Proofs about the profile registry and the window around it, for any     *)
(* places, handhelds, serial numbers and folders, any number of questions  *)
(* open at once and of menu actions: types, one profile per serial number, *)
(* one profile per identifier, and no silent rebinding.                    *)
(***************************************************************************)
EXTENDS Workbench, FiniteSetTheorems, WellFoundedInduction, TLAPS

(* The types of what the window keeps of profiles.                         *)
RegistryType ==
    [cache : Seq(EntryType), last : Ids \cup {NoId}, tombs : SUBSET Ids]
FpType == [user : Handhelds \cup {NoHandheld}, serial : Serials \cup {NoSerial}]
FolderType == [id : Ids \cup {NoId}, fp : FpType]
OpenType == [path : Folders, id : Ids \cup {NoId}, fp : FpType]
RuntimeType ==
    [st : RuntimeStates, place : Places \cup {Nowhere}, emits : BOOLEAN, shows : BOOLEAN,
     run : BOOLEAN]
AutoType == [device : BOOLEAN, accounts : BOOLEAN, hot : BOOLEAN]
WindowType ==
    [reg : RegistryType, disk : [Folders -> FolderType], open : OpenType \cup {Closed},
     rt : RuntimeType, auto : AutoType, born : [Ids -> Nat], blank : SUBSET Handhelds]

(* What the registry keeps: the last active id is a known one, a serial    *)
(* number has one owner, and an id is handed out or imported for the first *)
(* time only, because it is known or retired ever after.                   *)
LastKnown(r) == r.last \in Known(r) \cup {NoId}
OneOwner(r) ==
    \A e, f \in Entries(r) : e.serial # NoSerial /\ e.serial = f.serial => e.id = f.id
Recorded(r, b) ==
    \A i \in Ids : b[i] <= 1 /\ (b[i] = 1 => i \in Known(r) \cup r.tombs)
RegistryOK(r, b) == LastKnown(r) /\ OneOwner(r) /\ Recorded(r, b)
Good(w) == w \in WindowType /\ RegistryOK(w.reg, w.born)

(* A handler that waits has the place, folder, serial or handheld it needs.*)
FrameType ==
    [kind : Kinds, place : Places \cup {Nowhere}, serial : Serials \cup {NoSerial},
     held : Handhelds \cup {NoHandheld}, user : Handhelds \cup {NoHandheld}, path : Folders \cup {NoPath}, id : Ids \cup {NoId}]
FrameOK(f) ==
    /\ f \in FrameType
    /\ f.kind \in {"known", "forget"} => f.path \in Folders
    /\ f.kind = "forget" => f.id \in Ids
    /\ f.kind \in {"mismatch", "known", "initialize", "userinfo"} => f.held \in Handhelds
StackOK(st) ==
    st \in Seq(FrameType) /\ Len(st) <= MaxDepth /\ \A k \in DOMAIN st : FrameOK(st[k])

(* The monitor tells only of handhelds it has seen.                        *)
Detected == [place : Places, serial : Serials \cup {NoSerial}]
MonitorOK ==
    /\ bus \in [Places -> Handhelds \cup {NoHandheld}]
    /\ ports \in [Places -> SUBSET Ports]
    /\ \A p \in Places : bus[p] = NoHandheld => ports[p] = {}
    /\ udev \in Seq([action : {"add", "remove"}, place : Places])
    /\ tracked \in [Places -> Serials \cup {NoSerial, Untracked}]
    /\ shots \in Seq(Detected) /\ found \subseteq Detected

HandlersOK ==
    /\ serial \in Serials \cup {NoSerial}
    /\ listening \in Places \cup {Nowhere}
    /\ life \in {"down", "launching", "running"}
    /\ stack \in Seq(FrameType) /\ Len(stack) <= MaxDepth
    /\ \A k \in DOMAIN stack : FrameOK(stack[k])

IInv == Good(Now) /\ HandlersOK /\ MonitorOK


-----------------------------------------------------------------------------
(* The list of entries.                                                    *)

LEMMA EraseGives ==
    ASSUME NEW T, NEW c \in Seq(T), NEW k \in 1..Len(c)
    PROVE  /\ Erase(c, k) \in Seq(T)
           /\ \A n \in DOMAIN Erase(c, k) : \E m \in DOMAIN c : Erase(c, k)[n] = c[m]
           /\ \A m \in DOMAIN c \ {k} : \E n \in DOMAIN Erase(c, k) : Erase(c, k)[n] = c[m]
<1> DEFINE a == SubSeq(c, 1, k - 1)
           b == SubSeq(c, k + 1, Len(c))
<1>0. Len(c) \in Nat /\ DOMAIN c = 1..Len(c) /\ k \in Nat /\ 1 <= k /\ k <= Len(c)
  OBVIOUS
<1>1. /\ a \in Seq(T) /\ Len(a) = k - 1
      /\ \A n \in 1..(k - 1) : a[n] = c[n]
  OBVIOUS
<1>2. /\ b \in Seq(T) /\ Len(b) = Len(c) - k
      /\ \A n \in 1..(Len(c) - k) : b[n] = c[n + k]
  OBVIOUS
<1> HIDE DEF a, b
<1>3. /\ a \o b \in Seq(T) /\ Len(a \o b) = Len(c) - 1
      /\ \A n \in 1..(k - 1) : (a \o b)[n] = c[n]
      /\ \A n \in k..(Len(c) - 1) : (a \o b)[n] = c[n + 1]
  <2>1. a \o b \in Seq(T) /\ Len(a \o b) = Len(c) - 1
    <3>1. a \in Seq(T) /\ b \in Seq(T)
      BY <1>1, <1>2
    <3>2. a \o b \in Seq(T) /\ Len(a \o b) = Len(a) + Len(b)
      BY <3>1
    <3> QED BY <1>0, <1>1, <1>2, <3>2
  <2>2. \A n \in 1..(k - 1) : (a \o b)[n] = c[n]
    BY <1>1, <1>2
  <2>3. ASSUME NEW n \in k..(Len(c) - 1) PROVE (a \o b)[n] = c[n + 1]
    <3>1. (a \o b)[n] = b[n - (k - 1)]
      <4>1. n \in 1..(Len(a) + Len(b)) /\ ~(n <= Len(a))
        BY <1>0, <1>1, <1>2
      <4>2. (a \o b)[n] = b[n - Len(a)]
        BY <1>1, <1>2, <4>1
      <4> QED BY <1>1, <4>2
    <3>2. n - (k - 1) \in 1..(Len(c) - k)
      OBVIOUS
    <3>3. b[n - (k - 1)] = c[n - (k - 1) + k]
      BY <1>2, <3>2
    <3>4. n - (k - 1) + k = n + 1
      BY <1>0
    <3> QED BY <3>1, <3>3, <3>4
  <2> QED BY <2>1, <2>2, <2>3
<1>4. Erase(c, k) = a \o b /\ DOMAIN (a \o b) = 1..(Len(c) - 1)
  <2>1. DOMAIN (a \o b) = 1..(Len(c) - 1)
    BY <1>3
  <2> QED BY <2>1 DEF Erase, a, b
<1>5. \A n \in 1..(Len(c) - 1) : \E m \in DOMAIN c : (a \o b)[n] = c[m]
  <2> TAKE n \in 1..(Len(c) - 1)
  <2>0. n \in 1..(k - 1) \/ n \in k..(Len(c) - 1)
    BY <1>0
  <2>1. CASE n \in 1..(k - 1)
    <3>1. (a \o b)[n] = c[n] /\ n \in DOMAIN c
      BY <1>0, <1>3, <2>1
    <3> QED BY <3>1
  <2>2. CASE n \in k..(Len(c) - 1)
    <3>1. (a \o b)[n] = c[n + 1] /\ n + 1 \in DOMAIN c
      BY <1>0, <1>3, <2>2
    <3> QED BY <3>1
  <2> QED BY <2>0, <2>1, <2>2
<1>6. \A m \in DOMAIN c \ {k} : \E n \in 1..(Len(c) - 1) : (a \o b)[n] = c[m]
  <2> TAKE m \in DOMAIN c \ {k}
  <2>1. CASE m < k
    <3>1. m \in 1..(k - 1) /\ m \in 1..(Len(c) - 1)
      BY <1>0, <2>1
    <3>2. (a \o b)[m] = c[m]
      BY <1>3, <3>1
    <3> QED BY <3>1, <3>2
  <2>2. CASE m > k
    <3>1. m - 1 \in k..(Len(c) - 1) /\ (m - 1) + 1 = m
      BY <1>0, <2>2
    <3>2. (a \o b)[m - 1] = c[m]
      BY <1>3, <3>1
    <3>3. m - 1 \in 1..(Len(c) - 1)
      BY <1>0, <3>1
    <3> QED BY <3>2, <3>3
  <2>3. m \in 1..Len(c) /\ m # k
    BY <1>0
  <2>4. m < k \/ m > k
    BY <1>0, <2>3
  <2> QED BY <2>1, <2>2, <2>4
<1>7. /\ \A n \in DOMAIN (a \o b) : \E m \in DOMAIN c : (a \o b)[n] = c[m]
      /\ \A m \in DOMAIN c \ {k} : \E n \in DOMAIN (a \o b) : (a \o b)[n] = c[m]
  BY <1>4, <1>5, <1>6
<1> QED BY <1>3, <1>4, <1>7

LEMMA IndexFinds ==
    ASSUME NEW r, NEW i \in Known(r)
    PROVE  Index(r, i) \in DOMAIN r.cache /\ r.cache[Index(r, i)].id = i
BY DEF Index, Known, Entries

LEMMA WithEntryGives ==
    ASSUME NEW r \in RegistryType, NEW e \in EntryType
    PROVE  LET n == WithEntry(r, e) IN
           /\ n \in RegistryType /\ n.last = r.last /\ n.tombs = r.tombs
           /\ Entries(n) = {e} \cup Entries(r)
<1> DEFINE c == r.cache
           n == WithEntry(r, e)
<1>1. c \in Seq(EntryType)
  BY DEF RegistryType
<1>2. n.cache = <<e>> \o c /\ n.last = r.last /\ n.tombs = r.tombs
  BY DEF RegistryType, WithEntry
<1>3. <<e>> \o c \in Seq(EntryType) /\ Len(<<e>> \o c) = Len(c) + 1
  BY <1>1
<1>4. (<<e>> \o c)[1] = e
  BY <1>1
<1>5. \A k \in 1..Len(c) : (<<e>> \o c)[k + 1] = c[k]
  BY <1>1
<1>6. n \in RegistryType
  BY <1>2, <1>3 DEF RegistryType, WithEntry
<1>7. Entries(n) = {e} \cup Entries(r)
  <2>1. DOMAIN n.cache = 1..(Len(c) + 1) /\ DOMAIN c = 1..Len(c) /\ Len(c) \in Nat
    BY <1>1, <1>2, <1>3
  <2>2. ASSUME NEW x \in Entries(n) PROVE x \in {e} \cup Entries(r)
    <3>1. PICK k \in 1..(Len(c) + 1) : x = (<<e>> \o c)[k]
      BY <1>2, <2>1 DEF Entries
    <3>2. CASE k = 1
      BY <1>4, <3>1, <3>2
    <3>3. CASE k # 1
      <4>1. k - 1 \in 1..Len(c) /\ (k - 1) + 1 = k
        BY <2>1, <3>3
      <4>2. x = c[k - 1]
        BY <1>5, <3>1, <4>1
      <4> QED BY <2>1, <4>1, <4>2 DEF Entries
    <3> QED BY <3>2, <3>3
  <2>3. e \in Entries(n)
    BY <1>2, <1>4, <2>1 DEF Entries
  <2>4. ASSUME NEW x \in Entries(r) PROVE x \in Entries(n)
    <3>1. PICK k \in 1..Len(c) : x = c[k]
      BY <2>1 DEF Entries
    <3>2. k + 1 \in 1..(Len(c) + 1) /\ x = n.cache[k + 1]
      BY <1>2, <1>5, <2>1, <3>1
    <3> QED BY <2>1, <3>2 DEF Entries
  <2> QED BY <2>2, <2>3, <2>4
<1> QED BY <1>2, <1>6, <1>7

(* unregister: nobody else leaves the list, and the id is retired.         *)
LEMMA UnregisterGives ==
    ASSUME NEW r \in RegistryType, NEW i
    PROVE  LET n == Unregister(r, i) IN
           /\ n \in RegistryType
           /\ Entries(n) \subseteq Entries(r)
           /\ \A e \in Entries(r) : e.id # i => e \in Entries(n)
           /\ i \in Known(r) => n.tombs = r.tombs \cup {i}
           /\ n.tombs \in {r.tombs, r.tombs \cup {i}}
           /\ n.last \in {r.last, NoId} /\ (n.last = i /\ i \in Known(r) => i = NoId)
<1>1. CASE i \notin Known(r)
  BY <1>1 DEF Unregister, Known
<1>2. CASE i \in Known(r)
  <2> DEFINE c == r.cache
             k == Index(r, i)
             n == Unregister(r, i)
  <2>1. c \in Seq(EntryType) /\ DOMAIN c = 1..Len(c) /\ r.last \in Ids \cup {NoId}
        /\ r.tombs \in SUBSET Ids
    BY DEF RegistryType
  <2>2. k \in 1..Len(c) /\ c[k].id = i
    BY <1>2, <2>1, IndexFinds
  <2>3. n = [cache |-> Erase(c, k), last |-> IF r.last = i THEN NoId ELSE r.last,
             tombs |-> r.tombs \cup {i}]
    BY <1>2 DEF Unregister
  <2>4. /\ Erase(c, k) \in Seq(EntryType)
        /\ \A m \in DOMAIN Erase(c, k) : \E l \in DOMAIN c : Erase(c, k)[m] = c[l]
        /\ \A l \in DOMAIN c \ {k} : \E m \in DOMAIN Erase(c, k) : Erase(c, k)[m] = c[l]
    BY <2>1, <2>2, EraseGives
  <2>5. i \in Ids
    <3>1. c[k] \in EntryType
      BY <2>1, <2>2
    <3> QED BY <2>2, <3>1 DEF EntryType
  <2>6. n.cache = Erase(c, k)
    BY <2>3
  <2> HIDE DEF c, k, n
  <2>7. n \in RegistryType
    BY <2>1, <2>3, <2>4, <2>5 DEF RegistryType
  <2>8. Entries(n) = {Erase(c, k)[m] : m \in DOMAIN Erase(c, k)}
        /\ Entries(r) = {c[l] : l \in DOMAIN c}
    BY <2>6 DEF Entries, c
  <2>9. Entries(n) \subseteq Entries(r)
    BY <2>4, <2>8
  <2>10. \A e \in Entries(r) : e.id # i => e \in Entries(n)
    BY <2>2, <2>4, <2>8
  <2>11. /\ n.tombs = r.tombs \cup {i}
         /\ n.last = IF r.last = i THEN NoId ELSE r.last
    BY <2>3
  <2> QED BY <1>2, <2>7, <2>9, <2>10, <2>11 DEF n
<1> QED BY <1>1, <1>2

(* setLastActive reorders the list, no more.                               *)
LEMMA SetLastActiveGives ==
    ASSUME NEW r \in RegistryType, NEW i
    PROVE  LET n == SetLastActive(r, i) IN
           /\ n \in RegistryType /\ n.tombs = r.tombs
           /\ Entries(n) = Entries(r)
           /\ n.last = r.last \/ (n.last = i /\ i \in Known(r))
<1>1. CASE i \notin Known(r)
  BY <1>1 DEF SetLastActive
<1>2. CASE i \in Known(r)
  <2> DEFINE c == r.cache
             k == Index(r, i)
             d == <<c[k]>> \o Erase(c, k)
             n == SetLastActive(r, i)
  <2>1. c \in Seq(EntryType) /\ DOMAIN c = 1..Len(c) /\ r.last \in Ids \cup {NoId}
        /\ r.tombs \in SUBSET Ids
    BY DEF RegistryType
  <2>2. k \in 1..Len(c) /\ c[k].id = i
    BY <1>2, <2>1, IndexFinds
  <2>3. c[k] \in EntryType /\ i \in Ids
    <3>1. c[k] \in EntryType
      BY <2>1, <2>2
    <3> QED BY <2>2, <3>1 DEF EntryType
  <2>4. /\ Erase(c, k) \in Seq(EntryType)
        /\ \A m \in DOMAIN Erase(c, k) : \E l \in DOMAIN c : Erase(c, k)[m] = c[l]
        /\ \A l \in DOMAIN c \ {k} : \E m \in DOMAIN Erase(c, k) : Erase(c, k)[m] = c[l]
    BY <2>1, <2>2, EraseGives
  <2>5. n = [r EXCEPT !.last = i, !.cache = d]
    BY <1>2 DEF SetLastActive
  <2> DEFINE z == [r EXCEPT !.cache = Erase(c, k)]
  <2>6. z \in RegistryType /\ z.cache = Erase(c, k)
    BY <2>4 DEF RegistryType
  <2>7. Entries(z) = {Erase(c, k)[m] : m \in DOMAIN Erase(c, k)}
        /\ Entries(r) = {c[l] : l \in DOMAIN c}
    BY <2>6 DEF Entries, c
  <2>8. WithEntry(z, c[k]).cache = d
    BY <2>6 DEF WithEntry, RegistryType
  <2>9. Entries(WithEntry(z, c[k])) = {c[k]} \cup Entries(z) /\ WithEntry(z, c[k]) \in RegistryType
    BY <2>3, <2>6, WithEntryGives
  <2>10. {c[k]} \cup Entries(z) = Entries(r)
    <3>1. {c[k]} \cup Entries(z) \subseteq Entries(r)
      BY <2>1, <2>2, <2>4, <2>7
    <3>2. ASSUME NEW l \in DOMAIN c PROVE c[l] \in {c[k]} \cup Entries(z)
      <4>1. CASE l = k
        BY <4>1
      <4>2. CASE l # k
        BY <2>4, <2>7, <4>2
      <4> QED BY <4>1, <4>2
    <3> QED BY <2>7, <3>1, <3>2
  <2>11. d \in Seq(EntryType)
    BY <2>8, <2>9 DEF RegistryType
  <2> HIDE DEF d, c, k, z
  <2>12. n \in RegistryType /\ n.cache = d /\ n.tombs = r.tombs /\ n.last = i
    BY <2>3, <2>5, <2>11 DEF RegistryType
  <2>13. Entries(n) = Entries(r)
    BY <2>8, <2>9, <2>10, <2>12 DEF Entries
  <2> QED BY <1>2, <2>12, <2>13
<1> QED BY <1>1, <1>2

(* bindSerial changes serials only: the entry named gets this one, others  *)
(* keep theirs or lose it.                                                 *)
LEMMA BindSerialGives ==
    ASSUME NEW r \in RegistryType, NEW i, NEW s \in Serials \cup {NoSerial}
    PROVE  LET n == BindSerial(r, i, s) IN
           /\ n \in RegistryType /\ n.last = r.last /\ n.tombs = r.tombs
           /\ Known(n) = Known(r)
           /\ OneOwner(r) => OneOwner(n)
<1>1. CASE i \notin Known(r)
  BY <1>1 DEF BindSerial
<1>2. CASE i \in Known(r)
  <2> DEFINE c == r.cache
             n == BindSerial(r, i, s)
             Bound(e) == IF e.id = i THEN [e EXCEPT !.serial = s]
                         ELSE IF s # NoSerial /\ e.serial = s
                              THEN [e EXCEPT !.serial = NoSerial] ELSE e
             d == [k \in DOMAIN c |-> Bound(c[k])]
  <2>1. c \in Seq(EntryType) /\ DOMAIN c = 1..Len(c) /\ Len(c) \in Nat
    BY DEF RegistryType
  <2>2. \A k \in DOMAIN c : c[k] \in EntryType
    BY <2>1
  <2>3. ASSUME NEW e \in EntryType
        PROVE  /\ Bound(e) \in EntryType /\ Bound(e).id = e.id
               /\ e.id = i => Bound(e).serial = s
               /\ e.id # i => \/ s = NoSerial /\ Bound(e).serial = e.serial
                              \/ Bound(e).serial # s /\ Bound(e).serial \in {e.serial, NoSerial}
    <3>1. CASE e.id = i
      BY <3>1 DEF EntryType
    <3>2. CASE e.id # i /\ s # NoSerial /\ e.serial = s
      BY <3>2 DEF EntryType
    <3>3. CASE e.id # i /\ ~(s # NoSerial /\ e.serial = s)
      BY <3>3 DEF EntryType
    <3> QED BY <3>1, <3>2, <3>3
  <2> HIDE DEF Bound
  <2>4. d \in Seq(EntryType) /\ DOMAIN d = DOMAIN c
    <3>1. \A k \in 1..Len(c) : Bound(c[k]) \in EntryType
      BY <2>1, <2>2, <2>3
    <3>2. d = [k \in 1..Len(c) |-> Bound(c[k])]
      BY <2>1
    <3>3. [k \in 1..Len(c) |-> Bound(c[k])] \in Seq(EntryType)
      BY <2>1, <3>1
    <3> QED BY <3>2, <3>3
  <2>5. n = [r EXCEPT !.cache = d]
    BY <1>2 DEF BindSerial, Bound
  <2>6. n \in RegistryType /\ n.cache = d /\ n.last = r.last /\ n.tombs = r.tombs
    BY <2>4, <2>5 DEF RegistryType
  <2> HIDE DEF n
  <2>7. /\ Entries(n) = {Bound(c[k]) : k \in DOMAIN c}
        /\ Entries(r) = {c[k] : k \in DOMAIN c}
    BY <2>4, <2>6 DEF Entries
  <2> HIDE DEF c, d
  <2>8. Known(n) = Known(r)
    BY <2>2, <2>3, <2>7 DEF Known
  <2>9. ASSUME OneOwner(r), NEW e \in Entries(n), NEW f \in Entries(n),
               e.serial # NoSerial, e.serial = f.serial
        PROVE  e.id = f.id
    <3>1. PICK x \in Entries(r) : x \in EntryType /\ e = Bound(x)
      BY <2>2, <2>7
    <3>2. PICK y \in Entries(r) : y \in EntryType /\ f = Bound(y)
      BY <2>2, <2>7
    <3>3. CASE x.id = i \/ y.id = i
      BY <2>3, <2>9, <3>1, <3>2, <3>3
    <3>4. CASE x.id # i /\ y.id # i
      <4>1. e.serial = x.serial /\ f.serial = y.serial
        BY <2>3, <2>9, <3>1, <3>2, <3>4
      <4>2. x.id = y.id
        BY <2>9, <4>1 DEF OneOwner
      <4> QED BY <2>3, <3>1, <3>2, <4>2
    <3> QED BY <3>3, <3>4
  <2> QED BY <2>6, <2>8, <2>9 DEF OneOwner, n
<1> QED BY <1>1, <1>2

(* allocateNewId: nobody has the id, and nobody ever had it.               *)
LEMMA LessIsWellFounded ==
    IsWellFoundedOn({p \in Nat \X Nat : p[1] < p[2]}, Nat)
BY NatLessThanWellFounded DEF OpToRel

LEMMA LeastExists ==
    ASSUME NEW T \in SUBSET Nat, T # {}
    PROVE  \E m \in T : \A k \in T : m <= k
<1> DEFINE R == {p \in Nat \X Nat : p[1] < p[2]}
<1>1. IsWellFoundedOn(R, Nat)
  BY LessIsWellFounded
<1> HIDE DEF R
<1>2. PICK m \in T : \A k \in T : <<k, m>> \notin R
  BY <1>1, WFMin
<1>3. \A k \in T : ~(k < m)
  BY <1>2 DEF R
<1> QED BY <1>3

LEMMA HighestIs ==
    ASSUME NEW S \in SUBSET Ids
    PROVE  Highest(S) \in Nat /\ \A k \in S : k <= Highest(S)
<1>1. CASE S = {}
  BY <1>1 DEF Highest
<1>2. CASE S # {}
  <2> DEFINE T == {MaxId - k : k \in S}
  <2>1. \A k \in S : k \in 1..MaxId
    BY DEF Ids
  <2>2. T \in SUBSET Nat /\ T # {}
    BY <1>2, <2>1, RegistryAssumption
  <2>3. PICK m \in T : \A k \in T : m <= k
    BY <2>2, LeastExists
  <2>4. PICK h \in S : m = MaxId - h
    BY <2>3
  <2>5. \A k \in S : k <= h
    <3> TAKE k \in S
    <3>1. m <= MaxId - k
      BY <2>3
    <3> QED BY <2>1, <2>4, <3>1, RegistryAssumption
  <2>6. Highest(S) \in S /\ \A k \in S : k <= Highest(S)
    BY <1>2, <2>5 DEF Highest
  <2> QED BY <2>1, <2>6
<1> QED BY <1>1, <1>2

LEMMA KnownAreIds ==
    ASSUME NEW r \in RegistryType
    PROVE  /\ Known(r) \subseteq Ids /\ Entries(r) \subseteq EntryType
           /\ \A e \in Entries(r) : e.path \in Folders /\ e.id \in Ids
<1>1. Entries(r) \subseteq EntryType
  BY DEF RegistryType, Entries
<1> QED BY <1>1 DEF Known, EntryType

LEMMA AllocateIsFresh ==
    ASSUME NEW r \in RegistryType
    PROVE  /\ AllocateNewId(r) \in Nat \ {0}
           /\ AllocateNewId(r) \notin Known(r) \cup r.tombs
<1> DEFINE S == Known(r) \cup r.tombs
<1>1. S \in SUBSET Ids
  BY KnownAreIds DEF RegistryType
<1>2. Highest(S) \in Nat /\ \A k \in S : k <= Highest(S)
  BY <1>1, HighestIs
<1>3. AllocateNewId(r) = Highest(S) + 1
  BY DEF AllocateNewId
<1> QED BY <1>2, <1>3

-----------------------------------------------------------------------------
(* Handlers as functions.  `Fine' says of what a handler makes of the      *)
(* window's profiles that it is well-formed and that the profile, if it is *)
(* still the same one, is not rebound to another handheld.                 *)

Rebound(o, n) ==
    o.fp # NoFp /\ n.id = o.id /\ n.path = o.path => Compare(o.fp, n.fp) # "mismatch"

Fine(w, n) == Good(n) /\ Rebound(w.open, n.open)

LEMMA BecomeIs ==
    ASSUME NEW w \in WindowType, Become(w)
    PROVE  Now' = w /\ open' = w.open
<1>1. w = [reg |-> w.reg, disk |-> w.disk, open |-> w.open, rt |-> w.rt,
           auto |-> w.auto, born |-> w.born, blank |-> w.blank]
  BY DEF WindowType
<1> QED BY <1>1 DEF Become, Now

LEMMA FineStep ==
    ASSUME NEW w, Fine(Now, w), Become(w)
    PROVE  Good(Now)' /\ Rebound(open, open')
<1>1. Now' = w /\ open' = w.open
  BY BecomeIs DEF Fine, Good
<1>2. Good(Now')
  BY <1>1 DEF Fine
<1>3. Now.open = open
  BY DEF Now
<1> QED BY <1>1, <1>2, <1>3 DEF Fine

LEMMA CompareSelf ==
    ASSUME NEW x
    PROVE  Compare(x, x) # "mismatch"
BY DEF Compare

LEMMA SameOpen ==
    ASSUME NEW o, NEW n, n = o \/ n.fp = o.fp
    PROVE  Rebound(o, n)
BY CompareSelf DEF Rebound

LEMMA NothingOpen ==
    /\ NoPath \notin Folders /\ Closed.path = NoPath /\ Closed.fp = NoFp
    /\ NoFp \in FpType /\ NoFolder \in FolderType /\ Closed.id = NoId
<1>1. NoPath.root = "none" /\ \A f \in Folders : f.root # "none"
  BY DEF NoPath, Folders, Home
<1>2. NoPath \notin Folders
  BY <1>1
<1> QED BY <1>2 DEF Closed, NoFp, NoFolder, FpType, FolderType

LEMMA ClosesWell ==
    ASSUME NEW o \in OpenType \cup {Closed}
    PROVE  Rebound(o, Closed)
BY NothingOpen DEF Rebound, OpenType, Closed

LEMMA FieldTypes ==
    ASSUME NEW w \in WindowType
    PROVE  /\ w.reg \in RegistryType /\ w.disk \in [Folders -> FolderType]
           /\ w.open \in OpenType \cup {Closed} /\ w.rt \in RuntimeType
           /\ w.auto \in AutoType /\ w.born \in [Ids -> Nat] /\ w.blank \in SUBSET Handhelds
BY DEF WindowType

(* One field replaced.                                                     *)
LEMMA NewReg ==
    ASSUME NEW w \in WindowType, NEW x \in RegistryType
    PROVE  LET n == [w EXCEPT !.reg = x] IN
           /\ n \in WindowType /\ n.reg = x /\ n.disk = w.disk /\ n.open = w.open
           /\ n.rt = w.rt /\ n.auto = w.auto /\ n.born = w.born /\ n.blank = w.blank
BY DEF WindowType

LEMMA NewDisk ==
    ASSUME NEW w \in WindowType, NEW x \in [Folders -> FolderType]
    PROVE  LET n == [w EXCEPT !.disk = x] IN
           /\ n \in WindowType /\ n.reg = w.reg /\ n.disk = x /\ n.open = w.open
           /\ n.rt = w.rt /\ n.auto = w.auto /\ n.born = w.born /\ n.blank = w.blank
BY DEF WindowType

LEMMA NewOpen ==
    ASSUME NEW w \in WindowType, NEW x \in OpenType \cup {Closed}
    PROVE  LET n == [w EXCEPT !.open = x] IN
           /\ n \in WindowType /\ n.reg = w.reg /\ n.disk = w.disk /\ n.open = x
           /\ n.rt = w.rt /\ n.auto = w.auto /\ n.born = w.born /\ n.blank = w.blank
BY DEF WindowType

LEMMA NewRt ==
    ASSUME NEW w \in WindowType, NEW x \in RuntimeType
    PROVE  LET n == [w EXCEPT !.rt = x] IN
           /\ n \in WindowType /\ n.reg = w.reg /\ n.disk = w.disk /\ n.open = w.open
           /\ n.rt = x /\ n.auto = w.auto /\ n.born = w.born /\ n.blank = w.blank
BY DEF WindowType

LEMMA NewAuto ==
    ASSUME NEW w \in WindowType, NEW x \in AutoType
    PROVE  LET n == [w EXCEPT !.auto = x] IN
           /\ n \in WindowType /\ n.reg = w.reg /\ n.disk = w.disk /\ n.open = w.open
           /\ n.rt = w.rt /\ n.auto = x /\ n.born = w.born /\ n.blank = w.blank
BY DEF WindowType

LEMMA NewBorn ==
    ASSUME NEW w \in WindowType, NEW x \in [Ids -> Nat]
    PROVE  LET n == [w EXCEPT !.born = x] IN
           /\ n \in WindowType /\ n.reg = w.reg /\ n.disk = w.disk /\ n.open = w.open
           /\ n.rt = w.rt /\ n.auto = w.auto /\ n.born = x /\ n.blank = w.blank
BY DEF WindowType

LEMMA NewBlank ==
    ASSUME NEW w \in WindowType, NEW x \in SUBSET Handhelds
    PROVE  LET n == [w EXCEPT !.blank = x] IN
           /\ n \in WindowType /\ n.reg = w.reg /\ n.disk = w.disk /\ n.open = w.open
           /\ n.rt = w.rt /\ n.auto = w.auto /\ n.born = w.born /\ n.blank = x
BY DEF WindowType

(* Profile::save.                                                          *)
LEMMA SaveGives ==
    ASSUME NEW w, Good(w)
    PROVE  LET n == Save(w) IN
           /\ Good(n) /\ n.reg = w.reg /\ n.born = w.born /\ n.open = w.open
           /\ n.rt = w.rt /\ n.auto = w.auto /\ n.blank = w.blank
           /\ w.open # Closed => /\ n.disk[w.open.path] = [id |-> w.open.id, fp |-> w.open.fp]
                                 /\ w.open.path \in Folders
<1>1. CASE w.open = Closed
  BY <1>1 DEF Save
<1>2. CASE w.open # Closed
  <2> DEFINE x == [id |-> w.open.id, fp |-> w.open.fp]
             d == [w.disk EXCEPT ![w.open.path] = x]
  <2>1. w.open \in OpenType /\ w.disk \in [Folders -> FolderType] /\ w \in WindowType
    BY <1>2, FieldTypes DEF Good
  <2>2. w.open.path \in Folders /\ x \in FolderType
    BY <2>1 DEF OpenType, FolderType
  <2> HIDE DEF x
  <2>3. d \in [Folders -> FolderType] /\ d[w.open.path] = x
    BY <2>1, <2>2
  <2>4. Save(w) = [w EXCEPT !.disk = d]
    BY <1>2 DEF Save, x
  <2> HIDE DEF d
  <2>5. /\ Save(w) \in WindowType /\ Save(w).reg = w.reg /\ Save(w).disk = d
        /\ Save(w).open = w.open /\ Save(w).rt = w.rt
        /\ Save(w).auto = w.auto /\ Save(w).born = w.born /\ Save(w).blank = w.blank
    BY <2>1, <2>3, <2>4, NewDisk
  <2> QED BY <2>2, <2>3, <2>5 DEF Good, x
<1> QED BY <1>1, <1>2

LEMMA LastActiveOK ==
    ASSUME NEW r \in RegistryType, NEW b, RegistryOK(r, b), NEW i
    PROVE  RegistryOK(SetLastActive(r, i), b)
<1> DEFINE n == SetLastActive(r, i)
<1>1. /\ n.tombs = r.tombs /\ Entries(n) = Entries(r)
      /\ n.last = r.last \/ (n.last = i /\ i \in Known(r))
  BY SetLastActiveGives
<1> HIDE DEF n
<1>2. Known(n) = Known(r)
  BY <1>1 DEF Known
<1>3. LastKnown(n) /\ OneOwner(n) /\ Recorded(n, b)
  BY <1>1, <1>2 DEF RegistryOK, LastKnown, OneOwner, Recorded
<1> QED BY <1>3 DEF RegistryOK, n

(* loadProfile.                                                            *)
LEMMA LoadProfileFine ==
    ASSUME NEW w, Good(w), NEW f \in Folders
    PROVE  /\ Fine(w, LoadProfile(w, f))
           /\ LoadProfile(w, f).born = w.born
<1> DEFINE s == Save(w)
           n == LoadProfile(w, f)
<1>1. /\ Good(s) /\ s.reg = w.reg /\ s.born = w.born /\ s.open = w.open
      /\ w.open # Closed => s.disk[w.open.path] = [id |-> w.open.id, fp |-> w.open.fp]
  BY SaveGives
<1>2. s \in WindowType /\ w \in WindowType /\ RegistryOK(s.reg, s.born)
  BY <1>1 DEF Good
<1>3. /\ s.reg \in RegistryType /\ s.disk \in [Folders -> FolderType]
      /\ s.auto \in AutoType /\ w.open \in OpenType \cup {Closed}
  BY <1>2, FieldTypes
<1> HIDE DEF s
<1>4. CASE ~Exists(s.disk, f)
  <2>1. n = [s EXCEPT !.open = Closed]
    BY <1>4 DEF LoadProfile, s
  <2>2. n \in WindowType /\ n.open = Closed /\ n.reg = s.reg /\ n.born = s.born
    BY <1>2, <2>1, NewOpen
  <2>3. Rebound(w.open, Closed)
    BY <1>3, ClosesWell
  <2> QED BY <1>1, <1>2, <2>2, <2>3 DEF Fine, Good
<1>5. CASE Exists(s.disk, f)
  <2> DEFINE o == LoadProfileConf(s.disk, f)
             r == SetLastActive(s.reg, s.disk[f].id)
             a == [s.auto EXCEPT !.device = FALSE, !.accounts = FALSE]
             s1 == [s EXCEPT !.open = o]
             s2 == [s1 EXCEPT !.reg = r]
             s3 == [s2 EXCEPT !.rt = NewRuntime]
  <2>1. s.disk[f] \in FolderType
    BY <1>3
  <2>2. o \in OpenType /\ o.path = f /\ o.fp = s.disk[f].fp
    BY <2>1 DEF LoadProfileConf, OpenType, FolderType
  <2>3. r \in RegistryType /\ RegistryOK(r, s.born)
    BY <1>2, <1>3, SetLastActiveGives, LastActiveOK
  <2>4. a \in AutoType
    BY <1>3 DEF AutoType
  <2>5. NewRuntime \in RuntimeType
    BY DEF NewRuntime, RuntimeType, RuntimeStates
  <2>6. n = [s EXCEPT !.open = o, !.reg = r, !.rt = NewRuntime, !.auto = a]
    BY <1>5 DEF LoadProfile, s
  <2> HIDE DEF o, r, a, n
  <2>7. s1 \in WindowType /\ s1.open = o /\ s1.born = s.born
    BY <1>2, <2>2, NewOpen
  <2>8. s2 \in WindowType /\ s2.open = o /\ s2.born = s.born /\ s2.reg = r
    BY <2>3, <2>7, NewReg
  <2>9. s3 \in WindowType /\ s3.open = o /\ s3.born = s.born /\ s3.reg = r
    BY <2>5, <2>8, NewRt
  <2>10. n = [s3 EXCEPT !.auto = a]
    BY <2>6
  <2> HIDE DEF s1, s2, s3
  <2>11. n \in WindowType /\ n.open = o /\ n.born = s.born /\ n.reg = r
    BY <2>4, <2>9, <2>10, NewAuto
  <2>12. Rebound(w.open, o)
    <3>1. CASE w.open = Closed
      BY <3>1, NothingOpen DEF Rebound
    <3>2. CASE w.open # Closed /\ w.open.path = f
      <4>1. o.fp = w.open.fp
        BY <1>1, <2>2, <3>2
      <4> QED BY <4>1, SameOpen
    <3>3. CASE w.open.path # f
      BY <2>2, <3>3 DEF Rebound
    <3> QED BY <3>1, <3>2, <3>3
  <2> QED BY <1>1, <2>3, <2>11, <2>12 DEF Fine, Good, n
<1> QED BY <1>4, <1>5

(* closeProfile.                                                           *)
LEMMA CloseProfileFine ==
    ASSUME NEW w, Good(w)
    PROVE  Fine(w, CloseProfile(w))
<1> DEFINE s == Save(w)
<1>1. Good(s) /\ s \in WindowType /\ w.open \in OpenType \cup {Closed}
  BY SaveGives, FieldTypes DEF Good
<1> HIDE DEF s
<1>2. LET n == [s EXCEPT !.open = Closed] IN
      n \in WindowType /\ n.open = Closed /\ n.reg = s.reg /\ n.born = s.born
  BY <1>1, NewOpen
<1>3. Rebound(w.open, Closed)
  BY <1>1, ClosesWell
<1> QED BY <1>1, <1>2, <1>3 DEF Fine, Good, CloseProfile, s

LEMMA BindOK ==
    ASSUME NEW r \in RegistryType, NEW b, RegistryOK(r, b), NEW i,
           NEW s \in Serials \cup {NoSerial}
    PROVE  BindSerial(r, i, s) \in RegistryType /\ RegistryOK(BindSerial(r, i, s), b)
<1> DEFINE n == BindSerial(r, i, s)
<1>1. /\ n \in RegistryType /\ n.last = r.last /\ n.tombs = r.tombs
      /\ Known(n) = Known(r) /\ OneOwner(n)
  BY BindSerialGives DEF RegistryOK
<1> HIDE DEF n
<1>2. LastKnown(n) /\ Recorded(n, b)
  BY <1>1 DEF RegistryOK, LastKnown, Recorded
<1> QED BY <1>1, <1>2 DEF RegistryOK, n

(* A new entry without a serial, for an id that is counted as born.        *)
LEMMA WithEntryOK ==
    ASSUME NEW r \in RegistryType, NEW b \in [Ids -> Nat], RegistryOK(r, b),
           NEW e \in EntryType, e.serial = NoSerial, e.id \notin Known(r),
           NEW c \in [Ids -> Nat], \A i \in Ids \ {e.id} : c[i] = b[i], c[e.id] <= 1
    PROVE  WithEntry(r, e) \in RegistryType /\ RegistryOK(WithEntry(r, e), c)
<1> DEFINE n == WithEntry(r, e)
<1>1. /\ n \in RegistryType /\ n.last = r.last /\ n.tombs = r.tombs
      /\ Entries(n) = {e} \cup Entries(r)
  BY WithEntryGives
<1> HIDE DEF n
<1>2. Known(n) = {e.id} \cup Known(r)
  BY <1>1 DEF Known
<1>3. LastKnown(n)
  BY <1>1, <1>2 DEF RegistryOK, LastKnown
<1>4. OneOwner(n)
  BY <1>1 DEF RegistryOK, OneOwner
<1>5. Recorded(n, c)
  <2> SUFFICES ASSUME NEW i \in Ids
               PROVE  c[i] <= 1 /\ (c[i] = 1 => i \in Known(n) \cup n.tombs)
    BY DEF Recorded
  <2>1. CASE i = e.id
    BY <1>2, <2>1
  <2>2. CASE i # e.id
    <3>1. c[i] = b[i]
      BY <2>2
    <3>2. b[i] <= 1 /\ (b[i] = 1 => i \in Known(r) \cup r.tombs)
      BY DEF RegistryOK, Recorded
    <3> QED BY <1>1, <1>2, <3>1, <3>2
  <2> QED BY <2>1, <2>2
<1> QED BY <1>1, <1>3, <1>4, <1>5 DEF RegistryOK, n

LEMMA UnregisterOK ==
    ASSUME NEW r \in RegistryType, NEW b, RegistryOK(r, b), NEW i
    PROVE  Unregister(r, i) \in RegistryType /\ RegistryOK(Unregister(r, i), b)
<1> DEFINE n == Unregister(r, i)
<1>1. /\ n \in RegistryType
      /\ Entries(n) \subseteq Entries(r)
      /\ \A e \in Entries(r) : e.id # i => e \in Entries(n)
      /\ i \in Known(r) => n.tombs = r.tombs \cup {i}
      /\ n.tombs \in {r.tombs, r.tombs \cup {i}}
      /\ n.last \in {r.last, NoId} /\ (n.last = i /\ i \in Known(r) => i = NoId)
  BY UnregisterGives
<1> HIDE DEF n
<1>2. \A k \in Known(r) : k # i => k \in Known(n)
  BY <1>1 DEF Known
<1>3. LastKnown(n)
  BY <1>1, <1>2 DEF RegistryOK, LastKnown
<1>4. OneOwner(n)
  BY <1>1 DEF RegistryOK, OneOwner
<1>5. Recorded(n, b)
  BY <1>1, <1>2 DEF RegistryOK, Recorded
<1> QED BY <1>1, <1>3, <1>4, <1>5 DEF RegistryOK, n

(* createProfileForDevice: a new id, bound to the handheld if it has a     *)
(* serial number.                                                          *)
LEMMA NewHome ==
    ASSUME NEW i \in Ids
    PROVE  Home(i) \in Folders
BY DEF Folders

LEMMA CreateProfileGood ==
    ASSUME NEW w, Good(w), CanCreate(w), NEW s \in Serials \cup {NoSerial}
    PROVE  /\ Good(CreateProfile(w, s)) /\ CreateProfile(w, s).open = w.open
           /\ CreateProfile(w, s).rt = w.rt
           /\ Home(AllocateNewId(w.reg)) \in Folders
<1> DEFINE i == AllocateNewId(w.reg)
           e == [id |-> i, path |-> Home(i), serial |-> NoSerial]
           r == RegisterNew(w.reg)
           r2 == IF s = NoSerial THEN r ELSE BindSerial(r, i, s)
           x == [id |-> i, fp |-> NoFp]
           d == [w.disk EXCEPT ![Home(i)] = x]
           b == [w.born EXCEPT ![i] = @ + 1]
           w1 == [w EXCEPT !.reg = r2]
           w2 == [w1 EXCEPT !.disk = d]
           n == CreateProfile(w, s)
<1>1. /\ w \in WindowType /\ w.reg \in RegistryType /\ w.disk \in [Folders -> FolderType]
      /\ w.born \in [Ids -> Nat] /\ RegistryOK(w.reg, w.born)
  BY FieldTypes DEF Good
<1>2. i \in Ids /\ i \notin Known(w.reg) \cup w.reg.tombs
  BY <1>1, AllocateIsFresh, RegistryAssumption DEF CanCreate, Ids
<1>3. r = WithEntry(w.reg, e)
  BY DEF RegisterNew
<1> HIDE DEF i, r
<1>4. Home(i) \in Folders
  BY <1>2, NewHome
<1>5. e \in EntryType /\ e.serial = NoSerial /\ e.id = i
  BY <1>2, <1>4 DEF EntryType
<1>6. w.born[i] = 0
  <2>1. w.born[i] <= 1 /\ (w.born[i] = 1 => i \in Known(w.reg) \cup w.reg.tombs)
    BY <1>1, <1>2 DEF RegistryOK, Recorded
  <2>2. w.born[i] \in Nat
    BY <1>1, <1>2
  <2> QED BY <1>2, <2>1, <2>2
<1>7. b \in [Ids -> Nat] /\ b[i] <= 1 /\ \A k \in Ids \ {i} : b[k] = w.born[k]
  BY <1>1, <1>2, <1>6
<1> HIDE DEF e, b
<1>8. r \in RegistryType /\ RegistryOK(r, b)
  BY <1>1, <1>2, <1>3, <1>5, <1>7, WithEntryOK
<1>9. r2 \in RegistryType /\ RegistryOK(r2, b)
  BY <1>8, BindOK
<1>10. x \in FolderType
  BY <1>2, NothingOpen DEF FolderType
<1> HIDE DEF r2, x
<1>11. d \in [Folders -> FolderType]
  BY <1>1, <1>10
<1>12. n = [w EXCEPT !.reg = r2, !.disk[Home(i)] = x, !.born[i] = @ + 1]
  BY DEF CreateProfile, i, r, r2, x
<1>13. n = [w EXCEPT !.reg = r2, !.disk = d, !.born = b]
  BY <1>1, <1>12 DEF WindowType, b
<1> HIDE DEF n, d
<1>14. w1 \in WindowType /\ w1.reg = r2 /\ w1.open = w.open /\ w1.rt = w.rt
  BY <1>1, <1>9, NewReg
<1>15. w2 \in WindowType /\ w2.reg = r2 /\ w2.open = w.open /\ w2.rt = w.rt
  BY <1>11, <1>14, NewDisk
<1>16. n = [w2 EXCEPT !.born = b]
  BY <1>13
<1> HIDE DEF w1, w2
<1>17. n \in WindowType /\ n.reg = r2 /\ n.open = w.open /\ n.rt = w.rt /\ n.born = b
  BY <1>7, <1>15, <1>16, NewBorn
<1> QED BY <1>4, <1>9, <1>17 DEF Good, n, i

LEMMA WizardFine ==
    ASSUME NEW w, Good(w), CanCreate(w)
    PROVE  Fine(w, WizardResult(w))
<1> DEFINE c == CreateProfile(w, NoSerial)
<1>1. Good(c) /\ c.open = w.open /\ Home(AllocateNewId(w.reg)) \in Folders
  BY CreateProfileGood
<1> HIDE DEF c
<1>2. Fine(c, LoadProfile(c, Home(AllocateNewId(w.reg))))
  BY <1>1, LoadProfileFine
<1> QED BY <1>1, <1>2 DEF Fine, WizardResult, c

(* registerDeviceWithCurrentProfile.                                       *)
LEMMA RegisterDeviceGives ==
    ASSUME NEW w, Good(w), NEW fp \in FpType
    PROVE  LET n == RegisterDevice(w, fp) IN
           /\ Good(n) /\ n.blank = w.blank
           /\ w.open = Closed => n.open = Closed
           /\ w.open # Closed => n.open.fp = fp
<1>1. CASE w.open = Closed
  BY <1>1 DEF RegisterDevice
<1>2. CASE w.open # Closed
  <2> DEFINE o == [w.open EXCEPT !.fp = fp]
             w1 == [w EXCEPT !.open = o]
             s == Save(w1)
             r == BindSerial(s.reg, w.open.id, fp.serial)
             n == RegisterDevice(w, fp)
  <2>1. w \in WindowType /\ w.open \in OpenType /\ RegistryOK(w.reg, w.born)
    BY <1>2, FieldTypes DEF Good
  <2>2. o \in OpenType /\ o.fp = fp
    BY <2>1 DEF OpenType
  <2> HIDE DEF o
  <2>3. /\ w1 \in WindowType /\ w1.open = o /\ w1.reg = w.reg /\ w1.born = w.born
        /\ w1.blank = w.blank
    BY <2>1, <2>2, NewOpen
  <2>4. w1 = [w EXCEPT !.open.fp = fp]
    BY <2>1 DEF o, WindowType
  <2> HIDE DEF w1
  <2>5. Good(w1)
    BY <2>1, <2>3 DEF Good
  <2>6. Good(s) /\ s.open = o /\ s.reg = w.reg /\ s.born = w.born /\ s.blank = w.blank
    BY <2>3, <2>5, SaveGives
  <2>7. s \in WindowType /\ s.reg \in RegistryType /\ RegistryOK(s.reg, s.born)
    BY <2>6, FieldTypes DEF Good
  <2>8. fp.serial \in Serials \cup {NoSerial}
    BY DEF FpType
  <2>9. r \in RegistryType /\ RegistryOK(r, s.born)
    BY <2>7, <2>8, BindOK
  <2>10. n = IF fp.serial = NoSerial THEN s ELSE [s EXCEPT !.reg = r]
    BY <1>2, <2>4, <2>6 DEF RegisterDevice
  <2> HIDE DEF s, r, n
  <2>11. Good(n) /\ n.open = o /\ n.blank = w.blank
    <3>1. CASE fp.serial = NoSerial
      BY <2>6, <2>10, <3>1
    <3>2. CASE fp.serial # NoSerial
      <4>1. n = [s EXCEPT !.reg = r]
        BY <2>10, <3>2
      <4>2. n \in WindowType /\ n.reg = r /\ n.open = s.open /\ n.born = s.born
            /\ n.blank = s.blank
        BY <2>7, <2>9, <4>1, NewReg
      <4> QED BY <2>6, <2>9, <4>2 DEF Good
    <3> QED BY <3>1, <3>2
  <2> QED BY <1>2, <2>2, <2>11 DEF n
<1> QED BY <1>1, <1>2

(* It is fine for a handheld that may be the same.                         *)
LEMMA RegisterDeviceFine ==
    ASSUME NEW w, Good(w), NEW fp \in FpType, Compare(w.open.fp, fp) # "mismatch"
    PROVE  Fine(w, RegisterDevice(w, fp))
<1>1. CASE w.open = Closed
  BY <1>1, SameOpen DEF RegisterDevice, Fine
<1>2. CASE w.open # Closed
  BY <1>2, RegisterDeviceGives DEF Fine, Rebound
<1> QED BY <1>1, <1>2

(* Connections touch neither the registry nor the open profile.            *)
Keeps(w, n) ==
    Good(n) /\ n.open = w.open /\ n.reg = w.reg /\ n.blank = w.blank

LEMMA KeepsIsFine ==
    ASSUME NEW w, NEW n, Keeps(w, n)
    PROVE  Fine(w, n)
BY SameOpen DEF Keeps, Fine

LEMMA FineKeeps ==
    ASSUME NEW w, NEW n, NEW m, Fine(w, n), Keeps(n, m)
    PROVE  Fine(w, m)
BY DEF Keeps, Fine

LEMMA KeepsFine ==
    ASSUME NEW w, NEW n, NEW m, Keeps(w, n), Fine(n, m)
    PROVE  Fine(w, m)
BY DEF Keeps, Fine

LEMMA RtKeeps ==
    ASSUME NEW w, Good(w), NEW x \in RuntimeType
    PROVE  Keeps(w, [w EXCEPT !.rt = x])
<1> DEFINE n == [w EXCEPT !.rt = x]
<1>1. n \in WindowType /\ n.reg = w.reg /\ n.open = w.open /\ n.born = w.born
      /\ n.blank = w.blank
  BY NewRt DEF Good
<1> QED BY <1>1 DEF Keeps, Good

LEMMA StartConnectionKeeps ==
    ASSUME NEW w, Good(w), NEW p \in Places \cup {Nowhere}
    PROVE  Keeps(w, StartConnection(w, p))
<1> DEFINE x == [w.rt EXCEPT !.st = "connecting", !.place = p]
<1>1. w.rt \in RuntimeType
  BY FieldTypes DEF Good
<1>2. x \in RuntimeType
  BY <1>1 DEF RuntimeType, RuntimeStates
<1>3. [w EXCEPT !.rt.st = "connecting", !.rt.place = p] = [w EXCEPT !.rt = x]
  BY DEF Good, WindowType
<1>4. StartConnection(w, p) \in {[w EXCEPT !.rt = x], w}
  BY <1>3 DEF StartConnection
<1> HIDE DEF x
<1>5. Keeps(w, [w EXCEPT !.rt = x]) /\ Keeps(w, w)
  BY <1>2, RtKeeps DEF Keeps
<1> QED BY <1>4, <1>5

LEMMA DisconnectedKeeps ==
    ASSUME NEW w, Good(w)
    PROVE  Keeps(w, Disconnected(w))
<1> DEFINE x == [NewRuntime EXCEPT !.run = w.rt.run]
<1>1. w.rt.run \in BOOLEAN
  BY FieldTypes DEF Good, RuntimeType
<1>2. x \in RuntimeType
  BY <1>1 DEF RuntimeType, RuntimeStates, NewRuntime
<1>3. Disconnected(w) = [w EXCEPT !.rt = x]
  BY DEF Disconnected
<1> HIDE DEF x
<1> QED BY <1>2, <1>3, RtKeeps

LEMMA FinishConnectKeeps ==
    ASSUME NEW w, Good(w)
    PROVE  Keeps(w, FinishConnect(w))
<1>1. CASE ~IsDeviceConnected(w.rt)
  BY <1>1 DEF FinishConnect, Keeps
<1>2. CASE IsDeviceConnected(w.rt)
  <2> DEFINE x == [w.rt EXCEPT !.emits = FALSE]
             a == [device |-> TRUE, accounts |-> w.auto.accounts,
                   hot |-> w.auto.hot \/ (w.open # Closed /\ AutoSync /\ w.auto.accounts)]
             w1 == [w EXCEPT !.rt = x]
             n == FinishConnect(w)
  <2>1. w.rt \in RuntimeType /\ w.auto \in AutoType /\ w \in WindowType
    BY FieldTypes DEF Good
  <2>2. x \in RuntimeType
    BY <2>1 DEF RuntimeType
  <2>3. a \in AutoType
    <3>1. w.auto.accounts \in BOOLEAN
      BY <2>1 DEF AutoType
    <3>2. w.auto.hot \in BOOLEAN
      BY <2>1 DEF AutoType
    <3>3. w.auto.hot \/ (w.open # Closed /\ AutoSync /\ w.auto.accounts) \in BOOLEAN
      OBVIOUS
    <3> HIDE DEF w1, n
    <3> QED BY <3>1, <3>3 DEF AutoType
  <2>4. n = [w EXCEPT !.rt = x, !.auto = a]
    BY <1>2, <2>1 DEF FinishConnect, WindowType
  <2> HIDE DEF x, a, n
  <2>5. Keeps(w, w1)
    BY <2>2, RtKeeps
  <2>6. n = [w1 EXCEPT !.auto = a]
    BY <2>4
  <2> HIDE DEF w1
  <2>7. n \in WindowType /\ n.reg = w1.reg /\ n.open = w1.open /\ n.born = w1.born
        /\ n.blank = w1.blank
    BY <2>3, <2>5, <2>6, NewAuto DEF Keeps, Good
  <2> QED BY <2>5, <2>7 DEF Keeps, Good, n
<1> QED BY <1>1, <1>2

(* onAutoDeviceDetected loads a profile only when none is open.            *)
LEMMA AutoDeviceDetectedFine ==
    ASSUME NEW w, Good(w), NEW f \in Folders \cup {NoPath}, NEW p \in Places \cup {Nowhere}
    PROVE  /\ Fine(w, AutoDeviceDetected(w, f, p))
           /\ w.open # Closed => AutoDeviceDetected(w, f, p).open = w.open
           /\ f = NoPath => AutoDeviceDetected(w, f, p).open = w.open
<1>1. CASE w.rt.run
  BY <1>1, SameOpen DEF AutoDeviceDetected, Fine
<1>2. CASE ~w.rt.run
  <2> DEFINE d == IF IsDeviceConnected(w.rt) THEN Disconnected(w) ELSE w
             l == IF f # NoPath /\ d.open = Closed THEN LoadProfile(d, f) ELSE d
  <2>1. Keeps(w, d)
    BY DisconnectedKeeps DEF Keeps
  <2>2. AutoDeviceDetected(w, f, p) = StartConnection(l, p)
    BY <1>2 DEF AutoDeviceDetected
  <2> HIDE DEF d
  <2>3. Fine(d, l) /\ (w.open # Closed \/ f = NoPath => l.open = w.open)
    <3>1. CASE f # NoPath /\ d.open = Closed
      <4>1. f \in Folders /\ Good(d)
        BY <2>1, <3>1 DEF Keeps
      <4>2. Fine(d, LoadProfile(d, f))
        BY <4>1, LoadProfileFine
      <4> QED BY <2>1, <3>1, <4>2 DEF Keeps
    <3>2. CASE ~(f # NoPath /\ d.open = Closed)
      <4>1. Fine(d, d)
        BY <2>1, SameOpen DEF Keeps, Fine
      <4> QED BY <2>1, <3>2, <4>1 DEF Keeps
    <3> QED BY <3>1, <3>2
  <2> HIDE DEF l
  <2>4. Keeps(l, StartConnection(l, p))
    BY <2>3, StartConnectionKeeps DEF Fine
  <2>5. Fine(w, l)
    BY <2>1, <2>3, KeepsFine
  <2>6. Fine(w, StartConnection(l, p))
    BY <2>4, <2>5, FineKeeps
  <2> QED BY <2>2, <2>3, <2>4, <2>6 DEF Keeps
<1> QED BY <1>1, <1>2

(* The registry alone.                                                     *)
LEMMA NewRegFine ==
    ASSUME NEW w, Good(w), NEW r \in RegistryType, RegistryOK(r, w.born)
    PROVE  Fine(w, [w EXCEPT !.reg = r])
<1> DEFINE n == [w EXCEPT !.reg = r]
<1>1. n \in WindowType /\ n.reg = r /\ n.open = w.open /\ n.born = w.born
  BY NewReg DEF Good
<1> QED BY <1>1, SameOpen DEF Fine, Good

LEMMA UnregisterFine ==
    ASSUME NEW w, Good(w), NEW i
    PROVE  Fine(w, [w EXCEPT !.reg = Unregister(@, i)])
<1>1. w.reg \in RegistryType /\ RegistryOK(w.reg, w.born)
  BY FieldTypes DEF Good
<1>2. Unregister(w.reg, i) \in RegistryType /\ RegistryOK(Unregister(w.reg, i), w.born)
  BY <1>1, UnregisterOK
<1> QED BY <1>2, NewRegFine

-----------------------------------------------------------------------------
(* The monitor and the questions that are open.                            *)

LEMMA MonitorSame ==
    ASSUME MonitorOK, UNCHANGED monitorVars
    PROVE  MonitorOK'
BY DEF MonitorOK, monitorVars

LEMMA HandlersSame ==
    ASSUME HandlersOK, UNCHANGED handlerVars
    PROVE  HandlersOK'
BY DEF HandlersOK, handlerVars

LEMMA ProfilesSame ==
    ASSUME Good(Now), UNCHANGED profileVars
    PROVE  Good(Now)' /\ Rebound(open, open')
<1>1. Now' = Now /\ open' = open
  BY DEF profileVars, Now
<1>2. Good(Now')
  BY <1>1
<1> QED BY <1>1, <1>2, SameOpen

LEMMA PushedFrames ==
    ASSUME HandlersOK, NEW f, FrameOK(f), Push(f)
    PROVE  /\ stack' \in Seq(FrameType) /\ Len(stack') <= MaxDepth
           /\ \A k \in DOMAIN stack' : FrameOK(stack'[k])
<1>1. stack \in Seq(FrameType) /\ f \in FrameType /\ Len(stack) < MaxDepth
      /\ stack' = Append(stack, f)
  BY DEF HandlersOK, FrameOK, Push
<1>2. stack' \in Seq(FrameType) /\ Len(stack') = Len(stack) + 1
  BY <1>1
<1>3. Len(stack') <= MaxDepth
  BY <1>1, <1>2, WorkbenchAssumption
<1>4. ASSUME NEW k \in DOMAIN stack' PROVE FrameOK(stack'[k])
  <2>1. k \in 1..(Len(stack) + 1) /\ Len(stack) \in Nat
    BY <1>1, <1>2
  <2>2. CASE k = Len(stack) + 1
    <3>1. stack'[k] = f
      BY <1>1, <2>2
    <3> QED BY <3>1
  <2>3. CASE k # Len(stack) + 1
    <3>1. k \in 1..Len(stack)
      BY <2>1, <2>3
    <3>2. stack'[k] = stack[k] /\ k \in DOMAIN stack
      BY <1>1, <3>1
    <3> QED BY <3>2 DEF HandlersOK
  <2> QED BY <2>2, <2>3
<1> QED BY <1>2, <1>3, <1>4

LEMMA PushKeeps ==
    ASSUME HandlersOK, NEW f, FrameOK(f), Push(f),
           UNCHANGED <<serial, listening, life>>
    PROVE  HandlersOK'
BY PushedFrames DEF HandlersOK

LEMMA TopOK ==
    ASSUME HandlersOK, stack # <<>>
    PROVE  FrameOK(Top)
<1>1. stack \in Seq(FrameType)
  BY DEF HandlersOK
<1>2. Len(stack) \in DOMAIN stack
  BY <1>1
<1> QED BY <1>2 DEF HandlersOK, Top

LEMMA PopGives ==
    ASSUME HandlersOK, stack # <<>>
    PROVE  /\ Len(stack) \in Nat /\ Len(stack) > 0 /\ Len(stack) <= MaxDepth
           /\ Pop \in Seq(FrameType) /\ Len(Pop) = Len(stack) - 1
           /\ \A k \in 1..(Len(stack) - 1) : k \in DOMAIN stack /\ Pop[k] = stack[k]
<1>1. stack \in Seq(FrameType) /\ Len(stack) <= MaxDepth
  BY DEF HandlersOK
<1>2. Len(stack) \in Nat /\ Len(stack) > 0 /\ DOMAIN stack = 1..Len(stack)
  BY <1>1
<1>3. \A n \in 0..Len(stack) :
        LET t == SubSeq(stack, 1, n) IN
        t \in Seq(FrameType) /\ Len(t) = n /\ \A k \in 1..n : t[k] = stack[k]
  BY <1>1
<1>4. Len(stack) - 1 \in 0..Len(stack)
  BY <1>2
<1>5. \A k \in 1..(Len(stack) - 1) : k \in DOMAIN stack
  BY <1>2
<1> QED BY <1>1, <1>2, <1>3, <1>4, <1>5 DEF Pop

LEMMA PopKeeps ==
    ASSUME HandlersOK, stack # <<>>, stack' = Pop,
           UNCHANGED <<serial, listening, life>>
    PROVE  HandlersOK'
<1>1. /\ stack' \in Seq(FrameType) /\ Len(stack') = Len(stack) - 1
      /\ \A k \in 1..(Len(stack) - 1) : stack'[k] = stack[k] /\ k \in DOMAIN stack
  BY PopGives
<1>2. Len(stack') <= MaxDepth
  BY <1>1, PopGives, WorkbenchAssumption
<1>3. ASSUME NEW k \in DOMAIN stack' PROVE FrameOK(stack'[k])
  <2>1. stack'[k] = stack[k] /\ k \in DOMAIN stack
    BY <1>1
  <2> QED BY <2>1 DEF HandlersOK
<1> QED BY <1>1, <1>2, <1>3 DEF HandlersOK

LEMMA StacksOK ==
    ASSUME HandlersOK
    PROVE  StackOK(stack) /\ (stack # <<>> => StackOK(Pop))
<1>1. StackOK(stack)
  BY DEF HandlersOK, StackOK
<1>2. ASSUME stack # <<>> PROVE StackOK(Pop)
  <2>1. /\ Pop \in Seq(FrameType) /\ Len(Pop) = Len(stack) - 1 /\ Len(stack) \in Nat
        /\ \A k \in 1..(Len(stack) - 1) : Pop[k] = stack[k] /\ k \in DOMAIN stack
        /\ Len(stack) <= MaxDepth
    BY <1>2, PopGives
  <2>2. Len(Pop) <= MaxDepth
    BY <2>1, WorkbenchAssumption
  <2>3. ASSUME NEW k \in DOMAIN Pop PROVE FrameOK(Pop[k])
    <3>1. Pop[k] = stack[k] /\ k \in DOMAIN stack
      BY <2>1
    <3> QED BY <3>1 DEF HandlersOK
  <2> QED BY <2>1, <2>2, <2>3 DEF StackOK
<1> QED BY <1>1, <1>2

LEMMA AppendedOK ==
    ASSUME NEW st, StackOK(st), Len(st) < MaxDepth, NEW f, FrameOK(f)
    PROVE  StackOK(Append(st, f))
<1> DEFINE q == Append(st, f)
<1>1. st \in Seq(FrameType) /\ f \in FrameType /\ Len(st) \in Nat
  BY DEF StackOK, FrameOK
<1>2. q \in Seq(FrameType) /\ Len(q) = Len(st) + 1
  BY <1>1
<1>3. Len(q) <= MaxDepth
  BY <1>1, <1>2, WorkbenchAssumption
<1>4. ASSUME NEW k \in DOMAIN q PROVE FrameOK(q[k])
  <2>1. k \in 1..(Len(st) + 1)
    BY <1>2
  <2>2. CASE k = Len(st) + 1
    <3>1. q[k] = f
      BY <1>1, <2>2
    <3> QED BY <3>1
  <2>3. CASE k # Len(st) + 1
    <3>1. k \in 1..Len(st)
      BY <1>1, <2>1, <2>3
    <3>2. q[k] = st[k] /\ k \in DOMAIN st
      BY <1>1, <3>1
    <3> QED BY <3>2 DEF StackOK
  <2> QED BY <2>2, <2>3
<1> QED BY <1>2, <1>3, <1>4 DEF StackOK

LEMMA FramesOK ==
    /\ \A k \in {"wizard", "register", "notice"} : FrameOK(Frame(k))
    /\ \A k \in Kinds : Frame(k) \in FrameType
BY DEF FrameOK, Frame, FrameType, Kinds, NoId

(* The world plugs and unplugs; the monitor reads what the kernel says.    *)
LEMMA PlugKeeps ==
    ASSUME MonitorOK, NEW p \in Places, NEW h \in Handhelds, Plug(p, h)
    PROVE  MonitorOK'
<1>1. /\ bus' = [bus EXCEPT ![p] = h]
      /\ UNCHANGED <<ports, udev, tracked, shots, found>>
  BY DEF Plug
<1>2. bus' \in [Places -> Handhelds \cup {NoHandheld}]
  BY <1>1 DEF MonitorOK
<1>3. \A q \in Places : bus'[q] = NoHandheld => ports'[q] = {}
  BY <1>1, MonitorAssumption DEF MonitorOK
<1> QED BY <1>1, <1>2, <1>3 DEF MonitorOK

UdevEvents == [action : {"add", "remove"}, place : Places]

LEMMA PostKeeps ==
    ASSUME udev \in Seq(UdevEvents), NEW e \in Seq(UdevEvents), Post(e)
    PROVE  udev' \in Seq(UdevEvents)
BY DEF Post

LEMMA PortAppearsKeeps ==
    ASSUME MonitorOK, NEW p \in Places, PortAppears(p)
    PROVE  MonitorOK'
<1>1. /\ bus[p] # NoHandheld /\ UNCHANGED <<bus, tracked, shots, found>>
      /\ Post(<<Event("add", p)>>)
  BY DEF PortAppears
<1>2. PICK n \in Ports : ports' = [ports EXCEPT ![p] = @ \cup {n}]
  BY DEF PortAppears
<1>3. ports \in [Places -> SUBSET Ports] /\ udev \in Seq(UdevEvents)
  BY DEF MonitorOK, UdevEvents
<1>4. ports' \in [Places -> SUBSET Ports]
  BY <1>2, <1>3
<1>5. \A q \in Places : bus'[q] = NoHandheld => ports'[q] = {}
  BY <1>1, <1>2, <1>3 DEF MonitorOK
<1>6. Event("add", p) \in UdevEvents
  BY DEF Event, UdevEvents
<1>7. <<Event("add", p)>> \in Seq(UdevEvents)
  BY <1>6
<1>8. udev' \in Seq(UdevEvents)
  BY <1>1, <1>3, <1>7, PostKeeps
<1> QED BY <1>1, <1>4, <1>5, <1>8 DEF MonitorOK, UdevEvents

LEMMA UnplugKeeps ==
    ASSUME MonitorOK, NEW p \in Places, Unplug(p)
    PROVE  MonitorOK'
<1> DEFINE e == [n \in 1..Cardinality(ports[p]) |-> Event("remove", p)]
<1>1. /\ bus' = [bus EXCEPT ![p] = NoHandheld] /\ ports' = [ports EXCEPT ![p] = {}]
      /\ UNCHANGED <<tracked, shots, found>> /\ Post(e)
  BY DEF Unplug
<1>2. ports \in [Places -> SUBSET Ports] /\ udev \in Seq(UdevEvents)
      /\ bus \in [Places -> Handhelds \cup {NoHandheld}]
  BY DEF MonitorOK, UdevEvents
<1>3. /\ bus' \in [Places -> Handhelds \cup {NoHandheld}]
      /\ ports' \in [Places -> SUBSET Ports]
      /\ \A q \in Places : bus'[q] = NoHandheld => ports'[q] = {}
  BY <1>1, <1>2 DEF MonitorOK
<1>4. Cardinality(ports[p]) \in Nat
  BY <1>2, MonitorAssumption, FS_Subset, FS_CardinalityType
<1>5. Event("remove", p) \in UdevEvents
  BY DEF Event, UdevEvents
<1>6. e \in Seq(UdevEvents)
  BY <1>4, <1>5
<1> HIDE DEF e
<1>7. udev' \in Seq(UdevEvents)
  BY <1>1, <1>2, <1>6, PostKeeps
<1> QED BY <1>1, <1>3, <1>7 DEF MonitorOK, UdevEvents

LEMMA OnUdevEventKeeps ==
    ASSUME MonitorOK, OnUdevEvent
    PROVE  MonitorOK'
<1> DEFINE e == Head(udev)
<1>1. /\ udev \in Seq(UdevEvents) /\ udev # <<>> /\ udev' = Tail(udev)
      /\ UNCHANGED <<bus, ports, found>>
  BY DEF MonitorOK, UdevEvents, OnUdevEvent
<1>2. udev' \in Seq(UdevEvents) /\ e \in UdevEvents
  BY <1>1
<1>3. e.place \in Places
  BY <1>2 DEF UdevEvents
<1>4. Added(e.place) \/ Removed(e.place)
  BY DEF OnUdevEvent
<1> HIDE DEF e
<1>5. /\ tracked \in [Places -> Serials \cup {NoSerial, Untracked}]
      /\ shots \in Seq(Detected) /\ bus \in [Places -> Handhelds \cup {NoHandheld}]
  BY DEF MonitorOK
<1>6. CASE Added(e.place)
  <2>1. CASE UNCHANGED <<tracked, shots>>
    BY <1>1, <1>2, <2>1 DEF MonitorOK, UdevEvents
  <2>2. CASE bus[e.place] # NoHandheld /\ ~UNCHANGED <<tracked, shots>>
    <3> DEFINE s == SerialOf[bus[e.place]]
    <3>1. s \in Serials \cup {NoSerial}
      BY <1>3, <1>5, <2>2, WorkbenchAssumption
    <3>2. /\ tracked' = [tracked EXCEPT ![e.place] = s]
          /\ shots' = Append(shots, [place |-> e.place, serial |-> s])
      BY <1>6, <2>2 DEF Added
    <3> HIDE DEF s
    <3>3. [place |-> e.place, serial |-> s] \in Detected
      BY <1>3, <3>1 DEF Detected
    <3>4. shots' \in Seq(Detected)
      BY <1>5, <3>2, <3>3
    <3>5. tracked' \in [Places -> Serials \cup {NoSerial, Untracked}]
      BY <1>5, <3>1, <3>2
    <3> QED BY <1>1, <1>2, <3>4, <3>5 DEF MonitorOK, UdevEvents
  <2> QED BY <1>6, <2>1, <2>2 DEF Added
<1>7. CASE Removed(e.place)
  <2>1. shots' = shots /\ tracked' \in [Places -> Serials \cup {NoSerial, Untracked}]
    BY <1>5, <1>7 DEF Removed
  <2> QED BY <1>1, <1>2, <2>1 DEF MonitorOK, UdevEvents
<1> QED BY <1>4, <1>6, <1>7

LEMMA EnumerateTurnKeeps ==
    ASSUME MonitorOK, NEW e, EnumerateTurn(e)
    PROVE  MonitorOK' /\ e \in Detected
<1>1. /\ e \in found /\ found' = found \ {e}
      /\ tracked' = IF TurnAnnounces(e) THEN [tracked EXCEPT ![e.place] = e.serial] ELSE tracked
      /\ UNCHANGED <<bus, ports, udev, shots>>
  BY DEF EnumerateTurn
<1>2. e \in Detected /\ found' \subseteq Detected
  BY <1>1 DEF MonitorOK
<1>3. e.place \in Places /\ e.serial \in Serials \cup {NoSerial}
  BY <1>2 DEF Detected
<1>4. tracked' \in [Places -> Serials \cup {NoSerial, Untracked}]
  BY <1>1, <1>3 DEF MonitorOK
<1> QED BY <1>1, <1>2, <1>4 DEF MonitorOK

LEMMA TakeShotKeeps ==
    ASSUME MonitorOK, TakeShot
    PROVE  MonitorOK' /\ Head(shots) \in Detected
<1>1. /\ shots \in Seq(Detected) /\ shots # <<>> /\ shots' = Tail(shots)
      /\ UNCHANGED <<bus, ports, udev, tracked, found>>
  BY DEF MonitorOK, TakeShot
<1>2. shots' \in Seq(Detected) /\ Head(shots) \in Detected
  BY <1>1
<1> QED BY <1>1, <1>2 DEF MonitorOK

LEMMA StartKeeps ==
    ASSUME MonitorOK, Start
    PROVE  MonitorOK'
<1>1. /\ found' = {[place |-> p, serial |-> SerialOf[bus[p]]] :
                       p \in {q \in Places : ports[q] # {}}}
      /\ udev' = <<>> /\ UNCHANGED <<bus, ports, tracked, shots>>
  BY DEF Start, CollectPalmPorts
<1>2. ASSUME NEW p \in Places, ports[p] # {}
      PROVE  [place |-> p, serial |-> SerialOf[bus[p]]] \in Detected
  <2>1. bus[p] \in Handhelds
    BY <1>2 DEF MonitorOK
  <2>2. SerialOf[bus[p]] \in Serials \cup {NoSerial}
    BY <2>1, WorkbenchAssumption
  <2> QED BY <2>2 DEF Detected
<1>3. found' \subseteq Detected
  BY <1>1, <1>2
<1>4. udev' \in Seq(UdevEvents)
  BY <1>1
<1> QED BY <1>1, <1>3, <1>4 DEF MonitorOK, UdevEvents

LEMMA StopsWith ==
    ASSUME MonitorOK, udev' = <<>>, shots' = <<>>, found' = {},
           tracked' = [p \in Places |-> Untracked], UNCHANGED <<bus, ports>>
    PROVE  MonitorOK'
<1>1. udev' \in Seq(UdevEvents) /\ shots' \in Seq(Detected) /\ found' \subseteq Detected
  OBVIOUS
<1> QED BY <1>1 DEF MonitorOK, UdevEvents

-----------------------------------------------------------------------------
(* What every step must do.                                                *)
Stepped == IInv' /\ (Rebound(open, open') \/ NamesTop)

LEMMA DetectedKeeps ==
    ASSUME IInv, NEW p \in Places, NEW s \in Serials \cup {NoSerial}, OnPalmDetected(p, s)
    PROVE  Good(Now)' /\ Rebound(open, open') /\ HandlersOK'
<1>1. Good(Now) /\ HandlersOK
  BY DEF IInv
<1>2. CASE Busy /\ UNCHANGED <<profileVars, handlerVars>>
  BY <1>1, <1>2, ProfilesSame, HandlersSame
<1>3. CASE ~Busy
  <2>1. serial' = s /\ UNCHANGED <<listening, life>>
    BY <1>3 DEF OnPalmDetected
  <2>2. CASE \E f \in ProfileOf(s) :
               Become(AutoDeviceDetected(Now, f, p)) /\ UNCHANGED stack
    <3>1. PICK f \in ProfileOf(s) :
               Become(AutoDeviceDetected(Now, f, p)) /\ UNCHANGED stack
      BY <2>2
    <3>2. reg \in RegistryType
      <4>1. Now.reg \in RegistryType
        BY <1>1, FieldTypes DEF Good
      <4> QED BY <4>1 DEF Now
    <3>3. f \in Folders
      <4>1. PICK e \in Entries(reg) : f = e.path
        BY DEF ProfileOf, FindBySerial
      <4> QED BY <3>2, <4>1, KnownAreIds
    <3>4. Fine(Now, AutoDeviceDetected(Now, f, p))
      BY <1>1, <3>3, AutoDeviceDetectedFine
    <3>5. Good(Now)' /\ Rebound(open, open')
      BY <3>1, <3>4, FineStep
    <3>6. HandlersOK'
      BY <1>1, <2>1, <3>1 DEF HandlersOK
    <3> QED BY <3>5, <3>6
  <2>3. CASE /\ Len(stack) < MaxDepth
             /\ stack' = Append(stack, [Frame("register") EXCEPT !.place = p, !.serial = s])
             /\ UNCHANGED profileVars
    <3> DEFINE f == [Frame("register") EXCEPT !.place = p, !.serial = s]
    <3>1. Good(Now)' /\ Rebound(open, open')
      BY <1>1, <2>3, ProfilesSame
    <3>2. Frame("register") \in FrameType /\ Frame("register").kind = "register"
      BY FramesOK DEF Kinds, Frame
    <3>3. f \in FrameType /\ f.kind = "register"
      BY <3>2 DEF FrameType
    <3> HIDE DEF f
    <3>4. FrameOK(f)
      BY <3>3 DEF FrameOK
    <3>5. Push(f)
      BY <2>3 DEF Push, f
    <3>6. /\ stack' \in Seq(FrameType) /\ Len(stack') <= MaxDepth
          /\ \A k \in DOMAIN stack' : FrameOK(stack'[k])
      BY <1>1, <3>4, <3>5, PushedFrames
    <3>7. HandlersOK'
      BY <1>1, <2>1, <3>6 DEF HandlersOK
    <3> QED BY <3>1, <3>7
  <2> QED BY <1>3, <2>2, <2>3 DEF OnPalmDetected
<1> QED BY <1>2, <1>3 DEF OnPalmDetected

LEMMA UnattendedKeeps ==
    ASSUME IInv, Unattended
    PROVE  Good(Now)' /\ Rebound(open, open') /\ HandlersOK'
BY ProfilesSame, HandlersSame DEF IInv, Unattended

LEMMA EnumerateSteps ==
    ASSUME IInv, Enumerate
    PROVE  Stepped
<1>1. PICK e \in found :
         /\ EnumerateTurn(e)
         /\ IF TurnAnnounces(e) THEN OnPalmDetected(e.place, e.serial) ELSE Unattended
  BY DEF Enumerate
<1>2. MonitorOK' /\ e \in Detected
  BY <1>1, EnumerateTurnKeeps DEF IInv
<1>3. e.place \in Places /\ e.serial \in Serials \cup {NoSerial}
  BY <1>2 DEF Detected
<1>4. Good(Now)' /\ Rebound(open, open') /\ HandlersOK'
  BY <1>1, <1>3, DetectedKeeps, UnattendedKeeps
<1> QED BY <1>2, <1>4 DEF Stepped, IInv

LEMMA ShotSteps ==
    ASSUME IInv, Shot
    PROVE  Stepped
<1> DEFINE e == Head(shots)
<1>1. /\ TakeShot
      /\ IF ShotAnnounces THEN OnPalmDetected(e.place, e.serial) ELSE Unattended
  BY DEF Shot
<1>2. MonitorOK' /\ e \in Detected
  BY <1>1, TakeShotKeeps DEF IInv
<1> HIDE DEF e
<1>3. e.place \in Places /\ e.serial \in Serials \cup {NoSerial}
  BY <1>2 DEF Detected
<1>4. Good(Now)' /\ Rebound(open, open') /\ HandlersOK'
  BY <1>1, <1>3, DetectedKeeps, UnattendedKeeps
<1> QED BY <1>2, <1>4 DEF Stepped, IInv

LEMMA WorldSteps ==
    ASSUME IInv, World
    PROVE  Stepped
<1>1. MonitorOK'
  BY PlugKeeps, PortAppearsKeeps, UnplugKeeps, OnUdevEventKeeps DEF World, IInv
<1>2. Good(Now)' /\ Rebound(open, open') /\ HandlersOK'
  BY UnattendedKeeps DEF World
<1> QED BY <1>1, <1>2 DEF Stepped, IInv

-----------------------------------------------------------------------------
(* The end of an attempt.                                                  *)

LEMMA PushSteps ==
    ASSUME IInv, NEW w, Fine(Now, w), Become(w), NEW f, FrameOK(f), Push(f),
           UNCHANGED <<monitorVars, serial, listening, life>>
    PROVE  Stepped
<1>1. Good(Now)' /\ Rebound(open, open')
  BY FineStep
<1>2. HandlersOK' /\ MonitorOK'
  BY PushKeeps, MonitorSame DEF IInv
<1> QED BY <1>1, <1>2 DEF Stepped, IInv

LEMMA BecomeSteps ==
    ASSUME IInv, NEW w, Fine(Now, w), Become(w), UNCHANGED <<monitorVars, handlerVars>>
    PROVE  Stepped
<1>1. Good(Now)' /\ Rebound(open, open')
  BY FineStep
<1>2. HandlersOK' /\ MonitorOK'
  BY HandlersSame, MonitorSame DEF IInv
<1> QED BY <1>1, <1>2 DEF Stepped, IInv

LEMMA PathsOf ==
    ASSUME NEW w, Good(w), NEW s, NEW e \in FindBySerial(w.reg, s)
    PROVE  e.path \in Folders /\ e.id \in Ids
<1>1. w.reg \in RegistryType
  BY FieldTypes DEF Good
<1> QED BY <1>1, KnownAreIds DEF FindBySerial

LEMMA NothingVolatile ==
    /\ NoRuntime \in RuntimeType
    /\ [device |-> FALSE, accounts |-> FALSE, hot |-> FALSE] \in AutoType
<1>1. NewRuntime \in RuntimeType
  BY DEF NewRuntime, RuntimeType, RuntimeStates
<1> QED BY <1>1 DEF NoRuntime, RuntimeType, RuntimeStates, AutoType

LEMMA GoneSteps ==
    ASSUME IInv, NEW w, Good(w), Gone(w)
    PROVE  Stepped
<1> DEFINE a == [device |-> FALSE, accounts |-> FALSE, hot |-> FALSE]
           w1 == [w EXCEPT !.open = Closed]
           w2 == [w1 EXCEPT !.rt = NoRuntime]
           w3 == [w2 EXCEPT !.auto = a]
<1>1. w1 \in WindowType /\ w1.open = Closed /\ w1.reg = w.reg /\ w1.born = w.born
      /\ w1.disk = w.disk /\ w1.blank = w.blank
  BY NewOpen DEF Good
<1> HIDE DEF w1
<1>2. w2 \in WindowType /\ w2.open = Closed /\ w2.reg = w.reg /\ w2.born = w.born
      /\ w2.disk = w.disk /\ w2.rt = NoRuntime /\ w2.blank = w.blank
  BY <1>1, NewRt, NothingVolatile
<1> HIDE DEF w2
<1>3. w3 \in WindowType /\ w3.open = Closed /\ w3.reg = w.reg /\ w3.born = w.born
      /\ w3.disk = w.disk /\ w3.rt = NoRuntime /\ w3.auto = a /\ w3.blank = w.blank
  BY <1>2, NewAuto, NothingVolatile
<1> HIDE DEF w3
<1>4. Become(w3)
  BY <1>3 DEF Gone, Become
<1>5. Now.open = open /\ Now.open \in OpenType \cup {Closed}
  BY FieldTypes DEF IInv, Good, Now
<1>6. Fine(Now, w3)
  BY <1>3, <1>5, ClosesWell DEF Fine, Good
<1>7. Good(Now)' /\ Rebound(open, open')
  BY <1>4, <1>6, FineStep
<1>8. MonitorOK'
  BY StopsWith DEF IInv, Gone
<1>9. stack' \in Seq(FrameType) /\ Len(stack') = 0 /\ DOMAIN stack' = {}
  BY DEF Gone
<1>10. HandlersOK'
  BY <1>9, WorkbenchAssumption DEF Gone, HandlersOK
<1> QED BY <1>7, <1>8, <1>10 DEF Stepped, IInv

LEMMA LeavesSteps ==
    ASSUME IInv, NEW w, Good(w), NEW st, StackOK(st), Leaves(w, st),
           Rebound(open, w.open) \/ NamesTop
    PROVE  Stepped
<1>1. Become(w) /\ stack' = st /\ UNCHANGED <<monitorVars, serial, listening, life>>
  BY DEF Leaves
<1>2. Now' = w /\ open' = w.open
  BY <1>1, BecomeIs DEF Good
<1>3. Good(Now')
  BY <1>2
<1>4. MonitorOK'
  BY <1>1, MonitorSame DEF IInv
<1>5. HandlersOK'
  BY <1>1 DEF IInv, HandlersOK, StackOK
<1> QED BY <1>2, <1>3, <1>4, <1>5 DEF Stepped, IInv

LEMMA OpenIs == Now.open = open /\ Now.rt = rt /\ Now.reg = reg /\ Now.blank = blank
BY DEF Now

LEMMA FineLeaves ==
    ASSUME IInv, NEW w, Fine(Now, w), NEW st, StackOK(st), Leaves(w, st)
    PROVE  Stepped
BY LeavesSteps, OpenIs DEF Fine

(* The end of onConnectionComplete, and what comes before it.              *)
LEMMA FinishesSteps ==
    ASSUME IInv, NEW w, Fine(Now, w), NEW st, StackOK(st), Finishes(w, st)
    PROVE  Stepped
<1>1. CASE Leaves(FinishConnect(w), st)
  <2>1. Fine(Now, FinishConnect(w))
    BY FinishConnectKeeps, FineKeeps DEF Fine
  <2> QED BY <1>1, <2>1, FineLeaves
<1>2. CASE Leaves(w, st)
  BY <1>2, FineLeaves
<1>3. CASE Gone(w)
  BY <1>3, GoneSteps DEF Fine
<1> QED BY <1>1, <1>2, <1>3 DEF Finishes

LEMMA GoesOnSteps ==
    ASSUME IInv, NEW w, Fine(Now, w), NEW st, StackOK(st), NEW h \in Handhelds, NEW u,
           GoesOn(w, st, h, u)
    PROVE  Stepped
<1>1. CASE Finishes(w, st)
  BY <1>1, FinishesSteps
<1>2. CASE Len(st) < MaxDepth
           /\ Leaves(w, Append(st, [Frame("initialize") EXCEPT !.held = h]))
  <2> DEFINE f == [Frame("initialize") EXCEPT !.held = h]
  <2>1. Frame("initialize") \in FrameType /\ Frame("initialize").kind = "initialize"
    BY FramesOK DEF Kinds, Frame
  <2>2. f \in FrameType /\ f.kind = "initialize" /\ f.held = h
    BY <2>1 DEF FrameType
  <2> HIDE DEF f
  <2>3. FrameOK(f)
    BY <2>2 DEF FrameOK
  <2>4. StackOK(Append(st, f))
    BY <1>2, <2>3, AppendedOK
  <2> QED BY <1>2, <2>4, FineLeaves DEF f
<1> QED BY <1>1, <1>2 DEF GoesOn

LEMMA QuestionsSteps ==
    ASSUME IInv, NEW w, Fine(Now, w), NEW f, FrameOK(f), Questions(w, f)
    PROVE  Stepped
<1>1. StackOK(Append(stack, f))
  BY StacksOK, AppendedOK DEF IInv, Questions
<1> QED BY <1>1, FineLeaves DEF Questions

LEMMA FingerprintSteps ==
    ASSUME IInv, NEW w, Keeps(Now, w), NEW h \in Handhelds, NEW fp \in FpType,
           HandleFingerprint(w, h, fp)
    PROVE  Stepped
<1>1. Good(w) /\ Fine(Now, w) /\ StackOK(stack)
  BY KeepsIsFine, StacksOK DEF Keeps, IInv
<1>2. CASE GoesOn(w, stack, h, fp.user)
  BY <1>1, <1>2, GoesOnSteps
<1>3. CASE /\ Compare(w.open.fp, fp) = "indeterminate"
           /\ GoesOn(RegisterDevice(w, fp), stack, h, fp.user)
  <2>1. Fine(w, RegisterDevice(w, fp))
    BY <1>1, <1>3, RegisterDeviceFine
  <2>2. Fine(Now, RegisterDevice(w, fp))
    BY <2>1, KeepsFine
  <2> QED BY <1>1, <1>3, <2>2, GoesOnSteps
<1>4. CASE Questions(w, [Frame("mismatch") EXCEPT !.held = h, !.user = fp.user,
                                                  !.serial = fp.serial])
  <2> DEFINE f == [Frame("mismatch") EXCEPT !.held = h, !.user = fp.user,
                                            !.serial = fp.serial]
  <2>1. Frame("mismatch") \in FrameType /\ Frame("mismatch").kind = "mismatch"
    BY FramesOK DEF Kinds, Frame
  <2>2. fp.user \in Handhelds \cup {NoHandheld} /\ fp.serial \in Serials \cup {NoSerial}
    BY DEF FpType
  <2>3. f \in FrameType /\ f.kind = "mismatch" /\ f.held = h
    BY <2>1, <2>2 DEF FrameType
  <2> HIDE DEF f
  <2>4. FrameOK(f)
    BY <2>3 DEF FrameOK
  <2> QED BY <1>1, <1>4, <2>4, QuestionsSteps DEF f
<1> QED BY <1>2, <1>3, <1>4 DEF HandleFingerprint

LEMMA KnownSteps ==
    ASSUME IInv, NEW w, Keeps(Now, w), NEW s, NEW e \in FindBySerial(w.reg, s),
           NEW h \in Handhelds, NEW u \in Handhelds \cup {NoHandheld},
           Questions(w, [Frame("known") EXCEPT !.held = h, !.user = u, !.path = e.path])
    PROVE  Stepped
<1> DEFINE f == [Frame("known") EXCEPT !.held = h, !.user = u, !.path = e.path]
<1>1. Frame("known") \in FrameType /\ Frame("known").kind = "known"
  BY FramesOK DEF Kinds, Frame
<1>2. e.path \in Folders
  BY PathsOf DEF Keeps
<1>3. f \in FrameType /\ f.kind = "known" /\ f.path = e.path /\ f.held = h
  BY <1>1, <1>2 DEF FrameType
<1> HIDE DEF f
<1>4. FrameOK(f)
  BY <1>2, <1>3 DEF FrameOK
<1> QED BY <1>4, KeepsIsFine, QuestionsSteps DEF f

LEMMA AttemptSucceedsSteps ==
    ASSUME IInv, AttemptSucceeds
    PROVE  Stepped
<1> DEFINE x == [rt EXCEPT !.st = "up", !.emits = TRUE]
           w == [Now EXCEPT !.rt.st = "up", !.rt.emits = TRUE]
           h == bus[rt.place]
           fp == [user |-> UserOf(h), serial |-> serial]
<1>1. Good(Now) /\ HandlersOK /\ MonitorOK /\ Now.rt = rt /\ rt \in RuntimeType
  BY FieldTypes DEF IInv, Good, Now
<1>2. x \in RuntimeType
  BY <1>1 DEF RuntimeType, RuntimeStates
<1>3. w = [Now EXCEPT !.rt = x]
  BY <1>1 DEF Now
<1>4. Keeps(Now, w)
  BY <1>1, <1>2, <1>3, RtKeeps
<1>5. rt.place \in Places
  BY <1>1 DEF AttemptSucceeds, RuntimeType
<1>6. h \in Handhelds
  BY <1>1, <1>5 DEF MonitorOK, AttemptSucceeds
<1>7. OnConnectionComplete(w, h, fp) \/ Finishes(w, stack)
  BY DEF AttemptSucceeds
<1> HIDE DEF w, h
<1>8. fp \in FpType /\ fp.user \in Handhelds \cup {NoHandheld}
  BY <1>1, <1>6 DEF FpType, HandlersOK, UserOf
<1> HIDE DEF fp
<1>9. Fine(Now, w) /\ StackOK(stack)
  BY <1>1, <1>4, KeepsIsFine, StacksOK
<1>10. CASE Finishes(w, stack)
  BY <1>9, <1>10, FinishesSteps
<1>11. CASE OnConnectionComplete(w, h, fp)
  <2>1. CASE HandleFingerprint(w, h, fp)
    BY <1>4, <1>6, <1>8, <2>1, FingerprintSteps
  <2>2. CASE \E e \in FindBySerial(w.reg, fp.serial) :
               Questions(w, [Frame("known") EXCEPT !.held = h, !.user = fp.user,
                                                   !.path = e.path])
    BY <1>4, <1>6, <1>8, <2>2, KnownSteps
  <2>3. CASE GoesOn(w, stack, h, fp.user)
    BY <1>6, <1>9, <2>3, GoesOnSteps
  <2> QED BY <1>11, <2>1, <2>2, <2>3 DEF OnConnectionComplete
<1> QED BY <1>7, <1>10, <1>11

LEMMA RtSteps ==
    ASSUME IInv, NEW x \in RuntimeType, rt' = x,
           UNCHANGED <<monitorVars, reg, disk, open, auto, born, blank, handlerVars>>
    PROVE  Stepped
<1> DEFINE w == [Now EXCEPT !.rt = x]
<1>1. Keeps(Now, w)
  BY RtKeeps DEF IInv
<1>2. Become(w)
  BY DEF Become, Now
<1> QED BY <1>1, <1>2, KeepsIsFine, BecomeSteps

LEMMA AutoSteps ==
    ASSUME IInv, NEW x \in RuntimeType, rt' = x, NEW a \in AutoType, auto' = a,
           UNCHANGED <<monitorVars, reg, disk, open, born, blank, handlerVars>>
    PROVE  Stepped
<1> DEFINE w1 == [Now EXCEPT !.rt = x]
           w == [w1 EXCEPT !.auto = a]
<1>1. Keeps(Now, w1)
  BY RtKeeps DEF IInv
<1>2. Become(w)
  BY DEF Become, Now
<1> HIDE DEF w1
<1>3. w \in WindowType /\ w.reg = w1.reg /\ w.open = w1.open /\ w.born = w1.born
      /\ w.blank = w1.blank
  BY <1>1, NewAuto DEF Keeps, Good
<1> HIDE DEF w
<1>4. Keeps(Now, w)
  BY <1>1, <1>3 DEF Keeps, Good
<1> QED BY <1>2, <1>4, KeepsIsFine, BecomeSteps

LEMMA RuntimeTyped ==
    ASSUME IInv
    PROVE  rt \in RuntimeType /\ auto \in AutoType
<1>1. Now.rt \in RuntimeType /\ Now.auto \in AutoType
  BY FieldTypes DEF IInv, Good
<1> QED BY <1>1 DEF Now

LEMMA ConnectionSteps ==
    ASSUME IInv, AttemptFails \/ DeviceLost \/ RunEnds
    PROVE  Stepped
<1>1. rt \in RuntimeType
  BY RuntimeTyped
<1>2. CASE AttemptFails \/ DeviceLost
  <2> DEFINE x == [rt EXCEPT !.st = "down", !.place = Nowhere]
             y == [rt EXCEPT !.st = "down", !.place = Nowhere, !.shows = FALSE]
  <2>1. x \in RuntimeType /\ y \in RuntimeType
    BY <1>1 DEF RuntimeType, RuntimeStates
  <2>2. /\ rt' = x \/ rt' = y
        /\ UNCHANGED <<monitorVars, reg, disk, open, auto, born, blank, handlerVars>>
    BY <1>2 DEF AttemptFails, DeviceLost
  <2> QED BY <2>1, <2>2, RtSteps
<1>3. CASE RunEnds
  <2> DEFINE x == [rt EXCEPT !.run = FALSE]
  <2>1. x \in RuntimeType
    BY <1>1 DEF RuntimeType
  <2>2. rt' = x /\ UNCHANGED <<monitorVars, reg, disk, open, auto, born, blank, handlerVars>>
    BY <1>3 DEF RunEnds
  <2> QED BY <2>1, <2>2, RtSteps
<1> QED BY <1>2, <1>3

LEMMA HotSyncTyped ==
    ASSUME IInv, HotSync
    PROVE  rt' \in RuntimeType
<1>1. rt \in RuntimeType
  BY RuntimeTyped
<1>2. [rt EXCEPT !.run = rt.run \/ IsDeviceConnected(rt)] \in RuntimeType
  <2>1. (rt.run \/ IsDeviceConnected(rt)) \in BOOLEAN
    OBVIOUS
  <2> QED BY <1>1, <2>1 DEF RuntimeType
<1> QED BY <1>2 DEF HotSync

LEMMA SyncSteps ==
    ASSUME IInv, AccountsReady \/ AutoHotSync \/ Sync
    PROVE  Stepped
<1>1. rt \in RuntimeType /\ auto \in AutoType
  BY RuntimeTyped
<1>2. CASE AccountsReady
  <2> DEFINE h == auto.hot \/ (auto.device /\ AutoSync)
             a == [auto EXCEPT !.accounts = TRUE, !.hot = h]
  <2>1. h \in BOOLEAN
    OBVIOUS
  <2>2. auto' = a /\ rt' = rt /\ UNCHANGED <<monitorVars, reg, disk, open, born, blank, handlerVars>>
    BY <1>2 DEF AccountsReady
  <2> HIDE DEF h
  <2>3. a \in AutoType
    BY <1>1, <2>1 DEF AutoType
  <2> QED BY <1>1, <2>2, <2>3, AutoSteps
<1>3. CASE AutoHotSync
  <2> DEFINE a == [auto EXCEPT !.hot = FALSE]
  <2>1. a \in AutoType
    BY <1>1 DEF AutoType
  <2>2. auto' = a /\ HotSync /\ UNCHANGED <<monitorVars, reg, disk, open, born, blank, handlerVars>>
    BY <1>3 DEF AutoHotSync
  <2>3. rt' \in RuntimeType
    BY <2>2, HotSyncTyped
  <2> QED BY <2>1, <2>2, <2>3, AutoSteps
<1>4. CASE Sync
  <2>1. HotSync /\ UNCHANGED <<monitorVars, reg, disk, open, auto, born, blank, handlerVars>>
    BY <1>4 DEF Sync
  <2>2. rt' \in RuntimeType
    BY <2>1, HotSyncTyped
  <2> QED BY <2>1, <2>2, RtSteps
<1> QED BY <1>2, <1>3, <1>4

-----------------------------------------------------------------------------
(* Launching and leaving.                                                  *)

LEMMA LaunchSteps ==
    ASSUME IInv, Launch
    PROVE  Stepped
<1>1. Start /\ life' = "launching" /\ UNCHANGED <<profileVars, serial, listening, stack>>
  BY DEF Launch
<1>2. MonitorOK'
  BY <1>1, StartKeeps DEF IInv
<1>3. HandlersOK'
  BY <1>1 DEF IInv, HandlersOK
<1>4. Good(Now)' /\ Rebound(open, open')
  BY <1>1, ProfilesSame DEF IInv
<1> QED BY <1>2, <1>3, <1>4 DEF Stepped, IInv

LEMMA StartupFolder ==
    ASSUME IInv, Available # {}
    PROVE  reg.cache[StartupEntry].path \in Folders
<1>1. reg \in RegistryType
  <2>1. Now.reg \in RegistryType
    BY FieldTypes DEF IInv, Good
  <2> QED BY <2>1 DEF Now
<1>2. reg.cache \in Seq(EntryType) /\ DOMAIN reg.cache \subseteq Nat
  BY <1>1 DEF RegistryType
<1>3. Available \in SUBSET Nat /\ Available \subseteq DOMAIN reg.cache
  BY <1>2 DEF Available
<1>4. \E k \in Available : \A j \in Available : k <= j
  BY <1>3, LeastExists
<1>5. StartupEntry \in Available
  BY <1>4 DEF StartupEntry
<1>6. reg.cache[StartupEntry] \in EntryType
  BY <1>2, <1>3, <1>5
<1> QED BY <1>6 DEF EntryType

LEMMA ResolveSteps ==
    ASSUME IInv, ResolveStartupProfile
    PROVE  Stepped
<1>1. life' = "running" /\ UNCHANGED <<monitorVars, serial, listening>>
  BY DEF ResolveStartupProfile
<1>2. MonitorOK' /\ Good(Now) /\ HandlersOK
  BY <1>1, MonitorSame DEF IInv
<1>3. CASE /\ Available # {} /\ Become(LoadProfile(Now, reg.cache[StartupEntry].path))
           /\ UNCHANGED stack
  <2>1. Fine(Now, LoadProfile(Now, reg.cache[StartupEntry].path))
    BY <1>2, <1>3, StartupFolder, LoadProfileFine
  <2>2. Good(Now)' /\ Rebound(open, open')
    BY <1>3, <2>1, FineStep
  <2>3. HandlersOK'
    BY <1>1, <1>2, <1>3 DEF HandlersOK
  <2> QED BY <1>2, <2>2, <2>3 DEF Stepped, IInv
<1>4. CASE Push(Frame("wizard")) /\ UNCHANGED profileVars
  <2>1. FrameOK(Frame("wizard"))
    BY FramesOK
  <2>2. /\ stack' \in Seq(FrameType) /\ Len(stack') <= MaxDepth
        /\ \A k \in DOMAIN stack' : FrameOK(stack'[k])
    BY <1>2, <1>4, <2>1, PushedFrames
  <2>3. HandlersOK'
    BY <1>1, <1>2, <2>2 DEF HandlersOK
  <2>4. Good(Now)' /\ Rebound(open, open')
    BY <1>2, <1>4, ProfilesSame
  <2> QED BY <1>2, <2>3, <2>4 DEF Stepped, IInv
<1> QED BY <1>3, <1>4 DEF ResolveStartupProfile

-----------------------------------------------------------------------------
(* Answers.                                                                *)

LEMMA ReturnSteps ==
    ASSUME IInv, stack # <<>>, NEW w, Fine(Now, w), Return(w)
    PROVE  Stepped
BY StacksOK, FineLeaves DEF Return, IInv

LEMMA NowIsFine ==
    ASSUME IInv
    PROVE  Good(Now) /\ Keeps(Now, Now) /\ Fine(Now, Now)
BY KeepsIsFine DEF IInv, Keeps

LEMMA TopTyped ==
    ASSUME IInv, stack # <<>>
    PROVE  /\ Top.serial \in Serials \cup {NoSerial} /\ Top.place \in Places \cup {Nowhere}
           /\ Top.kind \in {"known", "forget"} => Top.path \in Folders
           /\ Top.kind = "forget" => Top.id \in Ids
           /\ Top.kind \in {"mismatch", "known", "initialize", "userinfo"} => Top.held \in Handhelds
BY TopOK DEF IInv, FrameOK, FrameType

LEMMA AnswerWizardSteps ==
    ASSUME IInv, AnswerWizard
    PROVE  Stepped
BY NowIsFine, WizardFine, ReturnSteps DEF AnswerWizard, Waits

LEMMA AnswerNoticeSteps ==
    ASSUME IInv, AnswerNotice
    PROVE  Stepped
BY NowIsFine, ReturnSteps DEF AnswerNotice, Waits

LEMMA AnswerRegisterSteps ==
    ASSUME IInv, AnswerRegister
    PROVE  Stepped
<1>1. stack # <<>> /\ Top.serial \in Serials \cup {NoSerial} /\ Top.place \in Places \cup {Nowhere}
  BY TopTyped DEF AnswerRegister, Waits
<1>2. Good(Now) /\ Now.reg = reg /\ Now.open = open
  BY NowIsFine DEF Now
<1>3. ASSUME CanCreate(Now),
             LET c == CreateProfile(Now, Top.serial)
                 d == AutoDeviceDetected(c, Home(AllocateNewId(reg)), Nowhere)
             IN Return(AutoDeviceDetected(d, NoPath, Top.place))
      PROVE  Stepped
  <2> DEFINE c == CreateProfile(Now, Top.serial)
             h == Home(AllocateNewId(reg))
             d == AutoDeviceDetected(c, h, Nowhere)
             n == AutoDeviceDetected(d, NoPath, Top.place)
  <2>1. Good(c) /\ c.open = Now.open /\ h \in Folders
    BY <1>1, <1>2, <1>3, CreateProfileGood
  <2>2. Return(n)
    BY <1>3
  <2> HIDE DEF c, h
  <2>3. Fine(c, d)
    BY <2>1, AutoDeviceDetectedFine
  <2> HIDE DEF d
  <2>4. Fine(d, n) /\ n.open = d.open
    BY <1>1, <2>3, AutoDeviceDetectedFine DEF Fine
  <2> HIDE DEF n
  <2>5. Fine(Now, n)
    BY <2>1, <2>3, <2>4 DEF Fine
  <2> QED BY <1>1, <2>2, <2>5, ReturnSteps
<1>4. ASSUME Return(AutoDeviceDetected(Now, NoPath, Top.place)) PROVE Stepped
  BY <1>1, <1>2, <1>4, AutoDeviceDetectedFine, ReturnSteps
<1>5. ASSUME stack' = Append(Pop, Frame("notice")),
             UNCHANGED <<monitorVars, profileVars, serial, listening, life>>
      PROVE  Stepped
  <2>1. Good(Now)' /\ Rebound(open, open')
    BY <1>2, <1>5, ProfilesSame
  <2>2. MonitorOK'
    BY <1>5, MonitorSame DEF IInv
  <2> DEFINE q == Pop
             g == Frame("notice")
  <2>3. Len(stack) \in Nat /\ Len(stack) > 0 /\ Len(stack) <= MaxDepth
    BY <1>1, PopGives DEF IInv
  <2>4. /\ q \in Seq(FrameType) /\ Len(q) = Len(stack) - 1
        /\ \A k \in 1..(Len(stack) - 1) : k \in DOMAIN stack /\ q[k] = stack[k]
    BY <1>1, PopGives DEF IInv
  <2>5. FrameOK(g) /\ g \in FrameType
    BY FramesOK DEF Kinds
  <2>6. stack' = Append(q, g)
    BY <1>5
  <2> HIDE DEF q, g
  <2>7. stack' \in Seq(FrameType) /\ Len(stack') = Len(stack)
    BY <2>3, <2>4, <2>5, <2>6
  <2>8. ASSUME NEW k \in DOMAIN stack' PROVE FrameOK(stack'[k])
    <3>1. k \in 1..Len(stack)
      BY <2>7
    <3>2. CASE k = Len(stack)
      <4>1. stack'[k] = g
        BY <2>3, <2>4, <2>6, <3>2
      <4> QED BY <2>5, <4>1
    <3>3. CASE k # Len(stack)
      <4>1. k \in 1..(Len(stack) - 1) /\ k \in DOMAIN stack
        BY <2>3, <2>4, <3>1, <3>3
      <4>2. stack'[k] = stack[k]
        BY <2>3, <2>4, <2>6, <4>1
      <4> QED BY <4>1, <4>2 DEF IInv, HandlersOK
    <3> QED BY <3>2, <3>3
  <2>9. Len(stack') <= MaxDepth
    BY <2>3, <2>7
  <2>10. HandlersOK'
    BY <1>5, <2>7, <2>8, <2>9 DEF IInv, HandlersOK
  <2> QED BY <2>1, <2>2, <2>10 DEF Stepped, IInv
<1> QED BY <1>3, <1>4, <1>5 DEF AnswerRegister

LEMMA AnswerMismatchSteps ==
    ASSUME IInv, AnswerMismatch
    PROVE  Stepped
<1>1. stack # <<>> /\ Good(Now) /\ Now.reg = reg /\ Now.rt = rt /\ StackOK(Pop)
  BY NowIsFine, StacksOK DEF AnswerMismatch, Waits, Now, IInv
<1>2. Top.held \in Handhelds
  BY TopTyped DEF AnswerMismatch, Waits
<1>3. CASE GoesOn(Now, Pop, Top.held, Top.user)
  BY <1>1, <1>2, <1>3, NowIsFine, GoesOnSteps
<1>4. CASE Finishes(IF rt.emits THEN [Now EXCEPT !.rt.st = "closed"] ELSE Now, Pop)
  <2> DEFINE x == [rt EXCEPT !.st = "closed"]
             w == [Now EXCEPT !.rt = x]
  <2>1. x \in RuntimeType
    BY RuntimeTyped DEF RuntimeType, RuntimeStates
  <2>2. [Now EXCEPT !.rt.st = "closed"] = w
    BY DEF Now
  <2> HIDE DEF x
  <2>3. Fine(Now, w)
    BY <1>1, <2>1, RtKeeps, KeepsIsFine
  <2> HIDE DEF w
  <2>4. Finishes(w, Pop) \/ Finishes(Now, Pop)
    BY <1>4, <2>2
  <2> QED BY <1>1, <2>3, <2>4, NowIsFine, FinishesSteps
<1>5. CASE \E e \in FindBySerial(reg, Top.serial) :
              GoesOn(LoadProfile(Now, e.path), Pop, Top.held, Top.user)
  <2>1. PICK e \in FindBySerial(reg, Top.serial) :
           GoesOn(LoadProfile(Now, e.path), Pop, Top.held, Top.user)
    BY <1>5
  <2>2. e.path \in Folders
    BY <1>1, PathsOf
  <2>3. Fine(Now, LoadProfile(Now, e.path))
    BY <1>1, <2>2, LoadProfileFine
  <2> QED BY <1>1, <1>2, <2>1, <2>3, GoesOnSteps
<1> QED BY <1>3, <1>4, <1>5 DEF AnswerMismatch

LEMMA AnswerKnownSteps ==
    ASSUME IInv, AnswerKnown
    PROVE  Stepped
<1>1. stack # <<>> /\ Good(Now) /\ Top.path \in Folders /\ Top.held \in Handhelds
  BY NowIsFine, TopTyped DEF AnswerKnown, Waits
<1>2. Fine(Now, Now) /\ StackOK(Pop)
  BY <1>1, NowIsFine, StacksOK DEF IInv
<1>3. Fine(Now, LoadProfile(Now, Top.path))
  BY <1>1, LoadProfileFine
<1> QED BY <1>1, <1>2, <1>3, GoesOnSteps DEF AnswerKnown

(* A name for a handheld is written to it and to the profile, open or not. *)
LEMMA NamedGives ==
    ASSUME IInv, NEW h \in Handhelds
    PROVE  /\ Good(Named(h)) /\ Named(h).blank = blank \ {h}
           /\ \/ open = Closed /\ Named(h).open = Closed
              \/ Named(h).open.fp = [user |-> h, serial |-> NoSerial]
<1> DEFINE w == [Now EXCEPT !.blank = @ \ {h}]
           b == Now.blank \ {h}
           fp == [user |-> h, serial |-> NoSerial]
<1>1. Good(Now) /\ Now \in WindowType
  BY DEF IInv, Good
<1>2. b \in SUBSET Handhelds
  BY <1>1, FieldTypes
<1>3. w = [Now EXCEPT !.blank = b]
  BY DEF Now
<1> HIDE DEF w
<1>4. /\ w \in WindowType /\ w.reg = Now.reg /\ w.open = Now.open /\ w.born = Now.born
      /\ w.blank = b
  BY <1>1, <1>2, <1>3, NewBlank
<1>5. Good(w) /\ fp \in FpType
  BY <1>1, <1>4 DEF Good, FpType
<1> HIDE DEF fp
<1>6. /\ Good(RegisterDevice(w, fp)) /\ RegisterDevice(w, fp).blank = w.blank
      /\ w.open = Closed => RegisterDevice(w, fp).open = Closed
      /\ w.open # Closed => RegisterDevice(w, fp).open.fp = fp
  BY <1>5, RegisterDeviceGives
<1>7. Named(h) = RegisterDevice(w, fp)
  BY DEF Named, w, fp
<1> QED BY <1>4, <1>6, <1>7, OpenIs DEF fp

LEMMA NamedSteps ==
    ASSUME IInv, stack # <<>>, Top.kind \in {"initialize", "userinfo"},
           NEW w, Keeps(Named(Top.held), w), Leaves(w, Pop)
    PROVE  Stepped
<1> DEFINE h == Top.held
           n == Named(h)
<1>1. h \in Handhelds
  BY TopTyped
<1> HIDE DEF h
<1>2. /\ Good(n) /\ n.blank = blank \ {h}
      /\ \/ open = Closed /\ n.open = Closed
         \/ n.open.fp = [user |-> h, serial |-> NoSerial]
  BY <1>1, NamedGives
<1>3. Good(w) /\ w.open = n.open /\ w.blank = n.blank
  BY DEF Keeps, h
<1> HIDE DEF n
<1>4. open' = w.open /\ blank' = w.blank /\ stack' = Pop
  BY DEF Leaves, Become
<1>5. Rebound(open, w.open) \/ NamesTop
  <2>1. CASE open = Closed /\ n.open = Closed
    BY <1>3, <2>1, SameOpen
  <2>2. CASE n.open.fp = [user |-> h, serial |-> NoSerial]
    BY <1>2, <1>3, <1>4, <2>2 DEF NamesTop, h
  <2> QED BY <1>2, <2>1, <2>2
<1>6. StackOK(Pop)
  BY StacksOK DEF IInv
<1> QED BY <1>3, <1>5, <1>6, LeavesSteps

LEMMA AnswerInitializeSteps ==
    ASSUME IInv, AnswerInitialize
    PROVE  Stepped
<1>1. stack # <<>> /\ Top.kind = "initialize" /\ Top.held \in Handhelds /\ StackOK(Pop)
  BY TopTyped, StacksOK DEF AnswerInitialize, Waits, IInv
<1>2. CASE Finishes(Now, Pop)
  BY <1>1, <1>2, NowIsFine, FinishesSteps
<1>3. CASE Finishes(Named(Top.held), Pop)
  <2> DEFINE n == Named(Top.held)
  <2>1. Good(n)
    BY <1>1, NamedGives
  <2>2. Keeps(n, FinishConnect(n)) /\ Keeps(n, n)
    BY <2>1, FinishConnectKeeps DEF Keeps
  <2>3. CASE Leaves(FinishConnect(n), Pop) \/ Leaves(n, Pop)
    BY <1>1, <2>2, <2>3, NamedSteps
  <2>4. CASE Gone(n)
    BY <2>1, <2>4, GoneSteps
  <2> QED BY <1>3, <2>3, <2>4 DEF Finishes
<1> QED BY <1>2, <1>3 DEF AnswerInitialize

LEMMA UnshownKeeps ==
    ASSUME NEW w, Good(w)
    PROVE  Keeps(w, Unshown(w))
<1> DEFINE x == [w.rt EXCEPT !.shows = FALSE]
<1>1. w.rt \in RuntimeType
  BY FieldTypes DEF Good
<1>2. x \in RuntimeType
  BY <1>1 DEF RuntimeType
<1>3. Unshown(w) = [w EXCEPT !.rt = x]
  BY DEF Good, WindowType, Unshown
<1> HIDE DEF x
<1> QED BY <1>2, <1>3, RtKeeps

LEMMA AnswerUserInfoSteps ==
    ASSUME IInv, AnswerUserInfo
    PROVE  Stepped
<1>1. stack # <<>> /\ Top.kind = "userinfo" /\ Top.held \in Handhelds /\ Good(Now)
  BY TopTyped, NowIsFine DEF AnswerUserInfo, Waits
<1>2. CASE Return(Unshown(Now))
  BY <1>1, <1>2, UnshownKeeps, KeepsIsFine, ReturnSteps
<1>3. CASE Gone(Now)
  BY <1>1, <1>3, GoneSteps
<1>4. CASE Return(Unshown(Named(Top.held)))
  <2>1. Keeps(Named(Top.held), Unshown(Named(Top.held)))
    BY <1>1, NamedGives, UnshownKeeps
  <2> QED BY <1>1, <1>4, <2>1, NamedSteps DEF Return
<1> QED BY <1>2, <1>3, <1>4 DEF AnswerUserInfo

(* Forgetting, with or without the folder.                                 *)
LEMMA AnswerForgetSteps ==
    ASSUME IInv, AnswerForget
    PROVE  Stepped
<1>1. stack # <<>> /\ Good(Now) /\ Top.path \in Folders /\ Top.id \in Ids
  BY NowIsFine, TopTyped DEF AnswerForget, Waits
<1> DEFINE u == [Now EXCEPT !.reg = Unregister(@, Top.id)]
           d == [u.disk EXCEPT ![Top.path] = NoFolder]
           n == [Now EXCEPT !.reg = Unregister(@, Top.id), !.disk[Top.path] = NoFolder]
<1>2. Fine(Now, u)
  BY <1>1, UnregisterFine
<1>3. n = [u EXCEPT !.disk = d]
  BY DEF Now
<1>4. u \in WindowType /\ u.disk \in [Folders -> FolderType]
  BY <1>2, FieldTypes DEF Fine, Good
<1>5. d \in [Folders -> FolderType]
  BY <1>4, NothingOpen
<1>6. Return(Now) \/ Return(u) \/ Return(n)
  BY DEF AnswerForget
<1> HIDE DEF u, d, n
<1>7. n \in WindowType /\ n.reg = u.reg /\ n.open = u.open /\ n.born = u.born
  BY <1>3, <1>4, <1>5, NewDisk
<1>8. Fine(Now, n)
  BY <1>2, <1>7 DEF Fine, Good
<1> QED BY <1>1, <1>2, <1>6, <1>8, NowIsFine, ReturnSteps

LEMMA AnswersStep ==
    ASSUME IInv, Answers
    PROVE  Stepped
BY AnswerWizardSteps, AnswerRegisterSteps, AnswerNoticeSteps, AnswerMismatchSteps,
   AnswerKnownSteps, AnswerInitializeSteps, AnswerUserInfoSteps, AnswerForgetSteps DEF Answers

-----------------------------------------------------------------------------
(* The menus.                                                              *)

LEMMA DoesSteps ==
    ASSUME IInv, NEW w, Fine(Now, w), Does(w)
    PROVE  Stepped
BY BecomeSteps DEF Does

LEMMA ImportSteps ==
    ASSUME IInv, ImportProfile
    PROVE  Stepped
<1>1. PICK f \in Folders :
         /\ Exists(disk, f) /\ CanRegisterExisting(reg, f, disk[f].id)
         /\ Does(LoadProfile([Now EXCEPT !.reg = RegisterExisting(@, f, disk[f].id),
                                         !.born[f.base] = IF @ = 0 THEN 1 ELSE @], f))
  BY DEF ImportProfile
<1> DEFINE i == disk[f].id
           e == [id |-> i, path |-> f, serial |-> NoSerial]
           r == WithEntry(reg, e)
           b == [born EXCEPT ![i] = IF @ = 0 THEN 1 ELSE @]
           w1 == [Now EXCEPT !.reg = r]
           w == [w1 EXCEPT !.born = b]
<1>2. /\ Good(Now) /\ Now.reg = reg /\ Now.born = born /\ Now.disk = disk /\ Now.open = open
      /\ Now \in WindowType
  BY NowIsFine DEF Now, Good
<1>3. /\ reg \in RegistryType /\ born \in [Ids -> Nat] /\ disk \in [Folders -> FolderType]
      /\ RegistryOK(reg, born)
  BY <1>2, FieldTypes DEF Good
<1>4. i \in Ids /\ i = f.base /\ i \notin Known(reg)
  BY <1>1, <1>3 DEF Exists, CanRegisterExisting, FolderType
<1>5. Does(LoadProfile(w, f))
  BY <1>1, <1>4 DEF Now, RegisterExisting
<1> HIDE DEF i
<1>6. e \in EntryType /\ e.serial = NoSerial /\ e.id = i
  BY <1>4 DEF EntryType
<1>7. born[i] \in Nat /\ born[i] <= 1
  BY <1>3, <1>4 DEF RegistryOK, Recorded
<1>8. b \in [Ids -> Nat] /\ b[i] <= 1 /\ \A k \in Ids \ {i} : b[k] = born[k]
  BY <1>3, <1>4, <1>7
<1> HIDE DEF e, b
<1>9. r \in RegistryType /\ RegistryOK(r, b)
  BY <1>3, <1>4, <1>6, <1>8, WithEntryOK
<1> HIDE DEF r
<1>10. w1 \in WindowType /\ w1.reg = r /\ w1.open = Now.open
  BY <1>2, <1>9, NewReg
<1> HIDE DEF w1
<1>11. w \in WindowType /\ w.reg = r /\ w.open = Now.open /\ w.born = b
  BY <1>8, <1>10, NewBorn
<1> HIDE DEF w
<1>12. Good(w)
  BY <1>9, <1>11 DEF Good
<1>13. Fine(w, LoadProfile(w, f))
  BY <1>12, LoadProfileFine
<1>14. Fine(Now, LoadProfile(w, f))
  BY <1>11, <1>13 DEF Fine
<1> QED BY <1>5, <1>14, DoesSteps

(* onChangeSyncFolder: the profile is another one, in the folder chosen.   *)
LEMMA ChangeSyncFolderSteps ==
    ASSUME IInv, ChangeSyncFolder
    PROVE  Stepped
<1>1. PICK f \in Folders \ {open.path} :
         Does(LoadProfile(Save([Now EXCEPT !.open.path = f]), f))
  BY DEF ChangeSyncFolder
<1> DEFINE o == [open EXCEPT !.path = f]
           w == [Now EXCEPT !.open = o]
           s == Save(w)
           n == LoadProfile(s, f)
<1>2. /\ Good(Now) /\ Now \in WindowType /\ Now.open = open /\ Now.reg = reg /\ Now.born = born
      /\ open \in OpenType
  BY NowIsFine, FieldTypes DEF Now, Good, ChangeSyncFolder, IsOpen
<1>3. o \in OpenType
  BY <1>2 DEF OpenType
<1>4. Does(n)
  BY <1>1 DEF Now
<1> HIDE DEF o
<1>5. w \in WindowType /\ w.reg = Now.reg /\ w.born = Now.born
  BY <1>2, <1>3, NewOpen
<1>6. Good(w)
  BY <1>2, <1>5 DEF Good
<1> HIDE DEF w
<1>7. Good(s)
  BY <1>6, SaveGives
<1> HIDE DEF s
<1>8. Fine(s, n)
  BY <1>7, LoadProfileFine
<1>9. n.open = Closed \/ n.open.path = f
  BY DEF LoadProfile, LoadProfileConf
<1>10. Rebound(open, n.open)
  <2>1. CASE n.open = Closed
    BY <1>2, <2>1, ClosesWell
  <2>2. CASE n.open.path = f
    BY <2>2 DEF Rebound
  <2> QED BY <1>9, <2>1, <2>2
<1> HIDE DEF n
<1>11. Fine(Now, n)
  BY <1>2, <1>8, <1>10 DEF Fine
<1> QED BY <1>4, <1>11, DoesSteps

LEMMA ForgetProfileSteps ==
    ASSUME IInv, ForgetProfile
    PROVE  Stepped
<1>1. PICK e \in Entries(reg) :
         Push([Frame("forget") EXCEPT !.id = e.id, !.path = e.path])
  BY DEF ForgetProfile
<1> DEFINE f == [Frame("forget") EXCEPT !.id = e.id, !.path = e.path]
<1>2. UNCHANGED <<monitorVars, profileVars, serial, listening, life>>
  BY DEF ForgetProfile
<1>3. Good(Now) /\ Now.reg = reg
  BY NowIsFine DEF Now
<1>4. reg \in RegistryType
  BY <1>3, FieldTypes DEF Good
<1>5. e.path \in Folders /\ e.id \in Ids
  BY <1>4, KnownAreIds
<1>6. Frame("forget") \in FrameType /\ Frame("forget").kind = "forget"
  BY FramesOK DEF Kinds, Frame
<1>7. f \in FrameType /\ f.kind = "forget" /\ f.path = e.path /\ f.id = e.id
  BY <1>5, <1>6 DEF FrameType
<1> HIDE DEF f
<1>8. FrameOK(f)
  BY <1>5, <1>7 DEF FrameOK
<1>9. Push(f)
  BY <1>1 DEF f
<1>10. HandlersOK' /\ MonitorOK'
  BY <1>2, <1>8, <1>9, PushKeeps, MonitorSame DEF IInv
<1>11. Good(Now)' /\ Rebound(open, open')
  BY <1>2, <1>3, ProfilesSame
<1> QED BY <1>10, <1>11 DEF Stepped, IInv

LEMMA SetUserInfoSteps ==
    ASSUME IInv, SetUserInfo
    PROVE  Stepped
<1> DEFINE f == [Frame("userinfo") EXCEPT !.held = bus[rt.place]]
           x == [rt EXCEPT !.shows = TRUE]
           w == [Now EXCEPT !.rt = x]
<1>1. Push(f) /\ rt' = x /\ rt.place # Nowhere /\ bus[rt.place] # NoHandheld
      /\ UNCHANGED <<monitorVars, reg, disk, open, auto, born, blank, serial, listening, life>>
  BY DEF SetUserInfo
<1>2. rt \in RuntimeType /\ Good(Now)
  BY RuntimeTyped, NowIsFine
<1>3. bus[rt.place] \in Handhelds
  BY <1>1, <1>2 DEF IInv, MonitorOK, RuntimeType
<1>4. Frame("userinfo") \in FrameType /\ Frame("userinfo").kind = "userinfo"
  BY FramesOK DEF Kinds, Frame
<1>5. f \in FrameType /\ f.kind = "userinfo" /\ f.held = bus[rt.place]
  BY <1>3, <1>4 DEF FrameType
<1> HIDE DEF f
<1>6. FrameOK(f)
  BY <1>3, <1>5 DEF FrameOK
<1>7. x \in RuntimeType
  BY <1>2 DEF RuntimeType
<1>8. Become(w)
  BY <1>1 DEF Become, Now
<1> HIDE DEF x
<1>9. Fine(Now, w)
  BY <1>2, <1>7, RtKeeps, KeepsIsFine
<1> HIDE DEF w
<1> QED BY <1>1, <1>6, <1>8, <1>9, PushSteps

LEMMA ConnectSteps ==
    ASSUME IInv, ConnectDevice \/ DevicePoll \/ StopListening
    PROVE  Stepped
<1>1. Good(Now) /\ HandlersOK /\ MonitorOK
  BY DEF IInv
<1>2. UNCHANGED <<monitorVars, serial, life, stack>>
  BY DEF ConnectDevice, DevicePoll, StopListening
<1>3. MonitorOK'
  BY <1>1, <1>2, MonitorSame
<1>4. listening' \in Places \cup {Nowhere}
  BY <1>1 DEF ConnectDevice, DevicePoll, StopListening, HandlersOK
<1>5. HandlersOK'
  BY <1>1, <1>2, <1>4 DEF HandlersOK
<1>6. \/ UNCHANGED profileVars
      \/ \E p \in Places \cup {Nowhere} : Become(StartConnection(Now, p))
  BY <1>1 DEF ConnectDevice, DevicePoll, StopListening, HandlersOK
<1>7. Good(Now)' /\ Rebound(open, open')
  <2>1. CASE UNCHANGED profileVars
    BY <1>1, <2>1, ProfilesSame
  <2>2. ASSUME NEW p \in Places \cup {Nowhere}, Become(StartConnection(Now, p))
        PROVE  Good(Now)' /\ Rebound(open, open')
    <3>1. Fine(Now, StartConnection(Now, p))
      BY <1>1, StartConnectionKeeps, KeepsIsFine
    <3> QED BY <2>2, <3>1, FineStep
  <2> QED BY <1>6, <2>1, <2>2
<1> QED BY <1>3, <1>5, <1>7 DEF Stepped, IInv

LEMMA MenusStep ==
    ASSUME IInv, Menus
    PROVE  Stepped
<1>1. Good(Now) /\ Now.reg = reg
  BY NowIsFine DEF Now
<1>2. CASE NewProfile
  BY <1>1, <1>2, WizardFine, DoesSteps DEF NewProfile
<1>3. CASE Close
  BY <1>1, <1>3, CloseProfileFine, DoesSteps DEF Close
<1>4. CASE SwitchProfile
  <2>1. PICK e \in Entries(reg) : Does(LoadProfile(Now, e.path))
    BY <1>4 DEF SwitchProfile
  <2>2. e.path \in Folders
    BY <1>1, FieldTypes, KnownAreIds DEF Good
  <2> QED BY <1>1, <2>1, <2>2, LoadProfileFine, DoesSteps
<1>5. CASE RemoveRecentProfile
  BY <1>1, <1>5, UnregisterFine, DoesSteps DEF RemoveRecentProfile
<1>6. CASE DisconnectDevice
  <2>1. Fine(Now, Disconnected(Now)) /\ Fine(Now, Now)
    BY <1>1, DisconnectedKeeps, KeepsIsFine, NowIsFine
  <2>2. Does(Now) \/ Does(Disconnected(Now))
    BY <1>6 DEF DisconnectDevice
  <2> QED BY <2>1, <2>2, DoesSteps
<1>7. CASE Quit
  BY <1>1, <1>7, GoneSteps DEF Quit
<1> QED BY <1>2, <1>3, <1>4, <1>5, <1>6, <1>7, ImportSteps, ForgetProfileSteps,
           ChangeSyncFolderSteps, ConnectSteps, SyncSteps, SetUserInfoSteps DEF Menus

-----------------------------------------------------------------------------
(* The invariant.                                                          *)

LEMMA Initially == Init => IInv
<1> SUFFICES ASSUME Init PROVE IInv
  OBVIOUS
<1>1. MonitorOK
  <2>1. udev = <<>> /\ shots = <<>> /\ found = {}
    BY DEF Init, MonitorInit
  <2>2. udev \in Seq(UdevEvents) /\ shots \in Seq(Detected) /\ found \subseteq Detected
    BY <2>1
  <2> QED BY <2>2 DEF Init, MonitorInit, MonitorOK, UdevEvents
<1>2. HandlersOK
  <2>1. stack = <<>>
    BY DEF Init, AppInit, Volatile
  <2>2. stack \in Seq(FrameType) /\ Len(stack) = 0 /\ DOMAIN stack = {}
    BY <2>1
  <2> QED BY <2>2, WorkbenchAssumption DEF Init, AppInit, Volatile, HandlersOK
<1>3. NoProfiles \in RegistryType /\ Entries(NoProfiles) = {}
  <2>1. NoProfiles.cache = <<>> /\ <<>> \in Seq(EntryType)
    BY DEF NoProfiles
  <2> QED BY <2>1 DEF RegistryType, NoProfiles, Entries
<1>4. reg = NoProfiles /\ born = [i \in Ids |-> 0]
  BY DEF Init, AppInit
<1>5. disk \in [Folders -> FolderType]
  <2>1. ASSUME NEW f \in Folders, f.root = "elsewhere"
        PROVE  [id |-> f.base, fp |-> NoFp] \in FolderType
    <3>1. \/ \E i \in Ids : f = [root |-> "default", base |-> i]
          \/ \E i \in Elsewhere : f = [root |-> "elsewhere", base |-> i]
      BY DEF Folders, Home
    <3>2. Elsewhere \subseteq Ids
      BY RegistryAssumption DEF Ids
    <3>3. f.base \in Ids
      BY <3>1, <3>2
    <3> QED BY <3>3, NothingOpen DEF FolderType
  <2>2. disk = [f \in Folders |-> IF f.root = "elsewhere" THEN [id |-> f.base, fp |-> NoFp]
                                  ELSE NoFolder]
    BY DEF Init, AppInit
  <2> QED BY <2>1, <2>2, NothingOpen
<1>6. /\ open = Closed /\ rt = NoRuntime
      /\ auto = [device |-> FALSE, accounts |-> FALSE, hot |-> FALSE]
  BY DEF Init, AppInit, Volatile
<1>7. Now \in WindowType
  <2>1. open \in OpenType \cup {Closed} /\ rt \in RuntimeType /\ auto \in AutoType
    BY <1>6, NothingVolatile
  <2>2. reg \in RegistryType /\ born \in [Ids -> Nat] /\ blank \in SUBSET Handhelds
    BY <1>3, <1>4, WorkbenchAssumption DEF Init, AppInit
  <2> QED BY <1>5, <2>1, <2>2 DEF Now, WindowType
<1>8. RegistryOK(reg, born)
  <2>1. LastKnown(reg)
    BY <1>4 DEF LastKnown, NoProfiles
  <2>2. OneOwner(reg)
    BY <1>3, <1>4 DEF OneOwner
  <2>3. Recorded(reg, born)
    BY <1>4 DEF Recorded
  <2> QED BY <2>1, <2>2, <2>3 DEF RegistryOK
<1>9. Good(Now)
  BY <1>7, <1>8 DEF Good, Now
<1> QED BY <1>1, <1>2, <1>9 DEF IInv

LEMMA NextSteps ==
    ASSUME IInv, Next
    PROVE  Stepped
BY WorldSteps, EnumerateSteps, ShotSteps, AttemptSucceedsSteps, ConnectionSteps, ConnectSteps,
   SyncSteps, LaunchSteps, ResolveSteps, AnswersStep, MenusStep DEF Next

LEMMA StutterSteps ==
    ASSUME IInv, UNCHANGED vars
    PROVE  Stepped
<1>1. UNCHANGED <<monitorVars, profileVars, handlerVars>>
  BY DEF vars
<1> QED BY <1>1, ProfilesSame, HandlersSame, MonitorSame DEF Stepped, IInv

LEMMA Invariance == Spec => []IInv
<1>1. IInv /\ [Next]_vars => IInv'
  BY NextSteps, StutterSteps DEF Stepped
<1> QED BY Initially, <1>1, PTL DEF Spec

(* The types of the window's state: in particular every waiting handler    *)
(* still has a folder, place or serial number that exists.                 *)
THEOREM TypeCorrect == Spec => []TypeOK
<1>1. IInv => TypeOK
  <2> SUFFICES ASSUME IInv PROVE TypeOK
    OBVIOUS
  <2>1. Good(Now) /\ HandlersOK /\ MonitorOK
    BY DEF IInv
  <2>2. /\ reg \in RegistryType /\ disk \in [Folders -> FolderType]
        /\ open \in OpenType \cup {Closed} /\ rt \in RuntimeType /\ LastKnown(reg)
        /\ blank \in SUBSET Handhelds
    BY <2>1, FieldTypes DEF Good, RegistryOK, Now
  <2>3. Entries(reg) \subseteq EntryType /\ reg.last \in Known(reg) \cup {NoId}
        /\ reg.tombs \subseteq Ids
    BY <2>2, KnownAreIds DEF LastKnown, RegistryType
  <2>4. open.path \in Folders \cup {NoPath} /\ open.id \in Ids \cup {NoId}
    BY <2>2, NothingOpen DEF OpenType
  <2>5. rt.st \in RuntimeStates /\ rt.place \in Places \cup {Nowhere}
    BY <2>2 DEF RuntimeType
  <2>6. Len(stack) <= MaxDepth /\ \A k \in DOMAIN stack : stack[k].kind \in Kinds
    BY <2>1 DEF HandlersOK, FrameOK, FrameType
  <2> QED BY <2>1, <2>2, <2>3, <2>4, <2>5, <2>6 DEF TypeOK, HandlersOK, MonitorOK
<1> QED BY Invariance, <1>1, PTL

(* A handheld finds at most one profile, whatever is detected, created,    *)
(* imported, renamed or forgotten, and in whatever order questions about   *)
(* it are answered (ProfileRegistry::bindSerial).                          *)
THEOREM OneProfilePerSerial == Spec => []SerialOnce
<1>1. IInv => SerialOnce
  BY DEF IInv, Good, RegistryOK, OneOwner, SerialOnce, Now
<1> QED BY Invariance, <1>1, PTL

(* An id stands for one profile for ever: it is handed out past all that   *)
(* are known or retired (ProfileRegistry::allocateNewId).                  *)
THEOREM IdsNeverReused == Spec => []NeverReused
<1>1. IInv => NeverReused
  BY DEF IInv, Good, RegistryOK, Recorded, NeverReused, Now
<1> QED BY Invariance, <1>1, PTL

(* A profile that knows its handheld is rebound to one that is known to be *)
(* another only where the user names that other one in a dialog about it:  *)
(* by no report, no other answer, and by nothing that arrives while a      *)
(* question is open (onConnectionComplete, onSetUserInfo).                 *)
THEOREM NeverRebound == Spec => BoundForGood
<1>1. IInv /\ [Next]_vars => [Rebinds => NamesTop]_vars
  BY NextSteps, StutterSteps DEF Stepped, Rebound, Rebinds
<1> QED BY Invariance, <1>1, PTL DEF Spec, BoundForGood
=============================================================================
