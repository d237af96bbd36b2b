------------------------ MODULE Configuration_proofs ------------------------
(***************************************************************************)
(* One open profile, for any finite set of accounts, any categories and    *)
(* any names of groups: the providers follow the accounts, a restart gives *)
(* back what was saved last, and a death between two writes of files makes *)
(* no orphans.                                                             *)
(***************************************************************************)
EXTENDS Configuration, FiniteSetTheorems, SequenceTheorems, TLAPS

-----------------------------------------------------------------------------
(* Ranks.  In a finite set under a strict total order, every rank from the *)
(* lowest on has exactly one member: ranks differ, and there are as many.  *)

RankOf(R, S, x) == Cardinality({y \in S : <<y, x>> \in R})

TotalOn(R, S) ==
    /\ \A x \in S : <<x, x>> \notin R
    /\ \A x, y, z \in S : <<x, y>> \in R /\ <<y, z>> \in R => <<x, z>> \in R
    /\ \A x, y \in S : x # y => <<x, y>> \in R \/ <<y, x>> \in R

LEMMA RankGrows ==
    ASSUME NEW S, IsFiniteSet(S), NEW R, TotalOn(R, S), NEW x \in S, NEW y \in S,
           <<x, y>> \in R
    PROVE  RankOf(R, S, x) < RankOf(R, S, y)
<1> DEFINE below(z) == {w \in S : <<w, z>> \in R}
<1>1. below(x) \in SUBSET S /\ below(y) \in SUBSET S
  OBVIOUS
<1>2. /\ IsFiniteSet(below(x)) /\ IsFiniteSet(below(y))
      /\ Cardinality(below(x)) \in Nat /\ Cardinality(below(y)) \in Nat
  <2> HIDE DEF below
  <2> QED BY <1>1, FS_Subset, FS_CardinalityType
<1>3. x \notin below(x) /\ below(x) \cup {x} \in SUBSET below(y)
  BY DEF TotalOn
<1>4. Cardinality(below(x) \cup {x}) = Cardinality(below(x)) + 1
  <2> HIDE DEF below
  <2> QED BY <1>2, <1>3, FS_AddElement
<1>5. Cardinality(below(x) \cup {x}) <= Cardinality(below(y))
  <2> HIDE DEF below
  <2> QED BY <1>2, <1>3, FS_Subset
<1>6. RankOf(R, S, x) = Cardinality(below(x)) /\ RankOf(R, S, y) = Cardinality(below(y))
  BY DEF RankOf
<1> HIDE DEF below
<1> QED BY <1>2, <1>4, <1>5, <1>6

LEMMA RankBound ==
    ASSUME NEW S, IsFiniteSet(S), NEW R, TotalOn(R, S), NEW x \in S
    PROVE  /\ RankOf(R, S, x) \in Nat /\ Cardinality(S) \in Nat
           /\ RankOf(R, S, x) + 1 \in 1..Cardinality(S)
<1> DEFINE below == {w \in S : <<w, x>> \in R}
<1>1. below \in SUBSET S /\ x \notin below
  BY DEF TotalOn
<1>2. RankOf(R, S, x) = Cardinality(below)
  BY DEF RankOf
<1> HIDE DEF below
<1>3. /\ IsFiniteSet(below) /\ Cardinality(below) <= Cardinality(S)
      /\ Cardinality(S) = Cardinality(below) => S = below
  BY <1>1, FS_Subset
<1>4. Cardinality(below) \in Nat /\ Cardinality(S) \in Nat
  BY <1>3, FS_CardinalityType
<1>5. Cardinality(S) # Cardinality(below)
  BY <1>1, <1>3
<1> QED BY <1>2, <1>3, <1>4, <1>5

LEMMA RankOnto ==
    ASSUME NEW S, IsFiniteSet(S), NEW R, TotalOn(R, S)
    PROVE  \A n \in 1..Cardinality(S) : \E x \in S : RankOf(R, S, x) = n - 1
<1> DEFINE T == 1..Cardinality(S)
           f == [x \in S |-> RankOf(R, S, x) + 1]
<1>1. Cardinality(S) \in Nat
  BY FS_CardinalityType
<1>2. IsFiniteSet(T) /\ Cardinality(T) = Cardinality(S)
  BY <1>1, FS_Interval
<1>3. f \in [S -> T]
  BY RankBound
<1>4. ASSUME NEW x \in S, NEW y \in S, f[x] = f[y]
      PROVE  x = y
  <2>1. RankOf(R, S, x) = RankOf(R, S, y)
    BY <1>4, RankBound
  <2>2. ~(<<x, y>> \in R) /\ ~(<<y, x>> \in R)
    BY <2>1, RankGrows, RankBound
  <2> QED BY <2>2 DEF TotalOn
<1>5. f \in Injection(S, T)
  <2> HIDE DEF f, T
  <2> QED BY <1>3, <1>4 DEF Injection, IsInjective
<1>6. f \in Surjection(S, T)
  <2> HIDE DEF f, T
  <2> QED BY <1>2, <1>5, FS_Injection
<1>7. ASSUME NEW n \in T
      PROVE  \E x \in S : RankOf(R, S, x) = n - 1
  <2>1. PICK x \in S : f[x] = n
    <3> HIDE DEF f, T
    <3> QED BY <1>6 DEF Surjection
  <2>2. RankOf(R, S, x) + 1 = n
    BY <2>1
  <2> QED BY <2>2, RankBound
<1> QED BY <1>7

LEMMA RankUnique ==
    ASSUME NEW S, IsFiniteSet(S), NEW R, TotalOn(R, S), NEW x \in S, NEW y \in S,
           RankOf(R, S, x) = RankOf(R, S, y)
    PROVE  x = y
<1>1. ~(<<x, y>> \in R) /\ ~(<<y, x>> \in R)
  BY RankGrows, RankBound
<1> QED BY <1>1 DEF TotalOn

-----------------------------------------------------------------------------
(* What At picks: the rows at the places named, each of them, and no other.*)
LEMMA AtGives ==
    ASSUME NEW T, NEW s \in Seq(T), NEW K \in SUBSET (DOMAIN s)
    PROVE  /\ At(s, K) \in Seq(T)
           /\ \A n \in DOMAIN At(s, K) : \E k \in K : At(s, K)[n] = s[k]
           /\ \A k \in K : \E n \in DOMAIN At(s, K) : At(s, K)[n] = s[k]
<1> DEFINE R == {p \in Int \X Int : p[1] < p[2]}
           size == Cardinality(K)
           Nth(n) == CHOOSE k \in K : Cardinality({j \in K : j < k}) = n - 1
<1>1. DOMAIN s = 1..Len(s) /\ Len(s) \in Nat /\ K \in SUBSET (1..Len(s))
  OBVIOUS
<1>2. IsFiniteSet(K) /\ size \in Nat
  <2>1. IsFiniteSet(1..Len(s))
    BY <1>1, FS_Interval
  <2> QED BY <1>1, <2>1, FS_Subset, FS_CardinalityType
<1>3. TotalOn(R, K)
  <2>1. \A x \in K : x \in Int
    BY <1>1
  <2> QED BY <2>1 DEF TotalOn
<1>4. ASSUME NEW x \in K
      PROVE  Cardinality({j \in K : j < x}) = RankOf(R, K, x)
  <2>1. \A j \in K : j < x <=> <<j, x>> \in R
    BY <1>1
  <2>2. {j \in K : j < x} = {j \in K : <<j, x>> \in R}
    BY <2>1
  <2> QED BY <2>2 DEF RankOf
<1> HIDE DEF R
<1>5. ASSUME NEW n \in 1..size
      PROVE  Nth(n) \in K /\ RankOf(R, K, Nth(n)) = n - 1
  <2>1. \E k \in K : Cardinality({j \in K : j < k}) = n - 1
    BY <1>2, <1>3, <1>4, RankOnto
  <2> DEFINE m == Nth(n)
  <2>2. m \in K /\ Cardinality({j \in K : j < m}) = n - 1
    BY <2>1
  <2> HIDE DEF m
  <2>3. RankOf(R, K, m) = n - 1
    BY <1>4, <2>2
  <2> QED BY <2>2, <2>3 DEF m
<1>6. ASSUME NEW k \in K
      PROVE  \E n \in 1..size : Nth(n) = k
  <2>1. /\ RankOf(R, K, k) \in Nat /\ RankOf(R, K, k) + 1 \in 1..size
    BY <1>2, <1>3, RankBound
  <2> DEFINE n == RankOf(R, K, k) + 1
  <2>2. Nth(n) \in K /\ RankOf(R, K, Nth(n)) = n - 1
    BY <1>5, <2>1
  <2>3. RankOf(R, K, Nth(n)) = RankOf(R, K, k)
    BY <2>1, <2>2
  <2> HIDE DEF n, Nth
  <2>4. Nth(n) = k
    BY <1>2, <1>3, <2>2, <2>3, RankUnique
  <2> QED BY <2>1, <2>4 DEF n
<1>7. At(s, K) = [n \in 1..size |-> s[Nth(n)]]
  BY DEF At
<1> HIDE DEF Nth, size
<1>8. \A n \in 1..size : s[Nth(n)] \in T
  BY <1>1, <1>5
<1>9. At(s, K) \in Seq(T) /\ DOMAIN At(s, K) = 1..size
  BY <1>2, <1>7, <1>8
<1>10. \A n \in 1..size : At(s, K)[n] = s[Nth(n)]
  BY <1>7
<1> HIDE DEF R
<1> QED BY <1>5, <1>6, <1>9, <1>10

-----------------------------------------------------------------------------
(* mappings.conf.                                                          *)

(* No two rows share a group: of those with one name each counts more.     *)
LEMMA GroupsDiffer ==
    ASSUME NEW rows \in Seq(RowType), NEW j \in DOMAIN rows, NEW k \in DOMAIN rows,
           Group(rows, j) = Group(rows, k)
    PROVE  j = k
<1> DEFINE Same(m) == {i \in 1..m : GroupOf[rows[i].id] = GroupOf[rows[m].id]}
<1>1. ASSUME NEW a \in DOMAIN rows, NEW b \in DOMAIN rows, a < b,
             GroupOf[rows[a].id] = GroupOf[rows[b].id]
      PROVE  Cardinality(Same(a)) # Cardinality(Same(b))
  <2>1. a \in Nat /\ b \in Nat /\ a >= 1
    OBVIOUS
  <2>2. Same(a) \in SUBSET Same(b) /\ b \in Same(b) /\ b \notin Same(a)
    BY <1>1, <2>1
  <2>3. IsFiniteSet(Same(b))
    <3>1. IsFiniteSet(1..b) /\ Same(b) \in SUBSET (1..b)
      BY <2>1, FS_Interval
    <3> HIDE DEF Same
    <3> QED BY <3>1, FS_Subset
  <2> HIDE DEF Same
  <2>4. Cardinality(Same(b)) = Cardinality(Same(a)) => Same(b) = Same(a)
    BY <2>2, <2>3, FS_Subset
  <2> QED BY <2>2, <2>4
<1>2. /\ GroupOf[rows[j].id] = GroupOf[rows[k].id]
      /\ Cardinality(Same(j)) = Cardinality(Same(k))
  BY DEF Group
<1>3. j \in Nat /\ k \in Nat
  OBVIOUS
<1> HIDE DEF Same
<1> QED BY <1>1, <1>2, <1>3

RowFiles ==
    UNION {[S -> RowType] : S \in {G \in SUBSET (RowIds \X Nat) : IsFiniteSet(G)}}

Plain(r) == [r EXCEPT !.txt = FALSE]

LEMMA PlainRow ==
    ASSUME NEW r \in RowType
    PROVE  /\ Plain(r) \in RowType /\ [r EXCEPT !.txt = TRUE] \in RowType
           /\ Plain([r EXCEPT !.txt = TRUE]) = Plain(r)
           /\ Plain(r).id = r.id /\ Plain(r).acct = r.acct
BY DEF Plain, RowType

(* Saving puts each row in a group of its own.                             *)
LEMMA SavedRows ==
    ASSUME NEW rows \in Seq(RowType)
    PROVE  LET f == SaveMappingsConf(rows) IN
           /\ f \in RowFiles
           /\ \A g \in DOMAIN f : \E k \in DOMAIN rows : f[g] = rows[k]
           /\ \A k \in DOMAIN rows : \E g \in DOMAIN f : f[g] = rows[k]
<1> DEFINE G == {Group(rows, k) : k \in DOMAIN rows}
           last(g) == CHOOSE k \in DOMAIN rows : /\ Group(rows, k) = g
                                                 /\ \A j \in DOMAIN rows : Group(rows, j) = g => j <= k
           f == SaveMappingsConf(rows)
<1>1. DOMAIN rows = 1..Len(rows) /\ Len(rows) \in Nat /\ \A k \in DOMAIN rows : rows[k] \in RowType
  OBVIOUS
<1>2. f = [g \in G |-> rows[last(g)]]
  BY DEF SaveMappingsConf
<1>3. IsFiniteSet(G)
  <2>1. IsFiniteSet(1..Len(rows))
    BY <1>1, FS_Interval
  <2> DEFINE h == [k \in DOMAIN rows |-> Group(rows, k)]
  <2>2. h \in Surjection(DOMAIN rows, G)
    BY DEF Surjection
  <2> HIDE DEF h, G
  <2> QED BY <1>1, <2>1, <2>2, FS_Surjection
<1>4. ASSUME NEW k \in DOMAIN rows
      PROVE  Group(rows, k) \in RowIds \X Nat
  <2>1. GroupOf[rows[k].id] \in RowIds
    BY <1>1, StoreAssumption DEF RowType
  <2> DEFINE Same == {j \in 1..k : GroupOf[rows[j].id] = GroupOf[rows[k].id]}
  <2>2. IsFiniteSet(1..k) /\ Same \in SUBSET (1..k)
    BY <1>1, FS_Interval
  <2>3. Cardinality(Same) \in Nat
    <3> HIDE DEF Same
    <3> QED BY <2>2, FS_Subset, FS_CardinalityType
  <2> QED BY <2>1, <2>3 DEF Group
<1>5. ASSUME NEW k \in DOMAIN rows
      PROVE  last(Group(rows, k)) = k
  <2>1. \A j \in DOMAIN rows : Group(rows, j) = Group(rows, k) => j = k
    BY GroupsDiffer
  <2>2. k <= k
    BY <1>1
  <2> QED BY <2>1, <2>2
<1> HIDE DEF last
<1>6. \A k \in DOMAIN rows : Group(rows, k) \in G /\ f[Group(rows, k)] = rows[k]
  BY <1>2, <1>5
<1>7. \A g \in G : \E k \in DOMAIN rows : g = Group(rows, k)
  OBVIOUS
<1>8. G \in SUBSET (RowIds \X Nat)
  BY <1>4
<1> HIDE DEF G, f
<1>9. DOMAIN f = G /\ \A g \in G : f[g] \in RowType
  BY <1>1, <1>2, <1>6, <1>7
<1>10. f \in [G -> RowType]
  BY <1>2, <1>9
<1>11. f \in RowFiles
  BY <1>3, <1>8, <1>10 DEF RowFiles
<1> QED BY <1>6, <1>7, <1>9, <1>11 DEF f

(* Loading lists the groups in the order of their names.                   *)
LEMMA LoadedRows ==
    ASSUME NEW f \in RowFiles
    PROVE  LET rows == LoadMappingsConf(f) IN
           /\ rows \in Seq(RowType)
           /\ \A k \in DOMAIN rows : \E g \in DOMAIN f : rows[k] = [f[g] EXCEPT !.txt = TRUE]
           /\ \A g \in DOMAIN f : \E k \in DOMAIN rows : rows[k] = [f[g] EXCEPT !.txt = TRUE]
<1> DEFINE S == DOMAIN f
           size == Cardinality(S)
           R == {p \in (RowIds \X Nat) \X (RowIds \X Nat) :
                    p[1][1] < p[2][1] \/ (p[1][1] = p[2][1] /\ p[1][2] < p[2][2])}
           Nth(n) == CHOOSE h \in S : Cardinality(Before(f, h)) = n - 1
           rows == LoadMappingsConf(f)
<1>1. IsFiniteSet(S) /\ S \in SUBSET (RowIds \X Nat) /\ \A g \in S : f[g] \in RowType
  BY DEF RowFiles
<1>2. size \in Nat
  BY <1>1, FS_CardinalityType
<1>3. ASSUME NEW g \in S, NEW h \in S
      PROVE  <<h, g>> \in R <=> h[1] < g[1] \/ (h[1] = g[1] /\ h[2] < g[2])
  BY <1>1
<1>4. \A g \in S : g[1] \in Int /\ g[2] \in Int /\ g = <<g[1], g[2]>>
  BY <1>1, StoreAssumption DEF RowIds
<1> HIDE DEF S, R
<1>5. TotalOn(R, S)
  <2>1. \A x \in S : <<x, x>> \notin R
    BY <1>3, <1>4
  <2>2. ASSUME NEW x \in S, NEW y \in S, NEW z \in S, <<x, y>> \in R, <<y, z>> \in R
        PROVE  <<x, z>> \in R
    BY <1>3, <1>4, <2>2
  <2>3. ASSUME NEW x \in S, NEW y \in S, x # y
        PROVE  <<x, y>> \in R \/ <<y, x>> \in R
    BY <1>3, <1>4, <2>3
  <2> QED BY <2>1, <2>2, <2>3 DEF TotalOn
<1>6. ASSUME NEW g \in S
      PROVE  Cardinality(Before(f, g)) = RankOf(R, S, g)
  <2>1. Before(f, g) = {h \in S : <<h, g>> \in R}
    BY <1>3 DEF Before, S
  <2> QED BY <2>1 DEF RankOf
<1>7. ASSUME NEW n \in 1..size
      PROVE  Nth(n) \in S /\ RankOf(R, S, Nth(n)) = n - 1
  <2>1. \E h \in S : Cardinality(Before(f, h)) = n - 1
    BY <1>1, <1>5, <1>6, RankOnto
  <2> DEFINE m == Nth(n)
  <2>2. m \in S /\ Cardinality(Before(f, m)) = n - 1
    BY <2>1
  <2> HIDE DEF m
  <2>3. RankOf(R, S, m) = n - 1
    BY <1>6, <2>2
  <2> QED BY <2>2, <2>3 DEF m
<1>8. ASSUME NEW g \in S
      PROVE  \E n \in 1..size : Nth(n) = g
  <2>1. RankOf(R, S, g) \in Nat /\ RankOf(R, S, g) + 1 \in 1..size
    BY <1>1, <1>5, RankBound
  <2> DEFINE n == RankOf(R, S, g) + 1
  <2>2. Nth(n) \in S /\ RankOf(R, S, Nth(n)) = n - 1
    BY <1>7, <2>1
  <2>3. RankOf(R, S, Nth(n)) = RankOf(R, S, g)
    BY <2>1, <2>2
  <2> HIDE DEF n, Nth
  <2>4. Nth(n) = g
    BY <1>1, <1>5, <2>2, <2>3, RankUnique
  <2> QED BY <2>1, <2>4 DEF n
<1>9. rows = [n \in 1..size |-> [f[Nth(n)] EXCEPT !.txt = TRUE]]
  BY DEF LoadMappingsConf, S
<1> HIDE DEF Nth, size, rows
<1>10. \A n \in 1..size : [f[Nth(n)] EXCEPT !.txt = TRUE] \in RowType
  BY <1>1, <1>7, PlainRow
<1>11. rows \in Seq(RowType) /\ DOMAIN rows = 1..size
  BY <1>2, <1>9, <1>10
<1>12. \A n \in 1..size : rows[n] = [f[Nth(n)] EXCEPT !.txt = TRUE]
  BY <1>9
<1> QED BY ZenonT(40), <1>7, <1>8, <1>11, <1>12 DEF rows, S

(* A row keeps everything through the file but what became text.           *)
PlainRows(rows) == {Plain(rows[k]) : k \in DOMAIN rows}
PlainFile(f) == {Plain(f[g]) : g \in DOMAIN f}

LEMMA RowsKept ==
    /\ \A rows \in Seq(RowType) : PlainFile(SaveMappingsConf(rows)) = PlainRows(rows)
    /\ \A f \in RowFiles : PlainRows(LoadMappingsConf(f)) = PlainFile(f)
<1>1. ASSUME NEW rows \in Seq(RowType)
      PROVE  PlainFile(SaveMappingsConf(rows)) = PlainRows(rows)
  BY SavedRows DEF PlainFile, PlainRows
<1>2. ASSUME NEW f \in RowFiles
      PROVE  PlainRows(LoadMappingsConf(f)) = PlainFile(f)
  <2> DEFINE rows == LoadMappingsConf(f)
  <2>1. /\ \A k \in DOMAIN rows : \E g \in DOMAIN f : rows[k] = [f[g] EXCEPT !.txt = TRUE]
        /\ \A g \in DOMAIN f : \E k \in DOMAIN rows : rows[k] = [f[g] EXCEPT !.txt = TRUE]
    BY LoadedRows
  <2>2. \A g \in DOMAIN f : f[g] \in RowType
    BY DEF RowFiles
  <2>3. \A g \in DOMAIN f : Plain([f[g] EXCEPT !.txt = TRUE]) = Plain(f[g])
    BY <2>2, PlainRow
  <2> HIDE DEF rows
  <2>4. PlainRows(rows) = PlainFile(f)
    BY <2>1, <2>3 DEF PlainRows, PlainFile
  <2> QED BY <2>4 DEF rows
<1> QED BY <1>1, <1>2

(* accounts.conf keeps every account as it is.                             *)
AccFiles == UNION {[S -> {"on", "off"}] : S \in SUBSET Accounts}

LEMMA AccountsKept ==
    /\ \A acc \in AccountsType : /\ SaveAccountsConf(acc) \in AccFiles
                                 /\ LoadAccountsConf(SaveAccountsConf(acc)) = acc
    /\ \A f \in AccFiles : LoadAccountsConf(f) \in AccountsType
<1>1. ASSUME NEW acc \in AccountsType
      PROVE  /\ SaveAccountsConf(acc) \in AccFiles
             /\ LoadAccountsConf(SaveAccountsConf(acc)) = acc
  <2>1. Held(acc) \in SUBSET Accounts
    BY DEF Held
  <2>2. \A a \in Held(acc) : acc[a] \in {"on", "off"}
    BY DEF Held, AccountsType
  <2>3. SaveAccountsConf(acc) \in [Held(acc) -> {"on", "off"}]
    BY <2>2 DEF SaveAccountsConf
  <2>4. SaveAccountsConf(acc) \in AccFiles
    BY <2>1, <2>3 DEF AccFiles
  <2>5. \A a \in Accounts : LoadAccountsConf(SaveAccountsConf(acc))[a] = acc[a]
    BY DEF LoadAccountsConf, SaveAccountsConf, Held
  <2>6. LoadAccountsConf(SaveAccountsConf(acc)) = acc
    BY <2>5 DEF LoadAccountsConf, AccountsType
  <2> QED BY <2>4, <2>6
<1>2. ASSUME NEW f \in AccFiles
      PROVE  LoadAccountsConf(f) \in AccountsType
  BY DEF LoadAccountsConf, AccountsType, AccFiles
<1> QED BY <1>1, <1>2

-----------------------------------------------------------------------------
(* The invariant.                                                          *)

ProfType == [acc : AccountsType, rows : Seq(RowType)]
FilesType == [acc : AccFiles, rows : RowFiles,
              desired : SUBSET Categories, slots : SUBSET (Categories \cup {Whole})]
InputsType == [rows : Seq(RowType), desired : SUBSET Categories,
               slots : SUBSET (Categories \cup {Whole}), full : SUBSET RowIds,
               prov : [Accounts -> ProviderStates]]
PageType == [open : BOOLEAN, off : BOOLEAN, rows : Seq(RowType),
             slots : SUBSET (Categories \cup {Whole}), prov : [Accounts -> ProviderStates]]

ProfileTypes == prof \in ProfType /\ saved \in ProfType /\ files \in FilesType
RuntimeTypes ==
    /\ prov \in [Accounts -> ProviderStates] /\ live \in Seq(MappingType)
    /\ topo \in [ready : BOOLEAN, maps : Seq(MappingType)]
EditorTypes == pb \in InputsType /\ page \in PageType

Types == ProfileTypes /\ RuntimeTypes /\ EditorTypes

(* Memory and what was saved last differ in no account but for whether it  *)
(* is enabled, which SetProviderEnabled may not save, and in no row.       *)
Same == Held(saved.acc) = Held(prof.acc) /\ PlainRows(saved.rows) = PlainRows(prof.rows)

(* What a write of accounts may drop from what the file has: no account    *)
(* that a row on file names.                                               *)
NoneDropped(rows, old, new) == \A i \in DOMAIN rows : rows[i].acct \in old => rows[i].acct \in new

Names(rows) == {<<rows[i].id, rows[i].acct>> : i \in DOMAIN rows}

SaveAcc(p) == [file |-> "acc", to |-> SaveAccountsConf(p.acc)]
SaveRows(p) == [file |-> "rows", to |-> SaveMappingsConf(p.rows)]

(* How far a handler is with its one save, or with the first of its two.   *)
OneSave ==
    \/ /\ writes = <<>>
       /\ LoadAccountsConf(files.acc) = saved.acc /\ PlainFile(files.rows) = PlainRows(saved.rows)
    \/ /\ writes = <<SaveRows(saved)>>
       /\ LoadAccountsConf(files.acc) = saved.acc
    \/ /\ writes = <<SaveAcc(saved), SaveRows(saved)>>
       /\ NoneDropped(files.rows, DOMAIN files.acc, Held(saved.acc))

TwoSaves ==
    \E q \in ProfType :
       /\ Names(q.rows) \subseteq Names(files.rows)
       /\ DOMAIN files.acc = Held(q.acc)
       /\ NoneDropped(q.rows, Held(q.acc), Held(saved.acc))
       /\ \/ writes = <<SaveRows(q), SaveAcc(saved), SaveRows(saved)>>
          \/ writes = <<SaveAcc(q), SaveRows(q), SaveAcc(saved), SaveRows(saved)>>

Saving == OneSave \/ TwoSaves

IInv == Types /\ Same /\ Saving /\ ProvidersFollow

-----------------------------------------------------------------------------
(* Types of what the handlers compute.                                     *)

LEMMA RowIs ==
    ASSUME NEW i \in RowIds, NEW c \in Categories \cup {Whole}, NEW a \in Accounts
    PROVE  Row(i, c, a) \in RowType
BY DEF Row, RowType

LEMMA EdgesTyped ==
    ASSUME NEW rows \in Seq(RowType), NEW pr
    PROVE  Edges(rows, pr) \in Seq(RowType)
<1> DEFINE K == {k \in DOMAIN rows : rows[k].cat # Whole /\ rows[k].acct \in NodesOf(pr)}
<1>1. K \in SUBSET (DOMAIN rows) /\ Edges(rows, pr) = At(rows, K)
  BY DEF Edges
<1> HIDE DEF K
<1> QED BY <1>1, AtGives

(* The rows without those of an account are rows, and of other accounts.   *)
LEMMA WithoutGives ==
    ASSUME NEW rows \in Seq(RowType), NEW a
    PROVE  /\ Without(rows, a) \in Seq(RowType)
           /\ \A n \in DOMAIN Without(rows, a) :
                 /\ Without(rows, a)[n].acct # a
                 /\ \E k \in DOMAIN rows : Without(rows, a)[n] = rows[k]
<1> DEFINE K == {k \in DOMAIN rows : rows[k].acct # a}
<1>1. K \in SUBSET (DOMAIN rows) /\ Without(rows, a) = At(rows, K)
  BY DEF Without
<1>2. \A k \in K : k \in DOMAIN rows /\ rows[k].acct # a
  OBVIOUS
<1> HIDE DEF K
<1>3. /\ At(rows, K) \in Seq(RowType)
      /\ \A n \in DOMAIN At(rows, K) : \E k \in K : At(rows, K)[n] = rows[k]
  BY <1>1, AtGives
<1> QED BY <1>1, <1>2, <1>3

(* The rows but those with an id.                                          *)
LEMMA OthersTyped ==
    ASSUME NEW rows \in Seq(RowType), NEW i
    PROVE  At(rows, {k \in DOMAIN rows : rows[k].id # i}) \in Seq(RowType)
<1> DEFINE K == {k \in DOMAIN rows : rows[k].id # i}
<1>1. K \in SUBSET (DOMAIN rows)
  OBVIOUS
<1> HIDE DEF K
<1>2. At(rows, K) \in Seq(RowType)
  BY <1>1, AtGives
<1> QED BY <1>2 DEF K

(* Rows that are switched on or off, by id or by account, are rows.        *)
SwitchId(rows, i, en) ==
    [k \in DOMAIN rows |->
        IF rows[k].id = i THEN [rows[k] EXCEPT !.en = en, !.txt = FALSE] ELSE rows[k]]
SwitchAcct(rows, a, en) ==
    [k \in DOMAIN rows |->
        IF rows[k].acct = a THEN [rows[k] EXCEPT !.en = en, !.txt = FALSE] ELSE rows[k]]

LEMMA SwitchedTyped ==
    ASSUME NEW rows \in Seq(RowType), NEW i, NEW en \in BOOLEAN
    PROVE  SwitchId(rows, i, en) \in Seq(RowType) /\ SwitchAcct(rows, i, en) \in Seq(RowType)
<1>1. DOMAIN rows = 1..Len(rows) /\ Len(rows) \in Nat /\ \A k \in DOMAIN rows : rows[k] \in RowType
  OBVIOUS
<1>2. \A r \in RowType : [r EXCEPT !.en = en, !.txt = FALSE] \in RowType
  BY DEF RowType
<1>3. ASSUME NEW f, f = [k \in DOMAIN rows |-> f[k]], \A k \in DOMAIN rows : f[k] \in RowType
      PROVE  f \in Seq(RowType)
  BY <1>1, <1>3
<1> DEFINE g == SwitchId(rows, i, en)
           h == SwitchAcct(rows, i, en)
<1>4. g \in Seq(RowType)
  <2>1. g = [k \in DOMAIN rows |-> g[k]] /\ \A k \in DOMAIN rows : g[k] \in RowType
    BY <1>1, <1>2 DEF SwitchId
  <2> HIDE DEF g
  <2> QED BY <1>3, <2>1
<1>5. h \in Seq(RowType)
  <2>1. h = [k \in DOMAIN rows |-> h[k]] /\ \A k \in DOMAIN rows : h[k] \in RowType
    BY <1>1, <1>2 DEF SwitchAcct
  <2> HIDE DEF h
  <2> QED BY <1>3, <2>1
<1> QED BY <1>4, <1>5

LEMMA MappingsTyped ==
    ASSUME NEW rows \in Seq(RowType)
    PROVE  LoadMappings(rows) \in Seq(MappingType) /\ BuildRoutes(rows) \in Seq(MappingType)
<1>1. ASSUME NEW r \in RowType
      PROVE  Unbuilt(r) \in MappingType /\ Route(r) \in MappingType
  BY <1>1 DEF Unbuilt, Route, RowType, MappingType
<1>2. ASSUME NEW s \in Seq(RowType)
      PROVE  /\ [k \in DOMAIN s |-> Unbuilt(s[k])] \in Seq(MappingType)
             /\ [k \in DOMAIN s |-> Route(s[k])] \in Seq(MappingType)
  <2>1. DOMAIN s = 1..Len(s) /\ Len(s) \in Nat /\ \A k \in DOMAIN s : s[k] \in RowType
    OBVIOUS
  <2> QED BY <1>1, <2>1
<1>3. Base \in MappingType /\ <<Base>> \in Seq(MappingType)
  BY DEF Base, MappingType
<1>4. Enabled(rows) \in Seq(RowType)
  <2> DEFINE K == {k \in DOMAIN rows : rows[k].en}
  <2>1. K \in SUBSET (DOMAIN rows) /\ Enabled(rows) = At(rows, K)
    BY DEF Enabled
  <2> HIDE DEF K
  <2> QED BY <2>1, AtGives
<1>5. LoadMappings(rows) \in Seq(MappingType)
  BY <1>2 DEF LoadMappings
<1>6. [k \in DOMAIN Enabled(rows) |-> Route(Enabled(rows)[k])] \in Seq(MappingType)
  BY <1>2, <1>4
<1>7. BuildRoutes(rows) \in Seq(MappingType)
  BY <1>3, <1>6 DEF BuildRoutes
<1> QED BY <1>5, <1>7

(* What a file gives is a profile.                                         *)
LEMMA LoadedProfile ==
    ASSUME NEW f \in FilesType
    PROVE  LoadFiles(f) \in ProfType
BY AccountsKept, LoadedRows DEF FilesType, LoadFiles, ProfType

LEMMA GatheredTyped ==
    ASSUME NEW lg, NEW p \in ProfType, NEW pr \in [Accounts -> ProviderStates],
           NEW full \in SUBSET RowIds, NEW f \in FilesType
    PROVE  GatherInputs(lg, p, pr, full, f) \in InputsType
<1>1. (IF lg THEN pr ELSE [a \in Accounts |-> "none"]) \in [Accounts -> ProviderStates]
  BY DEF ProviderStates
<1> QED BY <1>1 DEF GatherInputs, InputsType, ProfType, FilesType, DesiredCategoryNames,
                   CategorySlotNames

LEMMA LoadedTyped ==
    ASSUME Types, NEW p \in ProfType, NEW pr \in [Accounts -> ProviderStates]
    PROVE  Loaded(p, pr) \in PageType
<1>1. Edges(p.rows, pr) \in Seq(RowType)
  BY EdgesTyped DEF ProfType
<1>2. files.slots \in SUBSET (Categories \cup {Whole}) /\ page \in PageType
  BY DEF Types, ProfileTypes, EditorTypes, FilesType
<1> QED BY <1>1, <1>2 DEF Loaded, PageType, CategorySlotNames

(* The wizard gives each account a row.                                    *)
LEMMA WizardTyped ==
    ASSUME NEW S \in SUBSET Accounts
    PROVE  WizardRows(S) \in Seq(RowType)
<1> DEFINE n == Cardinality(S)
           order == SetToSeq(S)
<1>1. IsFiniteSet(S) /\ n \in Nat /\ n <= MaxRow /\ MaxRow \in Nat
  BY StoreAssumption, FS_Subset, FS_CardinalityType
<1>2. PICK f : f \in Bijection(1..n, S)
  BY <1>1, FS_CardinalityType DEF ExistsBijection
<1>3. f \in [1..n -> S] /\ IsInjective(f)
  BY <1>2 DEF Bijection, Injection
<1>4. order \in [1..n -> S]
  BY <1>3 DEF SetToSeq
<1> HIDE DEF order, n
<1>5. DOMAIN order = 1..n /\ \A k \in 1..n : order[k] \in Accounts /\ k \in RowIds
  BY <1>1, <1>4 DEF RowIds
<1>6. \A k \in 1..n : Row(k, Whole, order[k]) \in RowType
  BY <1>5, RowIs
<1>7. WizardRows(S) = [k \in 1..n |-> Row(k, Whole, order[k])]
  BY <1>5 DEF WizardRows, order
<1> QED BY <1>1, <1>6, <1>7

-----------------------------------------------------------------------------
(* Saving.                                                                 *)

(* What the files say of accounts and of rows' accounts.                   *)
LEMMA NamesPlain ==
    ASSUME NEW r, NEW s, \A k \in DOMAIN r : r[k] \in RowType, \A k \in DOMAIN s : s[k] \in RowType,
           {Plain(r[k]) : k \in DOMAIN r} = {Plain(s[k]) : k \in DOMAIN s}
    PROVE  Names(r) = Names(s)
<1>1. \A g \in DOMAIN r : \E k \in DOMAIN s : Plain(r[g]) = Plain(s[k])
  OBVIOUS
<1>2. \A k \in DOMAIN s : \E g \in DOMAIN r : Plain(r[g]) = Plain(s[k])
  OBVIOUS
<1>3. \A x, y \in RowType : Plain(x) = Plain(y) => x.id = y.id /\ x.acct = y.acct
  BY PlainRow
<1> QED BY <1>1, <1>2, <1>3 DEF Names

LEMMA OnFile ==
    /\ \A f \in AccFiles : Held(LoadAccountsConf(f)) = DOMAIN f
    /\ \A acc \in AccountsType : DOMAIN SaveAccountsConf(acc) = Held(acc)
    /\ \A rows \in Seq(RowType) : Names(SaveMappingsConf(rows)) = Names(rows)
    /\ \A rows \in Seq(RowType), f \in RowFiles :
          PlainFile(f) = PlainRows(rows) => Names(f) = Names(rows)
<1>1. ASSUME NEW f \in AccFiles
      PROVE  Held(LoadAccountsConf(f)) = DOMAIN f
  <2>1. /\ DOMAIN f \in SUBSET Accounts /\ \A a \in DOMAIN f : f[a] \in {"on", "off"}
    BY DEF AccFiles
  <2>2. \A a \in Accounts : LoadAccountsConf(f)[a] = "absent" <=> a \notin DOMAIN f
    BY <2>1 DEF LoadAccountsConf
  <2> QED BY <2>1, <2>2 DEF Held
<1>2. ASSUME NEW rows \in Seq(RowType)
      PROVE  Names(SaveMappingsConf(rows)) = Names(rows)
  BY SavedRows DEF Names
<1>3. ASSUME NEW rows \in Seq(RowType), NEW f \in RowFiles, PlainFile(f) = PlainRows(rows)
      PROVE  Names(f) = Names(rows)
  <2>1. \A g \in DOMAIN f : f[g] \in RowType
    BY DEF RowFiles
  <2>2. \A k \in DOMAIN rows : rows[k] \in RowType
    OBVIOUS
  <2> QED BY <1>3, <2>1, <2>2, NamesPlain DEF PlainFile, PlainRows
<1>4. \A acc \in AccountsType : DOMAIN SaveAccountsConf(acc) = Held(acc)
  BY DEF SaveAccountsConf
<1> QED BY <1>1, <1>2, <1>3, <1>4

(* Between two handlers the files have what was saved last.                *)
LEMMA QuietFiles ==
    ASSUME IInv, writes = <<>>
    PROVE  /\ LoadAccountsConf(files.acc) = saved.acc
           /\ PlainFile(files.rows) = PlainRows(saved.rows)
           /\ DOMAIN files.acc = Held(prof.acc) /\ Names(files.rows) = Names(prof.rows)
<1>1. files.acc \in AccFiles /\ files.rows \in RowFiles /\ prof.rows \in Seq(RowType)
  BY DEF IInv, Types, ProfileTypes, FilesType, ProfType
<1>2. ~TwoSaves
  <2>1. ASSUME NEW q
        PROVE  /\ writes # <<SaveRows(q), SaveAcc(saved), SaveRows(saved)>>
               /\ writes # <<SaveAcc(q), SaveRows(q), SaveAcc(saved), SaveRows(saved)>>
    OBVIOUS
  <2> QED BY <2>1 DEF TwoSaves
<1>3. writes # <<SaveRows(saved)>> /\ writes # <<SaveAcc(saved), SaveRows(saved)>>
  OBVIOUS
<1>4. /\ LoadAccountsConf(files.acc) = saved.acc
      /\ PlainFile(files.rows) = PlainRows(saved.rows)
  BY <1>2, <1>3 DEF IInv, Saving, OneSave
<1>5. PlainFile(files.rows) = PlainRows(prof.rows)
  BY <1>4 DEF IInv, Same
<1> QED BY <1>1, <1>4, <1>5, OnFile DEF IInv, Same

LEMMA SavesAre ==
    ASSUME NEW p
    PROVE  Saves(p) = <<SaveAcc(p), SaveRows(p)>>
BY DEF Saves, SaveAcc, SaveRows

(* A handler that saves once drops no account that a row names.            *)
LEMMA SavesOnce ==
    ASSUME IInv, writes = <<>>, NEW p \in ProfType, Commit(p, <<>>),
           NoneDropped(prof.rows, Held(prof.acc), Held(p.acc))
    PROVE  ProfileTypes' /\ Same' /\ Saving'
<1>1. prof' = p /\ saved' = p /\ files' = files /\ writes' = <<SaveAcc(p), SaveRows(p)>>
  BY SavesAre DEF Commit
<1>2. DOMAIN files.acc = Held(prof.acc) /\ Names(files.rows) = Names(prof.rows)
  BY QuietFiles
<1>3. NoneDropped(files.rows, DOMAIN files.acc, Held(p.acc))
  <2>1. \A g \in DOMAIN files.rows : \E k \in DOMAIN prof.rows :
            files.rows[g].acct = prof.rows[k].acct
    <3>1. \A g \in DOMAIN files.rows :
              <<files.rows[g].id, files.rows[g].acct>> \in Names(files.rows)
      BY DEF Names
    <3>2. \A n \in Names(prof.rows) :
              \E k \in DOMAIN prof.rows : n = <<prof.rows[k].id, prof.rows[k].acct>>
      BY DEF Names
    <3>3. ASSUME NEW g \in DOMAIN files.rows
          PROVE  \E k \in DOMAIN prof.rows : files.rows[g].acct = prof.rows[k].acct
      <4>1. PICK k \in DOMAIN prof.rows :
              <<files.rows[g].id, files.rows[g].acct>> = <<prof.rows[k].id, prof.rows[k].acct>>
        BY <1>2, <3>1, <3>2
      <4>2. files.rows[g].acct = prof.rows[k].acct
        BY <4>1
      <4> QED BY <4>2
    <3> QED BY <3>3
  <2> QED BY <1>2, <2>1 DEF NoneDropped
<1>4. OneSave'
  BY <1>1, <1>3 DEF OneSave, SaveAcc, SaveRows
<1> QED BY <1>1, <1>4 DEF IInv, Types, ProfileTypes, Same, Saving

LEMMA PairsJoin ==
    ASSUME NEW S, NEW a \in S, NEW b \in S, NEW c \in S, NEW d \in S
    PROVE  <<a, b>> \o <<c, d>> = <<a, b, c, d>>
<1> DEFINE u == <<a, b>>
           v == <<c, d>>
           w == <<a, b, c, d>>
<1>1. u \in Seq(S) /\ v \in Seq(S) /\ w \in Seq(S)
  OBVIOUS
<1>2. Len(u) = 2 /\ Len(v) = 2 /\ Len(w) = 4
  OBVIOUS
<1>3. /\ u[1] = a /\ u[2] = b /\ v[1] = c /\ v[2] = d
      /\ w[1] = a /\ w[2] = b /\ w[3] = c /\ w[4] = d
  OBVIOUS
<1> HIDE DEF u, v, w
<1>4. /\ u \o v \in Seq(S) /\ Len(u \o v) = Len(u) + Len(v)
      /\ \A i \in 1..(Len(u) + Len(v)) :
            (u \o v)[i] = IF i <= Len(u) THEN u[i] ELSE v[i - Len(u)]
  BY <1>1, ConcatProperties
<1>5. Len(u) + Len(v) = 4
  BY <1>2
<1>6. \A i \in 1..4 : (u \o v)[i] = IF i <= 2 THEN u[i] ELSE v[i - 2]
  BY <1>2, <1>4, <1>5
<1>7. ASSUME NEW i \in 1..4
      PROVE  w[i] = IF i <= 2 THEN u[i] ELSE v[i - 2]
  <2>1. i = 1 \/ i = 2 \/ i = 3 \/ i = 4
    OBVIOUS
  <2>2. CASE i = 1
    BY <1>3, <2>2
  <2>3. CASE i = 2
    BY <1>3, <2>3
  <2>4. CASE i = 3
    <3>1. i - 2 = 1 /\ ~(i <= 2)
      BY <2>4
    <3> QED BY <1>3, <2>4, <3>1
  <2>5. CASE i = 4
    <3>1. i - 2 = 2 /\ ~(i <= 2)
      BY <2>5
    <3> QED BY <1>3, <2>5, <3>1
  <2> QED BY <2>1, <2>2, <2>3, <2>4, <2>5
<1>8. Len(u \o v) = Len(w)
  BY <1>2, <1>4, <1>5
<1>9. u \o v = w
  BY <1>1, <1>2, <1>4, <1>6, <1>7, <1>8, SeqEqual
<1> QED BY <1>9 DEF u, v, w

(* A handler that saves twice saves no new rows and no new accounts first, *)
(* and drops no account then that those rows name.                         *)
LEMMA SavesTwice ==
    ASSUME IInv, writes = <<>>, NEW p \in ProfType, NEW q \in ProfType, Commit(p, Saves(q)),
           Held(q.acc) = Held(prof.acc), Names(q.rows) \subseteq Names(prof.rows),
           NoneDropped(q.rows, Held(q.acc), Held(p.acc))
    PROVE  ProfileTypes' /\ Same' /\ Saving'
<1>1. /\ prof' = p /\ saved' = p /\ files' = files
      /\ writes' = <<SaveAcc(q), SaveRows(q), SaveAcc(p), SaveRows(p)>>
  <2> DEFINE S == {SaveAcc(q), SaveRows(q), SaveAcc(p), SaveRows(p)}
  <2>2. Saves(q) \o Saves(p) = <<SaveAcc(q), SaveRows(q), SaveAcc(p), SaveRows(p)>>
    <3>1. /\ SaveAcc(q) \in S /\ SaveRows(q) \in S /\ SaveAcc(p) \in S /\ SaveRows(p) \in S
      OBVIOUS
    <3> HIDE DEF S
    <3> QED BY ZenonT(40), <3>1, SavesAre, PairsJoin
  <2> QED BY <2>2 DEF Commit
<1>2. DOMAIN files.acc = Held(prof.acc) /\ Names(files.rows) = Names(prof.rows)
  BY QuietFiles
<1>3. TwoSaves'
  BY <1>1, <1>2 DEF TwoSaves, SaveAcc, SaveRows
<1> QED BY <1>1, <1>3 DEF IInv, Types, ProfileTypes, Same, Saving

(* What a write leaves in the files.                                       *)
LEMMA WritesAcc ==
    ASSUME IInv, Write, NEW q \in ProfType, Head(writes) = SaveAcc(q)
    PROVE  /\ files' \in FilesType /\ files'.rows = files.rows
           /\ DOMAIN files'.acc = Held(q.acc) /\ LoadAccountsConf(files'.acc) = q.acc
<1>1. files \in FilesType /\ q.acc \in AccountsType
  BY DEF IInv, Types, ProfileTypes, ProfType
<1>2. files' = [files EXCEPT !.acc = SaveAccountsConf(q.acc)]
  <2>1. Head(writes).file = "acc" /\ Head(writes).to = SaveAccountsConf(q.acc)
    BY DEF SaveAcc
  <2>2. files' = [files EXCEPT ![Head(writes).file] = Head(writes).to]
    BY DEF Write
  <2> QED BY <2>1, <2>2
<1>3. /\ SaveAccountsConf(q.acc) \in AccFiles
      /\ LoadAccountsConf(SaveAccountsConf(q.acc)) = q.acc
      /\ DOMAIN SaveAccountsConf(q.acc) = Held(q.acc)
  BY <1>1, AccountsKept, OnFile
<1> QED BY <1>1, <1>2, <1>3 DEF FilesType

LEMMA WritesRows ==
    ASSUME IInv, Write, NEW q \in ProfType, Head(writes) = SaveRows(q)
    PROVE  /\ files' \in FilesType /\ files'.acc = files.acc
           /\ files'.rows = SaveMappingsConf(q.rows)
<1>1. files \in FilesType
  BY DEF IInv, Types, ProfileTypes
<1>2. files' = [files EXCEPT !.rows = SaveMappingsConf(q.rows)]
  <2>1. Head(writes).file = "rows" /\ Head(writes).to = SaveMappingsConf(q.rows)
    BY DEF SaveRows
  <2>2. files' = [files EXCEPT ![Head(writes).file] = Head(writes).to]
    BY DEF Write
  <2> QED BY <2>1, <2>2
<1>3. SaveMappingsConf(q.rows) \in RowFiles
  BY SavedRows DEF ProfType
<1> QED BY <1>1, <1>2, <1>3 DEF FilesType

(* One write after the other.                                              *)
LEMMA WriteKeeps ==
    ASSUME IInv, Write
    PROVE  ProfileTypes' /\ Same' /\ Saving'
<1>1. /\ prof' = prof /\ saved' = saved /\ writes # <<>> /\ writes' = Tail(writes)
      /\ files' = [files EXCEPT ![Head(writes).file] = Head(writes).to]
  BY DEF Write
<1>2. files \in FilesType /\ saved \in ProfType
  BY DEF IInv, Types, ProfileTypes
<1>3. ASSUME NEW q \in ProfType, Head(writes) = SaveAcc(q)
      PROVE  /\ files' \in FilesType /\ files'.rows = files.rows
             /\ DOMAIN files'.acc = Held(q.acc) /\ LoadAccountsConf(files'.acc) = q.acc
  BY <1>3, WritesAcc
<1>4. ASSUME NEW q \in ProfType, Head(writes) = SaveRows(q)
      PROVE  /\ files' \in FilesType /\ files'.acc = files.acc
             /\ files'.rows = SaveMappingsConf(q.rows)
  BY <1>4, WritesRows
<1>5. ASSUME files' \in FilesType, Saving'
      PROVE  ProfileTypes' /\ Same' /\ Saving'
  BY <1>1, <1>5 DEF IInv, Types, ProfileTypes, Same
<1>6. CASE writes = <<SaveRows(saved)>> /\ LoadAccountsConf(files.acc) = saved.acc
  <2>1. Head(writes) = SaveRows(saved) /\ writes' = <<>>
    BY <1>1, <1>6
  <2>2. PlainFile(files'.rows) = PlainRows(saved.rows) /\ LoadAccountsConf(files'.acc) = saved.acc
    BY <1>2, <1>4, <1>6, <2>1, RowsKept DEF ProfType
  <2>3. Saving'
    BY <1>1, <2>1, <2>2 DEF Saving, OneSave
  <2> QED BY <1>2, <1>4, <1>5, <2>1, <2>3
<1>7. CASE writes = <<SaveAcc(saved), SaveRows(saved)>>
  <2>1. Head(writes) = SaveAcc(saved) /\ writes' = <<SaveRows(saved)>>
    BY <1>1, <1>7
  <2>2. LoadAccountsConf(files'.acc) = saved.acc /\ files' \in FilesType
    BY <1>2, <1>3, <2>1
  <2>3. Saving'
    BY <1>1, <2>1, <2>2 DEF Saving, OneSave, SaveRows
  <2> QED BY <1>5, <2>2, <2>3
<1>8. ASSUME NEW q \in ProfType, Names(q.rows) \subseteq Names(files.rows),
             DOMAIN files.acc = Held(q.acc), NoneDropped(q.rows, Held(q.acc), Held(saved.acc)),
             writes = <<SaveRows(q), SaveAcc(saved), SaveRows(saved)>>
      PROVE  files' \in FilesType /\ Saving'
  <2>1. Head(writes) = SaveRows(q) /\ writes' = <<SaveAcc(saved), SaveRows(saved)>>
    BY <1>1, <1>8
  <2>2. files' \in FilesType /\ files'.acc = files.acc /\ files'.rows = SaveMappingsConf(q.rows)
    BY <1>4, <2>1
  <2>3. NoneDropped(files'.rows, DOMAIN files'.acc, Held(saved.acc))
    <3>1. \A g \in DOMAIN files'.rows : \E k \in DOMAIN q.rows : files'.rows[g] = q.rows[k]
      BY <2>2, SavedRows DEF ProfType
    <3> QED BY <1>8, <2>2, <3>1 DEF NoneDropped
  <2>4. OneSave'
    BY <1>1, <2>1, <2>3 DEF OneSave, SaveAcc, SaveRows
  <2> QED BY <2>2, <2>4 DEF Saving
<1>9. ASSUME NEW q \in ProfType, Names(q.rows) \subseteq Names(files.rows),
             DOMAIN files.acc = Held(q.acc), NoneDropped(q.rows, Held(q.acc), Held(saved.acc)),
             writes = <<SaveAcc(q), SaveRows(q), SaveAcc(saved), SaveRows(saved)>>
      PROVE  files' \in FilesType /\ Saving'
  <2>1. Head(writes) = SaveAcc(q) /\ writes' = <<SaveRows(q), SaveAcc(saved), SaveRows(saved)>>
    BY <1>1, <1>9
  <2>2. /\ files' \in FilesType /\ files'.rows = files.rows /\ DOMAIN files'.acc = Held(q.acc)
    BY <1>3, <2>1
  <2>3. TwoSaves'
    BY <1>1, <1>9, <2>1, <2>2 DEF TwoSaves, SaveAcc, SaveRows
  <2> QED BY <2>2, <2>3 DEF Saving
<1>10. CASE TwoSaves
  BY <1>5, <1>8, <1>9, <1>10 DEF TwoSaves
<1> QED BY <1>1, <1>6, <1>7, <1>10 DEF IInv, Saving, OneSave

-----------------------------------------------------------------------------
(* Steps.                                                                  *)

(* A step that saves nothing and leaves both files as they are.            *)
LEMMA NothingSaved ==
    ASSUME IInv, prof' \in ProfType, Held(prof'.acc) = Held(prof.acc), prof'.rows = prof.rows,
           saved' = saved, writes' = writes,
           files' \in FilesType, files'.acc = files.acc, files'.rows = files.rows
    PROVE  ProfileTypes' /\ Same' /\ Saving'
<1>1. ProfileTypes'
  BY DEF IInv, Types, ProfileTypes
<1>2. Same'
  BY DEF IInv, Same
<1>3. CASE OneSave
  BY <1>1, <1>2, <1>3 DEF OneSave, Saving, SaveAcc, SaveRows
<1>4. CASE TwoSaves
  BY <1>1, <1>2, <1>4 DEF TwoSaves, Saving, SaveAcc, SaveRows
<1> QED BY <1>1, <1>2, <1>3, <1>4 DEF IInv, Saving

(* A profile that is opened: from files that have what was saved last.     *)
LEMMA StartingFollows ==
    ASSUME NEW acc \in AccountsType, NEW able
    PROVE  /\ Starting(acc, able) \in [Accounts -> ProviderStates]
           /\ NodesOf(Starting(acc, able)) = Held(acc) \cap able
BY DEF Starting, ProviderStates, NodesOf, Held

LEMMA OpenedTyped ==
    ASSUME NEW p \in ProfType, NEW f \in FilesType, NEW lg, NEW able
    PROVE  /\ Starting(p.acc, able) \in [Accounts -> ProviderStates]
           /\ NodesOf(Starting(p.acc, able)) = Held(p.acc) \cap able
           /\ LoadMappings(p.rows) \in Seq(MappingType)
           /\ NoTopology \in [ready : BOOLEAN, maps : Seq(MappingType)]
           /\ GatherInputs(lg, p, Starting(p.acc, able), {}, f) \in InputsType
           /\ ClosedPage \in PageType
<1>1. p.acc \in AccountsType /\ p.rows \in Seq(RowType)
  BY DEF ProfType
<1>2. /\ Starting(p.acc, able) \in [Accounts -> ProviderStates]
      /\ NodesOf(Starting(p.acc, able)) = Held(p.acc) \cap able
  BY <1>1, StartingFollows
<1>3. {} \in SUBSET RowIds
  OBVIOUS
<1>4. GatherInputs(lg, p, Starting(p.acc, able), {}, f) \in InputsType
  BY <1>2, <1>3, GatheredTyped
<1>5. ClosedPage \in PageType
  <2>1. [a \in Accounts |-> "none"] \in [Accounts -> ProviderStates]
    BY DEF ProviderStates
  <2>2. <<>> \in Seq(RowType)
    OBVIOUS
  <2> QED BY <2>1, <2>2 DEF ClosedPage, PageType
<1>6. NoTopology \in [ready : BOOLEAN, maps : Seq(MappingType)]
  BY DEF NoTopology
<1> QED BY <1>1, <1>2, <1>4, <1>5, <1>6, MappingsTyped

LEMMA InitIInv ==
    ASSUME Init
    PROVE  IInv
<1>1. PICK S \in SUBSET Accounts :
        LET acc == [a \in Accounts |-> IF a \in S THEN "on" ELSE "absent"] IN
        /\ saved = [acc |-> acc, rows |-> WizardRows(S)]
        /\ files = [acc |-> SaveAccountsConf(acc), desired |-> {}, slots |-> {},
                    rows |-> SaveMappingsConf(WizardRows(S))]
  BY DEF Init
<1> DEFINE acc == [a \in Accounts |-> IF a \in S THEN "on" ELSE "absent"]
           rows == WizardRows(S)
<1>2. acc \in AccountsType /\ rows \in Seq(RowType)
  BY WizardTyped DEF AccountsType
<1> HIDE DEF acc, rows
<1>3. saved = [acc |-> acc, rows |-> rows]
  BY <1>1 DEF acc, rows
<1>4. files = [acc |-> SaveAccountsConf(acc), desired |-> {}, slots |-> {},
               rows |-> SaveMappingsConf(rows)]
  BY <1>1 DEF acc, rows
<1>5. /\ SaveAccountsConf(acc) \in AccFiles /\ LoadAccountsConf(SaveAccountsConf(acc)) = acc
      /\ SaveMappingsConf(rows) \in RowFiles
      /\ PlainFile(SaveMappingsConf(rows)) = PlainRows(rows)
  BY <1>2, AccountsKept, SavedRows, RowsKept
<1>6. saved \in ProfType /\ files \in FilesType
  BY <1>2, <1>3, <1>4, <1>5 DEF ProfType, FilesType
<1>7. prof = LoadFiles(files) /\ prof \in ProfType
  BY <1>6, LoadedProfile DEF Init
<1>8. prof.acc = saved.acc /\ PlainRows(prof.rows) = PlainRows(saved.rows)
  <2>1. prof.acc = acc /\ prof.rows = LoadMappingsConf(SaveMappingsConf(rows))
    BY <1>4, <1>5, <1>7 DEF LoadFiles
  <2> QED BY <1>3, <1>5, <2>1, RowsKept
<1>9. Same
  BY <1>8 DEF Same
<1>10. Saving
  BY <1>3, <1>4, <1>5 DEF Init, Saving, OneSave
<1>11. RuntimeTypes /\ EditorTypes /\ ProvidersFollow
  BY <1>6, <1>7, OpenedTyped DEF Init, RuntimeTypes, EditorTypes, ProvidersFollow
<1> QED BY <1>6, <1>7, <1>9, <1>10, <1>11 DEF IInv, Types, ProfileTypes

LEMMA RestartKeeps ==
    ASSUME IInv, Restart
    PROVE  IInv'
<1>1. /\ prof' = LoadFiles(files) /\ saved' = prof' /\ files' = files /\ writes' = <<>>
      /\ files \in FilesType
  BY DEF Restart, IInv, Types, ProfileTypes
<1>2. prof' \in ProfType
  BY <1>1, LoadedProfile
<1>3. PlainFile(files.rows) = PlainRows(prof'.rows) /\ LoadAccountsConf(files.acc) = prof'.acc
  BY <1>1, RowsKept DEF LoadFiles, FilesType
<1>4. Same' /\ Saving'
  BY <1>1, <1>3 DEF Same, Saving, OneSave
<1>5. /\ RuntimeTypes' /\ EditorTypes' /\ ProvidersFollow'
  BY <1>1, <1>2, OpenedTyped DEF Restart, RuntimeTypes, EditorTypes, ProvidersFollow
<1> QED BY <1>1, <1>2, <1>4, <1>5 DEF IInv, Types, ProfileTypes

(* The editors are given what the profile and the providers are.           *)
LEMMA RefreshTyped ==
    ASSUME Types, NEW p \in ProfType, NEW pr \in [Accounts -> ProviderStates],
           RefreshInputs(p, pr)
    PROVE  pb' \in InputsType
<1>1. pb.full \in SUBSET RowIds /\ files \in FilesType
  BY DEF Types, ProfileTypes, EditorTypes, InputsType
<1> QED BY <1>1, GatheredTyped DEF RefreshInputs

LEMMA ReloadTyped ==
    ASSUME Types, NEW p \in ProfType, NEW pr \in [Accounts -> ProviderStates],
           ReloadGraph(p, pr)
    PROVE  page' \in PageType
BY LoadedTyped DEF ReloadGraph, Types, EditorTypes

LEMMA ProviderKeeps ==
    ASSUME IInv, ProviderStateChanged
    PROVE  IInv'
<1>1. PICK a \in Accounts, st \in {"ready", "empty"} :
        prov[a] = "busy" /\ prov' = [prov EXCEPT ![a] = st]
  BY DEF ProviderStateChanged
<1>2. prov \in [Accounts -> ProviderStates] /\ prof \in ProfType
  BY DEF IInv, Types, RuntimeTypes, ProfileTypes
<1>3. prov' \in [Accounts -> ProviderStates] /\ NodesOf(prov') = NodesOf(prov)
  BY <1>1, <1>2 DEF ProviderStates, NodesOf
<1>4. pb' \in InputsType /\ page' \in PageType
  BY <1>2, <1>3, RefreshTyped, ReloadTyped DEF ProviderStateChanged, IInv, Types, EditorTypes
<1>5. ProfileTypes' /\ Same' /\ Saving'
  <2>1. prof' = prof /\ saved' = saved /\ writes' = writes /\ files' = files
    BY DEF ProviderStateChanged, diskVars
  <2> QED BY <2>1, NothingSaved DEF IInv, Types, ProfileTypes
<1>6. RuntimeTypes' /\ ProvidersFollow'
  BY <1>3 DEF startVars, ProviderStateChanged, IInv, Types, RuntimeTypes, ProvidersFollow
<1> QED BY <1>4, <1>5, <1>6 DEF IInv, Types, EditorTypes

LEMMA ReadyKeeps ==
    ASSUME IInv, AccountsReady
    PROVE  IInv'
<1>1. prov \in [Accounts -> ProviderStates] /\ prof \in ProfType
  BY DEF IInv, Types, RuntimeTypes, ProfileTypes
<1>2. pb' \in InputsType /\ page' \in PageType
  BY <1>1, RefreshTyped, ReloadTyped DEF AccountsReady, IInv, Types, EditorTypes
<1>3. ProfileTypes' /\ Same' /\ Saving'
  <2>1. prof' = prof /\ saved' = saved /\ writes' = writes /\ files' = files
    BY DEF AccountsReady, diskVars
  <2> QED BY <2>1, NothingSaved DEF IInv, Types, ProfileTypes
<1>4. RuntimeTypes' /\ ProvidersFollow'
  BY DEF startVars, AccountsReady, IInv, Types, RuntimeTypes, ProvidersFollow
<1> QED BY <1>2, <1>3, <1>4 DEF IInv, Types, EditorTypes


(* A device has connected: the slots it has are on file, nothing is saved. *)
LEMMA ConnectKeeps ==
    ASSUME IInv, FinishConnect
    PROVE  IInv'
<1> DEFINE rows == prof.rows
           wanted == Wanted(rows)
<1>1. /\ prof \in ProfType /\ files \in FilesType /\ prov \in [Accounts -> ProviderStates]
      /\ topo \in [ready : BOOLEAN, maps : Seq(MappingType)] /\ page \in PageType
      /\ rows \in Seq(RowType)
  BY DEF IInv, Types, ProfileTypes, RuntimeTypes, EditorTypes, ProfType
<1>2. wanted \in SUBSET Categories
  <2>1. \A k \in DOMAIN rows : rows[k].cat \in Categories \cup {Whole}
    <3>1. \A k \in DOMAIN rows : rows[k] \in RowType
      BY <1>1
    <3> QED BY <3>1 DEF RowType
  <2>2. files.desired \in SUBSET Categories
    BY <1>1 DEF FilesType
  <2> QED BY <2>1, <2>2 DEF Wanted, DesiredCategoryNames, ToSet
<1>3. PICK s \in SUBSET wanted :
        files' = SetCategorySlotNames(files, CategorySlotNames(files) \cup s \cup {Whole})
  BY DEF FinishConnect
<1> HIDE DEF wanted
<1>4. /\ files' \in FilesType /\ files'.acc = files.acc /\ files'.rows = files.rows
  <2>1. files.slots \cup s \cup {Whole} \in SUBSET (Categories \cup {Whole})
    BY <1>1, <1>2 DEF FilesType
  <2> QED BY <1>1, <1>3, <2>1 DEF FilesType, SetCategorySlotNames, CategorySlotNames
<1>5. ProfileTypes' /\ Same' /\ Saving'
  <2>1. prof' = prof /\ saved' = saved /\ writes' = writes
    BY DEF FinishConnect
  <2> QED BY <1>1, <1>4, <2>1, NothingSaved
<1>6. live' \in Seq(MappingType)
  BY <1>1, MappingsTyped DEF FinishConnect
<1>7. RuntimeTypes' /\ ProvidersFollow'
  <2>1. prov' = prov /\ prof' = prof /\ served' = served
    BY DEF FinishConnect, startVars
  <2>2. topo' \in [ready : BOOLEAN, maps : Seq(MappingType)]
    <3>1. topo' = [ready |-> TRUE, maps |-> live'] \/ topo' = topo
      BY DEF FinishConnect
    <3>2. [ready |-> TRUE, maps |-> live'] \in [ready : BOOLEAN, maps : Seq(MappingType)]
      BY <1>6
    <3> QED BY <1>1, <3>1, <3>2
  <2> QED BY <1>1, <1>6, <2>1, <2>2 DEF RuntimeTypes, ProvidersFollow, IInv
<1>8. EditorTypes'
  <2> DEFINE full == {r.id : r \in {x \in ToSet(rows) : x.cat \in Wanted(rows) \ files'.slots}}
  <2>1. full \in SUBSET RowIds
    <3>1. \A k \in DOMAIN rows : rows[k] \in RowType
      BY <1>1
    <3>2. \A r \in ToSet(rows) : r.id \in RowIds
      BY <3>1 DEF ToSet, RowType
    <3> QED BY <3>2
  <2>2. pb' = GatherInputs(legacy, prof, prov, full, files') /\ page' = page
    BY DEF FinishConnect
  <2> HIDE DEF full
  <2>3. pb' \in InputsType
    BY <1>1, <1>4, <2>1, <2>2, GatheredTyped
  <2> QED BY <1>1, <2>2, <2>3 DEF EditorTypes
<1> QED BY <1>5, <1>7, <1>8 DEF IInv, Types

LEMMA DisconnectKeeps ==
    ASSUME IInv, DeviceDisconnected
    PROVE  IInv'
<1>1. prov \in [Accounts -> ProviderStates] /\ prof \in ProfType
  BY DEF IInv, Types, RuntimeTypes, ProfileTypes
<1>2. pb' \in InputsType /\ page' = page
  BY <1>1, RefreshTyped DEF DeviceDisconnected, IInv
<1>3. ProfileTypes' /\ Same' /\ Saving'
  <2>1. prof' = prof /\ saved' = saved /\ writes' = writes /\ files' = files
    BY DEF DeviceDisconnected, diskVars
  <2> QED BY <2>1, NothingSaved DEF IInv, Types, ProfileTypes
<1>4. RuntimeTypes' /\ ProvidersFollow'
  BY DEF startVars, DeviceDisconnected, runtimeVars, IInv, Types, RuntimeTypes, ProvidersFollow
<1> QED BY <1>2, <1>3, <1>4 DEF IInv, Types, EditorTypes

LEMMA RunKeeps ==
    ASSUME IInv, RunStarts \/ RunFinishes
    PROVE  IInv'
<1>1. page \in PageType /\ \E off \in BOOLEAN : page' = [page EXCEPT !.off = off]
  BY DEF RunStarts, RunFinishes, IInv, Types, EditorTypes, PageType
<1>2. page' \in PageType
  BY <1>1 DEF PageType
<1>3. ProfileTypes' /\ Same' /\ Saving'
  <2>1. prof' = prof /\ saved' = saved /\ writes' = writes /\ files' = files
    BY DEF RunStarts, RunFinishes, diskVars
  <2> QED BY <2>1, NothingSaved DEF IInv, Types, ProfileTypes
<1>4. RuntimeTypes' /\ ProvidersFollow' /\ pb' = pb
  BY DEF startVars, RunStarts, RunFinishes, runtimeVars, IInv, Types, RuntimeTypes, ProvidersFollow
<1> QED BY <1>2, <1>3, <1>4 DEF IInv, Types, EditorTypes

(* The controller of accounts.                                             *)
LEMMA AddKeeps ==
    ASSUME IInv, writes = <<>>, AddProvider
    PROVE  IInv'
<1>1. PICK a \in Accounts :
        /\ prof.acc[a] = "absent" /\ a \in served
        /\ LET p == [prof EXCEPT !.acc = SaveAccount(@, a, TRUE)] IN
           /\ Commit(p, <<>>) /\ prov' = [prov EXCEPT ![a] = "busy"]
           /\ RefreshInputs(p, prov') /\ ReloadGraph(p, prov')
  BY DEF AddProvider
<1> DEFINE p == [prof EXCEPT !.acc = SaveAccount(@, a, TRUE)]
<1>2. /\ prov \in [Accounts -> ProviderStates] /\ prof \in ProfType
      /\ NodesOf(prov) = Held(prof.acc) \cap served /\ served' = served
  BY DEF IInv, Types, RuntimeTypes, ProfileTypes, ProvidersFollow, AddProvider, startVars
<1>3. p \in ProfType /\ Held(p.acc) = Held(prof.acc) \cup {a}
  BY <1>2 DEF ProfType, AccountsType, SaveAccount, Held
<1>4. prov' \in [Accounts -> ProviderStates] /\ NodesOf(prov') = NodesOf(prov) \cup {a}
  BY <1>1, <1>2 DEF ProviderStates, NodesOf
<1>5. Commit(p, <<>>) /\ RefreshInputs(p, prov') /\ ReloadGraph(p, prov')
  BY <1>1
<1> HIDE DEF p
<1>6. ProfileTypes' /\ Same' /\ Saving'
  BY <1>3, <1>5, SavesOnce DEF NoneDropped
<1>7. pb' \in InputsType /\ page' \in PageType
  BY <1>3, <1>4, <1>5, RefreshTyped, ReloadTyped DEF IInv
<1>8. RuntimeTypes'
  BY <1>4 DEF AddProvider, IInv, Types, RuntimeTypes
<1>9. ProvidersFollow'
  BY <1>1, <1>2, <1>3, <1>4, <1>5 DEF ProvidersFollow, Commit
<1> QED BY <1>6, <1>7, <1>8, <1>9 DEF IInv, Types, EditorTypes

LEMMA RemoveKeeps ==
    ASSUME IInv, writes = <<>>, RemoveProvider
    PROVE  IInv'
<1>1. PICK a \in NodesOf(prov) :
        LET cut == [prof EXCEPT !.rows = Without(@, a)]
            p == [cut EXCEPT !.acc = RemoveAccount(@, a)]
            first == IF cut.rows = prof.rows THEN <<>> ELSE Saves(cut)
        IN \/ /\ Commit(p, first) /\ prov' = [prov EXCEPT ![a] = "none"]
              /\ IF legacy THEN RefreshInputs(cut, prov') /\ ReloadGraph(cut, prov')
                 ELSE UNCHANGED <<pb, page>>
           \/ ~legacy /\ first # <<>> /\ Commit(cut, <<>>) /\ UNCHANGED <<prov, pb, page>>
  BY DEF RemoveProvider
<1> DEFINE cut == [prof EXCEPT !.rows = Without(@, a)]
           p == [cut EXCEPT !.acc = RemoveAccount(@, a)]
           first == IF cut.rows = prof.rows THEN <<>> ELSE Saves(cut)
<1>2. /\ prov \in [Accounts -> ProviderStates] /\ prof \in ProfType
      /\ NodesOf(prov) = Held(prof.acc) \cap served /\ a \in Accounts
      /\ pb \in InputsType /\ page \in PageType /\ served' = served
  BY DEF IInv, Types, RuntimeTypes, ProfileTypes, EditorTypes, ProvidersFollow, NodesOf,
         RemoveProvider, startVars
<1>3. /\ prof.rows \in Seq(RowType) /\ prof.acc \in AccountsType
      /\ Without(prof.rows, a) \in Seq(RowType)
      /\ \A n \in DOMAIN Without(prof.rows, a) :
            /\ Without(prof.rows, a)[n].acct # a
            /\ \E k \in DOMAIN prof.rows : Without(prof.rows, a)[n] = prof.rows[k]
  BY <1>2, WithoutGives DEF ProfType
<1>4. cut \in ProfType /\ cut.acc = prof.acc /\ cut.rows = Without(prof.rows, a)
  BY <1>2, <1>3 DEF ProfType
<1>5. p \in ProfType /\ p.rows = cut.rows /\ Held(p.acc) = Held(prof.acc) \ {a}
  BY <1>2, <1>3, <1>4 DEF ProfType, AccountsType, RemoveAccount, Held
<1>6. \/ /\ Commit(p, first) /\ prov' = [prov EXCEPT ![a] = "none"]
         /\ IF legacy THEN RefreshInputs(cut, prov') /\ ReloadGraph(cut, prov')
            ELSE UNCHANGED <<pb, page>>
      \/ ~legacy /\ first # <<>> /\ Commit(cut, <<>>) /\ UNCHANGED <<prov, pb, page>>
  BY <1>1
<1>7. first = IF cut.rows = prof.rows THEN <<>> ELSE Saves(cut)
  OBVIOUS
<1> HIDE DEF cut, p, first
<1>8. NoneDropped(cut.rows, Held(cut.acc), Held(p.acc))
  BY <1>3, <1>4, <1>5 DEF NoneDropped
<1>9. Names(cut.rows) \subseteq Names(prof.rows)
  BY <1>3, <1>4 DEF Names
<1>10. live' = live /\ topo' = topo
  BY DEF RemoveProvider
<1>11. CASE /\ Commit(p, first) /\ prov' = [prov EXCEPT ![a] = "none"]
            /\ IF legacy THEN RefreshInputs(cut, prov') /\ ReloadGraph(cut, prov')
               ELSE UNCHANGED <<pb, page>>
  <2>1. ProfileTypes' /\ Same' /\ Saving'
    <3>1. CASE cut.rows = prof.rows
      <4>1. Commit(p, <<>>) /\ NoneDropped(prof.rows, Held(prof.acc), Held(p.acc))
        BY <1>4, <1>7, <1>8, <1>11, <3>1
      <4> QED BY <1>5, <4>1, SavesOnce
    <3>2. CASE cut.rows # prof.rows
      <4>1. Commit(p, Saves(cut)) /\ Held(cut.acc) = Held(prof.acc)
        BY <1>4, <1>7, <1>11, <3>2
      <4> QED BY <1>4, <1>5, <1>8, <1>9, <4>1, SavesTwice
    <3> QED BY <3>1, <3>2
  <2>2. prov' \in [Accounts -> ProviderStates] /\ NodesOf(prov') = NodesOf(prov) \ {a}
    BY <1>2, <1>11 DEF ProviderStates, NodesOf
  <2>3. pb' \in InputsType /\ page' \in PageType
    BY <1>2, <1>4, <1>11, <2>2, RefreshTyped, ReloadTyped DEF IInv
  <2>4. RuntimeTypes'
    BY <1>10, <2>2 DEF IInv, Types, RuntimeTypes
  <2>5. ProvidersFollow'
    BY <1>2, <1>5, <1>11, <2>2 DEF ProvidersFollow, Commit
  <2> QED BY <2>1, <2>3, <2>4, <2>5 DEF IInv, Types, EditorTypes
<1>12. CASE Commit(cut, <<>>) /\ UNCHANGED <<prov, pb, page>>
  <2>1. ProfileTypes' /\ Same' /\ Saving'
    BY <1>4, <1>12, SavesOnce DEF NoneDropped
  <2>2. RuntimeTypes' /\ EditorTypes'
    BY <1>2, <1>10, <1>12 DEF IInv, Types, RuntimeTypes, EditorTypes
  <2>3. ProvidersFollow'
    BY <1>2, <1>4, <1>12 DEF ProvidersFollow, Commit
  <2> QED BY <2>1, <2>2, <2>3 DEF IInv, Types
<1> QED BY <1>6, <1>11, <1>12


LEMMA EnableGives ==
    ASSUME IInv, writes = <<>>, NEW a, NEW en \in BOOLEAN,
           Enable(a, en)
    PROVE  /\ ProfileTypes' /\ Same' /\ Saving'
           /\ Held(prof'.acc) = Held(prof.acc)
<1> DEFINE kept == [prof EXCEPT !.acc = SaveAccount(@, a, en)]
           rows == SwitchAcct(prof.rows, a, en)
           p == [kept EXCEPT !.rows = rows]
<1>2. prof \in ProfType /\ prof.rows \in Seq(RowType) /\ prof.acc \in AccountsType /\ a \in Accounts
  BY DEF IInv, Types, ProfileTypes, ProfType, Enable, Held
<1>3. kept \in ProfType /\ kept.rows = prof.rows /\ Held(kept.acc) = Held(prof.acc)
  BY <1>2 DEF ProfType, AccountsType, SaveAccount, Held, Enable
<1>4. rows \in Seq(RowType)
  BY <1>2, SwitchedTyped
<1>5. Commit(p, <<>>) \/ (prof' = kept /\ UNCHANGED diskVars)
  BY <1>3 DEF Enable, SwitchAcct
<1> HIDE DEF kept, rows
<1>6. p \in ProfType /\ p.acc = kept.acc
  BY <1>3, <1>4 DEF ProfType
<1> HIDE DEF p
<1>9. CASE Commit(p, <<>>)
  <2>1. ProfileTypes' /\ Same' /\ Saving'
    BY <1>3, <1>6, <1>9, SavesOnce DEF NoneDropped
  <2>2. Held(prof'.acc) = Held(prof.acc)
    BY <1>3, <1>6, <1>9 DEF Commit
  <2> QED BY <2>1, <2>2
<1>10. CASE prof' = kept /\ UNCHANGED diskVars
  <2>1. ProfileTypes' /\ Same' /\ Saving'
    <3>1. saved' = saved /\ writes' = writes /\ files' = files
      BY <1>10 DEF diskVars
    <3> QED BY <1>3, <1>10, <3>1, NothingSaved DEF IInv, Types, ProfileTypes
  <2>2. Held(prof'.acc) = Held(prof.acc)
    BY <1>3, <1>10
  <2> QED BY <2>1, <2>2
<1> QED BY <1>5, <1>9, <1>10

LEMMA EnableKeeps ==
    ASSUME IInv, writes = <<>>, SetProviderEnabled
    PROVE  IInv'
<1>1. PICK a \in Accounts, en \in BOOLEAN : Enable(a, en)
  BY DEF SetProviderEnabled
<1>2. /\ live' = live /\ topo' = topo /\ prov' = prov /\ pb' = pb /\ page' = page
      /\ served' = served
  BY DEF SetProviderEnabled, runtimeVars, startVars
<1>3. /\ ProfileTypes' /\ Same' /\ Saving'
      /\ Held(prof'.acc) = Held(prof.acc)
  BY <1>1, EnableGives
<1>4. RuntimeTypes' /\ EditorTypes' /\ ProvidersFollow'
  BY <1>2, <1>3 DEF IInv, Types, RuntimeTypes, EditorTypes, ProvidersFollow
<1> QED BY <1>3, <1>4 DEF IInv, Types

(* The accounts that the start of the program switches off.                *)
LEMMA SwitchOffKeeps ==
    ASSUME IInv, SwitchOff
    PROVE  IInv'
<1>1. PICK a \in todo : Enable(a, FALSE)
  BY DEF SwitchOff
<1>2. /\ live' = live /\ topo' = topo /\ prov' = prov /\ page' = page /\ served' = served
      /\ writes = <<>> /\ RefreshInputs(prof', prov)
  BY DEF SwitchOff, runtimeVars
<1>4. /\ ProfileTypes' /\ Same' /\ Saving'
      /\ Held(prof'.acc) = Held(prof.acc)
  BY <1>1, <1>2, EnableGives
<1>5. pb' \in InputsType
  BY <1>2, <1>4, RefreshTyped DEF IInv, Types, RuntimeTypes, ProfileTypes
<1>6. RuntimeTypes' /\ EditorTypes' /\ ProvidersFollow'
  BY <1>2, <1>4, <1>5 DEF IInv, Types, RuntimeTypes, EditorTypes, ProvidersFollow
<1> QED BY <1>4, <1>6 DEF IInv, Types

(* The two editors.                                                        *)
LEMMA ThroughKeeps ==
    ASSUME IInv, writes = <<>>, NEW b \in InputsType, WriteThrough(b),
           prov' = prov, topo' = topo, page' = page, served' = served
    PROVE  IInv'
<1> DEFINE p == [prof EXCEPT !.rows = b.rows]
<1>1. prof \in ProfType /\ b.rows \in Seq(RowType) /\ live \in Seq(MappingType)
  BY DEF IInv, Types, ProfileTypes, RuntimeTypes, InputsType
<1>2. p \in ProfType /\ p.acc = prof.acc
  BY <1>1 DEF ProfType
<1>3. Commit(p, <<>>) /\ pb' = b /\ ReloadMappings(b.rows)
  BY DEF WriteThrough
<1> HIDE DEF p
<1>4. ProfileTypes' /\ Same' /\ Saving'
  BY <1>2, <1>3, SavesOnce DEF NoneDropped
<1>5. live' \in Seq(MappingType)
  BY <1>1, <1>3, MappingsTyped DEF ReloadMappings
<1>6. RuntimeTypes' /\ EditorTypes'
  BY <1>3, <1>5 DEF IInv, Types, RuntimeTypes, EditorTypes
<1>7. ProvidersFollow'
  BY <1>2, <1>3 DEF Commit, IInv, ProvidersFollow
<1> QED BY <1>4, <1>6, <1>7 DEF IInv, Types

LEMMA WiresKeep ==
    ASSUME IInv, writes = <<>>, EditWires
    PROVE  IInv'
<1>1. /\ pb \in InputsType /\ pb.rows \in Seq(RowType)
      /\ prov' = prov /\ topo' = topo /\ page' = page /\ served' = served
  BY DEF EditWires, startVars, IInv, Types, EditorTypes, InputsType
<1>2. ASSUME NEW c \in Categories \cup {Whole}, NEW a \in Accounts, NEW i \in NewIds(pb.rows),
             WriteThrough(AddMapping(pb, i, c, a))
      PROVE  IInv'
  <2>1. Row(i, c, a) \in RowType
    BY RowIs DEF NewIds
  <2> DEFINE rows == Append(pb.rows, Row(i, c, a))
  <2>2. rows \in Seq(RowType) /\ AddMapping(pb, i, c, a) = [pb EXCEPT !.rows = rows]
    BY <1>1, <2>1 DEF AddMapping
  <2> HIDE DEF rows
  <2>3. AddMapping(pb, i, c, a) \in InputsType
    BY <1>1, <2>2 DEF InputsType
  <2> QED BY <1>1, <1>2, <2>3, ThroughKeeps
<1>3. ASSUME NEW r \in RowsOf(pb), WriteThrough(RemoveMapping(pb, r.id))
      PROVE  IInv'
  <2> DEFINE rows == At(pb.rows, {k \in DOMAIN pb.rows : pb.rows[k].id # r.id})
  <2>1. rows \in Seq(RowType) /\ RemoveMapping(pb, r.id) = [pb EXCEPT !.rows = rows]
    BY <1>1, OthersTyped DEF RemoveMapping
  <2> HIDE DEF rows
  <2>2. RemoveMapping(pb, r.id) \in InputsType
    BY <1>1, <2>1 DEF InputsType
  <2> QED BY <1>1, <1>3, <2>2, ThroughKeeps
<1>4. ASSUME NEW r \in RowsOf(pb), NEW en \in BOOLEAN, WriteThrough(UpdateMapping(pb, r.id, en))
      PROVE  IInv'
  <2> DEFINE rows == SwitchId(pb.rows, r.id, en)
  <2>1. rows \in Seq(RowType) /\ UpdateMapping(pb, r.id, en) = [pb EXCEPT !.rows = rows]
    BY <1>1, SwitchedTyped DEF UpdateMapping, SwitchId
  <2> HIDE DEF rows
  <2>2. UpdateMapping(pb, r.id, en) \in InputsType
    BY <1>1, <2>1 DEF InputsType
  <2> QED BY <1>1, <1>4, <2>2, ThroughKeeps
<1> QED BY <1>2, <1>3, <1>4 DEF EditWires

LEMMA CategoriesKeep ==
    ASSUME IInv, EditCategories
    PROVE  IInv'
<1>1. pb \in InputsType /\ files \in FilesType /\ prof \in ProfType
  BY DEF IInv, Types, ProfileTypes, EditorTypes
<1>2. pb' \in InputsType /\ files' = SetDesiredCategoryNames(files, pb'.desired)
  BY <1>1 DEF EditCategories, AddCategory, RemoveCategory, InputsType
<1>3. files' \in FilesType /\ files'.acc = files.acc /\ files'.rows = files.rows
  BY <1>1, <1>2 DEF SetDesiredCategoryNames, FilesType, InputsType
<1>4. ProfileTypes' /\ Same' /\ Saving'
  <2>1. prof' = prof /\ saved' = saved /\ writes' = writes
    BY DEF EditCategories
  <2> QED BY <1>1, <1>3, <2>1, NothingSaved
<1>5. RuntimeTypes' /\ ProvidersFollow' /\ page' = page
  BY DEF startVars, EditCategories, runtimeVars, IInv, Types, RuntimeTypes, ProvidersFollow
<1> QED BY <1>2, <1>4, <1>5 DEF IInv, Types, EditorTypes

(* What an edit of the settings dialog leaves of its page.                 *)
LEMMA GraphTyped ==
    ASSUME page \in PageType, EditGraph
    PROVE  page' \in PageType
<1>1. page.rows \in Seq(RowType) /\ page.slots \in SUBSET (Categories \cup {Whole})
  BY DEF PageType
<1>2. ASSUME NEW rows \in Seq(RowType), page' = [page EXCEPT !.rows = rows]
      PROVE  page' \in PageType
  BY <1>2 DEF PageType
<1>3. ASSUME NEW c \in page.slots, NEW a \in Accounts, NEW i \in NewIds(page.rows),
             page' = [page EXCEPT !.rows = Append(@, Row(i, c, a))]
      PROVE  page' \in PageType
  <2>1. Row(i, c, a) \in RowType
    BY <1>1, RowIs DEF NewIds
  <2> DEFINE rows == Append(page.rows, Row(i, c, a))
  <2>2. rows \in Seq(RowType) /\ page' = [page EXCEPT !.rows = rows]
    BY <1>1, <1>3, <2>1
  <2> HIDE DEF rows
  <2> QED BY <1>2, <2>2
<1>4. ASSUME NEW i, page' = [page EXCEPT !.rows = At(@, {k \in DOMAIN @ : @[k].id # i})]
      PROVE  page' \in PageType
  <2> DEFINE rows == At(page.rows, {k \in DOMAIN page.rows : page.rows[k].id # i})
  <2>1. rows \in Seq(RowType) /\ page' = [page EXCEPT !.rows = rows]
    BY <1>1, <1>4, OthersTyped
  <2> HIDE DEF rows
  <2> QED BY <1>2, <2>1
<1>5. ASSUME NEW i, NEW en \in BOOLEAN,
             page' = [page EXCEPT !.rows = Edges([k \in DOMAIN @ |->
                        IF @[k].id = i THEN [@[k] EXCEPT !.en = en, !.txt = FALSE] ELSE @[k]],
                        page.prov)]
      PROVE  page' \in PageType
  <2> DEFINE rows == SwitchId(page.rows, i, en)
  <2>1. rows \in Seq(RowType) /\ page' = [page EXCEPT !.rows = Edges(rows, page.prov)]
    BY <1>1, <1>5, SwitchedTyped DEF SwitchId
  <2> HIDE DEF rows
  <2>2. Edges(rows, page.prov) \in Seq(RowType)
    BY <2>1, EdgesTyped
  <2> QED BY <1>2, <2>1, <2>2
<1>6. \/ \E c \in page.slots, a \in Accounts, i \in NewIds(page.rows) :
            page' = [page EXCEPT !.rows = Append(@, Row(i, c, a))]
      \/ \E i : page' = [page EXCEPT !.rows = At(@, {k \in DOMAIN @ : @[k].id # i})]
      \/ \E i : \E en \in BOOLEAN :
            page' = [page EXCEPT !.rows = Edges([k \in DOMAIN @ |->
                       IF @[k].id = i THEN [@[k] EXCEPT !.en = en, !.txt = FALSE] ELSE @[k]],
                       page.prov)]
  BY DEF EditGraph
<1>7. CASE \E c \in page.slots, a \in Accounts, i \in NewIds(page.rows) :
              page' = [page EXCEPT !.rows = Append(@, Row(i, c, a))]
  BY Zenon, <1>3, <1>7
<1>8. CASE \E i : page' = [page EXCEPT !.rows = At(@, {k \in DOMAIN @ : @[k].id # i})]
  BY Zenon, <1>4, <1>8
<1>9. CASE \E i : \E en \in BOOLEAN :
              page' = [page EXCEPT !.rows = Edges([k \in DOMAIN @ |->
                         IF @[k].id = i THEN [@[k] EXCEPT !.en = en, !.txt = FALSE] ELSE @[k]],
                         page.prov)]
  BY ZenonT(40), <1>5, <1>9
<1> QED BY Zenon, <1>6, <1>7, <1>8, <1>9

LEMMA PageKeeps ==
    ASSUME IInv, OpenSettings \/ EditGraph \/ Cancel
    PROVE  IInv'
<1>1. /\ prov \in [Accounts -> ProviderStates] /\ prof \in ProfType
      /\ page \in PageType /\ files \in FilesType
  BY DEF IInv, Types, RuntimeTypes, ProfileTypes, EditorTypes
<1>2. page' \in PageType
  <2>1. CASE OpenSettings
    <3>1. Loaded(prof, prov) \in PageType
      BY <1>1, LoadedTyped DEF IInv
    <3> QED BY <2>1, <3>1 DEF OpenSettings, PageType
  <2>2. CASE EditGraph
    BY <1>1, <2>2, GraphTyped
  <2>3. CASE Cancel
    BY <1>1, <2>3, OpenedTyped DEF Cancel
  <2> QED BY <2>1, <2>2, <2>3
<1>3. ProfileTypes' /\ Same' /\ Saving'
  <2>1. prof' = prof /\ saved' = saved /\ writes' = writes /\ files' = files
    BY DEF OpenSettings, EditGraph, Cancel, diskVars
  <2> QED BY <1>1, <2>1, NothingSaved
<1>4. RuntimeTypes' /\ ProvidersFollow' /\ pb' = pb
  BY DEF startVars, OpenSettings, EditGraph, Cancel, runtimeVars, IInv, Types, RuntimeTypes, ProvidersFollow
<1> QED BY <1>2, <1>3, <1>4 DEF IInv, Types, EditorTypes

(* Apply saves the profile as it is first, with the categories, and then   *)
(* with the rows of the page.                                              *)
LEMMA ApplyKeeps ==
    ASSUME IInv, writes = <<>>, Apply
    PROVE  IInv'
<1> DEFINE p == [prof EXCEPT !.rows = page.rows]
<1>1. /\ prof \in ProfType /\ page \in PageType /\ page.rows \in Seq(RowType) /\ files \in FilesType
      /\ live \in Seq(MappingType)
  BY DEF IInv, Types, ProfileTypes, RuntimeTypes, EditorTypes, PageType
<1>2. p \in ProfType /\ p.acc = prof.acc
  BY <1>1 DEF ProfType
<1>3. /\ Commit(p, Saves(prof)) /\ ReloadMappings(page.rows) /\ page' \in {page, ClosedPage}
      /\ prov' = prov /\ topo' = topo /\ pb' = pb /\ served' = served
  BY DEF Apply, startVars
<1> HIDE DEF p
<1>4. ProfileTypes' /\ Same' /\ Saving'
  BY <1>1, <1>2, <1>3, SavesTwice DEF NoneDropped
<1>5. live' \in Seq(MappingType)
  BY <1>1, <1>3, MappingsTyped DEF ReloadMappings
<1>6. page' \in PageType
  BY <1>1, <1>3, OpenedTyped
<1>7. RuntimeTypes' /\ EditorTypes'
  BY <1>3, <1>5, <1>6 DEF IInv, Types, RuntimeTypes, EditorTypes
<1>8. ProvidersFollow'
  BY <1>2, <1>3 DEF Commit, IInv, ProvidersFollow
<1> QED BY <1>4, <1>7, <1>8 DEF IInv, Types


LEMMA NextKeeps ==
    ASSUME IInv, [Next]_vars
    PROVE  IInv'
<1>1. CASE Write
  <2>1. ProfileTypes' /\ Same' /\ Saving'
    BY <1>1, WriteKeeps
  <2>2. RuntimeTypes' /\ EditorTypes' /\ ProvidersFollow'
    BY <1>1 DEF startVars, Write, runtimeVars, IInv, Types, RuntimeTypes, EditorTypes, ProvidersFollow
  <2> QED BY <2>1, <2>2 DEF IInv, Types
<1>2. CASE Restart
  BY <1>2, RestartKeeps
<1>3. CASE ProviderStateChanged
  BY <1>3, ProviderKeeps
<1>4. CASE AccountsReady
  BY <1>4, ReadyKeeps
<1>5. CASE FinishConnect
  BY <1>5, ConnectKeeps
<1>6. CASE DeviceDisconnected
  BY <1>6, DisconnectKeeps
<1>7. CASE RunStarts \/ RunFinishes
  BY <1>7, RunKeeps
<1>8. CASE Quiet /\ Edit
  BY <1>8, AddKeeps, RemoveKeeps, EnableKeeps, WiresKeep, CategoriesKeep, PageKeeps, ApplyKeeps
     DEF Edit, Quiet
<1>10. CASE SwitchOff
  BY <1>10, SwitchOffKeeps
<1>9. CASE UNCHANGED vars
  <2>1. /\ prof' = prof /\ saved' = saved /\ writes' = writes /\ files' = files /\ served' = served
        /\ prov' = prov /\ live' = live /\ topo' = topo /\ pb' = pb /\ page' = page
    BY <1>9 DEF vars, diskVars, runtimeVars, startVars
  <2>2. ProfileTypes' /\ Same' /\ Saving'
    BY <2>1, NothingSaved DEF IInv, Types, ProfileTypes
  <2>3. RuntimeTypes' /\ EditorTypes' /\ ProvidersFollow'
    BY <2>1 DEF IInv, Types, RuntimeTypes, EditorTypes, ProvidersFollow
  <2> QED BY <2>2, <2>3 DEF IInv, Types
<1> QED BY <1>1, <1>2, <1>3, <1>4, <1>5, <1>6, <1>7, <1>8, <1>9, <1>10 DEF Next

-----------------------------------------------------------------------------
(* Theorems.                                                               *)

LEMMA Invariant == Spec => []IInv
<1>1. Init => IInv
  BY InitIInv
<1>2. IInv /\ [Next]_vars => IInv'
  BY NextKeeps
<1> QED BY <1>1, <1>2, PTL DEF Spec

(* The profile, its files, the runtime's mappings and the editors' copies  *)
(* have their types (Profile, PalmRuntime, PatchbayModel and               *)
(* SyncMappingsPage).                                                      *)
THEOREM TypeCorrect == Spec => []TypeOK
<1>1. IInv => TypeOK
  BY DEF IInv, Types, ProfileTypes, RuntimeTypes, EditorTypes, ProfType, FilesType,
         InputsType, PageType, TypeOK
<1> QED BY <1>1, Invariant, PTL

(* A restart gives back what was saved last (saveMappingsConf,             *)
(* loadMappingsConf).                                                      *)
THEOREM RestartGivesBack == Spec => []RestartFaithful
<1>1. ASSUME IInv, writes = <<>>
      PROVE  Content(LoadFiles(files)) = Content(saved)
  <2>1. /\ LoadAccountsConf(files.acc) = saved.acc
        /\ PlainFile(files.rows) = PlainRows(saved.rows)
    BY <1>1, QuietFiles
  <2>2. PlainRows(LoadMappingsConf(files.rows)) = PlainFile(files.rows)
    BY <1>1, RowsKept DEF IInv, Types, ProfileTypes, FilesType
  <2>3. ASSUME NEW p
        PROVE  Content(p) = [acc |-> p.acc, rows |-> PlainRows(p.rows)]
    BY DEF Content, PlainRows, Plain
  <2>4. /\ LoadFiles(files).acc = LoadAccountsConf(files.acc)
        /\ LoadFiles(files).rows = LoadMappingsConf(files.rows)
    BY DEF LoadFiles
  <2>5. Content(LoadFiles(files)) =
          [acc |-> LoadFiles(files).acc, rows |-> PlainRows(LoadFiles(files).rows)]
    BY <2>3
  <2>6. Content(saved) = [acc |-> saved.acc, rows |-> PlainRows(saved.rows)]
    BY <2>3
  <2> QED BY <2>1, <2>2, <2>4, <2>5, <2>6
<1>2. IInv => RestartFaithful
  BY <1>1 DEF RestartFaithful
<1> QED BY <1>2, Invariant, PTL

(* Each account of the profile that a provider can be made of has one, and *)
(* no other account has (AccountController::loadAndConnect, addProvider    *)
(* and removeProvider).                                                    *)
THEOREM ProvidersAlwaysFollow == Spec => []ProvidersFollow
<1>1. IInv => ProvidersFollow
  BY DEF IInv
<1> QED BY <1>1, Invariant, PTL

(* The orphans among what the files give back.                             *)
LEMMA OrphansOnFile ==
    ASSUME NEW f \in FilesType, NEW i
    PROVE  i \in Orphans(LoadFiles(f)) <=>
              \E n \in Names(f.rows) : n[1] = i /\ n[2] \notin DOMAIN f.acc
<1> DEFINE p == LoadFiles(f)
<1>1. p \in ProfType /\ p.acc = LoadAccountsConf(f.acc) /\ p.rows = LoadMappingsConf(f.rows)
  BY LoadedProfile DEF LoadFiles
<1>2. f.acc \in AccFiles /\ f.rows \in RowFiles
  BY DEF FilesType
<1>3. Held(p.acc) = DOMAIN f.acc
  BY <1>1, <1>2, OnFile
<1>4. Names(p.rows) = Names(f.rows)
  BY <1>1, <1>2, RowsKept, OnFile DEF ProfType
<1>5. p.rows \in Seq(RowType)
  BY <1>1 DEF ProfType
<1> HIDE DEF p
<1>6. \A k \in DOMAIN p.rows : p.rows[k].acct \in Accounts
  <2>1. \A k \in DOMAIN p.rows : p.rows[k] \in RowType
    BY <1>5
  <2> QED BY <2>1 DEF RowType
<1>7. i \in Orphans(p) <=>
      \E k \in DOMAIN p.rows : p.rows[k].id = i /\ p.rows[k].acct \notin Held(p.acc)
  BY <1>6 DEF Orphans, Held
<1>8. (\E n \in Names(p.rows) : n[1] = i /\ n[2] \notin Held(p.acc)) <=>
      \E k \in DOMAIN p.rows : p.rows[k].id = i /\ p.rows[k].acct \notin Held(p.acc)
  <2>1. ASSUME NEW k \in DOMAIN p.rows
        PROVE  LET n == <<p.rows[k].id, p.rows[k].acct>> IN
               n \in Names(p.rows) /\ n[1] = p.rows[k].id /\ n[2] = p.rows[k].acct
    BY DEF Names
  <2>2. ASSUME NEW n \in Names(p.rows)
        PROVE  \E k \in DOMAIN p.rows : n[1] = p.rows[k].id /\ n[2] = p.rows[k].acct
    <3>1. PICK k \in DOMAIN p.rows : n = <<p.rows[k].id, p.rows[k].acct>>
      BY DEF Names
    <3>2. n[1] = p.rows[k].id /\ n[2] = p.rows[k].acct
      BY <3>1
    <3> QED BY <3>2
  <2> QED BY <2>1, <2>2
<1>9. i \in Orphans(p) <=> \E n \in Names(f.rows) : n[1] = i /\ n[2] \notin DOMAIN f.acc
  BY <1>3, <1>4, <1>7, <1>8
<1> QED BY <1>9 DEF p

LEMMA OrphansInMemory ==
    ASSUME NEW p \in ProfType, NEW i, NEW n \in Names(p.rows), n[1] = i, n[2] \notin Held(p.acc)
    PROVE  i \in Orphans(p)
<1>1. PICK k \in DOMAIN p.rows : n = <<p.rows[k].id, p.rows[k].acct>>
  BY DEF Names
<1>2. p.rows[k].id = i /\ p.rows[k].acct \notin Held(p.acc)
  BY <1>1
<1>3. p.rows[k] \in RowType
  BY DEF ProfType
<1>4. p.rows[k].acct \in Accounts
  BY <1>3 DEF RowType
<1> QED BY <1>2, <1>4 DEF Orphans, Held

(* A write of accounts drops none that a row on file names, and a write of *)
(* rows adds none that memory has no account for.                          *)
LEMMA WriteOrphans ==
    ASSUME IInv, Write, NEW n \in Names(files'.rows), n[2] \notin DOMAIN files'.acc
    PROVE  \/ n \in Names(files.rows) /\ n[2] \notin DOMAIN files.acc
           \/ n \in Names(prof.rows) /\ n[2] \notin Held(prof.acc)
<1>1. /\ files \in FilesType /\ saved \in ProfType /\ prof \in ProfType
      /\ files.acc \in AccFiles
  BY DEF IInv, Types, ProfileTypes, FilesType
<1>2. writes # <<>>
  BY DEF Write
<1>3. ASSUME NoneDropped(files.rows, DOMAIN files.acc, Held(saved.acc)),
             Head(writes) = SaveAcc(saved)
      PROVE  n \in Names(files.rows) /\ n[2] \notin DOMAIN files.acc
  <2>1. files'.rows = files.rows /\ DOMAIN files'.acc = Held(saved.acc)
    BY <1>1, <1>3, WritesAcc
  <2>2. PICK g \in DOMAIN files.rows : n = <<files.rows[g].id, files.rows[g].acct>>
    BY <2>1 DEF Names
  <2>3. n[2] = files.rows[g].acct
    BY <2>2
  <2> QED BY <1>3, <2>1, <2>3 DEF NoneDropped
<1>4. ASSUME NEW q \in ProfType, Head(writes) = SaveRows(q)
      PROVE  n \in Names(q.rows) /\ n[2] \notin DOMAIN files.acc
  <2>1. files'.acc = files.acc /\ files'.rows = SaveMappingsConf(q.rows)
    BY <1>4, WritesRows
  <2> QED BY <2>1, OnFile DEF ProfType
<1>5. CASE writes = <<SaveRows(saved)>> /\ LoadAccountsConf(files.acc) = saved.acc
  <2>1. n \in Names(saved.rows) /\ n[2] \notin DOMAIN files.acc
    BY <1>1, <1>4, <1>5
  <2>2. DOMAIN files.acc = Held(prof.acc)
    BY <1>1, <1>5, OnFile DEF IInv, Same
  <2>3. Names(saved.rows) = Names(prof.rows)
    <3>1. \A p \in ProfType : \A k \in DOMAIN p.rows : p.rows[k] \in RowType
      BY DEF ProfType
    <3> QED BY <1>1, <3>1, NamesPlain DEF IInv, Same, PlainRows
  <2> QED BY <2>1, <2>2, <2>3
<1>6. CASE /\ writes = <<SaveAcc(saved), SaveRows(saved)>>
           /\ NoneDropped(files.rows, DOMAIN files.acc, Held(saved.acc))
  BY <1>3, <1>6
<1>7. ASSUME NEW q \in ProfType, Names(q.rows) \subseteq Names(files.rows),
             writes = <<SaveRows(q), SaveAcc(saved), SaveRows(saved)>>
      PROVE  n \in Names(files.rows) /\ n[2] \notin DOMAIN files.acc
  BY <1>4, <1>7
<1>8. ASSUME NEW q \in ProfType, DOMAIN files.acc = Held(q.acc),
             writes = <<SaveAcc(q), SaveRows(q), SaveAcc(saved), SaveRows(saved)>>
      PROVE  n \in Names(files.rows) /\ n[2] \notin DOMAIN files.acc
  <2>1. files'.rows = files.rows /\ DOMAIN files'.acc = Held(q.acc)
    BY <1>8, WritesAcc
  <2> QED BY <1>8, <2>1
<1>9. CASE TwoSaves
  BY <1>7, <1>8, <1>9 DEF TwoSaves
<1> QED BY <1>2, <1>5, <1>6, <1>9 DEF IInv, Saving, OneSave

(* Wherever the process dies, the files hold no row whose account they     *)
(* lack, unless the program itself held such a row                         *)
(* (the two saves of AccountController::removeProvider).                   *)
THEOREM NoOrphansMade == Spec => NoNewOrphans
<1>1. ASSUME IInv, IInv', Write
      PROVE  Orphans(LoadFiles(files')) \subseteq Orphans(LoadFiles(files)) \cup Orphans(prof)
  <2>1. files \in FilesType /\ files' \in FilesType /\ prof \in ProfType
    BY <1>1 DEF IInv, Types, ProfileTypes
  <2>2. ASSUME NEW i \in Orphans(LoadFiles(files'))
        PROVE  i \in Orphans(LoadFiles(files)) \cup Orphans(prof)
    <3>1. PICK n \in Names(files'.rows) : n[1] = i /\ n[2] \notin DOMAIN files'.acc
      BY <2>1, OrphansOnFile
    <3>2. \/ n \in Names(files.rows) /\ n[2] \notin DOMAIN files.acc
          \/ n \in Names(prof.rows) /\ n[2] \notin Held(prof.acc)
      BY <1>1, <3>1, WriteOrphans
    <3> QED BY <2>1, <3>1, <3>2, OrphansOnFile, OrphansInMemory
  <2> QED BY <2>2
<1>2. ASSUME IInv, IInv', files'.acc = files.acc, files'.rows = files.rows
      PROVE  Orphans(LoadFiles(files')) \subseteq Orphans(LoadFiles(files)) \cup Orphans(prof)
  <2>1. files \in FilesType /\ files' \in FilesType
    BY <1>2 DEF IInv, Types, ProfileTypes
  <2> QED BY <1>2, <2>1, OrphansOnFile
<1>3. ASSUME Next, ~Write
      PROVE  files'.acc = files.acc /\ files'.rows = files.rows
  <2>1. CASE Restart \/ ProviderStateChanged \/ AccountsReady
    BY <2>1 DEF Restart, ProviderStateChanged, AccountsReady, diskVars
  <2>2. CASE DeviceDisconnected \/ RunStarts \/ RunFinishes
    BY <2>2 DEF DeviceDisconnected, RunStarts, RunFinishes, diskVars
  <2>3. CASE FinishConnect
    <3>1. \E names : files' = SetCategorySlotNames(files, names)
      BY <2>3 DEF FinishConnect
    <3> QED BY <3>1 DEF SetCategorySlotNames
  <2>4. CASE EditCategories
    <3>1. files' = SetDesiredCategoryNames(files, pb'.desired)
      BY ZenonT(40), <2>4 DEF EditCategories
    <3> QED BY <3>1 DEF SetDesiredCategoryNames
  <2>5. CASE AddProvider \/ RemoveProvider \/ SetProviderEnabled \/ SwitchOff
    BY <2>5 DEF AddProvider, RemoveProvider, SetProviderEnabled, SwitchOff, Enable, Commit, diskVars
  <2>6. CASE EditWires
    BY <2>6 DEF EditWires, WriteThrough, Commit
  <2>7. CASE OpenSettings \/ EditGraph \/ Apply \/ Cancel
    BY <2>7 DEF OpenSettings, EditGraph, Apply, Cancel, Commit, diskVars
  <2> QED BY <1>3, <2>1, <2>2, <2>3, <2>4, <2>5, <2>6, <2>7 DEF Next, Edit
<1>4. IInv /\ IInv' /\ [Next]_vars =>
        [Orphans(LoadFiles(files')) \subseteq Orphans(LoadFiles(files)) \cup Orphans(prof)]_vars
  BY <1>1, <1>2, <1>3
<1> QED BY <1>4, Invariant, PTL DEF Spec, NoNewOrphans

(* What a run was started with stays until it is over, whoever edits       *)
(* (PalmRuntime::reloadMappings, whose callers have to see to it).         *)
THEOREM RunAlwaysFrozen == Spec => RunFrozen
<1>1. ASSUME Next, run, run'
      PROVE  live' = live /\ topo' = topo
  BY <1>1 DEF Next, Write, Restart, ProviderStateChanged, AccountsReady, FinishConnect,
     DeviceDisconnected, RunStarts, RunFinishes, Edit, AddProvider, RemoveProvider,
     SetProviderEnabled, SwitchOff, EditWires, EditCategories, OpenSettings, EditGraph, Apply, Cancel,
     WriteThrough, ReloadMappings, runtimeVars
<1>2. [Next]_vars => [run /\ run' => live' = live /\ topo' = topo]_vars
  BY <1>1
<1> QED BY <1>2, PTL DEF Spec, RunFrozen

(* Whatever copy of the facts the patchbay is given, its loops over nodes  *)
(* and over wires agree: all it draws has its ends                         *)
(* (PatchbayModel::rebuildRemotes, rebuildWiresAndStrands).                *)
THEOREM AlwaysDrawable == Spec => []PatchbayDrawable
<1>1. ASSUME NEW b \in InputsType
      PROVE  Drawable(b)
  <2>1. \A r \in RowsOf(b) : r \in RowType
    BY DEF InputsType, RowsOf, ToSet
  <2>2. ASSUME NEW r \in RowsOf(b)
        PROVE  /\ TargetOf(b, r).acct = r.acct
               /\ b.prov[r.acct] = "busy" \/ TargetOf(b, r) \in Ports(b)
    <3>1. r.acct \in Accounts /\ b.prov[r.acct] \in ProviderStates
      BY <2>1 DEF RowType, InputsType
    <3>2. CASE OnRemote(b, r)
      BY <3>1, <3>2 DEF OnRemote, TargetOf, Remote, Ports
    <3>3. CASE ~OnRemote(b, r)
      BY <3>1, <3>3 DEF OnRemote, TargetOf, Ghost, Ports, Unresolved, ProviderStates
    <3> QED BY <3>2, <3>3
  <2>3. \A w \in Wires(b) : \E r \in RowsOf(b) : w.to = TargetOf(b, r) /\ w.from = r.cat
    BY DEF Wires
  <2>4. \A s \in Strands(b) : s.hub \in HubCategoryNames(b) \cup {Whole}
    BY DEF Strands
  <2>5. ASSUME NEW r \in RowsOf(b)
        PROVE  \/ \E s \in Strands(b) : s.hub = r.cat
               \/ \E x \in RowsOf(b) : x.cat = r.cat /\ x.id \in b.full
    <3> DEFINE full == {x.cat : x \in {y \in RowsOf(b) : y.id \in b.full}}
    <3>1. CASE r.cat = Whole
      <4>1. [hub |-> Whole, palm |-> Whole, solid |-> TRUE] \in Strands(b)
        BY DEF Strands
      <4> QED BY <3>1, <4>1
    <3>2. CASE r.cat # Whole /\ r.cat \notin full
      <4>1. r.cat \in HubCategoryNames(b)
        BY <3>2 DEF HubCategoryNames
      <4> DEFINE s == [hub |-> r.cat, palm |-> IF r.cat \in b.slots THEN r.cat ELSE Whole,
                       solid |-> r.cat \in b.slots]
      <4>2. s \in Strands(b)
        BY <3>2, <4>1 DEF Strands
      <4> QED BY <4>2
    <3>3. CASE r.cat \in full
      BY <3>3
    <3> QED BY <3>1, <3>2, <3>3
  <2> QED BY <2>2, <2>3, <2>4, <2>5 DEF Drawable
<1>2. IInv => PatchbayDrawable
  BY <1>1 DEF IInv, Types, EditorTypes, PatchbayDrawable
<1> QED BY <1>2, Invariant, PTL
=============================================================================
