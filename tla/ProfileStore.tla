---------------------------- MODULE ProfileStore ----------------------------
(***************************************************************************)
(* What Profile keeps of accounts and mapping rows, in memory and in the   *)
(* files accounts.conf and mappings.conf of the profile's folder.          *)
(*                                                                         *)
(* A row binds all records of a Palm database, or those of one category,   *)
(* to the collection of an account (each account has one here).  `en' is   *)
(* its "enabled"; `txt' says that the value came out of a file, where it   *)
(* is the text "true" or "false" and no longer a Boolean.  Modes, conflict *)
(* policies and the other keys of profile.conf are left out.               *)
(***************************************************************************)
EXTENDS Naturals, Sequences, FiniteSets, SequencesExt

CONSTANTS
    Accounts,      \* ids of accounts
    Categories,    \* category names, compared without case
    Whole,         \* the empty sourceCalendar: no category
    MaxRow,        \* bound: ids of rows, enough for the wizard's
    GroupOf        \* what sanitizeKConfigGroupId makes of a row's id

RowIds == 1 .. MaxRow
ASSUME StoreAssumption ==
    /\ Whole \notin Categories /\ MaxRow \in Nat
    /\ IsFiniteSet(Accounts) /\ Cardinality(Accounts) <= MaxRow
    /\ GroupOf \in [RowIds -> RowIds]

Row(i, c, a) == [id |-> i, cat |-> c, acct |-> a, en |-> TRUE, txt |-> FALSE]
RowType == [id : RowIds, cat : Categories \cup {Whole}, acct : Accounts,
            en : BOOLEAN, txt : BOOLEAN]

(* m_accounts: absent, enabled or disabled.                                *)
AccountsType == [Accounts -> {"absent", "on", "off"}]
NoAccounts == [a \in Accounts |-> "absent"]
Held(acc) == {a \in Accounts : acc[a] # "absent"}

SaveAccount(acc, a, en) == [acc EXCEPT ![a] = IF en THEN "on" ELSE "off"]
RemoveAccount(acc, a) == [acc EXCEPT ![a] = "absent"]

(* The rows at some of the places of a list, in their order.               *)
At(rows, K) ==
    [n \in 1 .. Cardinality(K) |->
        rows[CHOOSE k \in K : Cardinality({j \in K : j < k}) = n - 1]]

-----------------------------------------------------------------------------
(* mappings.conf: a group of the file for every row, named after its id.   *)

(* Mutant of Group: ids that sanitize to the same name share a group.      *)
Group_NoSuffix(rows, k) == <<GroupOf[rows[k].id], 1>>

(* The name is taken by an earlier row: it gets a number.                  *)
Group(rows, k) ==
    <<GroupOf[rows[k].id],
      Cardinality({j \in 1 .. k : GroupOf[rows[j].id] = GroupOf[rows[k].id]})>>

(* saveMappingsConf rewrites the file: of rows in one group the last stays.*)
SaveMappingsConf(rows) ==
    LET groups == {Group(rows, k) : k \in DOMAIN rows}
        last(g) == CHOOSE k \in DOMAIN rows : /\ Group(rows, k) = g
                                              /\ \A j \in DOMAIN rows : Group(rows, j) = g => j <= k
    IN [g \in groups |-> rows[last(g)]]

(* loadMappingsConf: in the order of the groups' names, Booleans as text.  *)
Before(f, g) == {h \in DOMAIN f : h[1] < g[1] \/ (h[1] = g[1] /\ h[2] < g[2])}

LoadMappingsConf(f) ==
    [n \in 1 .. Cardinality(DOMAIN f) |->
        LET g == CHOOSE h \in DOMAIN f : Cardinality(Before(f, h)) = n - 1
        IN  [f[g] EXCEPT !.txt = TRUE]]

(* saveAccountsConf and loadAccountsConf: a group per account id, which is *)
(* a UUID and stays as it is.                                              *)
SaveAccountsConf(acc) == [a \in Held(acc) |-> acc[a]]
LoadAccountsConf(f) == [a \in Accounts |-> IF a \in DOMAIN f THEN f[a] ELSE "absent"]

(* Names of categories, in profile.conf beside the rest: those the user    *)
(* wants, of which the file takes as many as a device has room for, and    *)
(* those the device had at the last connect.  Each is written at once.     *)
DesiredCategoryNames(f) == f.desired
SetDesiredCategoryNames(f, names) == [f EXCEPT !.desired = names]
CategorySlotNames(f) == f.slots
SetCategorySlotNames(f, names) == [f EXCEPT !.slots = names]

(* The rows the wizard writes: every account with its whole database.      *)
WizardRows(S) ==
    LET order == SetToSeq(S) IN [k \in DOMAIN order |-> Row(k, Whole, order[k])]

=============================================================================
