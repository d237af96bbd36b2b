------------------------------ MODULE Patchbay ------------------------------
(***************************************************************************)
(* PatchbayModel: the picture of the mapping rows that the patchbay page   *)
(* draws (the Palm, a hub with a port for each category, a node for each   *)
(* account, ghosts for accounts that are missing) and its edits.           *)
(*                                                                         *)
(* Everything is computed from m_inputs, a copy b of                       *)
(*   rows      Profile::syncMappingsJson                                   *)
(*   desired   the names the user wants as categories                      *)
(*   slots     the category names the device had when it was last here;    *)
(*             Whole stands for the name of slot 0, Unfiled                *)
(*   prov      the accounts' providers: "none", "busy" while connecting or *)
(*             in error, "ready", or "empty" without the collection        *)
(*   full      rows whose route found no free slot (RouteStatus)           *)
(* for one conduit, whose rules every account's collection satisfies.      *)
(***************************************************************************)
EXTENDS ProfileStore

CONSTANT MaxDesired      \* category names beside Unfiled: 15

ProviderStates == {"none", "busy", "ready", "empty"}
NoFacts == [rows |-> <<>>, desired |-> {}, slots |-> {},
            prov |-> [a \in Accounts |-> "none"], full |-> {}]

RowsOf(b) == ToSet(b.rows)
NewIds(rows) == {i \in RowIds : \A k \in DOMAIN rows : rows[k].id # i}

(* hubCategoryNames: wanted, or named by a row.                            *)
HubCategoryNames(b) == b.desired \cup ({r.cat : r \in RowsOf(b)} \ {Whole})

-----------------------------------------------------------------------------
(* Nodes and wires.  A node is [kind, acct]; each shows the port of its    *)
(* account's collection or none.                                           *)
Remote(a) == [kind |-> "remote", acct |-> a]
Ghost(a) == [kind |-> "ghost", acct |-> a]

(* Mutant of Unresolved: an account without the collection is no ghost.    *)
Unresolved_KnownAccount(b, r) == b.prov[r.acct] = "none"

(* rebuildRemotes: rows that need a ghost.                                 *)
Unresolved(b, r) == b.prov[r.acct] \in {"none", "empty"}

Ports(b) == {Remote(a) : a \in {x \in Accounts : b.prov[x] = "ready"}}
            \cup {Ghost(r.acct) : r \in {x \in RowsOf(b) : Unresolved(b, x)}}

(* rebuildWiresAndStrands: where a row's wire ends, and how it is drawn.   *)
OnRemote(b, r) == b.prov[r.acct] = "ready"
TargetOf(b, r) == IF OnRemote(b, r) THEN Remote(r.acct) ELSE Ghost(r.acct)

(* enabled is read with toBool(true): text counts as enabled.              *)
ReadsEnabled(r) == r.txt \/ r.en

Wires(b) ==
    {[id |-> r.id, from |-> r.cat, to |-> TargetOf(b, r),
      state |-> CASE ~ReadsEnabled(r) -> "disabled"
                  [] ReadsEnabled(r) /\ ~OnRemote(b, r) -> "broken"
                  [] OTHER -> "live"] : r \in RowsOf(b)}

(* The legs between the Palm and the hub that the model draws by itself.   *)
Strands(b) ==
    LET full == {r.cat : r \in {x \in RowsOf(b) : x.id \in b.full}} IN
    {[hub |-> Whole, palm |-> Whole, solid |-> TRUE]} \cup
    {[hub |-> c, palm |-> IF c \in b.slots THEN c ELSE Whole, solid |-> c \in b.slots]
        : c \in HubCategoryNames(b) \ full}

(* SyncPatchbayView::rebuild finds the ends of what it draws: a wire's     *)
(* port at an account (a busy account shows none), a leg's port at the hub,*)
(* and a leg to the Palm for each category with wires, unless it is full.  *)
Drawable(b) ==
    /\ \A w \in Wires(b) : b.prov[w.to.acct] = "busy" \/ w.to \in Ports(b)
    /\ \A s \in Strands(b) : s.hub \in HubCategoryNames(b) \cup {Whole}
    /\ \A w \in Wires(b) : \/ \E s \in Strands(b) : s.hub = w.from
                           \/ \E r \in RowsOf(b) : r.cat = w.from /\ r.id \in b.full

-----------------------------------------------------------------------------
(* Edits.                                                                  *)

(* onEdgeRequested and addMapping: from a port of the hub to a port of a   *)
(* real account; a second row for the same two is refused.                 *)
CanAddMapping(b, c, a) ==
    /\ c = Whole \/ c \in HubCategoryNames(b)
    /\ b.prov[a] = "ready"
    /\ \A r \in RowsOf(b) : r.cat # c \/ r.acct # a

AddMapping(b, i, c, a) == [b EXCEPT !.rows = Append(@, Row(i, c, a))]
RemoveMapping(b, i) == [b EXCEPT !.rows = At(@, {k \in DOMAIN @ : @[k].id # i})]

(* PatchbayInspector::emitChanges sends all it shows, `enabled' included.  *)
UpdateMapping(b, i, en) ==
    [b EXCEPT !.rows = [k \in DOMAIN @ |->
        IF @[k].id = i THEN [@[k] EXCEPT !.en = en, !.txt = FALSE] ELSE @[k]]]

CanAddCategory(b, c) == c \notin b.desired /\ Cardinality(b.desired) < MaxDesired
AddCategory(b, c) == [b EXCEPT !.desired = @ \cup {c}]

CanRemoveCategory(b, c) == c \in b.desired /\ \A r \in RowsOf(b) : r.cat # c
RemoveCategory(b, c) == [b EXCEPT !.desired = @ \ {c}]

=============================================================================
