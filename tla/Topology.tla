------------------------------ MODULE Topology ------------------------------
(***************************************************************************)
(* What PalmRuntime makes of the rows of a profile: the mappings of a run  *)
(* and the topology that CollectionRuntime is asked to commit.             *)
(*                                                                         *)
(* Everything goes through the hub: the records of the Palm database are   *)
(* synchronised with the hub, and the hub with the collection of an        *)
(* account, all of it or through a view that a category filters.  There is *)
(* one conduit here; the others do the same beside it.                     *)
(***************************************************************************)
EXTENDS ProfileStore

(* Ids of backends.                                                        *)
Hub == <<"hub">>
Palm == <<"palm">>
View(i) == <<"route", i>>
Collection(a) == <<"account", a>>

Enabled(rows) == At(rows, {k \in DOMAIN rows : rows[k].en})
RouteSpecs(rows) == {r.id : r \in {x \in ToSet(rows) : x.en /\ x.cat # Whole}}

(* A row as it is read from the profile.                                   *)
Unbuilt(r) == [id |-> r.id, en |-> r.en, src |-> Palm, dst |-> Collection(r.acct)]
LoadMappings(rows) == [k \in DOMAIN rows |-> Unbuilt(rows[k])]

(* translateRouteSpec: a row becomes a mapping from the hub or from a view.*)
Route(r) == [Unbuilt(r) EXCEPT !.src = IF r.cat = Whole THEN Hub ELSE View(r.id)]

(* buildRouteLogicalCalendars: the hub and the Palm database first, then   *)
(* the rows that are enabled.                                              *)
Base == [id |-> 0, en |-> TRUE, src |-> Hub, dst |-> Palm]
BuildRoutes(rows) == <<Base>> \o [k \in DOMAIN Enabled(rows) |-> Route(Enabled(rows)[k])]

MappingType == [id : RowIds \cup {0}, en : BOOLEAN,
                src : {Hub, Palm} \cup {View(i) : i \in RowIds},
                dst : {Palm} \cup {Collection(a) : a \in Accounts}]

(* initializeCollectionRuntime: what it can make, given the views that are *)
(* known at the time.  It is called once, while the profile is opened.     *)
Factories(views) == {Hub, Palm} \cup {View(i) : i \in views}
NoRuntime == {}

(* applyCollectionRuntimeTopology: what it is asked to make, with a device.*)
Endpoints(maps) == {Hub, Palm} \cup UNION {{m.src, m.dst} : m \in ToSet(maps)}

(* palmDirectMappingsForDomain: what Clobber offers.                       *)
PalmDirect(maps) == {m.id : m \in {x \in ToSet(maps) : x.en /\ x.dst = Palm}}

=============================================================================
