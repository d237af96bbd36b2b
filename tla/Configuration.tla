---------------------------- MODULE Configuration ----------------------------
(***************************************************************************)
(* One open profile: its accounts and mapping rows in memory and on disk,  *)
(* the runtime that was given them, and the two editors with copies of     *)
(* their own, the patchbay page and the settings dialog.                   *)
(*                                                                         *)
(* All of it runs on the main thread.  A handler changes the memory and    *)
(* saves; the files are written one after the other, and the process can   *)
(* die between two of them, so `writes' holds those of the handler that    *)
(* are still to come and nothing else happens meanwhile.  Writes succeed.  *)
(* The settings dialog is modal: while it is open the user can do nothing  *)
(* else, but a run, a connection or a provider goes on.                    *)
(***************************************************************************)
EXTENDS Patchbay, Topology

CONSTANTS
    MaxSlots,     \* category names the device has room for
    MaxEdits,     \* bound: what the user does
    Builds        \* what builds of the program have kinds of accounts for: sets of them

VARIABLES
    prof,         \* [acc, rows] of Profile
    files,        \* [acc, rows, desired, slots]: accounts.conf, mappings.conf,
                  \* and the names in profile.conf, which are written at once;
                  \* the device has the names that are in slots
    writes,       \* writes of Profile::save that are still to be done
    legacy,       \* ~m_runtimeProviders: CollectionRuntime could not be made
    served,       \* accounts that this build and runtime can make providers for
    todo,         \* disabled accounts that loadAndConnect has still to switch off
    prov,         \* the providers and what they do
    live,         \* PalmRuntime::m_mappings
    topo,         \* the committed topology: [ready, maps]
    made,         \* the backends that CollectionRuntime has factories for
    dev,          \* a device is connected
    run,          \* a run is in flight
    starting,     \* accountsReady has not been emitted yet
    pb,           \* PatchbayModel::m_inputs
    page,         \* the settings dialog: [open, off (accounts disabled by a run),
                  \* rows (edges), slots and prov (its nodes)]
    edits,        \* bounded by MaxEdits
    saved         \* history: what the profile held when it was last saved

diskVars == <<files, writes, saved>>
deviceVars == <<dev, run>>
runtimeVars == <<prov, live, topo, made>>
startVars == <<legacy, served, todo>>
vars == <<prof, diskVars, startVars, starting, runtimeVars, deviceVars, pb, page, edits>>

Quiet == writes = <<>> /\ todo = {}    \* no handler is at work
ClosedPage == [open |-> FALSE, off |-> FALSE, rows |-> <<>>, slots |-> {},
               prov |-> [a \in Accounts |-> "none"]]

-----------------------------------------------------------------------------
(* Saving.                                                                 *)

(* The writes of one Profile::save.                                        *)
Saves(p) == <<[file |-> "acc", to |-> SaveAccountsConf(p.acc)],
              [file |-> "rows", to |-> SaveMappingsConf(p.rows)]>>

(* A handler leaves p in memory and saves it, perhaps after another save.  *)
Commit(p, before) ==
    /\ prof' = p /\ saved' = p
    /\ writes' = before \o Saves(p)
    /\ UNCHANGED files

Write ==
    /\ writes # <<>> /\ writes' = Tail(writes)
    /\ files' = [files EXCEPT ![Head(writes).file] = Head(writes).to]
    /\ UNCHANGED <<prof, saved, startVars, starting, runtimeVars, deviceVars, pb, page, edits>>

LoadFiles(f) == [acc |-> LoadAccountsConf(f.acc), rows |-> LoadMappingsConf(f.rows)]

-----------------------------------------------------------------------------
(* What the editors take over.                                             *)

(* gatherInputs.  With runtime providers AccountController::providers      *)
(* returns nothing, so the page never shows an account.                    *)
GatherInputs(lg, p, pr, full, f) ==
    [rows |-> p.rows, desired |-> DesiredCategoryNames(f),
     slots |-> CategorySlotNames(f), full |-> full,
     prov |-> IF lg THEN pr ELSE [a \in Accounts |-> "none"]]

RefreshInputs(p, pr) == pb' = GatherInputs(legacy, p, pr, pb.full, files)

(* SyncMappingGraphView::rebuild makes an edge for a row with a category   *)
(* whose account has a node.                                               *)
NodesOf(pr) == {a \in Accounts : pr[a] # "none"}
Edges(rows, pr) ==
    At(rows, {k \in DOMAIN rows : rows[k].cat # Whole /\ rows[k].acct \in NodesOf(pr)})

Loaded(p, pr) == [page EXCEPT !.rows = Edges(p.rows, pr), !.slots = CategorySlotNames(files),
                              !.prov = pr]
ReloadGraph(p, pr) == page' = IF page.open THEN Loaded(p, pr) ELSE page

(* PalmRuntime::reloadMappings, whose callers make sure that no run is on. *)
ReloadMappings_Always(rows) == live' = LoadMappings(rows)

ReloadMappings(rows) == live' = IF run THEN live ELSE LoadMappings(rows)

-----------------------------------------------------------------------------
(* Opening the profile: from the start, and after the process died.        *)

NoTopology == [ready |-> FALSE, maps |-> <<>>]
SetProfile(lg) == IF lg THEN NoRuntime ELSE Factories({})

(* loadAndConnect passes over an account of a kind that nothing is         *)
(* registered for, or that no provider can be made of.                     *)
Starting(acc, able) == [a \in Accounts |-> IF a \in able /\ acc[a] # "absent" THEN "busy" ELSE "none"]
ToSwitchOff(lg, acc) == IF lg THEN {a \in Accounts : acc[a] = "off"} ELSE {}

(* What writeWizardResultToProfile leaves: accounts, each with one row.    *)
Init ==
    /\ writes = <<>> /\ topo = NoTopology /\ dev = FALSE /\ run = FALSE
    /\ page = ClosedPage /\ starting = TRUE /\ legacy \in BOOLEAN /\ served \in Builds
    /\ edits = 0 /\ todo = {}
    /\ \E S \in SUBSET Accounts :
         LET acc == [a \in Accounts |-> IF a \in S THEN "on" ELSE "absent"] IN
         /\ saved = [acc |-> acc, rows |-> WizardRows(S)]
         /\ files = [acc |-> SaveAccountsConf(acc), desired |-> {}, slots |-> {},
                     rows |-> SaveMappingsConf(WizardRows(S))]
    /\ prof = LoadFiles(files) /\ prov = Starting(prof.acc, served) /\ live = LoadMappings(prof.rows)
    /\ made = SetProfile(legacy)
    /\ pb = GatherInputs(legacy, prof, prov, {}, files)

Restart ==
    /\ writes' = <<>> /\ topo' = NoTopology /\ dev' = FALSE /\ run' = FALSE
    /\ page' = ClosedPage /\ starting' = TRUE /\ legacy' \in BOOLEAN /\ served' \in Builds
    /\ prof' = LoadFiles(files) /\ live' = LoadMappings(prof'.rows)
    /\ prov' = Starting(prof'.acc, served') /\ todo' = ToSwitchOff(legacy', prof'.acc)
    /\ made' = SetProfile(legacy')
    /\ pb' = GatherInputs(legacy', prof', prov', {}, files)
    /\ saved' = prof'
    /\ UNCHANGED <<files, edits>>

-----------------------------------------------------------------------------
(* The runtime, on its own.                                                *)

(* Mutant of ProviderStateChanged: the library's state is not translated.  *)
ProviderStateChanged_Raw ==
    /\ Quiet
    /\ \E a \in Accounts, st \in {"connected", "error"} :
         prov[a] = "busy" /\ prov' = [prov EXCEPT ![a] = st]
    /\ IF legacy THEN RefreshInputs(prof, prov') /\ ReloadGraph(prof, prov')
       ELSE UNCHANGED <<pb, page>>
    /\ UNCHANGED <<prof, diskVars, startVars, starting, live, topo, made, deviceVars, edits>>

(* A provider has connected, or failed, or has connected without the       *)
(* collection.  Only ProviderManager tells of each one.                    *)
ProviderStateChanged ==
    /\ Quiet
    /\ \E a \in Accounts, st \in {"ready", "empty"} :
         prov[a] = "busy" /\ prov' = [prov EXCEPT ![a] = st]
    /\ IF legacy THEN RefreshInputs(prof, prov') /\ ReloadGraph(prof, prov')
       ELSE UNCHANGED <<pb, page>>
    /\ UNCHANGED <<prof, diskVars, startVars, starting, live, topo, made, deviceVars, edits>>

(* The watcher of loadAndConnect, once all of the start are done.          *)
AccountsReady ==
    /\ Quiet /\ starting /\ starting' = FALSE
    /\ \A a \in Accounts : prov[a] # "busy"
    /\ RefreshInputs(prof, prov)
    /\ IF legacy THEN UNCHANGED page ELSE ReloadGraph(prof, prov)
    /\ UNCHANGED <<prof, diskVars, startVars, prov, live, topo, made, deviceVars, edits>>

(* finishConnect: categories get slots while there are any, the rows of    *)
(* the profile become routes, CollectionRuntime is made if it could not be *)
(* when the profile was opened, and the topology is committed with the     *)
(* profile's accounts as providers.  A commit that fails leaves the one    *)
(* before, and the flag.                                                   *)
Wanted(rows) ==
    DesiredCategoryNames(files) \cup ({r.cat : r \in {x \in ToSet(rows) : x.en}} \ {Whole})

FinishConnect ==
    /\ Quiet /\ ~dev /\ ~run /\ dev' = TRUE
    /\ \E s \in SUBSET Wanted(prof.rows) :
         LET names == CategorySlotNames(files) \cup s \cup {Whole} IN
         /\ Cardinality(names) <= MaxSlots + 1
         /\ Wanted(prof.rows) \subseteq names \/ Cardinality(names) = MaxSlots + 1
         /\ files' = SetCategorySlotNames(files, names)
    /\ live' = BuildRoutes(prof.rows)
    /\ made' \in IF made = NoRuntime THEN {made, Factories(RouteSpecs(prof.rows))} ELSE {made}
    /\ \/ made' # NoRuntime /\ topo' = [ready |-> TRUE, maps |-> live']
       \/ UNCHANGED topo
    /\ pb' = GatherInputs(legacy, prof, prov,
                 {r.id : r \in {x \in ToSet(prof.rows) : x.cat \in Wanted(prof.rows) \ files'.slots}},
                 files')
    /\ UNCHANGED <<prof, writes, saved, startVars, starting, prov, run, page, edits>>

DeviceDisconnected ==
    /\ Quiet /\ dev /\ dev' = FALSE /\ RefreshInputs(prof, prov)
    /\ UNCHANGED <<prof, diskVars, startVars, starting, runtimeVars, run, page, edits>>

(* hotSync: rejected without mappings or without a topology.  Open  *)
(* settings lock their accounts until the run is over.                     *)
RunStarts ==
    /\ Quiet /\ dev /\ ~run /\ live # <<>> /\ topo.ready /\ run' = TRUE
    /\ page' = [page EXCEPT !.off = page.open]
    /\ UNCHANGED <<prof, diskVars, startVars, starting, runtimeVars, dev, pb, edits>>

RunFinishes ==
    /\ Quiet /\ run /\ run' = FALSE /\ page' = [page EXCEPT !.off = FALSE]
    /\ UNCHANGED <<prof, diskVars, startVars, starting, runtimeVars, dev, pb, edits>>

-----------------------------------------------------------------------------
(* AccountController, from the accounts page of the settings dialog.       *)

AddProvider ==
    /\ page.open /\ ~run
    /\ \E a \in Accounts :
         /\ prof.acc[a] = "absent" /\ a \in served
         /\ LET p == [prof EXCEPT !.acc = SaveAccount(@, a, TRUE)] IN
            /\ Commit(p, <<>>)
            /\ prov' = [prov EXCEPT ![a] = "busy"]
            /\ RefreshInputs(p, prov') /\ ReloadGraph(p, prov')
    /\ UNCHANGED <<startVars, live, topo, made, deviceVars>>

Without(rows, a) == At(rows, {k \in DOMAIN rows : rows[k].acct # a})

(* Mutant of RemoveProvider: one save, of both, at the end.                *)
RemoveProvider_OneSave ==
    /\ page.open /\ ~run
    /\ \E a \in NodesOf(prov) :
         LET p == [acc |-> RemoveAccount(prof.acc, a), rows |-> Without(prof.rows, a)] IN
         Commit(p, <<>>) /\ prov' = [prov EXCEPT ![a] = "none"]
    /\ UNCHANGED <<startVars, live, topo, made, deviceVars, pb, page>>

(* Mutant of RemoveProvider: the account goes whatever the runtime says.   *)
RemoveProvider_Regardless ==
    /\ page.open /\ ~run
    /\ \E a \in NodesOf(prov) :
         LET p == [acc |-> RemoveAccount(prof.acc, a), rows |-> Without(prof.rows, a)] IN
         Commit(p, <<>>) /\ prov' \in {prov, [prov EXCEPT ![a] = "none"]}
    /\ UNCHANGED <<startVars, live, topo, made, deviceVars, pb, page>>

(* The account's rows go first and are saved; then the runtime removes the *)
(* provider, or refuses and the account stays without them.  Only    *)
(* ProviderManager tells those who hold a copy of the rows.                *)
RemoveProvider ==
    /\ page.open /\ ~run
    /\ \E a \in NodesOf(prov) :
         LET cut == [prof EXCEPT !.rows = Without(@, a)]
             p == [cut EXCEPT !.acc = RemoveAccount(@, a)]
             first == IF cut.rows = prof.rows THEN <<>> ELSE Saves(cut)
         IN \/ /\ Commit(p, first) /\ prov' = [prov EXCEPT ![a] = "none"]
               /\ IF legacy THEN RefreshInputs(cut, prov') /\ ReloadGraph(cut, prov')
                  ELSE UNCHANGED <<pb, page>>
            \/ ~legacy /\ first # <<>> /\ Commit(cut, <<>>) /\ UNCHANGED <<prov, pb, page>>
    /\ UNCHANGED <<startVars, live, topo, made, deviceVars>>

(* setProviderEnabled: saved only if a row of the account changes with it, *)
(* and not at all if the runtime refuses.                                  *)
Enable(a, en) ==
    LET kept == [prof EXCEPT !.acc = SaveAccount(@, a, en)]
        p == [kept EXCEPT !.rows = [k \in DOMAIN @ |->
                 IF @[k].acct = a THEN [@[k] EXCEPT !.en = en, !.txt = FALSE] ELSE @[k]]]
    IN /\ a \in Held(prof.acc)
       /\ \/ Without(prof.rows, a) # prof.rows /\ Commit(p, <<>>)
          \/ /\ ~legacy \/ Without(prof.rows, a) = prof.rows
             /\ prof' = kept /\ UNCHANGED diskVars

SetProviderEnabled ==
    /\ page.open /\ ~page.off
    /\ \E a \in Accounts, en \in BOOLEAN : Enable(a, en)
    /\ UNCHANGED <<startVars, runtimeVars, deviceVars, pb, page>>

(* loadAndConnect ends with the disabled accounts, one after the other,    *)
(* before the patchbay page is built.                                      *)
SwitchOff ==
    /\ writes = <<>>
    /\ \E a \in todo : todo' = todo \ {a} /\ Enable(a, FALSE)
    /\ RefreshInputs(prof', prov)
    /\ UNCHANGED <<legacy, served, starting, runtimeVars, deviceVars, page, edits>>

-----------------------------------------------------------------------------
(* The patchbay page: every edit of its copy is written through.           *)

WriteThrough(b) ==
    LET p == [prof EXCEPT !.rows = b.rows] IN
    /\ pb' = b /\ Commit(p, <<>>) /\ ReloadMappings(b.rows)

EditWires ==
    /\ ~page.open
    /\ \/ \E c \in Categories \cup {Whole}, a \in Accounts, i \in NewIds(pb.rows) :
            CanAddMapping(pb, c, a) /\ WriteThrough(AddMapping(pb, i, c, a))
       \/ \E r \in RowsOf(pb) : \/ WriteThrough(RemoveMapping(pb, r.id))
                                \/ \E en \in BOOLEAN : WriteThrough(UpdateMapping(pb, r.id, en))
    /\ UNCHANGED <<startVars, prov, topo, made, deviceVars, page>>

EditCategories ==
    /\ ~page.open
    /\ \E c \in Categories :
         \/ CanAddCategory(pb, c) /\ pb' = AddCategory(pb, c)
         \/ CanRemoveCategory(pb, c) /\ pb' = RemoveCategory(pb, c)
    /\ files' = SetDesiredCategoryNames(files, pb'.desired)
    /\ UNCHANGED <<prof, writes, saved, startVars, runtimeVars, deviceVars, page>>

-----------------------------------------------------------------------------
(* The settings dialog with its page of mappings.                          *)

OpenSettings ==
    /\ ~page.open
    /\ page' = [Loaded(prof, prov) EXCEPT !.open = TRUE]
    /\ UNCHANGED <<prof, diskVars, startVars, runtimeVars, deviceVars, pb>>

(* An edge is dragged from the port of a slot: one that the device has, or *)
(* Unfiled, whose row names no category; a second edge for the same two is *)
(* refused.  An edit in the inspector builds the edges anew.               *)
EditGraph ==
    /\ page.open /\ ~run
    /\ \/ \E c \in page.slots, a \in Accounts, i \in NewIds(page.rows) :
            /\ page.prov[a] = "ready"
            /\ \A k \in DOMAIN page.rows : page.rows[k].cat # c \/ page.rows[k].acct # a
            /\ page' = [page EXCEPT !.rows = Append(@, Row(i, c, a))]
       \/ \E i \in RowIds \ NewIds(page.rows) :
            \/ page' = [page EXCEPT !.rows = At(@, {k \in DOMAIN @ : @[k].id # i})]
            \/ \E en \in BOOLEAN :
                 page' = [page EXCEPT !.rows = Edges([k \in DOMAIN @ |->
                     IF @[k].id = i THEN [@[k] EXCEPT !.en = en, !.txt = FALSE] ELSE @[k]],
                     page.prov)]
    /\ UNCHANGED <<prof, diskVars, startVars, runtimeVars, deviceVars, pb>>

(* onApply, from OK and Apply: what the page shows is what the profile has.*)
Apply ==
    /\ page.open
    /\ LET p == [prof EXCEPT !.rows = page.rows] IN
       Commit(p, Saves(prof)) /\ ReloadMappings(page.rows)
    /\ page' \in {page, ClosedPage}
    /\ UNCHANGED <<startVars, prov, topo, made, deviceVars, pb>>

Cancel ==
    /\ page.open /\ page' = ClosedPage
    /\ UNCHANGED <<prof, diskVars, startVars, runtimeVars, deviceVars, pb>>

-----------------------------------------------------------------------------
TypeOK ==
    /\ prof.acc \in AccountsType /\ prof.rows \in Seq(RowType)
    /\ prov \in [Accounts -> ProviderStates]
    /\ live \in Seq(MappingType) /\ topo.maps \in Seq(MappingType)
    /\ files.slots \subseteq Categories \cup {Whole}
    /\ page.rows \in Seq(RowType) /\ pb.rows \in Seq(RowType)

(* A restart gives back what was saved last: every row under its id, no    *)
(* two of them in one group of the file, and every account                 *)
(* (saveMappingsConf, loadMappingsConf).                                   *)
Content(p) == [acc |-> p.acc, rows |-> {[p.rows[k] EXCEPT !.txt = FALSE] : k \in DOMAIN p.rows}]
RestartFaithful == writes = <<>> => Content(LoadFiles(files)) = Content(saved)

(* Wherever the process dies, the files hold no row whose account they     *)
(* lack, unless the program itself held such a row                         *)
(* (the two saves of AccountController::removeProvider).                   *)
Orphans(p) == {p.rows[k].id : k \in {x \in DOMAIN p.rows : p.acc[p.rows[x].acct] = "absent"}}
NoNewOrphans ==
    [][Orphans(LoadFiles(files')) \subseteq Orphans(LoadFiles(files)) \cup Orphans(prof)]_vars

(* What a run was started with stays until it is over, whoever edits       *)
(* (PalmRuntime::reloadMappings, whose callers have to see to it).         *)
RunFrozen == [][run /\ run' => live' = live /\ topo' = topo]_vars

(* Each account of the profile that a provider can be made of has one, and *)
(* no other account has: also where the runtime refuses to add or remove   *)
(* one, and after a build that knew other kinds of accounts                *)
(* (AccountController::loadAndConnect, addProvider, removeProvider).       *)
ProvidersFollow == NodesOf(prov) = Held(prof.acc) \cap served

(* The two loops of the patchbay model, over nodes and over wires, agree   *)
(* on every copy that it is ever given.                                    *)
PatchbayDrawable == Drawable(pb)

(* Applying the settings keeps the rows that their page has no edge for:   *)
(* those that bind whole databases (SyncMappingsPage::applyTo).            *)
WholeRows == {r \in Content(prof).rows : r.cat = Whole}
ApplyKeepsWhole == [][Apply => WholeRows \subseteq WholeRows']_vars

(* Every backend that a connect asks for has a factory to make it, or is a *)
(* collection of a provider (tests/runtime/tst_palm_runtime_routes.cpp).   *)
FactoriesFound ==
    made # NoRuntime => Endpoints(live) \subseteq made \cup {Collection(a) : a \in Accounts}

(* While a device is there and can be synchronised, Clobber has something  *)
(* to offer (PalmRuntime::reloadMappings keeps rows that are no mappings). *)
ClobberOffers == dev /\ topo.ready => PalmDirect(live) # {}

-----------------------------------------------------------------------------
Edit == AddProvider \/ RemoveProvider \/ SetProviderEnabled \/ EditWires
        \/ EditCategories \/ OpenSettings \/ EditGraph \/ Apply \/ Cancel

Next ==
    \/ Write \/ Restart \/ SwitchOff \/ ProviderStateChanged \/ AccountsReady \/ FinishConnect
    \/ DeviceDisconnected \/ RunStarts \/ RunFinishes
    \/ Quiet /\ edits < MaxEdits /\ edits' = edits + 1 /\ Edit /\ UNCHANGED starting

Spec == Init /\ [][Next]_vars

=============================================================================
