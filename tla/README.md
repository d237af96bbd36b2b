# WildPalms in TLA+

WildPalms is a KDE desktop application that synchronises a Palm OS handheld
with a PC.  The engine that decides *what* to synchronise is a library
(libkalburator); this repository is everything around it: the connection to the
handheld, the backends that read and write its databases, the runtime that
starts and ends runs, and the window the user drives it from.  This directory
holds TLA+ models of that code, the TLC configurations that check them, and
proofs that TLAPS checks.  Paths below are relative to the repository's `src/`.

- [The system](#the-system)
- [What is hard](#what-is-hard)
- [The modules](#the-modules)
- [The runs](#the-runs)
- [What the code does not keep](#what-the-code-does-not-keep)
- [The proofs](#the-proofs)
- [Not modelled, and why](#not-modelled-and-why)
- [Plan](#plan)

## The system

| Component | State it keeps | Operations | What makes it correct |
|---|---|---|---|
| `KPilotDeviceLink`, `ConnectionWorker` (`palm/`) | status, socket, `m_isConnected`, the worker thread, open DLP handles | open, cancel, close; open/read/write/close a database | one worker at a time; its result is handed over without blocking; a failing call leaves no handle open |
| `PalmDeviceAccess` (`runtime/`) | `m_connecting`, `m_connected`, `m_link`, `m_impl`, `m_tickle`, a link thread | connect, cancel, disconnect, destroy, pause/resume keep-alive, forward a DLP call | each connect is answered once; the pointers hang together while connected; nothing survives the destructor; no call blocks for ever |
| `PalmTickle` (`runtime/`) | a timer, a socket descriptor, a failure count | start, stop, tick | pings an open socket only, reports a loss once, notices every loss |
| `PilotLinkPalmDatabaseAccess` (`palm/device/`) | one cached write handle and its database's name | load, create, update, delete, flush, the rest | writes go to the database named; no scope leaks its handle |
| `PalmBackend` and the memo, contacts, to-do and calendar backends (`palm/`) | `m_palmRecordsCache` | load, create, update, delete, wipe | a load that succeeds is the whole database; the cache is never stale; a creation reported is a creation made |
| `PalmRuntime` (`runtime/`) | `m_device`, the committed topology, `m_running` | connect, disconnect, `finishConnect`, `hotSync`, `fullSync`, mirrors, `clobberSync`, `backup`, `restore` | one run at a time; each one reported once; the device stays while a run uses it |
| `KF6MainWindow` (`kf6/`) | the open dialog, the current profile, queued auto-syncs | connect, disconnect, sync, backup, restore, clobber, react to detection and to the end of runs | its guards hold when they are used, not only when they are tested |
| Category reconciliation (`runtime/categoryreconciler.cpp`, `palm/categoryinfo.cpp`), `CategoryMappingStore`, `routemapping.cpp` | sixteen slots with a name and an id; the names the plugin knows; route status | read, bind names to slots, write back, show, derive a route's status | wanted names are placed or reported; nothing else is touched; repeating it changes nothing; statuses are true |
| `PalmDeviceMonitor`, `AutoSyncOrchestrator` (`palm/`, `kf6/`) | known devices, single shots that are due | udev events, enumeration, delayed collection of ports, choice of a profile | a handheld that stays is announced, and its next plugging too; the profile matches |
| `ProfileRegistry`, `Profile` (`runtime/`, `profile.cpp`) | entries with serials, tombstones; rows, accounts, categories in files | create, import, forget, bind; load, save | an identifier is never used again; one profile per handheld; a restart gives back what was saved |
| `AccountController`, providers, wallet | accounts, provider states, `accountsReady` | load, add, remove, enable | the runtime follows the accounts; no rows without their account |
| Patchbay page, settings page | a copy each of rows and categories | edit, write through, apply | an edit reaches profile and runtime, and no other edit is lost |
| Topology in `PalmRuntime` | factories, `m_mappings`, the committed topology | `setProfile`, `reloadMappings`, `finishConnect` | every backend that is asked for can be made; mirrors have something to mirror |
| Conflict store, review dialogs, mass-delete guard | records with decisions, a badge, a worker that waits | report, decide, reset, apply, ask, answer | nothing hidden, no decision lost or taken back |
| Codecs, `PalmConflictHandler` | none; deferred conflicts | convert both ways; rule | what nobody edits keeps its meaning; archived records survive |
| `backup`, `restore`, install queue | backup folder, queue and installed folders | transfer files one by one | a report of success is true; nothing queued is lost |
| `SyncState` and its journals | id mappings, baseline, one file | map, remove, save, load | two maps, each other's inverse; what is saved comes back |
| `SyncStatusModel` | link state, chips, digest | slots of a dozen signals | the panel does not hang, and does not say what is not so |
| `SyncConfigStore_WP`, `PalmRevisionStore`; wizard, settings, other widgets | keyed settings, views | load, save, show | sequential |

Who talks to whom:

```
 KF6MainWindow ── calls ──> PalmRuntime ── owns ──> PalmDeviceAccess ──> PalmTickle
      ^                        |    ^                  |  (link thread)      |
      └── queued signals ──────┘    |                  v                     v
          (connected, finished,     |             KPilotDeviceLink <── same socket
           readyForSync)            |                  ^   |
                                    |                  |   v
       engine / pool threads ───────┘   forwarders ────┘  ConnectionWorker
            |                              ^               (its own thread)
            v                              |
       backends ── IPalmDatabaseAccess ────┘
```

Four kinds of thread meet.  The **main thread** runs the window, the runtime and
the public calls of `PalmDeviceAccess`; its event loop also turns inside a modal
dialog.  The **link thread** of a `PalmDeviceAccess` executes everything that
touches the device; other threads reach it with queued or blocking queued
calls.  A **connection worker** per attempt probes the port, accepts and reads
the first data, and posts its result to the link thread.  **Engine and pool
threads** call backends, which call the forwarders; backup and restore use the
raw link from a pool thread.

## What is hard

`PROJECT.json` lists the hazards at the lines where they bite.  They are of these
sorts:

- *Answers that arrive late.*  A worker's success queued behind a disconnect, a
  lost-device signal handled after a backup began, an auto-sync queued before a
  dialog was opened and started while it is open.
- *State tested in one place and used in another.*  `m_impl` is tested on the
  engine's thread and used on the link thread; `isConnected` is asked before and
  after a read; `onRestore` tests `m_running` and then asks the user.
- *Blocking on each other.*  Main waits for the link thread, which waits for the
  worker, which must hand its result to the link thread.  An engine thread waits for
  an answer that main asks for in a message box (the mass-delete guard).
- *Event loops in event loops.*  A handler that asks a question goes on, after the
  answer, with what it read before; a detection, a profile change or the end of an
  attempt may have come in between.
- *Copies of one truth.*  Profile, runtime, two editors, a badge, a status panel and
  the files each hold their own.
- *Failure of one of several steps.*  Every DLP call can fail after the ones
  before it worked, can work and lose its answer, can end the connection.
- *Long sequences.*  Many connects of the same handheld, each of which reads,
  changes and writes one table of sixteen slots.

## The modules

| Module | Models | Extended by |
|---|---|---|
| `DeviceAccess` | one `PalmDeviceAccess`, its links, workers and tickles, over all threads | `DeviceAccess_proofs` |
| `RunService` | abstract: what the runtime promises about runs | |
| `PalmSession` | `PalmRuntime` and `KF6MainWindow` over several `PalmDeviceAccess` objects; implements `RunService` | `MCPalmSession`, `PalmSession_proofs` |
| `RecordAccess` | backends, `PilotLinkPalmDatabaseAccess` and the database calls of `KPilotDeviceLink` | `MCRecordAccess`, `RecordAccess_proofs` |
| `Categories` | one database's category table over the sessions of a handheld | `MCCategories`, `Categories_proofs` |
| `DeviceMonitor` | `PalmDeviceMonitor` between the USB bus, udev and its single shots | `Workbench`, `MCDeviceMonitor` |
| `ProfileRegistry` | the registry's operations as functions on its content | `Workbench` |
| `Workbench` | the main window around detections, questions, profiles and attempts | `MCWorkbench`, `Workbench_proofs` |
| `ProfileStore` | what a profile keeps of accounts, rows and categories, in memory and in files | `Patchbay`, `Topology` |
| `Patchbay` | the patchbay's picture of the rows and its edits, pure | `Configuration` |
| `Topology` | mappings, factories and topology made of the rows, pure | `Configuration` |
| `Configuration` | accounts, rows, both editors, the runtime and the files of one open profile | `MCConfiguration`, `Configuration_proofs` |
| `Conflicts` | conflicts between engine, store and review dialogs, and the mass-delete question | `Records_proofs` |
| `PalmConflict` | the rulings of `PalmConflictHandler` | `MCPim`, `Records_proofs` |
| `PimCodecs` | text, contacts, to-dos and appointments through their codecs, pure | `RecordTrip` |
| `RecordTrip` | one item between device and desktop, round after round | `MCPim`, `Records_proofs` |
| `DeviceFiles` | backup, restore and the install queue, file by file | `MCStorage`, `Desktop_proofs` |
| `Journal` | `SyncState`, its two stores and its file | `MCStorage`, `Desktop_proofs` |
| `Dashboard` | the status panel under queued and direct signals | `Desktop_proofs` |

`PROJECT.json` maps every definition to the lines it stands for.  Operators
whose name has a suffix after an underscore (`Failed_StillConnecting`) are
mutants: plausible bugs, one for each property of a passing run, under which
that property is violated.  The runs below check the properties that say most.  The
type invariants, and some properties that follow from others or that a proof covers
(`OneRun`, `NoHandleLeak`, `RefusedOnlyIfFull`, `FreshIds`, `RunFrozen` and the like), are stated
in the modules and hold under the same configurations; put them into the `.cfg` to
see it.

### DeviceAccess

`acc` is the object's members; `kl[l]`, `wk[l]` and `tk[l]` the l-th link that
`doConnect` created, its worker and its tickle.  `linkQ` and `mainQ` are the
event queues of the two threads, FIFO as Qt's are.  A blocking queued call
appends an event and leaves `main` (or `eng`) in a waiting state; the action that
handles the event releases it.  `busy` says that the link thread is itself
blocked, in `cleanupWorker`'s wait, so that no event is handled meanwhile while
the worker, main and the engine go on.

A link deletes itself later: `deleteLater` is the event `"delete"`.  Qt would drop
what is queued for a link that is gone, and the model has no such step because there
is nothing to drop: closing waits for the worker, so its result is in the queue before
the delete is, and a delete is posted once (`NoneForDead`, proved).  `setError` signals
a *change* of status, and the tickle watching the link, which is only ever the link's
own, is then stopped by a queued event (`StopEvents`): this is how any DLP error ends
the keep-alive.  The links still alive (`Alive`) when the link thread ends are deleted
one after the other (`DeleteChild`) with `m_implOwner`.  A success worker's event is
delivered whether or not a link is current, which is what `AssertDeviceLink` in
`DeviceAccess_claims` shows.

The destructor (`DestroyBegin` to `Destroyed`) is split where it reads members
on the main thread that the link thread may still write.

Environment: `DeviceGone` (the handheld is unplugged or leaves HotSync mode) and
the outcomes of worker and DLP calls.  A use of a reset `m_impl` is undefined
behaviour; the model leaves such a call without effect on the state it has.

### PalmSession

One `PalmDeviceAccess` is reduced to what `DeviceAccess` shows of it: `access[d]` in
unused, idle, connecting, connected or destroyed, and its tickle: on, paused by a
backup or restore, stopped by a DLP error (`LinkError`), or off.  `signals` is the
main thread's queue.  `Leftovers(d)` is what an object may still have queued when it
is destroyed: a connected one reports that it is down; one still connecting may have
reported either result, and a success reported may be followed by a report that it is
down.

`run[r]` follows a request from free through active and posted (ended on its thread,
its end queued to main) to done, or to rejected.  `EngineStart` is `hotSync`,
`fullSync`, `runMirror` and `clobberSync`, which share the backstop on `m_running`;
`RawStart` is `backup` and `restore`, which do not have it.  `Finished` is
`runFinished` followed by `syncCompleted`: the runtime's own slot lowers `m_running`
first, then the window's slot may disconnect, at once when the signal is emitted on
main and through the queue otherwise (`OnMain`, `Queued`).  An engine run works on the
object that the committed topology borrows (`bound`), a backup or restore on the raw
link of `m_device`; `run[r].dev` is that object and `run[r].lease` says whether it was
`m_device` when the run began, since a connect that does not commit a topology leaves
an earlier one ready.  `LoadProfile` replaces the runtime, running or not: what was in
flight is orphaned, and its end reaches nobody.  A modal dialog is a state of its own
between the test and the run; queued events and automatic detection go on while it is
open.  `mainDlp` is the DLP EndOfSync that the Disconnect action performs on the main
thread.

### RecordAccess

`link` holds the link's flags, the handles open on the device and the cached write
handle.  Every call that reaches the link thread is one step there; each operator
(`OpenDatabase`, `ReadRecords`, `ChangeRecord`, `CloseDatabase` and what is built
on them) returns the *set* of its outcomes, since each DLP call in it may fail,
fail for good, or work and lose its answer.  A load of the memo, contacts, to-do
or calendar backend takes three steps (test, read, test again) and a wipe one per
record, so the disconnect on the link thread, itself two steps, falls between
any of them.  A list of records is a function from identifiers; order, category
and flags are not told apart by any property.

### Categories

A session is Connect, ReadBlock, one Bind per wanted name, Bound, WriteBlock,
ShowNames; each DLP call may fail.  Names are members of a set, and three
functions on them say what the code's conversions do: `Fold` (which names are
equal but for case), `Kept` (what `categoryName` reads back of a name that
`setCategory` cut to fifteen bytes and encoded) and `Shown` (what the plugin's
reader makes of it).  Ids keep their width: `NewId` wraps at `MaxId`, 255 in the
code.  Between sessions the user renames, adds and deletes categories on the
handheld, which keeps names and ids apart; such a name is one the handheld can
hold.

### DeviceMonitor, ProfileRegistry and Workbench

`bus`, `ports` and `udev` are the world: handhelds at places, ports that appear one
by one, events not yet read.  `tracked` is `m_detectedDevices`, `shots` the single
shots that are due, and `found` what the start's loop over devices already there
has yet to announce: while it announces, events are handled inside it.  A place
whose syspath begins another's (`Prefix`) may be taken for it when a port goes, as the
code's `startsWith` does; `Misread` is such a removal.

`Workbench` adds the receiver.  An announcement runs `OnPalmDetected` inside the
monitor's handler.  A handler that asks a question pushes what it will go on with
onto `stack`; the event loop turns on top of it, and `Answer...` pops it and goes on
with the values it had read, whatever happened to profile and runtime meanwhile.
The registry's operations rewrite its file before they return, so one value is
cache and file.  After "Continue Anyway" `OnConnectionComplete` goes on, as the code
does, to a handheld without user info (`blank`): the name that the user types is
registered with whichever profile is open then.  `SetUserInfo` does the same from the
menu.

### ProfileStore, Patchbay, Topology and Configuration

A row binds a Palm database, or one category of it, to an account's collection.
`ProfileStore` has the conversion to groups of a file, with the group names that
collide and the Booleans that come back as text.  `Patchbay` computes nodes, wires
and strands of a copy of the inputs; `Topology` what the runtime makes of rows: a
mapping through the hub or through a view filtered by category, the factories
(`made`, known once, when the runtime is initialised) and the endpoints a commit
asks for.

`Configuration` has one open profile.  `writes` is what `Profile::save` has still to
write, and the process may die (`Restart`) between two of the writes.  `served` are
the accounts that this start of the program can make providers for: `loadAndConnect`
passes over the others, which stay in the files; `todo` are the disabled accounts
whose rows it still switches off, one save for each (`SwitchOff`).  `pb` and
`page` are the copies of the patchbay page and of the settings dialog; each editor
writes its own copy back over the profile's rows.  The settings dialog is modal,
but connections, runs and providers go on under it.

### Conflicts and PalmConflict

The engine reports conflicts by events (`posted`), counted in `badge` and kept in
`store`, on which any number of review dialogs work; `engine` is what it was told of
each.  `prompt` is a worker blocked on the mass-delete question, whose box takes the
user from everything else.  The order of the records in a list, and the text that is
shown, are left out.  `KalburatorInteractiveConflictHandler` is not here: the window
makes one and `PalmRuntime::setConflictHandler` stores it, but nothing ever calls it.
`PalmConflict` is the decision as a function of policy, fallback, both sides and
overlays, the engine's policy object being arbitrary.

### PimCodecs and RecordTrip

A field that is copied to its counterpart is one payload; what the codecs compute
with is modelled as it is computed: characters of Windows-1252, phone slots and
labels, dates, repetitions and their weekdays, alarms in their units.  `RecordTrip`
takes one item through load, push, create, update and delete, with edits on either
side, a link that drops, and writes that fail before or after the device stored the
record (`Unanswered`); an item whose creation failed is tried again.  A rule of the
desktop that the Palm has not (type "other") becomes no repetition, but its exceptions
are still written; a record's week start is read by nobody and written as Sunday.
`Contents` is what a Palm user may enter, within what
pilot-link unpacks (`Addresses`, `Todos`, `Appointments`); `Desktop` what the desktop user
may make of an item, within what the KDE types hold (`Addressees`, `KTodos`, `Events`).

### DeviceFiles and Journal

`job` is the backup, restore or installation, one file at a time, each of which may
fail; `FileOf` maps the names of databases to those of files, and may map two to
one.  `Journal` has both maps of the mapping store, the baseline, and a save in two
steps, open (which truncates) and write, with a crash possible between them.

### Dashboard

The runtime is reduced to the signals it sends and the state its guards read.  A
queued signal goes to each receiver by itself: `m_running`, the window and the panel
hear of an end one after the other, and another signal may come in between.

## The runs

No configuration replaces a definition.  Eleven runs pass; `Configuration_routes`
refutes a statement of a test.

**`DeviceAccess_runtime`** (61 thousand states).  Two accepted connects, two
further calls among cancel, pause or resume, and engine forwarders; disconnects,
losses and the destructor at any time.  Each connect is answered exactly once and
`m_connecting` is up exactly until then (`OneCompletion`), `deviceDisconnected` comes
exactly once for each success (`DownFollowsUp`), a running tickle has an open socket
(`TickleOnOpenSocket`), nothing is alive after the destructor (`NothingSurvives`).
Liveness: an attempt ends unless it was cancelled (`ConnectingEnds`), and the
blocking calls of main and of an engine thread return (`CallsReturn`).
*Bounds*: two connects give an old link and a new one, with every overlap of an
old link's deletion, worker result, tickle or stop event with the new link; a
third repeats the second.  Two calls give a pause with its resume, or a cancel
racing an engine call.  *Deadlock* is not checked: a destroyed object stops.

**`PalmSession_safety`** (1.1 million states).  Two requests, two objects, three
connects, the clobber dialog, auto-sync and both connection modes, which the user
may change at any time, and profiles loaded at any time.  A run that began over the
runtime's device keeps it (`DeviceHeld`), every run ends and reports exactly once
(`EveryRunEnds`, `FinishedOnce`), a tickle does not stay paused when no backup or
restore is in flight (`TickleResumed`), and the session refines `RunService`
(`ImplementsRunService`): `current` is the run in flight and `over` the runs that are
done or orphaned.  Two requests are enough because the properties speak about
pairs of runs; three connects allow a loss, a reconnect of the same object and a
replacement by a second.  *Deadlock* is not checked: requests and connects run out.

**`RecordAccess_safety`** (100 thousand states).  Two databases, one served by a
caching `PalmBackend` and one by a direct backend, two records, two contents, two
handles, failures everywhere and a disconnect at any point.  The write handle is on
its own database (`WriteHandleRight`); loads, the cache and wipes are honest on a
link without errors (`LoadHonest`, `CacheCoherent`, `WipeHonest`).  Two databases are
what it takes to write into the wrong one, two handles to leak one and open
another.  Records, contents and handles are symmetric.  Deadlock is checked.

**`Categories_safety`** (6.6 million states).  Three slots, three ids, two wanted
names per session out of a plain one, one differing in case from what the user may
type, a spelling of it that the device cannot hold, and one longer than the device
holds; any number of sessions.  Wanted names
are placed or reported (`Accounted`), no name twice unless it was mangled
(`NoDuplicates`), no category touched that was there (`OthersKept`), and route
statuses true (`RouteStatusRight`).  Two free slots with two names let a table fill
within a session and between sessions; ids 0..2 wrap in the third claim.

**`DeviceMonitor_detect`** (156 thousand states).  Two places, one whose syspath
begins the other's, two handhelds, two ports, three pluggings.  If the monitor runs on
and no removal is taken for that of the other place, whatever is plugged in and stays
is announced, and its map settles on exactly that (`EventuallyAnnounced`).  Three
pluggings are a removal and a return at one place while the other is served.

**`Workbench_safety`** (2.1 million states).  One place, two handhelds, one of which
has no user info yet, two ids, a folder elsewhere to import, two menu actions of every
kind, two questions open at once.  No two profiles share a serial (`SerialOnce`), no
id stands for two profiles (`NeverReused`), and a profile that knows its handheld is
rebound to one known to be another only where the user names that other one
(`BoundForGood`).  Two questions are what it takes for an answer to meet a profile
that another answer changed.  The model stops when its bounds run out.

**`Configuration_safety`** (1.8 million states).  Two accounts, one category, three
rows of which two share a group name, three edits, and any number of connects, runs
and restarts, each into a build that knows the kinds of both accounts or of one
(`Builds`).  A restart gives back what was saved (`RestartFaithful`), each account
that can be served has a provider and no other has (`ProvidersFollow`), and a death between
two writes leaves no row whose account is gone unless the program held it
(`NoNewOrphans`).  Three edits let both editors' copies grow stale and meet.

**`Conflicts_review`** (620 thousand states).  Two conflicts, one without an id, two
dialogs, batch questions and the mass-delete question.  With no dialog open
the badge covers all pending conflicts (`NoConflictHidden`), applied decisions stay
(`AppliedStays`), and others leave only as the user said (`DecisionKept`).

**`Pim_trip`** (271 thousand states).  Two category slots, texts inside and outside of
Windows-1252, contacts with and without gaps, to-dos with and without dates,
appointments of each repetition, with weeks that begin on Sunday and on Monday; one
edit, on the desktop to an item with more phone numbers than slots, a priority or a
rule that the Palm has not, an all-day event over several days and the like; any number
of lost links and failed or unanswered writes.  What nobody edited keeps its meaning
where the codec carries it (`MeaningKept`), an item at rest stays at rest
(`RoundsSettle`), an item has one record (`NoTwin`), and no ruling deletes an archived
Palm record that faces another backend's item (`ArchivedKept`, over every such pair and
every policy).  The handler that rules is a library of its own: nothing links it into
the application, only tests do.

**`Storage_safety`** (510 thousand states).  Four databases, two of which share a
file name, one not transferable, two versions; three Palm ids, two files, one
category and one hash.  A report of success is true (`ReportHonest`), a queued file
goes only when it was installed (`QueueKept`), the maps are inverse (`OneToOne`), and
what a destroyed journal saved is what is loaded (`CleanRestart`).  Three Palm ids
over two files make every re-mapping collide with a rival.

**`Dashboard_run`** (832 thousand states).  Two mappings, two labels, two runs, two
attempts.  The panel leaves Syncing (`SyncingEnds`), its summary is the last run's
(`DigestRight`), and it offers a sync only with a device, but for the ways listed in
`blind` (`ConnectedHonest`).  Two runs let the signals of one arrive in the other.

**`Configuration_routes`** (violation).  See below.

### Fairness

`DeviceAccess` assumes weak fairness of the link thread's steps, of main's
handling of queued signals and of a destructor that began, of each worker's next
step, of an engine thread that has entered a forwarder, and of a running
tickle's timer.  These are threads and event loops that the operating system and Qt
schedule; the waits inside them are bounded in the code (probe and accept time
out; `cleanupWorker` terminates a worker that does not end).  No user call, no
engine call and no event of the device is fair.

`PalmSession` assumes that EndOfSync returns and that a run that is active ends
(every DLP call is bounded), and strong fairness of the delivery of its end:
delivery needs main in its event loop, which a DLP call on main interrupts again
and again but, EndOfSync being fair, never for ever; Qt does not drop a queued
event.

`DeviceMonitor` assumes that udev events are read, shots fire and the loop over
devices already there goes on;
`Dashboard` that runs end and queued signals are posted and handled.

## What the code does not keep

Each of these configurations checks one statement of a comment, an assertion, a
test or a header, and TLC finds a behaviour of the code that contradicts it.
`Configuration_routes` is a run of the project; the others are kept to be run by
hand (`tlc -config X.cfg M`, M being the module of the family's passing run).  A configuration named `..._claims` has several
statements, and TLC finds each violated with `-continue`.

| Configuration | Statement | What happens |
|---|---|---|
| `Configuration_routes` | a test expects the backend of a route by category to be registered | `setProfile` makes the collection runtime before any route is built, and the factories are made once: no route by category ever has its backend.  The test sets no profile |
| `Configuration_claims`, `ClobberOffers` | a connected, ready device can be clobbered | rows reloaded while connected are not built into mappings, so Clobber finds nothing for its domain until the next connect |
| `Configuration_claims`, `ApplyKeepsWhole` | the plan: whole-domain edges keep their empty category | the settings page has no edge for such rows, and OK or Apply writes its edges over all rows; the wizard's rows are all of that kind |
| `Conflicts_applied` | a resolution marked as applied was taken | if the engine takes one decision, all resolved records are marked; and a conflict that is reported twice, applied in between and decided anew, ends as applied with a decision the engine never got |
| `DeviceAccess_claims`, `AssertDeviceLink` | `Q_ASSERT(deviceLink)` in `onLinkConnectionEstablished` | a success queued behind a disconnect is handled with no current link; a release build reports a connection over a null link |
| `DeviceAccess_claims`, `LossNoticed` | the tickle reports a loss after three failures | any DLP error, even a missing database, stops it for good; a later loss goes unnoticed |
| `PalmSession_claims`, `RawLinkAlive` | the refusal to disconnect keeps the raw link of a backup alive | a loss reported just before the backup paused the tickle tears the link down through `connectionLost`, which bypasses the refusal |
| `PalmSession_claims`, `DeviceHeld` | no disconnect while a run is in flight | restore is confirmed while a queued auto-sync runs; the end of one destroys the device under the other |
| `PalmSession_claims`, `LeaseHonest` | the lease of an engine run fails when "Palm device is not connected" | the lease asks `m_device`; after a connect that commits no topology the backends still borrow an earlier object, which is destroyed |
| `RecordAccess_claims`, `LoadComplete` | `isConnected` tells "0 records" from "couldn't read" | `PalmDeviceAccess` answers from `m_connected`, so the part of a database read before an error passes for the whole |
| `RecordAccess_claims`, `CreatedHasId` | `createRecord` returns 0 on failure | the memo, contacts and to-do backends encode the 0 and report a record |
| `Categories_mangled` | missing names claim free slots | a name cut short by the device is not found at the next connect and claims another slot, every time |
| `Workbench_launch` | a handheld plugged in before the start is detected and connected | it is announced before the startup profile is loaded, which replaces the runtime and drops the attempt |
| `DeviceMonitor_prefix` | `palmDetected` is emitted when a handheld is detected | the port that goes at 1-10 is taken for one of 1-1, whose syspath begins it; 1-10 stays on the map, and the next handheld there is taken for known |
| `Workbench_safety` with PROPERTY `KeepsItsHandheld` in place of its properties | the fingerprint detects when the wrong device is connected to a profile (`profile.h`) | after "Continue Anyway" with a handheld that has no user info, and in Set User Info, the new name is registered with the open profile, which forgets its own handheld |
| `Pim_weekstart` | `repeatWeekstart` maps to `WKST` (`FIELD_MAPPING.md`) | the codec never reads it and writes Sunday |
| `Pim_trip` with INVARIANT `ContactPreserved` in place of its properties | lossy fields of a contact are stashed for the way back | a gap between phone slots closes, and labels move to other numbers |
| `Storage_restore` | the question before a restore: records not in the backup WILL BE DELETED | restore installs what it has and deletes nothing |
| `Dashboard_chips` | the panel's chips tell what a run did | the window pushes the profile's information at the end of a successful run, which resets them before anyone sees them |

The passing properties are restricted where these bite, and say so:

- `DeviceHeld` (no restore dialog in `PalmSession_safety`) speaks of runs that began over
  `m_device`; it, `FinishedOnce` and `EveryRunEnds` except a run whose runtime is replaced,
  and `TickleResumed` a tickle that a DLP error stopped;
- `ConnectingEnds` excludes cancelled attempts;
- `LoadHonest`, `CacheCoherent` and `WipeHonest` speak of a link without errors;
- `NoDuplicates` excepts mangled names, and `RouteStatusRight` those with a spelling that
  the device cannot hold or that the plugin reads where the device has another
  (`Legible`);
- `EventuallyAnnounced` excepts a removal taken for that of another place (`Misread`),
  and `BoundForGood` the two dialogs in which the user names a handheld (`NamesTop`);
- `MeaningKept` asks for what the codecs carry (`Carried`): no gap between phone slots, no
  repetition by weekday of the month, no alarm at the event itself, weeks from Sunday
  where that matters, exceptions only with a repetition, a to-do with a date or none
  meant;
- `NoTwin` excepts an appointment whose record was stored without an answer;
- `ArchivedKept` excepts conflicts between two Palm records;
- `CleanRestart` asks for a save that succeeded, and `ReportHonest` is relative to the
  list of databases that was read;
- `SyncingEnds` excepts a runtime that was replaced (`abandoned`), `DigestRight` runs
  whose signals overlap (`overlapped`), and `ConnectedHonest` what `blind` names.

`RoundsSettle` asks two things of the desktop that the code does not see to, and allows
a third; a lemma of `Records_proofs` shows of each that it must.  An alarm is a whole
number of minutes before its event (`SecondsUnsettled`: half a minute is written as an
alarm at the event, and the next writing drops it; an hour and a second takes two
writings to become an hour).  A contact has stashed labels only for numbers it has
(`LabelUnsettled`: when the user removes the last number, its label is written once more
and gone from the next record).  And the exceptions of a rule that the Palm has not take
two writings to go (`ExceptionsUnsettled`: the first drops the rule, the second what it
was excepted from; `Tidy` is a record without them).

## The proofs

TLAPS checks the theorems for every value of the constants that the named
assumptions allow (`ConstantsAssumption`, `StoreAssumption` and the like, which TLC
evaluates in every run that uses the module): sets of devices, names, databases,
handhelds, conflicts and rows are arbitrary, finite only where a count or an order is
taken.  `PROJECT.json` lists the main theorems.  Every invariant and every action
property of a passing run is proved.

**`DeviceAccess_proofs`.**  A queue is a sequence, and most of what the proof says of
one is the set of its entries (`Elems`) and that at most one entry is of a kind
(`One`).  The invariant has layers, each resting on those before it: `Types`, which
also say which events name a link; `Blocked` (main waits for at most one event);
`Attempted` (one attempt at a time, from the event that asks for it through its worker
to the event with its result); `Created` (links are numbered as they are made);
`Counted`; and `Using`, what holds until somebody begins to close the object: the
counts balance (`Balanced`), the current link is alive and is not about to be deleted
(`Current`), the attempt is its own (`Answering`), only its tickle runs (`Ticking`), and
only a loss that is reported once disconnects it (`Reported`).  `OneCompletion` needs
all of them: a second answer is impossible because a second worker is, and that
because `m_connecting` is up for as long as a result is under way.  From the invariant
follow `TypeCorrect`, `NeverTwoAttempts`, `OneAnswer`, `OneGoodbye`, `WiredToTheLink`,
`TicksReachTheDevice`, `DestroysAll` and `WatchesOwnLink`.  `AssertedInUse` is the
assertion that `AssertDeviceLink` refutes, for as long as nobody closes the object.
`Ordered`, a second invariant on top of the first, is about positions in the queue: no
result and no second delete of a link stands behind its delete.  It gives
`NoneForDead`: nothing is ever queued for a link that is gone.

**`PalmSession_proofs`.**  `TypeCorrect`.  `ReportedOnce`: every run reports
`runFinished` and `syncCompleted` exactly once by the time it is done, restore dialog
included; `FinishedOnce` is inductive as it stands once the types are known.
`RunsExclusive` and `RunsImplementService` need the assumption `NoRestore` (`"restore"
\notin Dialogs`), since `DeviceHeld` in `PalmSession_claims` is refuted without it.
`OneRun`, `RunningExact` and `DeviceHeld` are not inductive one by one: a second
run can only be excluded because `m_running` is exact, and `m_running` is exact only
if its fall is the end of the only run.  The invariant `Exclusive` is their
conjunction with two facts of the control: the current device is never a destroyed
object, and no restore dialog is open.  The refinement then has one step per kind of
step: a start maps to `Start` or `StartAndEnd`, the delivery of an end and a profile
load during a run to `End`, and everything else to a stutter.  `TickleNeverForgotten` needs no assumption.  `Pinged`
says of each connected device that its tickle runs or was stopped by an error, that
its loss is queued, or that it is paused by a backup or restore in flight which will
resume it (`Awake`), and that no object but the runtime's device is in use, so that
the tickle which is resumed is the right one.

**`RecordAccess_proofs`.**  The lemmas follow a call from the inside out: what an
error leaves of a link, what closing, opening, flushing, reading and writing
return.  `Sound(L)` says of a link between two calls that the cached handle is open
on its database and that every other open handle is one the device refused to
close; `Scoped(L, h)` is the same inside a scope.  The invariant `Inv` adds that no
write handle is cached once a disconnect began, and that a call under way knows its
database.  From it follow `TypeCorrect`, `HandlesNeverLeak`, `WritesGoHome`, and with
`Created` (what a create answered is still so) `CreationHonest`: for any databases,
records, handles and pattern of failures.  `Honest` says what holds while the link
is `Faultless`, that is, has no error and is not being torn down: what a load has
read so far, and what a cache holds, is what the device has, and what a wipe has
deleted is gone.  A step that meets an error has nothing left to show.  It
gives `LoadsHonest`, `CacheNeverStale` and `WipesHonest`.

**`Categories_proofs`.**  The lemmas say what the operators return: `Lowest` has a
value because the naturals are well ordered (`WFMin` of the library), a free slot is
found unless there is none, the highest id bounds all, a new id is new unless the
largest is in use.  `ClaimGives` is what `setCategory` does to a free slot, and each
theorem adds its own strengthening: `NeverDuplicated` that the table *worked on* has
no duplicates either, `IdsAreFresh` that ids in use are unique in both tables,
`NeverDisturbed` that the table worked on agrees with the device on every named slot,
`RefusalHonest` that nothing is refused before the first name, and
`EveryNameAccounted` that the names already dealt with are placed or refused.
`TypeCorrect` itself needs that a session starts with the first name and nothing
refused (`Fresh`).  `StatusesTrue` adds `Routed`: once a name was refused every slot
is named, and none of them for it (`Excludes`), and slot 0 is Unfiled.  It has no
hypothesis on the conversions: the names of which it speaks (`Legible`) are those that
the device can hold in every spelling and that the plugin does not read where the
device has another.

**`Workbench_proofs`.**  Handlers are functions from what is open and registered to
what is open and registered, so the lemmas go through them one by one: `Fine(w, n)`
says that such a step keeps the registry good and rebinds no profile (`Rebound`: what
is open afterwards does not contradict what was known of the same folder).  The one
exception is the answer by which the user writes a name to the very handheld that the
answered dialog is about (`NamesTop`), so the step property is `Rebound` or that.
`RegistryOK` is what makes `SerialOnce` inductive: the last profile is known
(`LastKnown`), a serial has one owner (`OneOwner`), and an id that was ever handed out
or imported is known or retired (`Recorded`), without which a new id could be an old
one. `IInv` is that for what is there *now*, together with what each suspended handler
will go on with (`HandlersOK`: a question may be answered long after it was asked) and
what the monitor has seen and will tell (`MonitorOK`).  From it follow `TypeCorrect`,
`OneProfilePerSerial`, `IdsNeverReused` and, as a property of steps, `NeverRebound`.

**`Configuration_proofs`.**  A file keeps groups and the program a list, so the order
of groups is an enumeration by rank: `RankGrows`, `RankOnto` and `AtGives` say that
the ranks of a total order on a finite set are 1 to its size, which takes the place of
a recursion over the set.  With them, saving rows and loading them is shown to give
the rows back but for the Booleans that return as text (`RowsKept`).  `IInv` is the
types, `Same` (what was saved last is what the program holds, but for an account's
being enabled), `Saving` and `ProvidersFollow`.  `Saving` says what the files are at
each point of a save, which writes the accounts and then the rows, and of a handler
that saves twice (`OneSave`, `TwoSaves`): what is still to be written does not take
away an account that a row on file, or one written before it, names (`NoneDropped`).
From it follow `TypeCorrect`, `RestartGivesBack`, `ProvidersAlwaysFollow` and the
action properties `NoOrphansMade` and `RunAlwaysFrozen`. `AlwaysDrawable` is about the
pure picture: every wire and strand of any inputs has ends.

**`Records_proofs`.**  *Codecs.*  What the models of the codecs compute, for every
input.  `TextRoundTrip`: the table of Windows-1252 has no character twice and none
that passes directly, so every byte has its own way back.  An appointment's weekdays
and alarm come back by arithmetic (`DaysRoundTrip`, `AlarmRoundTrip`: the unit chosen is
the largest that divides the seconds, and dividing by it loses nothing); a contact's
full slots are taken by rank (`PlaceTaken`: each rank up to their number is taken by
one; `NoGap`, `FullSlotsAre`: without a gap the slot at place k is k - 1).  For each kind
there are three lemmas: reading gives an item of the kind, writing gives a record of
the kind, and reading then writing gives back its fields.  From these follow
`CarriedComesBack` and, by composing encode, decode and encode, `CodecsSettle`.
*RecordTrip.*  `MeaningKept` is not inductive: it says nothing of the item on the
desktop, which is what the next step writes.  `TripInv` is the types (`TripType`),
`OneRecord` and `NewAlone` (there is one record, and none while the item has no id,
unless the answer to a stored appointment was lost: `Twinned`), `OriginHeld` (what came
from the Palm has its id, so no lost answer concerns it), `OriginKept` (not only the
record, but also what the item *would be written as*, says what the origin says) and
`SettledKept` (what is settled is a record as a backend writes it, and the item that
holds its id would be written as it is, but for exceptions without a rule: `SettledAs`).
`ReadKeeps` needs the codecs, `WriteKeeps` nothing but the invariant.  It gives
`MeaningSurvives`, `RecordsSettle` as a property of steps, and `NeverCreatedTwice`.  The
assumption on the constants is that `Contents` is what pilot-link unpacks of what the
user of a Palm can enter (an untimed event ends when it begins, weekdays belong to weekly
repetitions alone, a repetition has a frequency), and `Desktop` what the KDE types hold,
with the two restrictions named above.
*Conflicts.*  `WindowInv` is the types of the store, dialogs and badge, that
an applied record has a decision, that the known conflicts are finitely many, and
`NoConflictHidden` itself; the finiteness is for the sums with which the badge is set.
It gives `NeverHidden`, and the action properties `AppliedForGood` and `DecisionsKept`.
Engine and prompt have types of their own, which with it make up `IInv` and give
`TypeCorrect`.  *PalmConflict.*  `ArchivedAlwaysKept` and `SecretNeverDuplicated`:
`OverlaysRule` goes through the overlays in the order the code applies them, for every
conflict and every policy.

**`Desktop_proofs`.**  *Journal.*  `OneToOne` alone is not inductive: a load replaces
both maps by what the file says, and rebuilds the second from the first, which is an
inverse only if the file has no two records for one target.  `IInv` is the types,
`OneToOne`, `FileOneToOne` (the file's half) and `KeptInFile` (what a destructor left is
what the file has).  `OneToOneInverses` restates the property as a relation of two
functions, and `MapIdsKeeps` is the heart: unlinking both rivals before linking keeps
it.  From `IInv` follow `JournalTypes`, `PartnersOneToOne`, `FilesOneToOne` and, as a
property of steps, `RestartRestores`.  *DeviceFiles.*  `ReportHonest` speaks of the end
of a job; `SoFar` is the same of the files it has already done, those that share their
name excepted, and `FilesInv` is types, `SoFar` and `ReportHonest`.  It gives
`ReportsHonest`, and `QueueLosesNothing` for steps.  *Dashboard.*  `PanelInv` says who
has heard what: a panel that says there is a link when there is none has
the news in its queue (`Heard`), the label it shows is that of the run whose end it
waits for (`Labelled`), and a summary is the last run's, or an end under way will make
it so (`Summed`).  It gives
`PanelTypeCorrect`, `SummaryRight` and `OffersHonest`.

Only model-checked:

- liveness (`ConnectingEnds`, `CallsReturn`, `EveryRunEnds`, `EventuallyAnnounced`,
  `SyncingEnds`) and everything that speaks of ENABLED, which TLAPS
  does not reach;
- `PalmSession` with the restore dialog, where `DeviceHeld` does not hold.

## Not modelled, and why

- libkalburator (engine, topology, conflicts, providers), pilot-link, Qt and KDE
  are external: the models have what this code sees of them.
- Undefined behaviour behind a null or dangling pointer is reached and reported
  (`RawLinkAlive`, `AssertDeviceLink`) but not continued.
- A worker that is terminated while it holds a lock inside pilot-link, and the
  descriptor of a success event dropped with its link, are hazards without a
  property: no document says what should happen.
- Of a record's content, category and flags what the codecs and the rulings do not
  compute with; byte layouts, formatting, logging, and all presentation.
- `syncconfigstore_wp.cpp` and the revision store: keyed settings that only the
  engine, or only tests, read.  `conflictresolver_wp.cpp`: nothing consults it.
  `KalburatorInteractiveConflictHandler` and its `ConflictDialog`: nothing calls them.
- The action manager's progress, the parsing of collection identifiers, a profile's
  settings that nothing else reads, an unreadable registry file, and test doubles.

## Plan

1. `Workbench` with the access of `PalmSession` in the place of its one-step attempt,
   so that the questions of the window meet the late signals of a connection.
2. The recovery of a link in `RecordAccess`, with the cache entry that survives it.
