SPECIFICATION FairSpec
CONSTANTS
    Runs = {r1, r2}
    NoRun = NoRun
    Devs = {d1, d2}
    NoDev = NoDev
    MaxConnects = 3
    Dialogs = {"clobber"}
    AutoSync = TRUE
    Policies = {"keepAlive", "disconnect"}
\* The bounds run out: no requests, objects or attempts are left.
CHECK_DEADLOCK FALSE
INVARIANTS
    DeviceHeld
    FinishedOnce
    TickleResumed
PROPERTIES
    ImplementsRunService
    EveryRunEnds
