SPECIFICATION Spec
CONSTANTS
    Runs = {r1, r2}
    NoRun = NoRun
    Devs = {d1, d2}
    NoDev = NoDev
    MaxConnects = 2
    Dialogs = {"restore"}
    AutoSync = TRUE
    Policies = {"keepAlive", "disconnect"}
\* The bounds run out: no requests, objects or attempts are left.
CHECK_DEADLOCK FALSE
SYMMETRY Symmetry
INVARIANTS
    DeviceHeld
    LeaseHonest
    RawLinkAlive
