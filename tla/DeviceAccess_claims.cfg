SPECIFICATION FairSpec
CONSTANTS
    MaxConnects = 1
    Calls = {"engine"}
    MaxCalls = 1
\* A destroyed object does nothing more.
CHECK_DEADLOCK FALSE
INVARIANTS AssertDeviceLink
PROPERTIES LossNoticed
