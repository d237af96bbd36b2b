SPECIFICATION FairSpec
CONSTANTS
    MaxConnects = 2
    Calls = {"cancel", "pause", "engine"}
    MaxCalls = 2
\* A destroyed object does nothing more.
CHECK_DEADLOCK FALSE
INVARIANTS
    OneCompletion
    DownFollowsUp
    TickleOnOpenSocket
    NothingSurvives
PROPERTIES
    ConnectingEnds
    CallsReturn
