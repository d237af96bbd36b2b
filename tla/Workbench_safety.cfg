SPECIFICATION Spec
CONSTANTS
    p1 = p1
    h1 = h1
    h2 = h2
    s1 = s1
    s2 = s2
    Places = {p1}
    Ports = {1}
    Prefix <- MCPrefix
    Handhelds = {h1, h2}
    NoHandheld = NoHandheld
    SerialOf <- MCSerialOf
    MaxPlugs = 2
    MaxId = 2
    Elsewhere = {1}
    Serials = {s1, s2}
    NoSerial = NoSerial
    Asks = {"new", "import", "close", "switch", "forget", "folder", "connect", "disconnect", "sync", "settings", "user", "quit"}
    Blank = {h2}
    AutoSync = TRUE
    MaxAsks = 2
    MaxDepth = 2
CHECK_DEADLOCK FALSE
INVARIANTS
    SerialOnce
    NeverReused
PROPERTIES
    BoundForGood
