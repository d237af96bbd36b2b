SPECIFICATION MonitorSpec
CONSTANTS
    p1 = p1
    p2 = p2
    h1 = h1
    h2 = h2
    s1 = s1
    s2 = s2
    Places = {p1, p2}
    Ports = {1, 2}
    Prefix <- MCPrefix
    Handhelds = {h1, h2}
    NoHandheld = NoHandheld
    SerialOf <- MCSerialOf
    MaxPlugs = 3
PROPERTIES EveryPlugging
CHECK_DEADLOCK FALSE
