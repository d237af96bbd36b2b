SPECIFICATION Spec
CONSTANTS
    a1 = a1
    a2 = a2
    c1 = c1
    Accounts = {a1, a2}
    Categories = {c1}
    Whole = Whole
    MaxRow = 3
    GroupOf <- MCGroupOf
    MaxDesired = 1
    MaxSlots = 1
    MaxEdits = 3
    Builds <- MCBuilds
INVARIANTS ClobberOffers
PROPERTIES ApplyKeepsWhole
CHECK_DEADLOCK FALSE
