SPECIFICATION Spec
CONSTANTS
    Texts <- MCTexts
    NoText = ""
    Unfiled = "Unfiled"
    Fold <- MCFold
    Kept <- MCKept
    Shown <- MCShown
    Wanted <- MCWanted
    UserNames <- MCUserNames
    MaxWanted = 2
    LastSlot = 2
    MaxId = 2
INVARIANTS
    Accounted
    NoDuplicates
PROPERTIES
    OthersKept
    RouteStatusRight
