SPECIFICATION Spec
CONSTANTS
    Texts <- MCTexts
    NoText = ""
    Unfiled = "Unfiled"
    Fold <- MCFold
    Kept <- MCKept
    Shown <- MCShown
    Wanted <- MCWanted
    UserNames = {}
    MaxWanted = 2
    LastSlot = 2
    MaxId = 2
INVARIANTS ClaimedOnce
