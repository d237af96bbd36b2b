SPECIFICATION Spec
CONSTANTS
  Ids = {c1, c2}
  Anonymous = {c2}
  Dialogs = {d1, d2}
  NoId = NoId
  Shut = Shut
  MaxBadge = 3
CHECK_DEADLOCK FALSE
INVARIANTS
    NoConflictHidden
PROPERTIES
    AppliedStays
    DecisionKept
