SPECIFICATION PimSpec
CONSTANTS
  Kinds = {"datebook", "contact", "todo"}
  Contents <- MCContents
  Desktop <- MCDesktop
  Categories = {0, 15}
  MaxEdits = 1
  NotPalm = NotPalm
  MaxPending = 1
CHECK_DEADLOCK FALSE
INVARIANTS
    MeaningKept
    ArchivedKept
    NoTwin
PROPERTIES
    RoundsSettle
