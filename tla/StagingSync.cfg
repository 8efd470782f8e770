SPECIFICATION Spec
CONSTANTS
  f1 = f1
  f2 = f2
  c = c
  w = w
  File = {f1, f2}
  Content = {c, w}
  Absent = Absent
  Missing = Missing
  Written <- MCWritten
  Origins = {"fresh", "planned", "legacy"}
  Candidates = 2
  MaxAttempts = 2
  MaxEdits = 2
  MaxCrashes = 1
SYMMETRY Symmetry
INVARIANTS TypeOK OwnerEditsSurvive AllOrNothing ConflictsAreReal SyncedIsComplete
PROPERTIES SyncedIsKept
CHECK_DEADLOCK FALSE
