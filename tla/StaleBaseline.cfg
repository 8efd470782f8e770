SPECIFICATION Spec
CONSTANTS
  f1 = f1
  f2 = f2
  c = c
  w = w
  File = {f1}
  Content = {c, w}
  Absent = Absent
  Missing = Missing
  Written <- MCWritten
  Origins = {"fresh"}
  Candidates = 2
  MaxAttempts = 1
  MaxEdits = 2
  MaxCrashes = 1
INVARIANTS OverwritesOnlyCaptured
CHECK_DEADLOCK FALSE
