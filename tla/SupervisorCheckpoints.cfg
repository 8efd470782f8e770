SPECIFICATION Spec
CONSTANTS
  p1 = p1
  s1 = s1
  Notifier = {p1}
  Supervisor = {s1}
  Notice = {"unknown_call", "p0_p1_finding"}
  Action = {"pause"}
  MaxCheckpoints = 1
  Undecided = Undecided
  MaxOccurrences = 3
  MaxCrashes = 1
INVARIANTS TypeOK RowsBounded DecisionsAreInformed OverflowWakes ReplayedOnce
PROPERTIES DecisionsStand
CHECK_DEADLOCK FALSE
