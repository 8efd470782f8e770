SPECIFICATION Spec
CONSTANTS
  p1 = p1
  p2 = p2
  Runner = {p1}
  NTasks = 2
  DependsOn <- MCDependsOn
  MaxRetry = 1
  Faults = {"unknown", "reject", "block", "error"}
  Commands = {"pause", "freeze", "resolve"}
  Crashes = TRUE
  MaxAttempt = 5
  MaxLaunches = 2
  MaxCommands = 3
INVARIANTS CompletedMeansApproved ImplementedOnce RevisionsBounded
PROPERTIES StartsInOrder
CHECK_DEADLOCK FALSE
