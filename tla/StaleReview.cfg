SPECIFICATION Spec
CONSTANTS
  p1 = p1
  p2 = p2
  Runner = {p1}
  NTasks = 1
  DependsOn <- MCDependsOn
  MaxRetry = 1
  Faults = {}
  Commands = {"pause", "takeover"}
  Crashes = TRUE
  MaxAttempt = 4
  MaxLaunches = 2
  MaxCommands = 3
INVARIANTS ApprovedIsReviewed
CHECK_DEADLOCK FALSE
