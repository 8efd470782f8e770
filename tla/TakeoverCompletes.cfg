SPECIFICATION Spec
CONSTANTS
  p1 = p1
  p2 = p2
  Runner = {p1}
  NTasks = 1
  DependsOn <- MCDependsOn
  MaxRetry = 1
  Faults = {}
  Commands = {"pause", "takeover"}
  Crashes = FALSE
  MaxAttempt = 4
  MaxLaunches = 0
  MaxCommands = 2
INVARIANTS CompletedMeansApproved
CHECK_DEADLOCK FALSE
