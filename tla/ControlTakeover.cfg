SPECIFICATION FairSpec
CONSTANTS
  p1 = p1
  p2 = p2
  Runner = {p1}
  NTasks = 2
  DependsOn <- MCDependsOn
  MaxRetry = 1
  Faults = {"testfail", "reject", "scope", "block", "violation"}
  Commands = {"pause", "freeze", "takeover", "cancel"}
  Crashes = FALSE
  MaxAttempt = 5
  MaxLaunches = 2
  MaxCommands = 3
INVARIANTS ApprovedIsReviewed
PROPERTIES PausesAtBoundary PauseReached
CHECK_DEADLOCK FALSE
