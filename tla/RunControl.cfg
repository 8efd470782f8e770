SPECIFICATION FairSpec
CONSTANTS
  p1 = p1
  p2 = p2
  Runner = {p1}
  NTasks = 1
  DependsOn <- MCDependsOn
  MaxRetry = 1
  Faults = {"denied", "unconfirmed", "unavailable", "unknown", "incomplete", "error", "scope", "testfail", "reject", "block", "malformed", "violation"}
  Commands = {"pause", "freeze", "takeover", "cancel", "resolve"}
  Crashes = TRUE
  MaxAttempt = 6
  MaxLaunches = 1
  MaxCommands = 3
INVARIANTS TypeOK VerdictConsistent CompletedIsSettled
PROPERTIES VerdictFinal RunSpec RunnersExit
CHECK_DEADLOCK FALSE
