SPECIFICATION FairSpec
CONSTANTS
  d1 = d1
  d2 = d2
  s1 = s1
  s2 = s2
  Driver = {d1, d2}
  Session = {s1, s2}
  MaxContinuations = 2
  Inherited <- MCInherited
  MaxCrashes = 1
  MaxCommands = 1
INVARIANTS TypeOK SegmentsBounded InvokedOnce ChainKept
PROPERTIES StrayedNotContinued DriveTerminates
CHECK_DEADLOCK FALSE
