SPECIFICATION Spec
CONSTANTS
  d1 = d1
  d2 = d2
  s1 = s1
  s2 = s2
  Driver = {d1}
  Session = {s1, s2}
  MaxContinuations = 1
  Inherited = {}
  MaxCrashes = 0
  MaxCommands = 0
INVARIANTS SessionKept
CHECK_DEADLOCK FALSE
