SPECIFICATION FairSpec
CONSTANTS
  r1 = r1
  r2 = r2
  l1 = l1
  p1 = p1
  p2 = p2
  Key = {r1, l1}
  Remote = {r1}
  Planned = {}
  Estimate <- MCEstimate
  Proc = {p1}
  Operator = {o1}
  Usable = 3
  MaxBill = 3
  Unreported = Unreported
  NoKey = NoKey
  Crashes = FALSE
  AdapterRaises = TRUE
PROPERTIES StartedSettles
CHECK_DEADLOCK FALSE
