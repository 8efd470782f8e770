SPECIFICATION Spec
CONSTANTS
  r1 = r1
  r2 = r2
  l1 = l1
  p1 = p1
  p2 = p2
  Key = {r1, r2}
  Remote = {r1, r2}
  Planned = {r1}
  Estimate <- MCEstimate
  Proc = {p1, p2}
  Operator = {o1}
  Usable = 3
  MaxBill = 3
  Unreported = Unreported
  NoKey = NoKey
  Crashes = TRUE
  AdapterRaises = FALSE
SYMMETRY Symmetry
INVARIANTS TypeOK AtMostOnceSent LedgerConsistent BudgetHonoured BilledIsCommitted FreezeSettles
PROPERTIES SettledForGood KeepsPromise
CHECK_DEADLOCK FALSE
