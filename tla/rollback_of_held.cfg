\* A rollback after a completion that crashed with the cash on hold.
CONSTANTS
  Ids = {i1, i2}
  NoId = NoId
  Procs = {w}
  Faults = {"crash"}
  Kinds = {"complete", "rollback"}
  OpenMethods = {"COD"}
  Totals = {5}
  FinalTotals = {5}
  OrderCurrencies = {"SAR"}
  Balances = {3}
  Tolerance = 1
  OneCheckout = FALSE
  MaxRequests = 3
SPECIFICATION TSpec
PROPERTY RollbackAnswers
CHECK_DEADLOCK FALSE
