\* A payment method chosen anew after the order was completed, no faults.
CONSTANTS
  Ids = {i1, i2, i3}
  NoId = NoId
  Procs = {w}
  Faults = {}
  Kinds = {"create", "complete"}
  OpenMethods = {"COD", "SADAD"}
  Totals = {5}
  FinalTotals = {5}
  OrderCurrencies = {"SAR"}
  Balances = {3}
  Tolerance = 1
  OneCheckout = FALSE
  MaxRequests = 5
SPECIFICATION TSpec
INVARIANT SettledAmount
CHECK_DEADLOCK FALSE
