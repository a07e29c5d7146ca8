\* A request that changes the payment method while the SADAD hold of an earlier one is under way.
CONSTANTS
  Ids = {i1, i2}
  NoId = NoId
  Procs = {w1, w2}
  Faults = {}
  Kinds = {"create"}
  OpenMethods = {"COD", "SADAD"}
  Totals = {5}
  FinalTotals = {5}
  OrderCurrencies = {"SAR"}
  Balances = {3}
  Tolerance = 1
  OneCheckout = FALSE
  MaxRequests = 3
SPECIFICATION TSpec
PROPERTY EndStateIsFinal
CHECK_DEADLOCK FALSE
