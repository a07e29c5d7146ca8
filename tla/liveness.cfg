\* Requests of one order for ever, one at a time; crashes and failed calls come to an end.
CONSTANTS
  Ids = {i1, i2, i3}
  NoId = NoId
  Procs = {w}
  Faults = {"refused", "lost", "crash"}
  Kinds = {"create", "cancel", "complete", "rollback", "breakdown"}
  OpenMethods = {"COD_WALLET", "SADAD_WALLET"}
  Totals = {5}
  FinalTotals = {5}
  OrderCurrencies = {"SAR"}
  Balances = {3}
  Tolerance = 1
  OneCheckout = TRUE
  MaxRequests = 1
SPECIFICATION LSpec
PROPERTIES CompletionSettles CancellationSettles RollbackSettles HoldSettles PaidBillIsHeld
CHECK_DEADLOCK FALSE
