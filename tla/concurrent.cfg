\* Two requests at a time, every fault.
CONSTANTS
  Ids = {i1, i2, i3}
  NoId = NoId
  Procs = {w1, w2}
  Faults = {"lost", "late", "crash"}
  Kinds = {"create", "cancel", "complete", "rollback", "breakdown"}
  OpenMethods = {"SADAD", "COD_WALLET", "SADAD_WALLET"}
  Totals = {5}
  FinalTotals = {5}
  OrderCurrencies = {"SAR"}
  Balances = {3}
  Tolerance = 1
  OneCheckout = FALSE
  MaxRequests = 3
SPECIFICATION TSpec
INVARIANTS ConfirmedByPayment RetiredIsUndone InstantChargedOnce
PROPERTIES OneAccountPerMethod
SYMMETRY IdProcSymmetry
CHECK_DEADLOCK FALSE
