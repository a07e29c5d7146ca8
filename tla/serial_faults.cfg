\* One request at a time, every fault.
CONSTANTS
  Ids = {i1, i2, i3, i4}
  NoId = NoId
  Procs = {w}
  Faults = {"refused", "lost", "late", "crash"}
  Kinds = {"create", "cancel", "complete", "rollback", "breakdown"}
  OpenMethods = {"COD", "SADAD", "COD_WALLET", "SADAD_WALLET"}
  Totals = {5}
  FinalTotals = {5}
  OrderCurrencies = {"SAR"}
  Balances = {0, 3}
  Tolerance = 1
  OneCheckout = FALSE
  MaxRequests = 4
SPECIFICATION TSpec
INVARIANTS TTypeOK LedgerAgreement RetiredIffRollbacked OneChargePerMethod
PROPERTIES FollowsLifecycle IntentLogged
SYMMETRY IdSymmetry
CHECK_DEADLOCK FALSE
