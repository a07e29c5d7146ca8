\* One request at a time, every fault, clients that do not create anew what a complete request
\* has begun to settle.  The final total differs from the total at creation.
CONSTANTS
  Ids = {i1, i2, i3, i4}
  NoId = NoId
  Procs = {w}
  Faults = {"refused", "lost", "late", "crash"}
  Kinds = {"create", "cancel", "complete", "rollback"}
  OpenMethods = {"COD", "COD_WALLET"}
  Totals = {6, 8}
  FinalTotals = {4}
  OrderCurrencies = {"SAR"}
  Balances <- WalletBalances
  Tolerance = 3
  OneCheckout = TRUE
  MaxRequests = 5
SPECIFICATION TSpec
INVARIANTS SettledAmount
SYMMETRY IdSymmetry
CHECK_DEADLOCK FALSE
