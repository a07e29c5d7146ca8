\* One request at a time, no faults, clients that do not create anew what a complete request
\* has begun to settle.
CONSTANTS
  Ids = {i1, i2, i3, i4}
  NoId = NoId
  Procs = {w}
  Faults = {}
  Kinds = {"create", "cancel", "complete", "rollback"}
  OpenMethods = {"COD", "COD_WALLET", "SADAD", "SADAD_WALLET"}
  Totals = {6, 8}
  FinalTotals = {4}
  OrderCurrencies = {"PKR", "SAR"}
  Balances <- WalletBalances
  Tolerance = 3
  OneCheckout = TRUE
  MaxRequests = 5
SPECIFICATION TSpec
INVARIANTS SettledAmount RefundsBalance BreakdownTellsCharges CashPreviewHolds BreakdownAddsUp
SYMMETRY IdSymmetry
CHECK_DEADLOCK FALSE
