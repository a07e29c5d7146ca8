\* Totals and balances with digits below the lowest denomination.
CONSTANTS
  Totals <- OrderTotals
  Balances <- WalletBalances
  MaxRequests = 4
SPECIFICATION ASpec
INVARIANTS AmountsTypeOK SadadCoversQuote MismatchMeansAnotherTotal CashMakesUp CashToldIsTaken
CHECK_DEADLOCK FALSE
