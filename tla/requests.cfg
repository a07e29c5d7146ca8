\* A request that asks, for batches of up to two of two orders, and one that moves money.
CONSTANTS
  Reqs = {r1, r2}
  Viewer = r1
  Orders = {o1, o2}
  NoOrder = NoOrder
  MaxBatch = 2
  Served <- AskingAndMoving
SPECIFICATION RequestsSpec
SYMMETRY Interchangeable
INVARIANTS RequestsTypeOK HeldIsPaid UnauthorizedLeavesNothing MoneyMovesForServices
           SuccessIsWhole CodesForPlacedOrders
CHECK_DEADLOCK FALSE
