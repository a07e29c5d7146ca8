\* One request of any route, to see whether a breakdown asks Knexa.
CONSTANTS
  Reqs = {r1}
  Viewer = r1
  Orders = {o1}
  NoOrder = NoOrder
  MaxBatch = 2
  Served <- AnyRoute
SPECIFICATION RequestsSpec
INVARIANTS KnexaIsAsked
CHECK_DEADLOCK FALSE
