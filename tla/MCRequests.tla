----------------------------- MODULE MCRequests -----------------------------
(***************************************************************************)
(* Instances of Requests for TLC: one request that is served by calls at   *)
(* the same time, and others that move money meanwhile.  complete stands   *)
(* for cancel, which goes the same way here.                               *)
(***************************************************************************)
EXTENDS Requests, TLC

CONSTANTS Viewer      \* the request that only asks

Asking == {"breakdown", "subtransactions", "ordersBreakdown", "batchCashToBeCollected"}

AskingAndMoving ==
  [r \in Reqs |-> IF r = Viewer THEN Asking
                  ELSE {"create", "complete", "rollback", "paymentNotification"}]

AnyRoute == [r \in Reqs |-> Routes]

Interchangeable == Permutations(Orders)
=============================================================================
