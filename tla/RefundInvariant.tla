--------------------------- MODULE RefundInvariant ---------------------------
(***************************************************************************)
(* The inductive invariant behind RefundsBalance, for requests that come   *)
(* one after the other and do not fail.  A rollback returns cash before    *)
(* the wallet: between the two, what the released cash left in the wallet  *)
(* is the worker's running amount (Returned), by which it then reduces     *)
(* what the wallet gets back.  It adds to CInv:                            *)
(*                                                                         *)
(*   - payments that were rolled back gained the wallet what the rollback  *)
(*     under way has yet to make up for, and nothing between requests      *)
(*     (Balanced);                                                         *)
(*   - while cash is released the wallet's row is COMPLETED, and so it is  *)
(*     found when the cash was rolled back (ReleasedOK, ReturnOK);         *)
(*   - no rollback is half done but the worker's own (RollbackInHand), and *)
(*     its payment is rolled back once, by the call about to be made;      *)
(*   - a request that rolls back is in its rollback or done (RollbackKind),*)
(*     so that only there an amount is in hand.                            *)
(***************************************************************************)
EXTENDS CheckoutInvariant

\* What the theorem about refunds supposes.  A final total of nothing would make the adjustment
\* nothing, which is how none is sent.
RefundAssumption == CheckoutAssumption /\ Faults = {} /\ 0 \notin FinalTotals

\* What a payment that was rolled back gained the wallet.
PastGain(row, paid, back) ==
  CASE paid = "ROLLED" /\ row.pm = "WALLET" /\ back > 0 -> back - row.amount
    [] paid = "ROLLED_RELEASE"                          -> row.amount
    [] OTHER                                            -> 0

PastGains(T, P, A) == SumFunction([i \in Ids |-> PastGain(T[i], P[i], A[i])])

\* What a rollback under way has yet to take from what the wallet gets back.
Returned(j) == IF j.pc \in RollbackLabels THEN j.amount ELSE 0

Balanced(j, T, P, A) == PastGains(T, P, A) = Returned(j)

ReleasedOK(T, P) ==
  \A i \in Ids : (LiveRow(T, i, "CASH") /\ P[i] = "RELEASED")
                   => Stands(T, "WALLET", {"COMPLETED"}) /\ FinalTotals # {}

\* Where a rollback has the wallet yet to come, what cash left there is less than what it paid.
ReturnOK(j, T) ==
  (j.pc \in RollbackLabels /\ j.amount # 0) =>
    /\ \/ j.on = "CASH" /\ j.pc = "rollback_settle"
       \/ j.on = "WALLET" /\ j.pc # "rollback_settle"
    /\ j.amount > 0 /\ j.amount < AmountOf(T, "WALLET")
    /\ j.pc # "rollback_call" => Stands(T, "WALLET", {"COMPLETED"})

RollbackInHand(j, T, P) ==
  /\ \A i \in Ids : T[i].state = "ROLLBACK_PROCESSING"
                      => j.pc \in {"rollback_call", "rollback_settle"} /\ Snapped(j).id = i
  /\ j.pc = "rollback_call" => P[Snapped(j).id] \notin Undone

RollbackKind(j) == j.kind = "rollback" => j.pc \in RollbackLabels \cup RestLabels

RefundOK(j, T, P, A) ==
  /\ RollbackKind(j)
  /\ Balanced(j, T, P, A)
  /\ ReturnOK(j, T)
  /\ RollbackInHand(j, T, P)

BInv ==
  /\ late = {}
  /\ ReleasedOK(tbl, pay)
  /\ \A p \in Procs : RefundOK(job[p], tbl, pay, adjusted)
=============================================================================
