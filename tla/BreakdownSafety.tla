-------------------------- MODULE BreakdownSafety --------------------------
(***************************************************************************)
(* What clients are told against what becomes of the money: the views and  *)
(* the handlers compute the same amounts in different places of the code.  *)
(* The requests of an order are served one after the other, and a worker   *)
(* keeps its outcome until it is given the next request.                   *)
(***************************************************************************)
EXTENDS PaymentRefinement, Breakdowns

Succeeded(p, kind) == job[p].pc = "done" /\ job[p].kind = kind

AmountIn(state, m) ==
  SumFunction([i \in Ids |-> IF pay[i] = state /\ tbl[i].pm = m THEN tbl[i].amount ELSE 0])

\* The breakdown a completion answers with shows, method by method, what the payer was charged:
\* an order topped up, split or paid by SADAD alike (completeTransaction against
\* getOrderSubtransactions).
BreakdownTellsCharges ==
  \A p \in Procs : Succeeded(p, "complete") =>
    \A rows \in ActiveRows, m \in Methods :
      AmountShown(OrderSubtransactions(rows, job[p].total), m) = AmountIn("CHARGED", m)

\* The cash the rider is told to collect for a total is the cash a completion with that total
\* charges, and the wallet pays the rest, net of cash released to it.  calculateCashAmount knows
\* nothing of SADAD, so orders paid by SADAD are left out.
CashPreviewHolds ==
  \A p \in Procs : (Succeeded(p, "complete") /\ FindActive("SADAD") = {NoSnap}) =>
    \A wallet \in FindByIdempKey("WALLET") :
      CashAmount(wallet, job[p].total) =
        [cash   |-> AmountIn("CHARGED", "CASH"),
         wallet |-> AmountIn("CHARGED", "WALLET") - AmountIn("RELEASED", "CASH")]

\* The breakdown a created transaction is answered with adds up to the order's total, or to what
\* the wallet holds when an earlier request made it hold more.
BreakdownAddsUp ==
  \A p \in Procs : Succeeded(p, "create") =>
    \A rows \in ActiveRows :
      LET shown == OrderSubtransactions(rows, job[p].total)
          wallet == AmountShown(shown, "WALLET") IN
      SumFunction([m \in Methods |-> AmountShown(shown, m)])
        = IF job[p].total < wallet THEN wallet ELSE job[p].total
=============================================================================
