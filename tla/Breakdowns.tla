----------------------------- MODULE Breakdowns -----------------------------
(***************************************************************************)
(* What the service tells clients an order costs by which method: before   *)
(* the order exists (calculateBreakdown), while it is paid and after       *)
(* (paymentMethodBreakdown), and to the rider who collects the cash        *)
(* (calculateCashAmount).  Pure views of the table, computed apart from    *)
(* the handlers that move the money.                                       *)
(***************************************************************************)
EXTENDS Subtransactions

\* MoneyDto.toJSON shows nothing below zero.
Shown(amount) == IF amount < 0 THEN 0 ELSE amount

-----------------------------------------------------------------------------
\* calculateCashAmount

\* Mutant of CashAmount: the wallet pays all it holds.
CashAmountUncapped(wallet, total) ==
  [wallet |-> wallet.amount, cash |-> Shown(total - wallet.amount)]

\* The wallet's row counts whatever state it is in, and SADAD is not asked about.
CashAmount(wallet, total) ==
  [wallet |-> IF total <= wallet.amount THEN total ELSE wallet.amount,
   cash   |-> Shown(total - wallet.amount)]

-----------------------------------------------------------------------------
\* getOrderSubtransactions and paymentMethodBreakdown

\* The active row of each method.
ActiveRows == {rows \in [Methods -> UNION {FindActive(m) : m \in Methods}] :
                 \A m \in Methods : rows[m] \in FindActive(m)}

CashToCome(amount) == [NoSnap EXCEPT !.state = "AWAITING_PAYMENT", !.amount = amount]

\* Mutant of CashShown: a row is shown even when nothing is left to pay in cash.
CashShownAlways(rows, total) ==
  IF Exists(rows["SADAD"]) \/ Exists(rows["CASH"]) THEN rows["CASH"]
  ELSE CashToCome(total - rows["WALLET"].amount)

\* Mutant of CashShown: what the wallet holds is not taken off.
CashShownGross(rows, total) ==
  IF Exists(rows["SADAD"]) \/ Exists(rows["CASH"]) THEN rows["CASH"] ELSE CashToCome(total)

\* Without SADAD the rest is cash: its row, or an entry for what is to come, or nothing when the
\* wallet holds more than the total.
CashShown(rows, total) ==
  LET rest == total - rows["WALLET"].amount IN
  IF Exists(rows["SADAD"]) THEN rows["CASH"]
  ELSE IF rest < 0 THEN NoSnap
  ELSE IF Exists(rows["CASH"]) THEN rows["CASH"] ELSE CashToCome(rest)

OrderSubtransactions(rows, total) == [rows EXCEPT !["CASH"] = CashShown(rows, total)]

\* The order's payment method as it reads off the breakdown, "" when nothing is shown.
OrderPaymentMethod(breakdown) ==
  LET shows(m) == Exists(breakdown[m]) IN
  IF shows("SADAD") /\ shows("WALLET") THEN "SADAD_WALLET"
  ELSE IF shows("WALLET") THEN "COD_WALLET"
  ELSE IF shows("SADAD") THEN "SADAD"
  ELSE IF shows("CASH") THEN "COD" ELSE ""

\* formatedDataWithBatches: the amount by each method, zero when there is none.
AmountShown(breakdown, m) == Shown(breakdown[m].amount)

-----------------------------------------------------------------------------
\* calculateBreakdown

\* What the checkout page shows for a cart total and a wallet balance, of either sign.
Preview(opm, total, balance) ==
  LET wallet == IF opm = "COD_WALLET" THEN balance ELSE 0 IN
  IF total - wallet < 0 THEN [wallet |-> total, final |-> 0]
  ELSE [wallet |-> wallet, final |-> total - wallet]
=============================================================================
