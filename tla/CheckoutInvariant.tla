-------------------------- MODULE CheckoutInvariant --------------------------
(***************************************************************************)
(* The inductive invariant behind what PaymentSafety and BreakdownSafety   *)
(* state of amounts, for requests of an order served one after the other   *)
(* and clients that do not create anew what a completion has begun to      *)
(* settle.  It adds to SInv:                                               *)
(*                                                                         *)
(*   - cash was inserted for exactly what the wallet leaves of the final   *)
(*     total, is charged when that is positive and paid out when it is     *)
(*     negative, and excludes SADAD (CashOK);                              *)
(*   - what a completion has settled so far and has left to settle is the  *)
(*     final total (CompletionOK);                                         *)
(*   - no cash is there while the order is created (NoCashYet), so that    *)
(*     what the wallet holds changes only without cash, and SADAD was      *)
(*     created for what the wallet leaves (CreationOK);                    *)
(*   - a SADAD row of more than nothing says *_PROCESSING only in the      *)
(*     hands of a worker when nothing fails (SadadInHand), and there is    *)
(*     no SADAD row when no client asks for it (CashOnly): a completion    *)
(*     that finds no active SADAD row may then leave SADAD out.  A row of  *)
(*     nothing was never held and changes no sum.                          *)
(***************************************************************************)
EXTENDS SerialInvariant, BreakdownSafety

\* Every completion of the order asks for the same total.
OneFinalTotal == \A t, u \in FinalTotals : t = u

\* No client asks for SADAD.
NoSadadAsked == OpenMethods \subseteq {"COD", "COD_WALLET"}

\* What the theorems about completions suppose: faults strand SADAD rows where no completion
\* looks for them.
CheckoutAssumption ==
  Serial /\ OneCheckout /\ OneFinalTotal /\ (Faults = {} \/ NoSadadAsked)

-----------------------------------------------------------------------------
\* The rows that answer to a key

LiveRow(T, i, m) == i \in Ids /\ IsLive(T[i]) /\ T[i].pm = m

NoLive(T, m) == \A i \in Ids : ~LiveRow(T, i, m)

Stands(T, m, states) == \A i \in Ids : LiveRow(T, i, m) => T[i].state \in states

AmountOf(T, m) == IF NoLive(T, m) THEN 0 ELSE T[CHOOSE i \in Ids : LiveRow(T, i, m)].amount

\* SADAD plays no part: what there was of it is called off, or was of nothing.
SadadGone(T, P) ==
  \A i \in Ids : (LiveRow(T, i, "SADAD") /\ T[i].amount > 0)
                   => /\ T[i].state \in {"CANCELLED", "ROLLBACK_PROCESSING"}
                      /\ P[i] \in CalledOff

-----------------------------------------------------------------------------
\* Cash

\* The payer owes cash, or is owed some.
CashDue(T) == \A total \in FinalTotals : total > AmountOf(T, "WALLET")
CashOwed(T) == \A total \in FinalTotals : total < AmountOf(T, "WALLET")

\* What the wallet leaves of the final total, of either sign.
Leaves(T, amount) ==
  \A total \in FinalTotals : LET rest == total - AmountOf(T, "WALLET")
                             IN  amount = IF rest < 0 THEN -rest ELSE rest

CashRowOK(T, P, i) ==
  /\ Leaves(T, T[i].amount)
  /\ P[i] = "CHARGED" => CashDue(T)
  /\ P[i] = "RELEASED" => CashOwed(T)
  /\ SadadGone(T, P)

LateCashOK(T, c) ==
  /\ c.op = "release" => T[c.id].pm = "CASH"
  /\ LiveRow(T, c.id, "CASH") => /\ c.op = "charge" => CashDue(T)
                                 /\ c.op = "release" => CashOwed(T)

CashOK(T, P, L) ==
  /\ \A i \in Ids : LiveRow(T, i, "CASH") => CashRowOK(T, P, i)
  /\ \A i \in Ids : P[i] \in {"RELEASED", "ROLLED_RELEASE"} => T[i].pm = "CASH"
  /\ \A c \in L : LateCashOK(T, c)

-----------------------------------------------------------------------------
\* Completions

Remaining(j, T) == j.total - AmountOf(T, "WALLET")

\* The snapshot of a method tells whether there is a row.
Knows(j, m, T) == IF Exists(j.snap[m]) THEN IsLive(T[j.snap[m].id]) ELSE NoLive(T, m)

\* Snapshots tell the amounts of their rows, which never change.
Priced(j, T) ==
  \A m \in Methods : j.snap[m].amount = IF Exists(j.snap[m]) THEN T[j.snap[m].id].amount ELSE 0

\* SADAD covers what the wallet leaves.
PaidBySadad(j, T) ==
  /\ \E i \in Ids : /\ LiveRow(T, i, "SADAD") /\ T[i].state = "COMPLETED"
                    /\ AlmostZero(Remaining(j, T) - T[i].amount)
  /\ NoLive(T, "CASH")

\* What is left for cash to cover.
Plan(j, T, P) ==
  \/ j.amount = 0 /\ PaidBySadad(j, T)
  \/ j.amount = Remaining(j, T) /\ SadadGone(T, P)

\* Everything is settled.
SettledUp(j, T, P) ==
  /\ Stands(T, "WALLET", {"COMPLETED"}) /\ Stands(T, "CASH", {"COMPLETED"})
  /\ \/ PaidBySadad(j, T)
     \/ SadadGone(T, P) /\ (NoLive(T, "CASH") => Remaining(j, T) = 0)

CompletionOK(j, T, P) ==
  j.kind = "complete" =>
    /\ j.total \in FinalTotals
    /\ j.pc = "wallet_read" => j.todo # <<>>
    /\ j.pc \in PollLabels /\ j.todo # <<>>
         => Knows(j, "WALLET", T) /\ j.amount = Remaining(j, T)
    /\ j.pc \in CompleteLabels /\ j.on = "SADAD"
         => /\ Knows(j, "WALLET", T)
            /\ j.amount = Remaining(j, T) - Snapped(j).amount /\ AlmostZero(j.amount)
    /\ j.pc \in {"cash_read", "cash_insert"} \cup HoldLabels
         => Knows(j, "WALLET", T) /\ Plan(j, T, P)
    /\ j.pc = "cash_insert" => NoLive(T, "CASH")
    /\ j.pc \in CompleteLabels /\ j.on = "WALLET"
         => /\ Plan(j, T, P) /\ Knows(j, "CASH", T)
            /\ Exists(j.snap["CASH"]) \/ j.amount = 0
    /\ j.pc \in CompleteLabels /\ j.on = "CASH"
         => Plan(j, T, P) /\ Stands(T, "WALLET", {"COMPLETED"})
    /\ (j.pc \in PollLabels /\ j.todo = <<>>) \/ j.pc = "done" => SettledUp(j, T, P)

-----------------------------------------------------------------------------
\* Creations and rollbacks

\* The method a creation ends with.
LastOf(opm) == IF opm \in {"SADAD", "SADAD_WALLET"} THEN "SADAD" ELSE "CASH"

\* A creation works on the wallet, if asked to, and then on the last method.
OnWallet(j) ==
  /\ j.on = "WALLET" /\ j.opm \in {"COD_WALLET", "SADAD_WALLET"}
  /\ j.todo = <<"WALLET", LastOf(j.opm)>>

OnLast(j) == j.on = LastOf(j.opm) /\ j.todo = <<LastOf(j.opm)>>

CreationFlow(j) ==
  j.kind = "create" =>
    /\ j.opm \in OpenMethods \cup {"COD_WALLET"}
    /\ j.pc = "resolve" => OnWallet(j)
    /\ j.pc \in CancelLabels \cup {"sadad_amount"} => j.todo = <<LastOf(j.opm)>>
    /\ j.pc = "sadad_amount" => j.on = "SADAD" /\ LastOf(j.opm) = "SADAD"
    /\ j.pc \in {"create_read", "insert"} \cup HoldLabels => OnWallet(j) \/ OnLast(j)
    /\ j.pc = "create_read" /\ j.on = "CASH" => IsNothing(j)
    /\ j.pc = "insert" => j.on # "CASH"
    /\ j.pc \in PollLabels => j.todo = <<>>

CancelFlow(j) ==
  /\ j.pc \in CancelLabels => j.kind \in {"create", "cancel"}
  /\ j.pc = "notify_settle" => j.kind = "notify"

RollbackFlow(j) ==
  j.pc \in RollbackLabels =>
    /\ j.kind = "rollback"
    /\ <<j.on, j.todo>> \in {<<"SADAD", <<"SADAD", "CASH", "WALLET">>>>,
                             <<"CASH", <<"CASH", "WALLET">>>>, <<"WALLET", <<"WALLET">>>>}

\* The order is created, or about to be created anew.
NoCashYet(j, T) ==
  \/ j.kind = "create" /\ j.pc \in BusyLabels \cup {"done"}
  \/ j.pc \in RollbackLabels /\ j.on = "WALLET"
  => NoLive(T, "CASH")

ShownHeld == {"HOLD", "AWAITING_PAYMENT"}

\* The wallet's row, if there is one and it is not of nothing, is shown.
WalletShown(T) ==
  \A i \in Ids : (LiveRow(T, i, "WALLET") /\ T[i].amount > 0) => T[i].state \in ShownHeld

\* SADAD's amount is what the wallet leaves.
SadadRest(T, total, amount) ==
  WalletShown(T) /\ amount = total - AmountOf(T, "WALLET")

SadadCovers(T, total) ==
  \A i \in Ids : (LiveRow(T, i, "SADAD") /\ T[i].state # "CANCELLED")
                   => SadadRest(T, total, T[i].amount)

CreationOK(j, T) ==
  j.kind = "create" =>
    /\ j.pc \in CancelLabels \cup {"sadad_amount"} /\ j.opm = "SADAD_WALLET"
         => Knows(j, "WALLET", T) /\ WalletShown(T)
    /\ \/ j.pc = "sadad_amount"
       \/ j.pc \in {"create_read", "insert"} /\ j.on # "WALLET"
       => Stands(T, "SADAD", {"CANCELLED"})
    /\ j.pc \in {"create_read", "insert"} /\ j.on = "SADAD" => SadadRest(T, j.total, j.amount)
    /\ \/ j.pc \in PollLabels \cup {"done"}
       \/ j.pc \in HoldLabels /\ j.on = "SADAD"
       => SadadCovers(T, j.total)

-----------------------------------------------------------------------------
\* SADAD without a worker

Pending == {"HOLD_PROCESSING", "CANCEL_PROCESSING", "ROLLBACK_PROCESSING"}

SadadInHand(j, T) ==
  Faults = {} => \A i \in Ids : (LiveRow(T, i, "SADAD") /\ T[i].amount > 0 /\ T[i].state \in Pending)
                                  => j.pc \in RowLabels /\ Snapped(j).id = i

CashOnly(T) ==
  NoSadadAsked => \A i \in Ids : T[i].state # "ABSENT" => T[i].pm # "SADAD"

-----------------------------------------------------------------------------
CheckoutOK(j, T, P) ==
  /\ Priced(j, T)
  /\ CompletionOK(j, T, P)
  /\ CreationFlow(j) /\ CancelFlow(j) /\ RollbackFlow(j)
  /\ NoCashYet(j, T)
  /\ CreationOK(j, T)
  /\ SadadInHand(j, T)

CInv ==
  /\ CashOK(tbl, pay, late)
  /\ CashOnly(tbl)
  /\ \A p \in Procs : CheckoutOK(job[p], tbl, pay)
=============================================================================
