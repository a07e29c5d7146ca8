--------------------- MODULE TransactionServiceInvariant ---------------------
(***************************************************************************)
(* The inductive invariant behind what PaymentSafety states for any        *)
(* interleaving.  Its parts take the table, the payments and the calls on  *)
(* their way as arguments, so that one lemma serves the state before a     *)
(* step and the state after it.                                            *)
(*                                                                         *)
(* The argument: a payment only ever moves forward, through sets of states *)
(* it never leaves (Milestones).  A worker about to record a state has had *)
(* the answer that put the payment into the milestone that state stands    *)
(* for, and no other worker, crash or late call can take it out again.     *)
(***************************************************************************)
EXTENDS PaymentSafety

\* Sets of payment states that no call leaves.
Begun      == PayStates \ {"NONE"}
Collected  == PayStates \ {"NONE", "PENDING"}
CalledOff  == {"CANCELLED", "ROLLED", "ROLLED_RELEASE"}
Taken      == {"CHARGED", "RELEASED", "ROLLED", "ROLLED_RELEASE"}
Undone     == {"ROLLED", "ROLLED_RELEASE"}

Milestones == {Begun, Collected, CalledOff, Taken, Undone}

\* Labels of a createTransaction, cancelTransaction or rollbackTransaction loop.
CancelLabels == {"cancel_read", "cancel_mark", "cancel_call", "cancel_retire",
                 "cancel_key", "cancel_write"}

CreateLabels == {"resolve", "sadad_amount", "create_read", "insert"}

RollbackLabels == {"rollback_read", "rollback_mark", "rollback_call", "rollback_settle"}

LoopLabels == CreateLabels \cup RollbackLabels \cup CancelLabels

HoldLabels == {"hold", "hold_settle"}

SettleLabels == {"wallet_read", "cash_read", "cash_insert",
                 "complete_mark", "complete_call", "complete_settle"}

\* Labels at which the worker has a row in hand.
RowLabels == HoldLabels \cup (CancelLabels \ {"cancel_read"})
               \cup (RollbackLabels \ {"rollback_read"})
               \cup {"complete_mark", "complete_call", "complete_settle", "status", "poll_settle", "notify_settle"}

-----------------------------------------------------------------------------
\* What a worker knows

\* Its snapshots are of rows of the table, each of the method it is kept under, and tell their
\* amounts, which never change.
SnapOK(s, pm, T) ==
  Exists(s) => /\ s.id \in Ids
               /\ T[s.id].state # "ABSENT"
               /\ T[s.id].pm = pm
               /\ T[s.id].amount = s.amount

SnapsOK(j, T) == \A m \in Methods : SnapOK(j.snap[m], m, T)

\* Its control state hangs together.
FlowOK(j) ==
  /\ j.pc \in LoopLabels => j.todo # <<>>
  /\ j.pc \in HoldLabels => \/ j.kind = "create" /\ j.todo # <<>>
                            \/ j.kind = "complete"
  /\ j.pc \in CreateLabels => j.kind = "create"
  /\ j.pc \in SettleLabels => j.kind = "complete"
  /\ (j.pc \in CancelLabels /\ j.kind = "create") => j.on = "SADAD"
  /\ j.pc \in {"cancel_retire", "poll", "status", "poll_settle"} => j.on = "SADAD"
  /\ j.pc = "wallet_read" => j.on = "WALLET"
  /\ j.pc \in {"cash_read", "cash_insert"} => j.on = "CASH"
  /\ j.pc \in RowLabels => Exists(Snapped(j))
  /\ j.pc \in HoldLabels => Snapped(j).amount > 0
  /\ j.pc = "create_read" /\ j.scrap => j.amount = 0
  /\ j.pc = "insert" => j.amount >= 0
  /\ j.pc = "cash_insert" => j.amount # 0

\* A worker about to record a state has had the answer that allows it.
AnswerOK(j, P) ==
  LET paid == P[Snapped(j).id] IN
  /\ j.pc = "hold_settle" => /\ paid \in Begun
                             /\ IsInstantPayment(j.on) => paid \in Collected
  /\ j.pc \in {"poll_settle", "notify_settle"} => paid \in Collected
  /\ j.pc \in {"cancel_key", "cancel_write"} => paid \in CalledOff
  /\ (j.pc = "cancel_write" /\ ~Snapped(j).live /\ IsInstantPayment(j.on)) => paid \in Undone
  /\ j.pc = "complete_settle" => paid \in Taken
  /\ j.pc = "rollback_settle" => paid \in Undone

JobOK(j, T, P) ==
  /\ j \in Job
  /\ SnapsOK(j, T)
  /\ FlowOK(j)
  /\ AnswerOK(j, P)

-----------------------------------------------------------------------------
\* What holds of the table, the payments and the calls on their way

\* What a row of a method in a state needs of its payment.
RowConfirmed(row, paid) ==
  /\ row.state = "HOLD" => paid \in Collected
  /\ row.state = "AWAITING_PAYMENT" => paid \in Begun
  /\ row.state = "CANCELLED" => paid \in CalledOff
  /\ row.state = "COMPLETED" => paid \in Taken
  /\ (row.state = "ROLLBACKED" /\ IsInstantPayment(row.pm)) => paid \in Undone

\* A row of an instant method gives up its key only with its payment rolled back.
RetiredUndone(row, paid) ==
  (row.state # "ABSENT" /\ ~row.live /\ IsInstantPayment(row.pm)) => paid \in Undone

RowOK(row, paid) ==
  /\ paid # "NONE" => row.state # "ABSENT" /\ row.amount > 0
  /\ RowConfirmed(row, paid)
  /\ RetiredUndone(row, paid)

IsLive(row) == row.state # "ABSENT" /\ row.live

KeysUnique(T) ==
  \A i, k \in Ids : (IsLive(T[i]) /\ IsLive(T[k]) /\ T[i].pm = T[k].pm) => i = k

\* A call is made for a row of the table, and a hold for one of more than nothing.
CallOK(T, c) ==
  /\ T[c.id].state # "ABSENT"
  /\ c.op \in {"hold", "hold3P"} => T[c.id].amount > 0

LedgerOK(T, P, A, L) ==
  /\ T \in [Ids -> Row]
  /\ P \in [Ids -> PayStates]
  /\ A \in [Ids -> Nat]
  /\ L \subseteq Calls
  /\ \A c \in L : CallOK(T, c)
  /\ \A i \in Ids : RowOK(T[i], P[i])
  /\ KeysUnique(T)

IInv ==
  /\ LedgerOK(tbl, pay, adjusted, late)
  /\ job \in [Procs -> Job]
  /\ \A p \in Procs : JobOK(job[p], tbl, pay)
  /\ served \in Nat

-----------------------------------------------------------------------------
\* How the table and the payments move on: rows stay and keep their method and amount,
\* payments stay within the milestones they reached.
Later(T, P, T2, P2) ==
  \A i \in Ids : /\ T[i].state # "ABSENT" => /\ T2[i].state # "ABSENT"
                                             /\ T2[i].pm = T[i].pm
                                             /\ T2[i].amount = T[i].amount
                 /\ \A M \in Milestones : P[i] \in M => P2[i] \in M
=============================================================================
