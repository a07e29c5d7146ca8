--------------------------- MODULE SerialInvariant ---------------------------
(***************************************************************************)
(* The inductive invariant behind what PaymentSafety states of requests    *)
(* that are served one after the other.  It adds to IInv:                  *)
(*                                                                         *)
(*   - the table and the payments agree (LedgerAgreement) and only rolled  *)
(*     back rows gave up their key (RetiredIffRollbacked);                 *)
(*   - a call that is still late either does what its row announces or has *)
(*     nothing left to do (LateOK);                                        *)
(*   - the row a worker works on is in the state the worker takes it to be *)
(*     in (StandingOK), and so are the rows it read and has yet to settle  *)
(*     (KeptOK).                                                           *)
(***************************************************************************)
EXTENDS TransactionServiceInvariant, PaymentRefinement

\* One worker: a request is over before the next one begins.
Serial == \E w : Procs = {w}

-----------------------------------------------------------------------------
\* Late calls

\* The states of a row that announce a call.  A hold may come when its row was given up.
Announcing(op) ==
  CASE op \in {"hold", "hold3P"}    -> {"HOLD_PROCESSING", "ROLLBACKED"}
    [] op \in {"charge", "release"} -> {"COMPLETE_PROCESSING"}
    [] op = "cancel"                -> {"CANCEL_PROCESSING"}
    [] op = "rollback"              -> {"ROLLBACK_PROCESSING"}

Started == {"NONE", "PENDING", "HELD"}

\* The states of a payment in which a call comes too late to do anything, now or ever.
TooLate(op) ==
  CASE op \in {"hold", "hold3P"}              -> PayStates \ {"NONE"}
    [] op \in {"charge", "release", "cancel"} -> PayStates \ Started
    [] op = "rollback"                        -> Undone

Announced(c, T, P) == T[c.id].state \in Announcing(c.op) \/ P[c.id] \in TooLate(c.op)

LateOK(T, P, L) == \A c \in L : Announced(c, T, P)

-----------------------------------------------------------------------------
\* The worker

\* The states a row can be in when a worker stands at a label with it.
StatesAt(label) ==
  CASE label \in HoldLabels                                        -> {"HOLD_PROCESSING"}
    [] label = "cancel_mark"                                       -> {"HOLD", "AWAITING_PAYMENT"}
    [] label = "cancel_retire"                                     -> {"HOLD_PROCESSING",
                                                                       "CANCEL_PROCESSING"}
    [] label \in {"cancel_call", "cancel_key", "cancel_write"}     -> {"CANCEL_PROCESSING"}
    [] label = "complete_mark"                                     -> {"HOLD"}
    [] label \in {"complete_call", "complete_settle"}              -> {"COMPLETE_PROCESSING"}
    [] label \in {"status", "poll_settle"}                         -> {"AWAITING_PAYMENT"}
    [] label = "notify_settle"                                     -> {"AWAITING_PAYMENT",
                                                                       "HOLD_PROCESSING"}
    [] label = "rollback_mark"                                     -> {"COMPLETED", "CANCELLED"}
    [] label \in {"rollback_call", "rollback_settle"}              -> {"ROLLBACK_PROCESSING"}

\* A snapshot tells the state its row is in.
Fresh(s, T) == Exists(s) => T[s.id].state = s.state

StandingOK(j, T, P) ==
  LET i == Snapped(j).id IN
  /\ j.pc \in RowLabels => T[i].state \in StatesAt(j.pc)
  /\ (j.pc = "cancel_retire" /\ T[i].state = "CANCEL_PROCESSING") => P[i] \in CalledOff
  /\ j.pc = "cancel_write" => Snapped(j).live
  /\ j.pc = "status" => Fresh(Snapped(j), T)

CompleteLabels == {"complete_mark", "complete_call", "complete_settle"}

PollLabels == {"poll", "status", "poll_settle"}

\* A completion reads the wallet's row first and settles it next to last, and cash after it.
KeptOK(j, T) ==
  /\ \/ j.kind = "complete" /\ j.pc \in PollLabels /\ j.todo # <<>>
     \/ j.kind = "complete" /\ j.pc \in HoldLabels
     \/ j.pc \in {"cash_read", "cash_insert"}
     \/ j.pc \in CompleteLabels /\ j.on = "SADAD"
     => Fresh(j.snap["WALLET"], T)
  /\ j.pc \in CompleteLabels /\ j.on = "WALLET" => Fresh(j.snap["CASH"], T)
  /\ j.kind = "complete" /\ j.pc \in HoldLabels => j.on = "CASH"

WorkerOK(j, T, P) == StandingOK(j, T, P) /\ KeptOK(j, T)

-----------------------------------------------------------------------------
Agreed(T, P) ==
  \A i \in Ids :
    IF T[i].state = "ABSENT" THEN P[i] = "NONE"
    ELSE /\ P[i] \in Agreeing(T[i].pm)[T[i].state]
         /\ T[i].live <=> T[i].state # "ROLLBACKED"

SLedger(T, P, L) == Agreed(T, P) /\ LateOK(T, P, L)

SInv ==
  /\ SLedger(tbl, pay, late)
  /\ \A p \in Procs : WorkerOK(job[p], tbl, pay)
=============================================================================
