--------------------------- MODULE PaymentLiveness ---------------------------
(***************************************************************************)
(* What becomes of an order whose request died half way.  Nothing in the   *)
(* engine resumes it: no timer, no scan of the table, no start-up task.    *)
(* A row in a *_PROCESSING state, or a bill whose notification was lost,   *)
(* waits for a client to ask again, and then the request must get through. *)
(*                                                                         *)
(* Assumed of the environment: the requests of an order come one after the *)
(* other, a process runs what it took up (the event loop), a call ends     *)
(* (Retry's Settles), and crashes and failures of the network come to an   *)
(* end.  Refusals of what does not fit a payment's state never end.  A     *)
(* call that arrives late only does what its row announces (IntentLogged), *)
(* as the call of the next request would; late calls are left out.         *)
(***************************************************************************)
EXTENDS TransactionService

ASSUME NoLateCalls == "late" \notin Faults

VARIABLE calm       \* crashes and failures of the network are over

lvars == <<tvars, calm>>

\* The operation a worker calls.
OpOf(j) ==
  CASE j.pc = "hold"          -> HoldOp(j.on)
    [] j.pc = "cancel_call"   -> "cancel"
    [] j.pc = "complete_call" -> IF IsTopup(j) THEN "release" ELSE "charge"
    [] j.pc = "rollback_call" -> "rollback"

\* A call fails that the payment service would have answered.
Mishap(p) ==
  /\ job[p].pc \in {"hold", "cancel_call", "complete_call", "rollback_call"}
  /\ Accepts(OpOf(job[p]), Snapped(job[p]).id)
  /\ job'[p].pc = "failed"

NoneIn(state) == \A i \in Ids : tbl[i].live => tbl[i].state # state

\* Clients end what they began: an order is not completed while it is being cancelled or rolled
\* back, nor rolled back while it is being cancelled.  A completion in between takes cash for
\* the order and holds it, and then neither it nor the others ever get through.
Timely(kind) ==
  /\ kind \in {"complete", "rollback"} => NoneIn("CANCEL_PROCESSING")
  /\ kind = "complete" => NoneIn("ROLLBACK_PROCESSING")

Arrival(p) ==
  /\ Serve(p)
  /\ Timely(job'[p].kind)
  /\ UNCHANGED calm

Run(p) ==
  /\ Advance(p)
  /\ calm => ~Mishap(p)
  /\ UNCHANGED calm

Die(p) == ~calm /\ Crash(p) /\ UNCHANGED calm

Calm == calm' = TRUE /\ UNCHANGED tvars

\* Requests go on for ever: MaxRequests bounds those of one round.
Renew ==
  /\ served = MaxRequests
  /\ \A p \in Procs : AtRest(p)
  /\ served' = 0
  /\ UNCHANGED <<tbl, pay, adjusted, late, job, calm>>

LInit == TInit /\ calm = FALSE

LNext ==
  \/ \E p \in Procs : Arrival(p) \/ Run(p) \/ Die(p)
  \/ Payer /\ UNCHANGED calm
  \/ Calm
  \/ Renew

LSpec ==
  /\ LInit /\ [][LNext]_lvars
  /\ \A p \in Procs : WF_lvars(Run(p))
  /\ WF_lvars(Calm)

-----------------------------------------------------------------------------
\* The client does not give up.
CompleteAgain == []<><<\E p \in Procs : Complete(p)>>_lvars
CancelAgain == []<><<\E p \in Procs : Cancel(p)>>_lvars
RollbackAgain == []<><<\E p \in Procs : Rollback(p)>>_lvars
PayByWalletAgain ==
  []<><<\E p \in Procs : Create(p) /\ job'[p].on = "WALLET">>_lvars
AskAgain == []<><<\E p \in Procs : GetBreakdown(p)>>_lvars

\* A settlement that died half way is finished by the completion that is asked for next, again
\* if need be: cash, wallet and SADAD alike, whatever died in between (completeTransaction over
\* completeSubtransaction's COMPLETE_PROCESSING).
CompletionSettles == CompleteAgain => []<>NoneIn("COMPLETE_PROCESSING")

\* So is a cancellation, also one that a change of the payment method began
\* (cancelSubtransaction's CANCEL_PROCESSING).
CancellationSettles == CancelAgain => []<>NoneIn("CANCEL_PROCESSING")

\* So is a rollback, whose rows of other methods may be at any stage of theirs
\* (rollbackSubtransaction's ROLLBACK_PROCESSING).
RollbackSettles == RollbackAgain => []<>NoneIn("ROLLBACK_PROCESSING")

\* A wallet row whose hold nobody saw the end of is held by the next create that uses the wallet
\* (createSubtransaction's HOLD_PROCESSING).  A row of nothing never is, nor is it ever settled,
\* cancelled or rolled back.
HoldSettles ==
  PayByWalletAgain => []<>(\A i \in LiveIds("WALLET") :
                             tbl[i].amount > 0 => tbl[i].state # "HOLD_PROCESSING")

\* A paid bill whose notification was lost is noticed by those who ask for the order's
\* breakdown: the poll stands in for the notification (getSubtransactions).
PaidBillIsHeld ==
  AskAgain => []<>(\A i \in Ids : tbl[i].state = "AWAITING_PAYMENT" => pay[i] = "PENDING")
=============================================================================
