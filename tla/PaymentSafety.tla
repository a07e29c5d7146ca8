---------------------------- MODULE PaymentSafety ----------------------------
(***************************************************************************)
(* What the payment engine must keep true between its table and the        *)
(* payment service.  The first part holds whatever requests run at the     *)
(* same time; the second supposes that the requests of one order are       *)
(* served one after the other, with crashes, lost answers and late calls.  *)
(***************************************************************************)
EXTENDS TransactionService, Functions

\* Types of the table, the payments and the workers.  A row may be of nothing, when what was to
\* be held is less than the column can tell; the payment service never hears of such a row, for
\* holdInPayment returns before it calls and no other call is reached without the hold.
TTypeOK ==
  /\ TblTypeOK
  /\ PayTypeOK
  /\ job \in [Procs -> Job]
  /\ served \in Nat
  /\ \A i \in Ids : pay[i] # "NONE" => tbl[i].amount > 0

-----------------------------------------------------------------------------
\* Under any interleaving

\* The payment states that entitle the table to say what it says.
Confirming(pm) ==
  [state \in States |->
     CASE state = "HOLD"             -> PayStates \ {"NONE", "PENDING"}
       [] state = "AWAITING_PAYMENT" -> PayStates \ {"NONE"}
       [] state = "CANCELLED"        -> {"CANCELLED", "ROLLED", "ROLLED_RELEASE"}
       [] state = "COMPLETED"        -> {"CHARGED", "RELEASED", "ROLLED", "ROLLED_RELEASE"}
       [] state = "ROLLBACKED" /\ IsInstantPayment(pm) -> {"ROLLED", "ROLLED_RELEASE"}
       [] OTHER                      -> PayStates]

\* A row says held, awaiting, cancelled, completed or rolled back only after the payment service
\* confirmed it, whatever crashes, gets lost or runs at the same time: every such state is
\* written after the call it reports (holdInPayment, cancelSubtransaction,
\* completeSubtransaction, rollbackSubtransaction, paymentNotification, getSubtransactions).
ConfirmedByPayment ==
  \A i \in Ids : Stored(i) => pay[i] \in Confirming(tbl[i].pm)[tbl[i].state]

\* Nobody pays twice by wallet or by cash: of the rows an order ever had for an instant method at
\* most one is charged and not rolled back, however requests race.  A row gives up its key only
\* when its payment is rolled back, and the unique index keeps a second row out until then.
InstantChargedOnce ==
  \A i, j \in {k \in Ids : pay[k] \in {"CHARGED", "RELEASED"} /\ IsInstantPayment(tbl[k].pm)} :
    tbl[i].pm = tbl[j].pm => i = j

\* A row of the wallet or of cash that answers to no lookup any more has had its payment rolled
\* back, whoever writes the key, and over whatever was read before: else a new row would be made
\* for money that is still taken (DbWrapper.rollbackSubtransaction frees the key, and
\* DbWrapper.cancelSubtransaction writes back the key its first half read).
RetiredIsUndone ==
  \A i \in Ids : (Stored(i) /\ ~tbl[i].live /\ IsInstantPayment(tbl[i].pm))
                   => pay[i] \in {"ROLLED", "ROLLED_RELEASE"}

-----------------------------------------------------------------------------
\* Served one after the other

\* What the payment can be when the table says so: the table is at most one call behind.
Agreeing(pm) ==
  [state \in States |->
     CASE state = "HOLD_PROCESSING"     -> {"NONE", "PENDING", "HELD"}
       [] state = "AWAITING_PAYMENT"    -> {"PENDING", "HELD"}
       [] state = "HOLD"                -> {"HELD"}
       [] state = "CANCEL_PROCESSING"   -> {"PENDING", "HELD", "CANCELLED"}
       [] state = "CANCELLED"           -> {"CANCELLED"}
       [] state = "COMPLETE_PROCESSING" -> {"HELD", "CHARGED", "RELEASED"}
       [] state = "COMPLETED"           -> {"CHARGED", "RELEASED"}
       [] state = "ROLLBACK_PROCESSING" -> {"CHARGED", "RELEASED", "CANCELLED",
                                            "ROLLED", "ROLLED_RELEASE"}
       [] state = "ROLLBACKED"          ->
            IF IsInstantPayment(pm) THEN {"ROLLED", "ROLLED_RELEASE"}
            ELSE PayStates \ {"CHARGED", "RELEASED"}]

\* The table and the payment service agree up to the one call that may be in flight, wherever a
\* request crashed and however late a call arrives: the *_PROCESSING states written before the
\* calls are enough for the next request to resume.
LedgerAgreement ==
  \A i \in Ids : /\ Stored(i) => pay[i] \in Agreeing(tbl[i].pm)[tbl[i].state]
                 /\ ~Stored(i) => pay[i] = "NONE"

\* A key is given up exactly when the row reached its end state: a row out of reach is settled
\* history, and history never answers a lookup (DbWrapper.rollbackSubtransaction).
RetiredIffRollbacked ==
  \A i \in Ids : Stored(i) => (tbl[i].live <=> tbl[i].state # "ROLLBACKED")

\* Nobody pays twice by one method: at most one subtransaction of a method is charged and not
\* rolled back, however often requests are repeated.
OneChargePerMethod ==
  \A i, j \in {k \in Ids : pay[k] \in {"CHARGED", "RELEASED"}} :
    tbl[i].pm = tbl[j].pm => i = j

\* The life of a row.
Lifecycle ==
  {<<"ABSENT", "HOLD_PROCESSING">>,
   <<"HOLD_PROCESSING", "AWAITING_PAYMENT">>, <<"HOLD_PROCESSING", "HOLD">>,
   <<"AWAITING_PAYMENT", "HOLD">>,
   <<"HOLD_PROCESSING", "ROLLBACKED">>,
   <<"AWAITING_PAYMENT", "CANCEL_PROCESSING">>, <<"HOLD", "CANCEL_PROCESSING">>,
   <<"CANCEL_PROCESSING", "CANCELLED">>, <<"CANCEL_PROCESSING", "ROLLBACKED">>,
   <<"HOLD", "COMPLETE_PROCESSING">>, <<"COMPLETE_PROCESSING", "COMPLETED">>,
   <<"COMPLETED", "ROLLBACK_PROCESSING">>, <<"CANCELLED", "ROLLBACK_PROCESSING">>,
   <<"ROLLBACK_PROCESSING", "ROLLBACKED">>}

\* A row only ever moves along its life cycle: no snapshot, however old, takes a row back.
FollowsLifecycle ==
  [][\A i \in Ids : tbl'[i].state # tbl[i].state =>
                      <<tbl[i].state, tbl'[i].state>> \in Lifecycle]_tvars

-----------------------------------------------------------------------------
\* Amounts

\* What the payer has paid for the order: cash released went back to the wallet.
Paid == SumFunction([i \in Ids |-> CASE pay[i] = "CHARGED"  -> tbl[i].amount
                                     [] pay[i] = "RELEASED" -> -tbl[i].amount
                                     [] OTHER               -> 0])

\* When completeTransaction reports success the payer has paid the order's final total, by
\* whatever methods, up to what isAlmostZero lets pass: its TOTAL_AMOUNT_MISMATCH check.
SettledAmount ==
  \A p \in Procs : (job[p].pc = "done" /\ job[p].kind = "complete")
                     => AlmostZero(Paid - job[p].total)

\* What the wallet gained or lost by the order: a rollback without adjustment returns what was
\* charged, one with adjustment returns that much, and cash released stays in the wallet.
WalletGain ==
  SumFunction([i \in Ids |->
    CASE pay[i] = "CHARGED" /\ tbl[i].pm = "WALLET"                 -> -tbl[i].amount
      [] pay[i] = "ROLLED" /\ tbl[i].pm = "WALLET" /\ adjusted[i] > 0 -> adjusted[i] - tbl[i].amount
      [] pay[i] \in {"RELEASED", "ROLLED_RELEASE"}                  -> tbl[i].amount
      [] OTHER                                                      -> 0])

\* Once everything that was settled is rolled back, the wallet is where it was: the adjustment
\* rollbackTransaction computes makes up for the cash its top-up left there.
RefundsBalance ==
  ((\A p \in Procs : AtRest(p)) /\ \A i \in Ids : pay[i] \notin {"CHARGED", "RELEASED"})
    => WalletGain = 0

-----------------------------------------------------------------------------
\* What comments and tests of the repository say

\* DbWrapper: cancelIntent moves the row "directly to end state i.e. Rollback".
EndStateIsFinal ==
  [][\A i \in Ids : tbl[i].state = "ROLLBACKED" => tbl'[i].state = "ROLLBACKED"]_tvars

\* rollback-transaction.spec.ts rolls back an order whose cash is on HOLD and expects an answer.
RollbackAnswers ==
  [][\A p \in Procs : (/\ job[p].pc = "rollback_read" /\ job[p].on = "CASH"
                      /\ \E i \in LiveIds("CASH") : tbl[i].state = "HOLD")
                     => job'[p].pc # "type_error"]_tvars

=============================================================================
