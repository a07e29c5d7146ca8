------------------------- MODULE PaymentRefinement -------------------------
(***************************************************************************)
(* TransactionService, serving the requests of an order one after the      *)
(* other, keeps the table as an IntentLog of the payments.                 *)
(***************************************************************************)
EXTENDS PaymentSafety

\* The entry a row stands for.  A retired row whose payment nobody cancelled or rolled back
\* was given up while its hold was under way.
EntryOf(i) ==
  LET state == tbl[i].state IN
  CASE state = "ABSENT"                        -> "none"
    [] state = "HOLD_PROCESSING"               -> "holding"
    [] state \in {"AWAITING_PAYMENT", "HOLD"}  -> "held"
    [] state = "CANCEL_PROCESSING"             -> "cancelling"
    [] state = "CANCELLED"                     -> "cancelled"
    [] state = "COMPLETE_PROCESSING"           -> "settling"
    [] state = "COMPLETED"                     -> "settled"
    [] state = "ROLLBACK_PROCESSING"           -> "undoing"
    [] state = "ROLLBACKED"                    ->
         IF pay[i] \in {"CANCELLED", "ROLLED", "ROLLED_RELEASE"} THEN "undone" ELSE "abandoned"

\* What a payment's state says of the money: a bill that waits for its payer is reserved money.
FateOf(i) ==
  CASE pay[i] = "NONE"                           -> "untouched"
    [] pay[i] \in {"PENDING", "HELD"}            -> "reserved"
    [] pay[i] = "CANCELLED"                      -> "freed"
    [] pay[i] \in {"CHARGED", "RELEASED"}        -> "moved"
    [] pay[i] \in {"ROLLED", "ROLLED_RELEASE"}   -> "returned"

Log == INSTANCE IntentLog WITH log <- [i \in Ids |-> EntryOf(i)],
                               money <- [i \in Ids |-> FateOf(i)]

\* The table is a write-ahead log of the payments: the payment service changes a payment only
\* while the row says *_PROCESSING for that very change, however late a call arrives, and a
\* settled state is written only after the change it reports (the mark-call-settle pattern of
\* cancelSubtransaction, completeSubtransaction and rollbackSubtransaction).
IntentLogged == Log!Spec
=============================================================================
