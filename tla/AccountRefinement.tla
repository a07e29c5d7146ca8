-------------------------- MODULE AccountRefinement --------------------------
(***************************************************************************)
(* TransactionService, with any number of requests of an order at once,    *)
(* keeps a MethodAccount of the order's wallet and cash payments.          *)
(***************************************************************************)
EXTENDS PaymentSafety

InstantMethods == {m \in Methods : IsInstantPayment(m)}

StageOf(paid) ==
  CASE paid = "NONE"                         -> "new"
    [] paid \in {"PENDING", "HELD"}          -> "held"
    [] paid = "CHARGED"                      -> "taken"
    [] paid = "RELEASED"                     -> "given"
    [] paid = "CANCELLED"                    -> "dropped"
    [] paid \in {"ROLLED", "ROLLED_RELEASE"} -> "returned"

IsOpen(paid) == paid \notin {"NONE", "ROLLED", "ROLLED_RELEASE"}

OpenPayments(m) == {i \in Ids : IsOpen(pay[i]) /\ tbl[i].pm = m}

\* Two open payments are no account's: to lose the first is no step of MethodAccount.
CurrentOf(m) ==
  LET open == OpenPayments(m) IN
  IF \E i \in open : open = {i} THEN CHOOSE i \in open : TRUE ELSE NoId

Account == INSTANCE MethodAccount WITH
  Payments <- Ids, Nobody <- NoId, Instant <- InstantMethods,
  current <- [m \in InstantMethods |-> CurrentOf(m)],
  stage <- [i \in Ids |-> IF IsInstantPayment(tbl[i].pm) THEN StageOf(pay[i]) ELSE "new"]

\* An order pays by wallet and by cash through one payment at a time, held before it is taken or
\* paid out and returned before it is replaced, whatever requests race, crash or leave calls
\* behind: the unique index, the ids as idempotency keys and the service's refusals together are
\* as good as a lock (createSubtransaction, completeSubtransaction, cancelSubtransaction,
\* rollbackSubtransaction).
OneAccountPerMethod == Account!Spec
=============================================================================
