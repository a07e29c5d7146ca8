--------------------------- MODULE PaymentService ---------------------------
(***************************************************************************)
(* The payment service behind ApiWrapperService, as the code uses it: one  *)
(* payment per subtransaction id (the idempotency key of every call), and  *)
(* calls that a network can lose, delay past the caller's patience or      *)
(* refuse.  The service is external to the repository; what is assumed of  *)
(* it is that a repeated call is answered like the first one and that a    *)
(* call which does not fit the payment's state is refused.                 *)
(*                                                                         *)
(* A call stands for all the attempts genericRetryStrategy makes: it       *)
(* answers, or it fails with its effect applied, not applied, or still to  *)
(* come.                                                                   *)
(***************************************************************************)
EXTENDS PaymentEnums

CONSTANT Faults       \* what can go wrong, a subset of FaultKinds

FaultKinds == {"refused", "lost", "late", "crash"}

ASSUME FaultsAreKnown == Faults \subseteq FaultKinds

VARIABLES
  pay,        \* id |-> state of the payment
  adjusted,   \* id |-> the adjustedMoney its rollback carried, 0 for the whole amount
  late        \* calls given up by their caller that the service has yet to handle

PayStates == {"NONE", "PENDING", "HELD", "CHARGED", "RELEASED", "CANCELLED",
              "ROLLED", "ROLLED_RELEASE"}

Ops == {"hold", "hold3P", "charge", "release", "cancel", "rollback"}

Calls == [op : Ops, id : Ids, adjust : Nat]

HoldOp(pm) == IF IsInstantPayment(pm) THEN "hold" ELSE "hold3P"

PayInit ==
  /\ pay = [i \in Ids |-> "NONE"]
  /\ adjusted = [i \in Ids |-> 0]
  /\ late = {}

-----------------------------------------------------------------------------
\* The states an operation moves a payment from, and the states in which it is done already.
From(op) ==
  CASE op \in {"hold", "hold3P"}     -> {"NONE"}
    [] op \in {"charge", "release"}  -> {"HELD"}
    [] op = "cancel"                 -> {"PENDING", "HELD"}
    [] op = "rollback"               -> {"CHARGED", "RELEASED", "CANCELLED"}

Done(op) ==
  CASE op = "hold"     -> {"HELD"}
    [] op = "hold3P"   -> {"PENDING", "HELD"}
    [] op = "charge"   -> {"CHARGED"}
    [] op = "release"  -> {"RELEASED"}
    [] op = "cancel"   -> {"CANCELLED"}
    [] op = "rollback" -> {"ROLLED", "ROLLED_RELEASE"}

To(op, state) ==
  CASE op = "hold"     -> "HELD"
    [] op = "hold3P"   -> "PENDING"
    [] op = "charge"   -> "CHARGED"
    [] op = "release"  -> "RELEASED"
    [] op = "cancel"   -> "CANCELLED"
    [] op = "rollback" -> IF state = "RELEASED" THEN "ROLLED_RELEASE" ELSE "ROLLED"

Accepts(op, i) == pay[i] \in From(op) \cup Done(op)

\* The service handles a call: its effect once, nothing when repeated or out of place.
Handle(c) ==
  IF pay[c.id] \in From(c.op)
    THEN /\ pay' = [pay EXCEPT ![c.id] = To(c.op, @)]
         /\ adjusted' = [adjusted EXCEPT ![c.id] = IF c.op = "rollback" THEN c.adjust ELSE @]
    ELSE UNCHANGED <<pay, adjusted>>

\* isReleased in the answer to a rollback.
IsReleased(i) == pay[i] \in {"RELEASED", "ROLLED_RELEASE"}

-----------------------------------------------------------------------------
\* What a caller sees

Answered(c) == Accepts(c.op, c.id) /\ Handle(c) /\ UNCHANGED late

\* The caller's promise rejects.
Refused(c) ==
  /\ ~Accepts(c.op, c.id) \/ "refused" \in Faults
  /\ UNCHANGED <<pay, adjusted, late>>

AnswerLost(c) == "lost" \in Faults /\ Handle(c) /\ UNCHANGED late

GivenUp(c) ==
  /\ "late" \in Faults
  /\ late' = late \cup {c}
  /\ UNCHANGED <<pay, adjusted>>

Failed(c) == Refused(c) \/ AnswerLost(c) \/ GivenUp(c)

\* GET /status of a third-party payment says COMPLETED once the payer paid.
IsPaid(i) == pay[i] \in {"HELD", "CHARGED"}

-----------------------------------------------------------------------------
\* Steps of the service's own

\* A call nobody waits for any more reaches the service.
HandleLate(c) == c \in late /\ late' = late \ {c} /\ Handle(c)

\* The payer settles the third-party bill.
PayBill(i) ==
  /\ pay[i] = "PENDING"
  /\ pay' = [pay EXCEPT ![i] = "HELD"]
  /\ UNCHANGED <<adjusted, late>>

PayTypeOK ==
  /\ pay \in [Ids -> PayStates]
  /\ adjusted \in [Ids -> Nat]
  /\ late \subseteq Calls
=============================================================================
