---------------------------- MODULE MethodAccount ----------------------------
(***************************************************************************)
(* What the payer of an order may count on for each method that pays at    *)
(* once: the order has one payment open by the method at a time; its money *)
(* is held first, then taken, paid out or let go, never two of these; and  *)
(* another payment is opened only when all of that has been returned.      *)
(***************************************************************************)
CONSTANTS
  Payments,
  Nobody,       \* no payment
  Instant       \* the methods

VARIABLES
  current,      \* method |-> the payment open by it
  stage         \* payment |-> what has become of its money

accountvars == <<current, stage>>

Stages == {"new", "held", "taken", "given", "dropped", "returned"}

Init ==
  /\ current = [m \in Instant |-> Nobody]
  /\ stage = [i \in Payments |-> "new"]

Hold(m, i) ==
  /\ current[m] = Nobody
  /\ stage[i] = "new"
  /\ current' = [current EXCEPT ![m] = i]
  /\ stage' = [stage EXCEPT ![i] = "held"]

Settle(m, i) ==
  /\ current[m] = i
  /\ stage[i] = "held"
  /\ \E s \in {"taken", "given", "dropped"} : stage' = [stage EXCEPT ![i] = s]
  /\ UNCHANGED current

Return(m, i) ==
  /\ current[m] = i
  /\ stage[i] \in {"taken", "given", "dropped"}
  /\ stage' = [stage EXCEPT ![i] = "returned"]
  /\ current' = [current EXCEPT ![m] = Nobody]

Next == \E m \in Instant, i \in Payments : Hold(m, i) \/ Settle(m, i) \/ Return(m, i)

Spec == Init /\ [][Next]_accountvars
=============================================================================
