------------------------------ MODULE OneCall ------------------------------
(***************************************************************************)
(* What a handler may rely on when it awaits a call to a service: it hears *)
(* of success only after the effect, it may hear of failure in any case,   *)
(* and the effect, which comes once, may also come after that.  These are  *)
(* the outcomes of a call in PaymentService: Answered, AnswerLost, Refused *)
(* and GivenUp.                                                            *)
(***************************************************************************)
VARIABLES
  fate,       \* what the caller was told: "open", "answered" or "failed"
  done        \* the effect took place

callvars == <<fate, done>>

Init == fate = "open" /\ done = FALSE

TakeEffect == ~done /\ done' = TRUE /\ UNCHANGED fate

Answer == fate = "open" /\ done /\ fate' = "answered" /\ UNCHANGED done

Fail == fate = "open" /\ fate' = "failed" /\ UNCHANGED done

Next == TakeEffect \/ Answer \/ Fail

Spec == Init /\ [][Next]_callvars
=============================================================================
