------------------------------ MODULE MCRetry ------------------------------
(***************************************************************************)
(* Instances of Retry for TLC: the defaults of genericRetryStrategy, and   *)
(* an attempt answered at once or just before its timeout.                 *)
(***************************************************************************)
EXTENDS Retry

SoonOrLate == {0, TimeoutDuration - 1}
=============================================================================
