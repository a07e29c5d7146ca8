------------------------------- MODULE Retry -------------------------------
(***************************************************************************)
(* A call of ApiWrapperService through genericRetryStrategy, attempt by    *)
(* attempt, to the payment service while other requests call it about the  *)
(* same payment.  An attempt that timed out is not taken back: its request *)
(* may reach the service at any later time, after later attempts or after  *)
(* the caller was answered.  Every attempt carries the same idempotency    *)
(* key, as the headers are built once for all of them.                     *)
(***************************************************************************)
EXTENDS PaymentService

CONSTANTS
  Key,                \* the idempotency key
  MaxRetryAttempts,
  TimeoutDuration,    \* in seconds
  AnswerTimes         \* bound: the seconds after which an attempt may be answered

RetriedOps == {"charge", "release", "cancel", "rollback"}

ASSUME RetryAssumption ==
  /\ Key \in Ids
  /\ MaxRetryAttempts \in Nat /\ TimeoutDuration \in Nat
  /\ AnswerTimes \subseteq 0 .. TimeoutDuration

VARIABLES
  called,       \* the operation called
  phase,        \* "waiting" for an attempt, "backoff" before the next, "resolved" or "rejected"
  retryCount,   \* failed attempts; numbers the attempt under way
  answer,       \* the status that answers this attempt, "none" so far
  requests,     \* attempts sent and not yet handled by the service
  elapsed,      \* seconds since the call was made
  effects       \* times the operation took effect

rvars == <<called, phase, retryCount, answer, requests, elapsed, effects, pay, adjusted, late>>

Attempts == 0 .. MaxRetryAttempts

\* "excluded" stands for 400, 401 and 404, "error" for any other status axios rejects.
Statuses == {"none", "ok", "excluded", "error"}

RInit ==
  /\ phase = "waiting" /\ retryCount = 0 /\ answer = "none"
  /\ requests = {0}
  /\ elapsed = 0
  /\ effects = 0
  /\ called \in RetriedOps
  /\ pay \in [Ids -> From(called)] /\ adjusted = [i \in Ids |-> 0] /\ late = {}

-----------------------------------------------------------------------------
\* The service

CallOf(op) == [op |-> op, id |-> Key, adjust |-> 0]

Effect(op) ==
  /\ Handle(CallOf(op))
  /\ effects' = IF op = called /\ pay[Key] \in From(op) THEN effects + 1 ELSE effects
  /\ UNCHANGED late

NoEffect == UNCHANGED <<pay, adjusted, late, effects>>

\* How a request may be dealt with: done, refused, or an error after or before it was done.
Dealt(status) ==
  \/ status = "ok" /\ Accepts(called, Key) /\ Effect(called)
  \/ status = "error" /\ Effect(called)
  \/ status \in {"excluded", "error"} /\ NoEffect

\* The answer reaches the caller's side if this attempt is still awaited.
Deliver(a, status) ==
  /\ a \in requests
  /\ requests' = requests \ {a}
  /\ Dealt(status)
  /\ answer' = IF phase = "waiting" /\ a = retryCount THEN status ELSE answer
  /\ UNCHANGED <<called, phase, retryCount, elapsed>>

\* Another request's call about the same payment, or the payer.
Rival ==
  /\ \/ \E op \in RetriedOps : Effect(op)
     \/ PayBill(Key) /\ UNCHANGED effects
  /\ UNCHANGED <<called, phase, retryCount, answer, requests, elapsed>>

-----------------------------------------------------------------------------
\* genericRetryStrategy

\* Mutant of Succeeds: axios validates no status.
SucceedsAlways(status) == TRUE

Succeeds(status) == status = "ok"

\* Mutant of LastAttempt: counts from one.
LastAttemptOffByOne(n) == n = MaxRetryAttempts + 1

LastAttempt(n) == n = MaxRetryAttempts

\* 2 ** n, as a recursive function.
TwoTo[n \in Nat] == IF n = 0 THEN 1 ELSE 2 * TwoTo[n - 1]

\* Mutant of Delay: counts from the next attempt.
DelayLonger(n) == IF TwoTo[n + 1] < 60 THEN TwoTo[n + 1] ELSE 60

\* The seconds before retry n: exponential up to a minute.
Delay(n) == IF TwoTo[n] < 60 THEN TwoTo[n] ELSE 60

\* An attempt failed after some seconds: the last one or an excluded status end the call.
Failing(status, seconds) ==
  /\ elapsed' = elapsed + seconds
  /\ answer' = "none"
  /\ IF LastAttempt(retryCount) \/ status = "excluded"
       THEN phase' = "rejected" /\ UNCHANGED retryCount
       ELSE phase' = "backoff" /\ retryCount' = retryCount + 1
  /\ UNCHANGED <<called, requests, effects, pay, adjusted, late>>

\* Mutant of Timeout: the call is made without the strategy.
TimeoutNever == FALSE

\* Also while the answer is on its way.
Timeout == phase = "waiting" /\ Failing("none", TimeoutDuration)

\* The connection breaks: an error without a response.
Disconnected(seconds) == phase = "waiting" /\ answer = "none" /\ Failing("none", seconds)

AnswerFails(seconds) ==
  /\ phase = "waiting" /\ answer # "none" /\ ~Succeeds(answer)
  /\ Failing(answer, seconds)

AnswerResolves(seconds) ==
  /\ phase = "waiting" /\ answer # "none" /\ Succeeds(answer)
  /\ phase' = "resolved"
  /\ elapsed' = elapsed + seconds
  /\ UNCHANGED <<called, retryCount, answer, requests, effects, pay, adjusted, late>>

\* The timer resubscribes, which sends the request again.
Resubscribe ==
  /\ phase = "backoff"
  /\ phase' = "waiting"
  /\ requests' = requests \cup {retryCount}
  /\ elapsed' = elapsed + Delay(retryCount)
  /\ UNCHANGED <<called, retryCount, answer, effects, pay, adjusted, late>>

Hears(seconds) == Disconnected(seconds) \/ AnswerFails(seconds) \/ AnswerResolves(seconds)

RNext ==
  \/ \E a \in Attempts, status \in Statuses : Deliver(a, status)
  \/ Rival
  \/ Timeout
  \/ \E seconds \in AnswerTimes : Hears(seconds)
  \/ Resubscribe

\* Timers fire; nothing is promised of the network and the service.
RFairness == WF_rvars(Timeout) /\ WF_rvars(Resubscribe)

RSpec == RInit /\ [][RNext]_rvars /\ RFairness

-----------------------------------------------------------------------------
RetryTypeOK ==
  /\ called \in RetriedOps
  /\ phase \in {"waiting", "backoff", "resolved", "rejected"}
  /\ retryCount \in Attempts
  /\ answer \in Statuses
  /\ requests \subseteq Attempts
  /\ elapsed \in Nat /\ effects \in Nat
  /\ PayTypeOK

Call == INSTANCE OneCall WITH
  fate <- CASE phase = "resolved" -> "answered"
            [] phase = "rejected" -> "failed"
            [] OTHER              -> "open",
  done <- effects = 1

\* All the attempts together are one call: success is reported only of what was done, and no
\* attempt, however late and whatever others did to the payment meanwhile, does it again
\* (genericRetryStrategy and the idempotency key of ApiWrapperService).
IsOneCall == Call!Spec

\* Every attempt timed out and every delay slept through, 134 seconds with the defaults, is the
\* longest a handler waits for one call, whatever the network does (genericRetryStrategy).
GivesUpInTime ==
  elapsed <= (MaxRetryAttempts + 1) * TimeoutDuration + TwoTo[MaxRetryAttempts + 1] - 2

\* Every call ends, though the service may never answer (genericRetryStrategy): a handler that
\* awaits one always gets on.
Settles == <>(phase \in {"resolved", "rejected"})
=============================================================================
