---------------------------- MODULE RetryProofs ----------------------------
(***************************************************************************)
(* Retry implements OneCall, for any number of retries, any timeout and    *)
(* any operation that is retried: a payment that an operation moved never  *)
(* returns to a state the operation applies to, so a repeated or late      *)
(* attempt finds nothing to do.  And no call takes longer than its         *)
(* timeouts and delays add up to.                                          *)
(***************************************************************************)
EXTENDS Retry, SumLemmas

\* The states a payment can be in once an operation took effect.
After(op) ==
  CASE op = "charge"   -> {"CHARGED", "ROLLED"}
    [] op = "release"  -> {"RELEASED", "ROLLED_RELEASE"}
    [] op = "cancel"   -> {"CANCELLED", "ROLLED"}
    [] op = "rollback" -> {"ROLLED", "ROLLED_RELEASE"}

RInv ==
  /\ called \in RetriedOps
  /\ pay \in [Ids -> PayStates]
  /\ effects \in {0, 1}
  /\ effects = 1 => pay[Key] \in After(called)
  /\ effects = 0 => pay[Key] \notin Done(called)
  /\ answer = "ok" => effects = 1
  /\ phase = "resolved" => effects = 1

-----------------------------------------------------------------------------
\* An operation applies to no state it was done in.
LEMMA Apart ==
  ASSUME NEW op \in RetriedOps
  PROVE  /\ From(op) \subseteq PayStates
         /\ From(op) \cap Done(op) = {}
         /\ From(op) \cap After(op) = {}
  BY DEF RetriedOps, From, Done, After, PayStates

LEMMA Initially == RInit => RInv
  BY Apart, RetryAssumption DEF RInit, RInv

\* What any retried operation makes of a payment, seen by the operation called.
LEMMA EffectKept ==
  ASSUME RInv, NEW op \in RetriedOps, Effect(op), UNCHANGED called
  PROVE  /\ pay' \in [Ids -> PayStates]
         /\ effects' \in {0, 1}
         /\ effects' = 1 => pay'[Key] \in After(called)
         /\ effects' = 0 => pay'[Key] \notin Done(called)
         /\ effects = 1 => effects' = 1
  <1>1. Key \in Ids
    BY RetryAssumption
  <1>2. CASE pay[Key] \in From(op)
    <2>1. pay' = [pay EXCEPT ![Key] = To(op, @)]
      BY <1>2 DEF Effect, Handle, CallOf
    <2>2. pay'[Key] = To(op, pay[Key]) /\ To(op, pay[Key]) \in PayStates
      BY <1>1, <2>1 DEF RInv, RetriedOps, To, PayStates
    <2>3. pay' \in [Ids -> PayStates]
      BY <2>1, <2>2 DEF RInv
    <2>4. CASE op = called
      BY <1>2, <2>2, <2>3, <2>4, Apart DEF RInv, Effect, RetriedOps, To, After
    <2>5. CASE op # called
      <3>1. effects' = effects
        BY <2>5 DEF Effect
      <3>2. pay[Key] \in After(called) => pay'[Key] \in After(called)
        BY <1>2, <2>2, <2>5 DEF RInv, RetriedOps, From, To, After
      <3>3. pay'[Key] \notin Done(called) \/ pay[Key] \in Done(called)
        BY <1>2, <2>2, <2>5 DEF RInv, RetriedOps, From, To, Done
      <3> QED  BY <2>3, <3>1, <3>2, <3>3 DEF RInv
    <2> QED  BY <2>4, <2>5
  <1>3. CASE pay[Key] \notin From(op)
    <2>1. pay' = pay /\ effects' = effects
      BY <1>3 DEF Effect, Handle, CallOf
    <2> QED  BY <2>1 DEF RInv
  <1> QED  BY <1>2, <1>3

LEMMA InvariantKept ==
  ASSUME RInv, [RNext]_rvars
  PROVE  RInv'
  <1>1. ASSUME NEW a \in Attempts, NEW status \in Statuses, Deliver(a, status)
        PROVE  RInv'
    <2>1. called \in RetriedOps /\ UNCHANGED <<called, phase>> /\ answer' \in {status, answer}
      BY <1>1 DEF Deliver, RInv
    <2>2. CASE Effect(called)
      <3>1. status = "ok" => effects' = 1
        <4>1. CASE effects = 1
          BY <2>1, <2>2, <4>1, EffectKept
        <4>2. CASE effects = 0
          <5>1. SUFFICES ASSUME status = "ok" PROVE effects' = 1
            OBVIOUS
          <5>2. Accepts(called, Key)
            BY <1>1, <5>1 DEF Deliver, Dealt
          <5>3. pay[Key] \in From(called)
            BY <4>2, <5>2 DEF Accepts, RInv
          <5> QED  BY <2>2, <4>2, <5>3 DEF Effect
        <4> QED  BY <4>1, <4>2 DEF RInv
      <3> QED  BY <2>1, <2>2, <3>1, EffectKept DEF RInv
    <2>3. CASE ~Effect(called)
      <3>1. status # "ok" /\ NoEffect
        BY <1>1, <2>3 DEF Deliver, Dealt
      <3> QED  BY <2>1, <3>1 DEF RInv, NoEffect
    <2> QED  BY <2>2, <2>3
  <1>2. CASE Rival
    <2>1. UNCHANGED <<called, phase, answer>>
      BY <1>2 DEF Rival
    <2>2. ASSUME NEW op \in RetriedOps, Effect(op) PROVE RInv'
      BY <2>1, <2>2, EffectKept DEF RInv
    <2>3. CASE PayBill(Key) /\ UNCHANGED effects
      <3>1. Key \in Ids /\ pay[Key] = "PENDING" /\ pay' = [pay EXCEPT ![Key] = "HELD"]
        BY <2>3, RetryAssumption DEF PayBill
      <3>2. pay' \in [Ids -> PayStates] /\ pay'[Key] = "HELD"
        BY <3>1 DEF RInv, PayStates
      <3>3. "HELD" \notin Done(called) /\ "PENDING" \notin After(called)
        BY DEF RInv, RetriedOps, Done, After
      <3> QED  BY <2>1, <2>3, <3>1, <3>2, <3>3 DEF RInv
    <2> QED  BY <1>2, <2>2, <2>3 DEF Rival
  <1>3. ASSUME NEW status, NEW seconds, Failing(status, seconds) PROVE RInv'
    BY <1>3 DEF Failing, RInv
  <1>4. CASE Timeout
    BY <1>3, <1>4 DEF Timeout
  <1>5. ASSUME NEW seconds \in AnswerTimes, Hears(seconds) PROVE RInv'
    <2>1. CASE AnswerResolves(seconds)
      BY <2>1 DEF AnswerResolves, Succeeds, RInv
    <2> QED  BY <1>3, <1>5, <2>1 DEF Hears, Disconnected, AnswerFails
  <1>6. CASE Resubscribe
    BY <1>6 DEF Resubscribe, RInv
  <1>7. CASE UNCHANGED rvars
    BY <1>7 DEF rvars, RInv
  <1> QED  BY <1>1, <1>2, <1>4, <1>5, <1>6, <1>7 DEF RNext

-----------------------------------------------------------------------------
\* The refinement

LEMMA StepIsCallStep ==
  ASSUME RInv, RInv', [RNext]_rvars
  PROVE  [Call!Next]_(Call!callvars)
  <1> USE DEF Call!Next, Call!TakeEffect, Call!Answer, Call!Fail, Call!callvars
  <1>1. ASSUME UNCHANGED phase, effects = 1 => effects' = 1
        PROVE  [Call!Next]_(Call!callvars)
    BY <1>1 DEF RInv
  <1>2. ASSUME NEW a \in Attempts, NEW status \in Statuses, Deliver(a, status)
        PROVE  [Call!Next]_(Call!callvars)
    <2>1. CASE Effect(called)
      BY <1>1, <1>2, <2>1, EffectKept DEF Deliver, RInv
    <2>2. CASE NoEffect
      BY <1>1, <1>2, <2>2 DEF Deliver, NoEffect
    <2> QED  BY <1>2, <2>1, <2>2 DEF Deliver, Dealt
  <1>3. CASE Rival
    <2>1. effects = 1 => effects' = 1
      BY <1>3, EffectKept DEF Rival
    <2> QED  BY <1>1, <1>3, <2>1 DEF Rival
  <1>4. ASSUME NEW status, NEW seconds, phase = "waiting", Failing(status, seconds)
        PROVE  [Call!Next]_(Call!callvars)
    BY <1>4 DEF Failing
  <1>5. CASE Timeout
    BY <1>4, <1>5 DEF Timeout
  <1>6. ASSUME NEW seconds \in AnswerTimes, Hears(seconds) PROVE [Call!Next]_(Call!callvars)
    <2>1. CASE AnswerResolves(seconds)
      BY <2>1 DEF AnswerResolves, Succeeds, RInv
    <2> QED  BY <1>4, <1>6, <2>1 DEF Hears, Disconnected, AnswerFails
  <1>7. CASE Resubscribe
    BY <1>7 DEF Resubscribe
  <1>8. CASE UNCHANGED rvars
    BY <1>8 DEF rvars
  <1> QED  BY <1>2, <1>3, <1>5, <1>6, <1>7, <1>8 DEF RNext

\* All the attempts of a call together are one call, however many there are and whatever else
\* happens to the payment: what PaymentService takes for granted of every call.
THEOREM RetryIsOneCall == RSpec => IsOneCall
  <1>1. RInit => Call!Init
    BY DEF RInit, Call!Init
  <1> QED  BY <1>1, Initially, InvariantKept, StepIsCallStep, PTL DEF RSpec, IsOneCall, Call!Spec
-----------------------------------------------------------------------------
\* How long a call takes

\* The recursive definition of TwoTo has a solution.
LEMMA TwoToIs ==
  \A n \in Nat : TwoTo[n] = IF n = 0 THEN 1 ELSE 2 * TwoTo[n - 1]
<1>. DEFINE Def(f) == f = [n \in Nat |-> IF n = 0 THEN 1 ELSE 2 * f[n - 1]]
            UpTo(n, f) == f = [k \in 0 .. n |-> IF k = 0 THEN 1 ELSE 2 * f[k - 1]]
            Solved == {n \in Nat : \E f : UpTo(n, f)}
<1>1. Solved = Nat
  <2>1. 0 \in Solved
    <3>1. UpTo(0, [k \in 0 .. 0 |-> 1])
      OBVIOUS
    <3>. QED
      BY <3>1
  <2>2. ASSUME NEW n \in Solved
        PROVE  n + 1 \in Solved
    <3>1. PICK f : UpTo(n, f)
      OBVIOUS
    <3>. DEFINE g == [k \in 0 .. n + 1 |-> IF k = n + 1 THEN 2 * f[n] ELSE f[k]]
    <3>2. ASSUME NEW k \in 0 .. n + 1
          PROVE  g[k] = IF k = 0 THEN 1 ELSE 2 * g[k - 1]
      <4>1. CASE k = n + 1
        BY <4>1
      <4>2. CASE k # n + 1
        <5>1. k \in 0 .. n /\ (k # 0 => k - 1 \in 0 .. n)
          BY <4>2
        <5>2. f[k] = IF k = 0 THEN 1 ELSE 2 * f[k - 1]
          BY <3>1, <5>1
        <5>. QED
          BY <4>2, <5>1, <5>2
      <4>. QED
        BY <4>1, <4>2
    <3>3. UpTo(n + 1, g)
      BY <3>2
    <3>4. n + 1 \in Nat /\ \E f2 : UpTo(n + 1, f2)
      <4>. HIDE DEF UpTo, g
      <4>. QED
        BY <3>3
    <3>. QED
      BY <3>4
  <2>. HIDE DEF Solved
  <2>. QED
    BY <2>1, <2>2, NatSets DEF Solved
<1>2. ASSUME NEW n \in Nat, NEW m \in Nat, NEW f, NEW g, UpTo(n, f), UpTo(m, g)
      PROVE  \A k \in Nat : k <= n /\ k <= m => f[k] = g[k]
  <2>. DEFINE Same == {k \in Nat : k <= n /\ k <= m => f[k] = g[k]}
  <2>1. 0 \in Same
    BY <1>2
  <2>2. ASSUME NEW k \in Same PROVE k + 1 \in Same
    BY <1>2
  <2>. HIDE DEF Same
  <2>3. Same = Nat
    BY <2>1, <2>2, NatSets DEF Same
  <2>. QED
    BY <2>3 DEF Same
<1>. DEFINE F(n) == CHOOSE f : UpTo(n, f)
            h == [n \in Nat |-> F(n)[n]]
<1>3. \A n \in Nat : UpTo(n, F(n))
  BY <1>1
<1>. HIDE DEF F
<1>4. ASSUME NEW n \in Nat
      PROVE  h[n] = IF n = 0 THEN 1 ELSE 2 * h[n - 1]
  <2>1. F(n)[n] = IF n = 0 THEN 1 ELSE 2 * F(n)[n - 1]
    BY <1>3
  <2>2. n # 0 => F(n)[n - 1] = F(n - 1)[n - 1]
    <3>. HIDE DEF UpTo
    <3>. QED BY <1>2, <1>3
  <2>. QED
    BY <2>1, <2>2
<1>5. Def(h)
  BY <1>4
<1>6. TwoTo = CHOOSE f : Def(f)
  BY DEF TwoTo
<1>7. Def(TwoTo)
  <2>. HIDE DEF Def
  <2>. QED BY <1>5, <1>6
<1>. QED
  BY <1>7

LEMMA TwoToFacts ==
  /\ \A n \in Nat : TwoTo[n] \in Nat \ {0} /\ TwoTo[n + 1] = 2 * TwoTo[n]
  /\ \A n, m \in Nat : n <= m => TwoTo[n] <= TwoTo[m]
<1>. DEFINE Positive == {n \in Nat : TwoTo[n] \in Nat \ {0}}
<1>1. \A n \in Nat : TwoTo[n + 1] = 2 * TwoTo[n] /\ TwoTo[0] = 1
  BY TwoToIs
<1>2. Positive = Nat
  <2>1. 0 \in Positive /\ \A n \in Positive : n + 1 \in Positive
    BY <1>1
  <2>. HIDE DEF Positive
  <2>2. Positive \subseteq Nat
    BY DEF Positive
  <2>. QED
    BY <2>1, <2>2, NatSets
<1>3. ASSUME NEW n \in Nat
      PROVE  \A m \in Nat : n <= m => TwoTo[n] <= TwoTo[m]
  <2>. DEFINE Above == {d \in Nat : TwoTo[n] <= TwoTo[n + d]}
  <2>1. 0 \in Above
    BY <1>2
  <2>2. ASSUME NEW d \in Above
        PROVE  d + 1 \in Above
    <3>1. TwoTo[n + (d + 1)] = 2 * TwoTo[n + d]
      BY <1>1
    <3>. QED
      BY <1>2, <3>1
  <2>3. Above = Nat
    <3>. HIDE DEF Above
    <3>. QED
      BY <2>1, <2>2, NatSets DEF Above
  <2>4. ASSUME NEW m \in Nat, n <= m
        PROVE  TwoTo[n] <= TwoTo[m]
    <3>1. m - n \in Nat /\ n + (m - n) = m
      BY <2>4
    <3>2. TwoTo[n] <= TwoTo[n + (m - n)]
      <4>1. m - n \in Above
        <5>. HIDE DEF Above
        <5>. QED
          BY <2>3, <3>1
      <4>. QED
        BY <4>1
    <3>. QED
      BY <3>1, <3>2
  <2>. QED
    BY <2>4
<1>. QED
  BY <1>1, <1>2, <1>3

\* The longest a call can take up to the end of attempt n, or up to the end of the delay after it.
AttemptsTake(n) == (n + 1) * TimeoutDuration + TwoTo[n + 1] - 2
DelaysTake(n) == n * TimeoutDuration + TwoTo[n + 1] - 2

LEMMA TimeFacts ==
  ASSUME NEW n \in Nat
  PROVE  /\ AttemptsTake(n) \in Int /\ DelaysTake(n) \in Nat
         /\ AttemptsTake(n) = DelaysTake(n) + TimeoutDuration
         /\ Delay(n) \in Nat
         /\ n > 0 => AttemptsTake(n - 1) + Delay(n) <= DelaysTake(n)
         /\ \A m \in Nat : n <= m => AttemptsTake(n) <= AttemptsTake(m)
<1>1. /\ TwoTo[n] \in Nat \ {0} /\ TwoTo[n + 1] = 2 * TwoTo[n]
  BY TwoToFacts
<1>2. /\ n * TimeoutDuration \in Nat
      /\ (n + 1) * TimeoutDuration = n * TimeoutDuration + TimeoutDuration
  BY RetryAssumption
<1>3. Delay(n) \in Nat /\ Delay(n) <= TwoTo[n]
  BY <1>1 DEF Delay
<1>4. ASSUME NEW m \in Nat, n <= m
      PROVE  AttemptsTake(n) <= AttemptsTake(m)
  <2>1. (n + 1) * TimeoutDuration <= (m + 1) * TimeoutDuration
    <3>1. (m + 1) * TimeoutDuration = (n + 1) * TimeoutDuration + (m - n) * TimeoutDuration
      BY RetryAssumption
    <3>2. (m - n) * TimeoutDuration >= 0
      BY <1>4, RetryAssumption
    <3>. QED
      BY <3>1, <3>2, RetryAssumption
  <2>2. TwoTo[n + 1] <= TwoTo[m + 1] /\ TwoTo[n + 1] \in Nat /\ TwoTo[m + 1] \in Nat
    BY <1>4, TwoToFacts
  <2>. QED
    BY <2>1, <2>2, RetryAssumption DEF AttemptsTake
<1>. QED
  BY <1>1, <1>2, <1>3, <1>4, RetryAssumption DEF AttemptsTake, DelaysTake

\* What has been spent so far.
InTime ==
  /\ phase = "waiting" => elapsed <= DelaysTake(retryCount)
  /\ phase = "backoff" => retryCount > 0 /\ elapsed <= AttemptsTake(retryCount - 1)
  /\ phase \in {"resolved", "rejected"} => elapsed <= AttemptsTake(retryCount)

TimeInv == RetryTypeOK /\ InTime

LEMMA TimeInitially == RInit => TimeInv
<1>. SUFFICES ASSUME RInit PROVE TimeInv
  OBVIOUS
<1>1. 0 \in Attempts /\ 0 <= DelaysTake(0)
  <2>1. DelaysTake(0) \in Nat
    BY TimeFacts
  <2>. QED
    BY <2>1, RetryAssumption DEF Attempts
<1>2. PayTypeOK
  BY Apart DEF RInit, PayTypeOK
<1>. QED
  BY <1>1, <1>2 DEF RInit, TimeInv, RetryTypeOK, InTime, Statuses

\* The service changes no clock, and counts each operation it carries out.
LEMMA EffectTyped ==
  ASSUME RetryTypeOK, NEW op \in RetriedOps, Effect(op)
  PROVE  PayTypeOK' /\ effects' \in Nat
<1>1. Key \in Ids /\ pay[Key] \in PayStates
  BY RetryAssumption DEF RetryTypeOK, PayTypeOK
<1>2. To(op, pay[Key]) \in PayStates
  BY DEF RetriedOps, To, PayStates
<1>. QED
  BY <1>1, <1>2 DEF Effect, Handle, CallOf, RetryTypeOK, PayTypeOK

LEMMA FailingInTime ==
  ASSUME TimeInv, phase = "waiting", NEW status \in Statuses, NEW seconds \in 0 .. TimeoutDuration,
         Failing(status, seconds)
  PROVE  TimeInv'
<1>1. /\ retryCount \in Attempts /\ retryCount \in Nat /\ seconds \in Nat
      /\ seconds <= TimeoutDuration /\ elapsed \in Nat
      /\ MaxRetryAttempts \in Nat /\ TimeoutDuration \in Nat
  BY RetryAssumption DEF TimeInv, RetryTypeOK, Attempts
<1>2. elapsed' \in Nat /\ elapsed' <= AttemptsTake(retryCount)
  BY <1>1, TimeFacts DEF Failing, TimeInv, InTime
<1>3. CASE LastAttempt(retryCount) \/ status = "excluded"
  BY <1>2, <1>3 DEF Failing, TimeInv, InTime, RetryTypeOK, PayTypeOK, Statuses
<1>4. CASE ~(LastAttempt(retryCount) \/ status = "excluded")
  <2>1. /\ phase' = "backoff" /\ retryCount' = retryCount + 1 /\ retryCount' \in Attempts
        /\ retryCount' - 1 = retryCount
    BY <1>1, <1>4 DEF Failing, LastAttempt, Attempts
  <2>. QED
    BY <1>1, <1>2, <2>1 DEF Failing, TimeInv, InTime, RetryTypeOK, PayTypeOK, Statuses
<1>. QED
  BY <1>3, <1>4

LEMMA TimeKept ==
  ASSUME TimeInv, [RNext]_rvars
  PROVE  TimeInv'
<1>0. retryCount \in Nat /\ elapsed \in Nat /\ TimeoutDuration \in Nat
  BY RetryAssumption DEF TimeInv, RetryTypeOK, Attempts
<1>1. ASSUME NEW a \in Attempts, NEW status \in Statuses, Deliver(a, status)
      PROVE  TimeInv'
  <2>1. PayTypeOK' /\ effects' \in Nat
    <3>1. CASE Effect(called)
      BY <3>1, EffectTyped DEF TimeInv, RetryTypeOK
    <3>2. CASE NoEffect
      BY <3>2 DEF TimeInv, RetryTypeOK, NoEffect, PayTypeOK
    <3>. QED
      BY <1>1, <3>1, <3>2 DEF Deliver, Dealt
  <2>. QED
    BY <1>1, <2>1 DEF Deliver, TimeInv, RetryTypeOK, InTime
<1>2. CASE Rival
  <2>1. PayTypeOK' /\ effects' \in Nat
    <3>1. ASSUME NEW op \in RetriedOps, Effect(op)
          PROVE  PayTypeOK' /\ effects' \in Nat
      BY <3>1, EffectTyped DEF TimeInv
    <3>2. CASE PayBill(Key) /\ UNCHANGED effects
      BY <3>2, RetryAssumption DEF PayBill, PayStates, TimeInv, RetryTypeOK, PayTypeOK
    <3>. QED
      BY <1>2, <3>1, <3>2 DEF Rival
  <2>. QED
    BY <1>2, <2>1 DEF Rival, TimeInv, RetryTypeOK, InTime
<1>3. CASE Timeout
  BY <1>0, <1>3, FailingInTime DEF Timeout, Statuses
<1>4. ASSUME NEW seconds \in AnswerTimes, Hears(seconds)
      PROVE  TimeInv'
  <2>1. seconds \in 0 .. TimeoutDuration /\ "none" \in Statuses /\ answer \in Statuses
    BY RetryAssumption DEF TimeInv, RetryTypeOK, Statuses
  <2>2. CASE AnswerResolves(seconds)
    <3>1. elapsed' \in Nat /\ elapsed' <= AttemptsTake(retryCount)
      BY <1>0, <2>1, <2>2, TimeFacts DEF AnswerResolves, TimeInv, InTime
    <3>. QED
      BY <2>2, <3>1 DEF AnswerResolves, TimeInv, InTime, RetryTypeOK, PayTypeOK
  <2>. QED
    BY <1>4, <2>1, <2>2, FailingInTime DEF Hears, Disconnected, AnswerFails
<1>5. CASE Resubscribe
  <2>1. elapsed' \in Nat /\ elapsed' <= DelaysTake(retryCount)
    <3>1. /\ retryCount > 0 /\ elapsed <= AttemptsTake(retryCount - 1)
          /\ elapsed' = elapsed + Delay(retryCount)
      BY <1>5 DEF Resubscribe, TimeInv, InTime
    <3>2. AttemptsTake(retryCount - 1) \in Int
      BY <1>0, <3>1, TimeFacts
    <3>3. /\ Delay(retryCount) \in Nat /\ DelaysTake(retryCount) \in Nat
          /\ AttemptsTake(retryCount - 1) + Delay(retryCount) <= DelaysTake(retryCount)
      BY <1>0, <3>1, TimeFacts
    <3>. QED
      BY <1>0, <3>1, <3>2, <3>3
  <2>. QED
    BY <1>5, <2>1 DEF Resubscribe, TimeInv, InTime, RetryTypeOK, PayTypeOK
<1>6. CASE UNCHANGED rvars
  BY <1>6 DEF rvars, TimeInv, RetryTypeOK, InTime, PayTypeOK
<1>. QED
  BY <1>1, <1>2, <1>3, <1>4, <1>5, <1>6 DEF RNext

\* The types of a call and of the payment behind it.
THEOREM RetryTyped == RSpec => []RetryTypeOK
<1>1. TimeInv => RetryTypeOK
  BY DEF TimeInv
<1>. QED
  BY <1>1, TimeInitially, TimeKept, PTL DEF RSpec

\* No call keeps a handler waiting longer than all its attempts timing out and all its delays
\* slept through, for any timeout and any number of retries.
THEOREM RetryGivesUp == RSpec => []GivesUpInTime
<1>1. TimeInv => GivesUpInTime
  <2>. SUFFICES ASSUME TimeInv PROVE GivesUpInTime
    OBVIOUS
  <2>1. /\ retryCount \in Nat /\ retryCount <= MaxRetryAttempts /\ MaxRetryAttempts \in Nat
        /\ elapsed \in Nat /\ TimeoutDuration \in Nat
    BY RetryAssumption DEF TimeInv, RetryTypeOK, Attempts
  <2>2. /\ DelaysTake(retryCount) \in Nat
        /\ AttemptsTake(retryCount) = DelaysTake(retryCount) + TimeoutDuration
        /\ AttemptsTake(retryCount) <= AttemptsTake(MaxRetryAttempts)
        /\ AttemptsTake(retryCount) \in Int /\ AttemptsTake(MaxRetryAttempts) \in Int
    BY <2>1, TimeFacts
  <2>3. elapsed <= AttemptsTake(retryCount)
    <3>1. CASE phase = "backoff"
      <4>1. retryCount > 0 /\ elapsed <= AttemptsTake(retryCount - 1)
        BY <3>1 DEF TimeInv, InTime
      <4>2. AttemptsTake(retryCount - 1) \in Int
            /\ AttemptsTake(retryCount - 1) <= AttemptsTake(retryCount)
        BY <2>1, <4>1, TimeFacts
      <4>. QED
        BY <2>1, <2>2, <4>1, <4>2
    <3>. QED
      BY <2>1, <2>2, <3>1 DEF TimeInv, InTime, RetryTypeOK
  <2>. QED
    BY <2>1, <2>2, <2>3 DEF GivesUpInTime, AttemptsTake
<1>. QED
  BY <1>1, TimeInitially, TimeKept, PTL DEF RSpec
=============================================================================
