--------------------------- MODULE RequestsProofs ---------------------------
(***************************************************************************)
(* What holds of any number of requests, of any routes, about batches of   *)
(* any length.                                                             *)
(***************************************************************************)
EXTENDS Requests, TLAPS

NothingBegun(r) ==
  /\ headers[r].key = NoOrder /\ aside[r] = "none"
  /\ \A i \in Slots : job[r][i] = "none"

\* A job that polls or writes does so for the order in its slot, and writes what was paid for.
JobsOwnOrder ==
  \A r \in Reqs, i \in Slots :
    /\ job[r][i] \in {"find", "poll", "check", "write"} => orders[r][i] \in Orders
    /\ job[r][i] = "poll" => key[r][i] = orders[r][i]
    /\ job[r][i] \in {"check", "write"} => orders[r][i] \in paid

\* A request before its arrival, and one that was not answered.
NotYet ==
  \A r \in Reqs :
    /\ phase[r] = "idle" => NothingBegun(r)
    /\ phase[r] # "answered" =>
         answer[r] = NoAnswer /\ raised[r] \in CallFailures \cup {Refusal, NoException}

\* A create through its phases, a client's or a rollback's.
CreateRuns ==
  \A r \in Reqs :
    /\ phase[r] \in {"exchange", "loop", "holding", "tail"} =>
         /\ route[r] \in {"create", "rollback"} /\ orders[r][1] \in Orders
         /\ \A i \in Slots : job[r][i] = "none"
    /\ phase[r] \in {"loop", "holding"} => headers[r].auth \in {"service", "none"}
    /\ phase[r] \in {"tail", "jobs"} /\ route[r] = "create" =>
         orders[r][1] \in Orders /\ Placed(orders[r][1])
    /\ aside[r] \in {"asking", "pushing"} =>
         /\ phase[r] \in {"jobs", "answered"}
         /\ route[r] = "create" => orders[r][1] \in Orders /\ Placed(orders[r][1])

\* A rollback has one promise, and asks for no delivery code while that gives money back.
RollbackRuns ==
  \A r \in Reqs : phase[r] # "idle" /\ route[r] = "rollback" =>
    /\ \A i \in Slots : i # 1 => job[r][i] = "none"
    /\ job[r][1] = "move" =>
         orders[r][1] \in Orders /\ aside[r] = "none" /\ r \notin notified

\* The inductive invariant.
RInv ==
  /\ RequestsTypeOK /\ HeldIsPaid /\ UnauthorizedLeavesNothing /\ MoneyMovesForServices
  /\ SuccessIsWhole /\ CodesForPlacedOrders
  /\ JobsOwnOrder /\ NotYet /\ CreateRuns /\ RollbackRuns

-----------------------------------------------------------------------------
LEMMA Statuses ==
  /\ \A e \in CallFailures \cup {Refusal} : StatusTold(e) \in {412, 500}
  /\ \A e \in Exceptions : StatusTold(e) \in {400, 401, 412, 500}
  BY DEF CallFailures, Refusal, StatusTold, Exceptions, Unauthorized, ValidationFailed, Http,
         Axios, Unexpected

\* No exception is told as a success, and none of a handler as a guard's.
LEMMA TellTheTruth ==
  /\ \A e \in CallFailures \cup {Refusal} : e \in Exceptions /\ Told(e).status # 401
  /\ \A e \in Exceptions : Told(e) # Success /\ Told(e) # NoAnswer
  /\ Success.status # 401 /\ NoAnswer.status # 401 /\ NoAnswer # Success
  <1>1. Success.status = 200 /\ NoAnswer.status = 0
    BY DEF Success, NoAnswer
  <1>2. \A e \in Exceptions : Told(e).status = StatusTold(e)
    BY DEF Told
  <1>3. \A e \in CallFailures \cup {Refusal} : e \in Exceptions
    BY DEF Exceptions
  <1>4. QED
    BY <1>1, <1>2, <1>3, Statuses

LEMMA SlotsAre == 1 \in Slots /\ 2 \in Slots /\ NoOrder \notin Orders
  BY RequestsAssumption DEF Slots

\* Either field of the headers can be written.
LEMMA HeadersFit ==
  ASSUME NEW h \in [auth : Tokens, key : Keys], NEW t \in Tokens, NEW k \in Keys
  PROVE  /\ [h EXCEPT !.auth = t] \in [auth : Tokens, key : Keys]
         /\ [h EXCEPT !.key = k] \in [auth : Tokens, key : Keys]
  OBVIOUS

\* A request that moves money was let in with a service's token.
LEMMA ServicesSettle ==
  ASSUME NEW rt \in Settling, NEW token, GuardException(rt, token) = NoException
  PROVE  token = "service"
  BY DEF Settling, GuardException, Strategies, Accepts, NoException, Http

\* What a handler starts with.
LEMMA FirstStepsFit ==
  ASSUME NEW rt \in Routes, NEW b \in Batches(rt), NEW opm
  PROVE  /\ b \in [Slots -> Keys]
         /\ rt \in {"create", "rollback"} => b[1] \in Orders
         /\ FirstSteps(rt, b, opm) \in [Slots -> Steps]
         /\ \A i \in Slots :
              LET step == FirstSteps(rt, b, opm)[i] IN
              /\ step \in {"none", "find", "check", "look", "quote", "move"}
              /\ step = "find" => b[i] \in Orders
              /\ step = "check" => rt = "paymentNotification" /\ i = 1
              /\ step = "move" => rt \in Settling
              /\ rt = "create" => step = "none"
              /\ rt = "rollback" /\ i # 1 => step = "none"
  <1>1. b \in [Slots -> Keys] /\ (rt \in {"create", "rollback"} => b[1] # NoOrder)
    BY DEF Batches
  <1>2. ASSUME NEW i \in Slots
        PROVE  LET step == FirstSteps(rt, b, opm)[i] IN
               /\ step \in {"none", "find", "check", "look", "quote", "move"}
               /\ step = "find" => b[i] # NoOrder
               /\ step = "check" => rt = "paymentNotification" /\ i = 1
               /\ step = "move" => rt \in Settling
               /\ rt = "create" => step = "none"
               /\ rt = "rollback" /\ i # 1 => step = "none"
    BY DEF FirstSteps, Settling, Cashing
  <1>3. FirstSteps(rt, b, opm) \in [Slots -> Steps]
    BY <1>2 DEF FirstSteps, Steps, Cashing
  <1>4. QED
    BY <1>1, <1>2, <1>3, SlotsAre DEF Keys

-----------------------------------------------------------------------------
\* The parts of the invariant, and the sets its types are made of, are expanded from here on.
USE DEF RInv, RequestsTypeOK, HeldIsPaid, UnauthorizedLeavesNothing, MoneyMovesForServices,
        SuccessIsWhole, CodesForPlacedOrders, JobsOwnOrder, NotYet, CreateRuns, RollbackRuns,
        NothingBegun, Placed
USE DEF RowStates, Phases, Keys, Steps, Asides, Tokens, Admitted, Raise, Reply

LEMMA Initially == RequestsInit => RInv
  BY SlotsAre, TellTheTruth DEF RequestsInit, Routes, Settling

LEMMA TurnAwayKeeps ==
  ASSUME RInv, NEW r \in Reqs, TurnAway(r)
  PROVE  RInv'
  BY SlotsAre, TellTheTruth DEF TurnAway, Exceptions

LEMMA AdmitToKeeps ==
  ASSUME RInv, NEW r \in Reqs, NEW rt \in Routes, NEW token \in Tokens, NEW opm,
         NEW b \in Batches(rt), AdmitTo(r, rt, token, opm, b)
  PROVE  RInv'
  <1>1. /\ b \in [Slots -> Keys] /\ FirstSteps(rt, b, opm) \in [Slots -> Steps]
        /\ rt \in {"create", "rollback"} => b[1] \in Orders
        /\ \A i \in Slots : LET step == FirstSteps(rt, b, opm)[i] IN
             /\ step \in {"none", "find", "check", "look", "quote", "move"}
             /\ step = "find" => b[i] \in Orders
             /\ step = "check" => b[i] \in paid
             /\ step = "move" => token = "service"
             /\ rt = "create" => step = "none"
             /\ rt = "rollback" /\ i # 1 => step = "none"
    BY FirstStepsFit, ServicesSettle DEF AdmitTo
  <1>2. RequestsTypeOK'
    <2>1. Sent(BreakdownRequests) \subseteq {"cart", "wallet", "knexa"}
      BY DEF Sent, BreakdownRequests
    <2>2. headers' \in [Reqs -> [auth : Tokens, key : Keys]]
      BY DEF AdmitTo
    <2>3. job' \in [Reqs -> [Slots -> Steps]] /\ orders' \in [Reqs -> [Slots -> Keys]]
      BY <1>1 DEF AdmitTo
    <2>4. QED
      BY <2>1, <2>2, <2>3 DEF AdmitTo
  <1>3. HeldIsPaid'
    BY <1>1, SlotsAre, TellTheTruth DEF AdmitTo
  <1>4. UnauthorizedLeavesNothing'
    <2>1. answer' = answer /\ answer[r] = NoAnswer
      BY DEF AdmitTo
    <2>2. ASSUME NEW q \in Reqs, answer'[q].status = 401
          PROVE  NothingBegun(q)'
      <3>1. q # r
        BY <2>1, <2>2, TellTheTruth
      <3>2. headers'[q] = headers[q] /\ aside'[q] = aside[q] /\ job'[q] = job[q]
        BY <3>1 DEF AdmitTo
      <3>3. QED
        BY <2>1, <2>2, <3>2
    <2>3. QED
      BY <2>2
  <1>5. MoneyMovesForServices'
    BY <1>1, SlotsAre, TellTheTruth DEF AdmitTo
  <1>6. SuccessIsWhole'
    BY <1>1, SlotsAre, TellTheTruth DEF AdmitTo
  <1>7. CodesForPlacedOrders'
    BY <1>1, SlotsAre, TellTheTruth DEF AdmitTo
  <1>8. RollbackRuns'
    <2>1. job'[r] = FirstSteps(rt, b, opm) /\ orders'[r] = b /\ route'[r] = rt /\ notified' = notified
      BY DEF AdmitTo
    <2>2. rt = "rollback" => aside'[r] = "none" /\ r \notin notified
      <3>1. aside'[r] = IF rt = "breakdown" /\ opm = "COD" THEN "asking" ELSE "none"
        BY DEF AdmitTo
      <3>2. r \notin notified
        BY DEF AdmitTo
      <3>3. QED
        BY <3>1, <3>2
    <2>3. rt = "rollback" =>
            /\ \A i \in Slots : i # 1 => job'[r][i] = "none"
            /\ orders'[r][1] \in Orders
      BY <1>1, <2>1
    <2>4. ASSUME NEW q \in Reqs, q # r
          PROVE  /\ phase'[q] = phase[q] /\ route'[q] = route[q] /\ job'[q] = job[q]
                 /\ orders'[q] = orders[q] /\ aside'[q] = aside[q]
      BY <2>4 DEF AdmitTo
    <2>5. ASSUME NEW q \in Reqs, phase'[q] # "idle", route'[q] = "rollback"
          PROVE  /\ \A i \in Slots : i # 1 => job'[q][i] = "none"
                 /\ job'[q][1] = "move" =>
                      orders'[q][1] \in Orders /\ aside'[q] = "none" /\ q \notin notified'
      <3>1. CASE q = r
        BY <2>1, <2>2, <2>3, <2>5, <3>1
      <3>2. CASE q # r
        <4>1. phase[q] # "idle" /\ route[q] = "rollback"
          BY <2>4, <2>5, <3>2
        <4>2. QED
          BY <2>1, <2>4, <3>2, <4>1
      <3>3. QED
        BY <3>1, <3>2
    <2>6. QED
      BY <2>5
  <1>9. JobsOwnOrder'
    <2>1. paid' = paid /\ key' = key
      BY DEF AdmitTo
    <2>2. ASSUME NEW q \in Reqs, NEW i \in Slots, q # r
          PROVE  job'[q][i] = job[q][i] /\ orders'[q][i] = orders[q][i]
      BY <2>2 DEF AdmitTo
    <2>3. orders'[r] = b /\ job'[r] = FirstSteps(rt, b, opm)
      BY DEF AdmitTo
    <2>4. ASSUME NEW i \in Slots
          PROVE  /\ job'[r][i] \in {"find", "poll", "check", "write"} => orders'[r][i] \in Orders
                 /\ job'[r][i] = "poll" => key'[r][i] = orders'[r][i]
                 /\ job'[r][i] \in {"check", "write"} => orders'[r][i] \in paid'
      <3> DEFINE step == FirstSteps(rt, b, opm)[i]
      <3>1. /\ step \in {"none", "find", "check", "look", "quote", "move"}
            /\ step = "find" => b[i] \in Orders
            /\ step = "check" => b[i] \in paid
        BY <1>1
      <3>2. paid \subseteq Orders
        OBVIOUS
      <3> HIDE DEF step
      <3>3. job'[r][i] = step /\ orders'[r][i] = b[i]
        BY <2>3 DEF step
      <3>4. QED
        BY <2>1, <3>1, <3>2, <3>3
    <2>5. ASSUME NEW q \in Reqs, NEW i \in Slots, q # r
          PROVE  /\ job'[q][i] \in {"find", "poll", "check", "write"} => orders'[q][i] \in Orders
                 /\ job'[q][i] = "poll" => key'[q][i] = orders'[q][i]
                 /\ job'[q][i] \in {"check", "write"} => orders'[q][i] \in paid'
      <3>1. /\ job[q][i] \in {"find", "poll", "check", "write"} => orders[q][i] \in Orders
            /\ job[q][i] = "poll" => key[q][i] = orders[q][i]
            /\ job[q][i] \in {"check", "write"} => orders[q][i] \in paid
        OBVIOUS
      <3>2. QED
        BY <2>1, <2>2, <2>5, <3>1
    <2>6. QED
      BY <2>4, <2>5 DEF Slots
  <1>10. NotYet'
    BY <1>1, SlotsAre, TellTheTruth DEF AdmitTo
  <1>11. CreateRuns'
    BY <1>1, SlotsAre, TellTheTruth DEF AdmitTo
  <1>12. QED
    BY <1>2, <1>3, <1>4, <1>5, <1>6, <1>7, <1>8, <1>9, <1>10, <1>11

LEMMA RecreateKeeps ==
  ASSUME RInv, NEW r \in Reqs, Recreate(r)
  PROVE  RInv'
  <1>1. RequestsTypeOK'
    BY SlotsAre DEF Recreate
  <1>2. HeldIsPaid' /\ JobsOwnOrder' /\ CodesForPlacedOrders' /\ RollbackRuns'
    BY SlotsAre DEF Recreate
  <1>3. UnauthorizedLeavesNothing' /\ MoneyMovesForServices' /\ SuccessIsWhole'
    BY SlotsAre, TellTheTruth DEF Recreate
  <1>4. NotYet' /\ CreateRuns'
    BY SlotsAre, TellTheTruth DEF Recreate
  <1>5. QED
    BY <1>1, <1>2, <1>3, <1>4

LEMMA ExchangeKeeps ==
  ASSUME RInv, NEW r \in Reqs, Exchange(r)
  PROVE  RInv'
  <1>1. RequestsTypeOK'
    <2>1. headers' \in [Reqs -> [auth : Tokens, key : Keys]]
      <3>1. PICK t \in {"service", "none"} : headers' = [headers EXCEPT ![r].auth = t]
        BY DEF Exchange, ExchangedTokens
      <3>2. headers' = [headers EXCEPT ![r] = [headers[r] EXCEPT !.auth = t]]
        BY <3>1
      <3>3. [headers[r] EXCEPT !.auth = t] \in [auth : Tokens, key : Keys]
        <4>1. headers[r] \in [auth : Tokens, key : Keys] /\ t \in Tokens /\ headers[r].key \in Keys
          OBVIOUS
        <4>2. QED
          BY <4>1
      <3>4. QED
        BY <3>2, <3>3
    <2>2. QED
      BY <2>1 DEF Exchange
  <1>2. HeldIsPaid' /\ JobsOwnOrder' /\ CodesForPlacedOrders' /\ RollbackRuns'
    BY SlotsAre DEF Exchange, ExchangedTokens
  <1>3. UnauthorizedLeavesNothing' /\ MoneyMovesForServices' /\ SuccessIsWhole'
    BY SlotsAre, TellTheTruth DEF Exchange, ExchangedTokens
  <1>4. NotYet' /\ CreateRuns'
    BY SlotsAre, TellTheTruth DEF Exchange, ExchangedTokens
  <1>5. QED
    BY <1>1, <1>2, <1>3, <1>4

LEMMA CallHoldKeeps ==
  ASSUME RInv, NEW r \in Reqs, CallHold(r)
  PROVE  RInv'
  <1>1. RequestsTypeOK'
    <2>1. headers' \in [Reqs -> [auth : Tokens, key : Keys]]
      <3> DEFINE k == orders[r][1]
      <3>1. headers' = [headers EXCEPT ![r] = [headers[r] EXCEPT !.key = k]]
        BY DEF CallHold
      <3>2. headers[r] \in [auth : Tokens, key : Keys] /\ headers[r].auth \in Tokens /\ k \in Keys
        BY SlotsAre DEF CallHold
      <3>3. [headers[r] EXCEPT !.key = k] \in [auth : Tokens, key : Keys]
        BY <3>2
      <3>4. QED
        BY <3>1, <3>3
    <2>2. QED
      BY <2>1 DEF CallHold
  <1>2. HeldIsPaid' /\ JobsOwnOrder' /\ CodesForPlacedOrders' /\ RollbackRuns'
    BY SlotsAre DEF CallHold
  <1>3. UnauthorizedLeavesNothing' /\ MoneyMovesForServices' /\ SuccessIsWhole'
    <2>1. phase[r] = "loop" /\ answer[r] = NoAnswer /\ \A i \in Slots : job[r][i] = "none"
      BY DEF CallHold
    <2>2. UnauthorizedLeavesNothing'
      BY <2>1, TellTheTruth DEF CallHold
    <2>3. MoneyMovesForServices'
      BY <2>1 DEF CallHold
    <2>4. SuccessIsWhole'
      <3>1. ASSUME NEW q \in Reqs, answer[q] = Success, route[q] = "create"
            PROVE  Placed(orders[q][1])'
        BY <3>1 DEF CallHold
      <3>2. QED
        BY <2>1, <3>1 DEF CallHold
    <2>5. QED
      BY <2>2, <2>3, <2>4
  <1>4. NotYet' /\ CreateRuns'
    BY SlotsAre, TellTheTruth DEF CallHold
  <1>5. QED
    BY <1>1, <1>2, <1>3, <1>4

LEMMA HoldWalletKeeps ==
  ASSUME RInv, NEW r \in Reqs, HoldWallet(r)
  PROVE  RInv'
  <1>1. /\ phase[r] = "loop" /\ route[r] = "rollback" /\ answer[r] = NoAnswer
        /\ UNCHANGED <<row, paid, notified, up, route, orders, job, key, aside, asked, raised, answer>>
    BY DEF HoldWallet
  <1>2. PICK h \in {headers[r], [headers[r] EXCEPT !.key = NoOrder]}, label \in {"holding", "tail"} :
          headers' = [headers EXCEPT ![r] = h] /\ phase' = [phase EXCEPT ![r] = label]
    <2>1. CASE phase' = [phase EXCEPT ![r] = "holding"] /\ headers' = [headers EXCEPT ![r].key = NoOrder]
      BY <2>1
    <2>2. CASE phase' = [phase EXCEPT ![r] = "tail"] /\ headers' = headers
      <3>1. headers' = [headers EXCEPT ![r] = headers[r]]
        BY <2>2
      <3>2. QED
        BY <2>2, <3>1
    <2>3. QED
      BY <2>1, <2>2 DEF HoldWallet
  <1>3. h \in [auth : Tokens, key : Keys] /\ h.auth = headers[r].auth
    OBVIOUS
  <1>4. headers' \in [Reqs -> [auth : Tokens, key : Keys]] /\ phase' \in [Reqs -> Phases]
    BY <1>2, <1>3
  <1>5. RequestsTypeOK'
    BY <1>1, <1>4
  <1>6. HeldIsPaid' /\ JobsOwnOrder' /\ CodesForPlacedOrders' /\ RollbackRuns'
    BY <1>1, <1>2, SlotsAre
  <1>7. UnauthorizedLeavesNothing' /\ MoneyMovesForServices' /\ SuccessIsWhole'
    BY <1>1, <1>2, <1>3, SlotsAre, TellTheTruth
  <1>8. NotYet' /\ CreateRuns'
    BY <1>1, <1>2, <1>3, SlotsAre, TellTheTruth
  <1>9. QED
    BY <1>5, <1>6, <1>7, <1>8

LEMMA HoldAnsweredKeeps ==
  ASSUME RInv, NEW r \in Reqs, HoldAnswered(r)
  PROVE  RInv'
  BY SlotsAre, TellTheTruth DEF HoldAnswered

LEMMA LoopThrowsKeeps ==
  ASSUME RInv, NEW r \in Reqs, LoopThrows(r)
  PROVE  RInv'
  BY SlotsAre, TellTheTruth DEF LoopThrows

LEMMA TailKeeps ==
  ASSUME RInv, NEW r \in Reqs, Tail(r)
  PROVE  RInv'
  <1>1. RequestsTypeOK'
    BY SlotsAre DEF Tail
  <1>2. HeldIsPaid' /\ JobsOwnOrder' /\ CodesForPlacedOrders' /\ RollbackRuns'
    BY SlotsAre DEF Tail
  <1>3. UnauthorizedLeavesNothing' /\ MoneyMovesForServices' /\ SuccessIsWhole'
    BY SlotsAre, TellTheTruth DEF Tail
  <1>4. NotYet' /\ CreateRuns'
    BY SlotsAre, TellTheTruth DEF Tail
  <1>5. QED
    BY <1>1, <1>2, <1>3, <1>4

LEMMA ReturnKeeps ==
  ASSUME RInv, NEW r \in Reqs, Return(r)
  PROVE  RInv'
  BY SlotsAre, TellTheTruth DEF Return, JobsDone

LEMMA ThrowKeeps ==
  ASSUME RInv, NEW r \in Reqs, Throw(r)
  PROVE  RInv'
  BY SlotsAre, TellTheTruth DEF Throw

LEMMA AsideAnsweredKeeps ==
  ASSUME RInv, NEW r \in Reqs, AsideAnswered(r)
  PROVE  RInv'
  BY SlotsAre, TellTheTruth DEF AsideAnswered, AsideMoves

LEMMA AsideFailsKeeps ==
  ASSUME RInv, NEW r \in Reqs, AsideFails(r)
  PROVE  RInv'
  BY SlotsAre, TellTheTruth DEF AsideFails, AsideMoves

LEMMA PushKeeps ==
  ASSUME RInv, NEW r \in Reqs, Push(r)
  PROVE  RInv'
  BY SlotsAre, TellTheTruth DEF Push, AsideMoves

LEMMA FindKeeps ==
  ASSUME RInv, NEW r \in Reqs, NEW i \in Slots, Find(r, i)
  PROVE  RInv'
  <1>1. RequestsTypeOK'
    <2>1. headers' \in [Reqs -> [auth : Tokens, key : Keys]]
      <3> DEFINE k == IF row[orders[r][i]] = "AWAITING_PAYMENT" THEN orders[r][i]
                      ELSE headers[r].key
      <3>1. headers' = [headers EXCEPT ![r] = [headers[r] EXCEPT !.key = k]]
        BY DEF Find
      <3>2. headers[r] \in [auth : Tokens, key : Keys] /\ headers[r].auth \in Tokens /\ k \in Keys
        BY SlotsAre DEF Find
      <3>3. [headers[r] EXCEPT !.key = k] \in [auth : Tokens, key : Keys]
        BY <3>2
      <3>4. QED
        BY <3>1, <3>3
    <2>2. job' \in [Reqs -> [Slots -> Steps]] /\ key' \in [Reqs -> [Slots -> Keys]]
      BY DEF Find
    <2>3. QED
      BY <2>1, <2>2 DEF Find
  <1>2. HeldIsPaid' /\ JobsOwnOrder' /\ CodesForPlacedOrders' /\ RollbackRuns'
    BY SlotsAre DEF Find
  <1>3. UnauthorizedLeavesNothing' /\ MoneyMovesForServices' /\ SuccessIsWhole'
    BY SlotsAre, TellTheTruth DEF Find
  <1>4. NotYet' /\ CreateRuns'
    BY SlotsAre, TellTheTruth DEF Find
  <1>5. QED
    BY <1>1, <1>2, <1>3, <1>4

LEMMA PollAnsweredKeeps ==
  ASSUME RInv, NEW r \in Reqs, NEW i \in Slots, PollAnswered(r, i)
  PROVE  RInv'
  BY SlotsAre, TellTheTruth DEF PollAnswered, KeyOfCall

LEMMA CheckNotifiedKeeps ==
  ASSUME RInv, NEW r \in Reqs, NEW i \in Slots, CheckNotified(r, i)
  PROVE  RInv'
  BY SlotsAre, TellTheTruth DEF CheckNotified

LEMMA WriteHoldKeeps ==
  ASSUME RInv, NEW r \in Reqs, NEW i \in Slots, WriteHold(r, i)
  PROVE  RInv'
  BY SlotsAre, TellTheTruth DEF WriteHold

LEMMA AnsweredKeeps ==
  ASSUME RInv, NEW r \in Reqs, NEW i \in Slots, Answered(r, i)
  PROVE  RInv'
  BY SlotsAre, TellTheTruth DEF Answered

LEMMA JobFailsKeeps ==
  ASSUME RInv, NEW r \in Reqs, NEW i \in Slots, JobFails(r, i)
  PROVE  RInv'
  <1>1. RequestsTypeOK'
    <2>1. job' \in [Reqs -> [Slots -> Steps]]
      BY DEF JobFails
    <2>2. raised' \in [Reqs -> Exceptions \cup {NoException}]
      <3>1. \A e \in CallFailures \cup {Refusal} : e \in Exceptions
        BY TellTheTruth
      <3>2. raised' = raised \/ \E e \in Exceptions : raised' = [raised EXCEPT ![r] = e]
        BY <3>1 DEF JobFails
      <3>3. CASE raised' = raised
        BY <3>3
      <3>4. ASSUME NEW e \in Exceptions, raised' = [raised EXCEPT ![r] = e]
            PROVE  raised' \in [Reqs -> Exceptions \cup {NoException}]
        BY <3>4
      <3>5. QED
        BY <3>2, <3>3, <3>4
    <2>3. QED
      BY <2>1, <2>2 DEF JobFails
  <1>2. HeldIsPaid' /\ JobsOwnOrder' /\ CodesForPlacedOrders' /\ RollbackRuns'
    BY SlotsAre DEF JobFails
  <1>3. UnauthorizedLeavesNothing' /\ MoneyMovesForServices' /\ SuccessIsWhole'
    BY SlotsAre, TellTheTruth DEF JobFails
  <1>4. NotYet' /\ CreateRuns'
    BY SlotsAre, TellTheTruth DEF JobFails
  <1>5. QED
    BY <1>1, <1>2, <1>3, <1>4

-----------------------------------------------------------------------------
LEMMA PayKeeps ==
  ASSUME RInv, NEW o \in Orders, Pay(o)
  PROVE  RInv'
  BY DEF Pay

LEMMA StutterKeeps == RInv /\ UNCHANGED requestvars => RInv'
  BY DEF requestvars

HIDE DEF RInv, RequestsTypeOK, HeldIsPaid, UnauthorizedLeavesNothing, MoneyMovesForServices,
         SuccessIsWhole, CodesForPlacedOrders, JobsOwnOrder, NotYet, CreateRuns, RollbackRuns

LEMMA AdmitKeeps ==
  ASSUME RInv, NEW r \in Reqs, Admit(r)
  PROVE  RInv'
  BY AdmitToKeeps, RequestsAssumption DEF Admit

LEMMA StepKeeps == RInv /\ [RequestsNext]_requestvars => RInv'
  <1> SUFFICES ASSUME RInv, [RequestsNext]_requestvars PROVE RInv'
    OBVIOUS
  <1>1. ASSUME NEW r \in Reqs, RequestStep(r) PROVE RInv'
    BY <1>1, TurnAwayKeeps, AdmitKeeps, RecreateKeeps, ExchangeKeeps, CallHoldKeeps,
       HoldWalletKeeps, HoldAnsweredKeeps, LoopThrowsKeeps, TailKeeps, ReturnKeeps, ThrowKeeps,
       AsideAnsweredKeeps, AsideFailsKeeps, PushKeeps
       DEF RequestStep
  <1>2. ASSUME NEW r \in Reqs, NEW i \in Slots, JobStep(r, i) PROVE RInv'
    BY <1>2, FindKeeps, PollAnsweredKeeps, CheckNotifiedKeeps, WriteHoldKeeps,
       AnsweredKeeps, JobFailsKeeps
       DEF JobStep
  <1>3. ASSUME NEW o \in Orders, Pay(o) PROVE RInv'
    BY <1>3, PayKeeps
  <1>4. CASE UNCHANGED requestvars
    BY <1>4, StutterKeeps
  <1>5. QED
    BY <1>1, <1>2, <1>3, <1>4 DEF RequestsNext

LEMMA Invariance == RequestsSpec => []RInv
  BY Initially, StepKeeps, PTL DEF RequestsSpec

\* Whatever the requests and the length of the batches, a SADAD row is taken for paid only
\* when its own payment was made.
THEOREM HeldRowsArePaid == RequestsSpec => []HeldIsPaid
  <1>1. RInv => HeldIsPaid
    BY DEF RInv
  <1>2. QED
    BY Invariance, <1>1, PTL

\* A client told 401 may come back with a token and lose nothing: the guards are the only ones
\* to answer so, before anything was begun.
THEOREM NothingLostBy401 == RequestsSpec => []UnauthorizedLeavesNothing
  <1>1. RInv => UnauthorizedLeavesNothing
    BY DEF RInv
  <1>2. QED
    BY Invariance, <1>1, PTL

\* A client told of success is told so after all of the work, of batches of any length.
THEOREM SuccessHolds == RequestsSpec => []SuccessIsWhole
  <1>1. RInv => SuccessIsWhole
    BY DEF RInv
  <1>2. QED
    BY Invariance, <1>1, PTL

\* Whatever tokens requests bring, the calls that move money, those of the create in a rollback
\* too, go out in a service's name or, after a failed exchange, in none.
THEOREM ServicesMoveMoney == RequestsSpec => []MoneyMovesForServices
  <1>1. RInv => MoneyMovesForServices
    BY DEF RInv
  <1>2. QED
    BY Invariance, <1>1, PTL

\* A retailer hears of a delivery code only once the order's payment was put in place, at the end
\* of any number of creates and rollbacks at the same time.
THEOREM CodesHold == RequestsSpec => []CodesForPlacedOrders
  <1>1. RInv => CodesForPlacedOrders
    BY DEF RInv
  <1>2. QED
    BY Invariance, <1>1, PTL

\* The types of what a request carries, promises included.
THEOREM RequestsTyped == RequestsSpec => []RequestsTypeOK
  <1>1. RInv => RequestsTypeOK
    BY DEF RInv
  <1>2. QED
    BY Invariance, <1>1, PTL
=============================================================================
