------------------------------ MODULE Requests ------------------------------
(***************************************************************************)
(* A request's way through the server: who may make it, the work it waits  *)
(* for and the work it leaves running, and how it is answered.  A request  *)
(* has one HeadersDto, written by whatever runs on its behalf and copied   *)
(* (headers.toJSON()) into each call when the call is made; the orders of  *)
(* a batch are asked about at the same time under that one object.  A      *)
(* promise nobody waits for (the delivery code of a create, the balance of *)
(* a breakdown without WALLET) may reject after the answer or before it.   *)
(*                                                                         *)
(* What the handlers do to rows and payments is TransactionService's.      *)
(* Here, a create is that of an order paid by SADAD which has no row yet.  *)
(* The calls of complete, of cancel and of a rollback are one call that    *)
(* stands for all of theirs and leaves the row alone; a rollback goes on   *)
(* with a create of its own, for cash and wallet.                          *)
(***************************************************************************)
EXTENDS Naturals

CONSTANTS
  Reqs,        \* the requests
  Orders,
  NoOrder,     \* no order, and no idempotency key of ours
  MaxBatch,    \* the orders of a batch, 50 in BatchCashDto
  Served       \* bound: request |-> the routes it may come for

VARIABLES
  row,         \* order |-> state of its SADAD row
  paid,        \* orders whose SADAD payment the customer made
  notified,    \* requests for which a delivery code was sent to the retailer
  up,          \* the process runs
  route, phase, orders, headers,
  job,         \* the promises the handler waits for
  key,         \* the idempotency key each of their calls was made with
  aside,       \* the promise nobody waits for
  asked,       \* services a breakdown sent a request to
  raised,      \* the exception that ends the handler
  answer

requestvars == <<row, paid, notified, up, route, phase, orders, headers, job, key, aside,
                 asked, raised, answer>>

Slots == 1 .. MaxBatch
Keys == Orders \cup {NoOrder}

RowStates == {"NONE", "HOLD_PROCESSING", "AWAITING_PAYMENT", "HOLD"}
Phases == {"idle", "exchange", "loop", "holding", "tail", "jobs", "answered"}
Steps == {"none", "find", "poll", "check", "write", "look", "quote", "move", "done", "failed"}
Asides == {"none", "asking", "pushing", "over", "rejected"}

-----------------------------------------------------------------------------
\* Exceptions, and what GlobalExceptionFilter tells of them.

NoException == [class |-> "none", status |-> 0, message |-> ""]
Http(status, message) == [class |-> "http", status |-> status, message |-> message]
ValidationFailed == [class |-> "validation", status |-> 400, message |-> ""]
Axios(status) == [class |-> "axios", status |-> status, message |-> ""]
Unexpected == [class |-> "other", status |-> 0, message |-> ""]

Unauthorized == {Http(401, "MISSING_AUTH_TOKEN"), Http(401, "Unauthorized")}

\* A handler's own refusal: CURRENCY_INVALID, WALLET_EXISTS, TOTAL_AMOUNT_MISMATCH, "Cannot be
\* fulfilled as state is".  One status stands for their 400, 405 and 412.
Refusal == Http(412, "refusal")

\* A call rejects with the service's answer, or with the timeout's error.
CallFailures == {Axios(401), Axios(500), Unexpected}

Exceptions == CallFailures \cup Unauthorized \cup {ValidationFailed, Refusal}

\* Mutant of StatusTold: the status another service answered with is passed on.
StatusPassedOn(e) == IF e.class = "other" THEN 500 ELSE e.status

\* _getStatus: only HttpExceptions have a status to tell.
StatusTold(e) == IF e.class \in {"http", "validation"} THEN e.status ELSE 500

\* The branches in the filter's order.  Those for UnauthorizedException and NotFoundException
\* come after HttpException's, which takes both.
NameTold(e) ==
  CASE e.class = "axios"      -> "INTERSERVICE_ERROR"
    [] e.class = "validation" -> "ValidationFailedException"
    [] e.class = "http"       -> e.message
    [] OTHER                  -> "UNEXPECTED_ERROR"

NoAnswer == [status |-> 0, name |-> ""]
Success == [status |-> 200, name |-> "SUCCESS"]
Told(e) == [status |-> StatusTold(e), name |-> NameTold(e)]

-----------------------------------------------------------------------------
\* Guards

Tokens == {"consumer", "service", "invalid", "none"}

Settling == {"complete", "cancel", "rollback"}
Cashing == {"cashToBeCollected", "batchCashToBeCollected"}
Routes == Settling \cup Cashing \cup
            {"create", "breakdown", "subtransactions", "ordersBreakdown", "paymentNotification"}

ASSUME RequestsAssumption ==
  /\ NoOrder \notin Orders
  /\ MaxBatch \in Nat /\ MaxBatch >= 2
  /\ Served \in [Reqs -> SUBSET Routes]

\* The controller is @Public, which the guards of the whole application, JwtAuthGuard and
\* RolesGuard, let through.
PublicRoutes == Routes
JwtAuthGuardPasses(rt) == rt \in PublicRoutes
RolesGuardPasses(rt) == rt \in PublicRoutes

\* The strategies each route's own AuthGuard lists.
Strategies(rt) ==
  CASE rt \in Settling \cup Cashing \cup {"paymentNotification"} -> {"service"}
    [] rt = "breakdown"                                         -> {"consumer"}
    [] OTHER                                                    -> {"service", "consumer"}

\* verifyToken and verifyAuthToken: a strategy answers no, it does not throw, if the token is
\* not its own.
Accepts(strategy, token) == strategy = token

\* Without a token the first strategy throws.  If all answer no, AuthGuard throws Nest's own
\* UnauthorizedException.
GuardException(rt, token) ==
  IF token = "none" THEN Http(401, "MISSING_AUTH_TOKEN")
  ELSE IF /\ JwtAuthGuardPasses(rt) /\ RolesGuardPasses(rt)
          /\ \E strategy \in Strategies(rt) : Accepts(strategy, token)
  THEN NoException
  ELSE Http(401, "Unauthorized")

\* Mutant of ExchangedTokens: a failed exchange leaves the caller's token in place.
ExchangedOrKept(token) == {"service", token}

\* Mutant of ExchangedTokens: a failed exchange resolves to undefined.
ExchangedOrUndefined(token) == {"service", "undefined"}

\* generateServiceToken: a service's token, or '' when the exchange failed.
ExchangedTokens(token) == {"service", "none"}

-----------------------------------------------------------------------------
\* Some orders' payments are awaited already.
RequestsInit ==
  /\ row \in [Orders -> {"NONE", "AWAITING_PAYMENT"}] /\ paid = {} /\ notified = {} /\ up = TRUE
  /\ route = [r \in Reqs |-> "create"]
  /\ phase = [r \in Reqs |-> "idle"]
  /\ orders = [r \in Reqs |-> [i \in Slots |-> NoOrder]]
  /\ headers = [r \in Reqs |-> [auth |-> "none", key |-> NoOrder]]
  /\ job = [r \in Reqs |-> [i \in Slots |-> "none"]]
  /\ key = [r \in Reqs |-> [i \in Slots |-> NoOrder]]
  /\ aside = [r \in Reqs |-> "none"] /\ asked = [r \in Reqs |-> {}]
  /\ raised = [r \in Reqs |-> NoException]
  /\ answer = [r \in Reqs |-> NoAnswer]

\* What every step of a request but its admission leaves alone.
Admitted == UNCHANGED <<route, orders, asked>>

\* Ends the handler, or the guards before it.
Raise(r, e) == raised' = [raised EXCEPT ![r] = e]

Reply(r, a) ==
  /\ answer' = [answer EXCEPT ![r] = a]
  /\ phase' = [phase EXCEPT ![r] = "answered"]

-----------------------------------------------------------------------------
\* Arrival

\* The orders a request is about: none for a cart, one, or a batch, in which an order may come
\* twice.
Batches(rt) ==
  LET gapless == {b \in [Slots -> Keys] :
                    \A i \in Slots \ {1} : b[i] # NoOrder => b[i - 1] # NoOrder}
  IN  CASE rt = "breakdown" -> {b \in gapless : b[1] = NoOrder}
        [] rt \in {"ordersBreakdown", "batchCashToBeCollected"} -> gapless
        [] OTHER            -> {b \in gapless : b[1] # NoOrder /\ b[2] = NoOrder}

\* Turned away by the guards, or by the ValidationPipe after them.
TurnAway(r) ==
  /\ phase[r] = "idle" /\ up
  /\ \E rt \in Served[r], token \in Tokens, e \in Unauthorized \cup {ValidationFailed} :
       /\ e = IF GuardException(rt, token) # NoException THEN GuardException(rt, token)
              ELSE ValidationFailed
       /\ Raise(r, e)
       /\ Reply(r, Told(e))
  /\ Admitted /\ UNCHANGED <<row, paid, notified, up, headers, job, key, aside>>

\* The requests calculateBreakdown builds.  HttpService sends one when its Observable is
\* subscribed to, by lastValueFrom for the first two.
BreakdownRequests == {[to |-> "cart",   subscribed |-> TRUE],
                      [to |-> "wallet", subscribed |-> TRUE],
                      [to |-> "knexa",  subscribed |-> FALSE]}

Sent(requests) == {q.to : q \in {q \in requests : q.subscribed}}

\* The promises a handler starts with, one per slot.  "move" stands for a handler's calls to the
\* payment service.
FirstSteps(rt, b, opm) ==
  [i \in Slots |->
     CASE rt = "create"      -> "none"
       [] rt = "breakdown"   -> IF i \in (IF opm = "COD_WALLET" THEN {1, 2} ELSE {1})
                                THEN "quote" ELSE "none"
       [] rt \in Settling    -> IF i = 1 THEN "move" ELSE "none"
       [] rt = "paymentNotification" -> IF i = 1 THEN "check" ELSE "none"
       [] b[i] = NoOrder     -> "none"
       [] rt \in Cashing     -> "look"
       [] OTHER              -> "find"]

\* A create begins by exchanging its token.  A breakdown asks for the balance in any case and
\* waits for it only when the wallet pays.  The payment service names a payment in a
\* notification's idempotency key, and only one that was paid.
AdmitTo(r, rt, token, opm, b) ==
  /\ phase[r] = "idle" /\ up
  /\ GuardException(rt, token) = NoException
  /\ route' = [route EXCEPT ![r] = rt]
  /\ orders' = [orders EXCEPT ![r] = b]
  /\ rt = "paymentNotification" => b[1] \in paid
  /\ headers' = [headers EXCEPT ![r] =
                   [auth |-> token, key |-> IF rt = "paymentNotification" THEN b[1] ELSE NoOrder]]
  /\ job' = [job EXCEPT ![r] = FirstSteps(rt, b, opm)]
  /\ aside' = [aside EXCEPT ![r] = IF rt = "breakdown" /\ opm = "COD" THEN "asking" ELSE "none"]
  /\ asked' = [asked EXCEPT ![r] = IF rt = "breakdown" THEN Sent(BreakdownRequests) ELSE {}]
  /\ phase' = [phase EXCEPT ![r] = IF rt = "create" THEN "exchange" ELSE "jobs"]
  /\ UNCHANGED <<row, paid, notified, up, key, raised, answer>>

\* Bound: an order is created once.  A create of one that has a SADAD row cancels it first.
CreatedOnce(o) == row[o] = "NONE" /\ \A q \in Reqs : route[q] = "create" => orders[q][1] # o

Admit(r) ==
  \E rt \in Served[r], token \in Tokens, opm \in {"COD", "COD_WALLET"} :
  \E b \in Batches(rt) :
    /\ rt = "create" => CreatedOnce(b[1])
    /\ AdmitTo(r, rt, token, opm, b)

-----------------------------------------------------------------------------
\* createTransaction, for a client or at the end of a rollback

\* A SADAD row not yet held would have made the rollback throw.  What was paid by wallet or SADAD
\* is created anew, for cash and wallet and under the same headers.
Recreate(r) ==
  /\ phase[r] = "jobs" /\ route[r] = "rollback" /\ up
  /\ job[r][1] = "move" /\ row[orders[r][1]] \in {"NONE", "HOLD"}
  /\ job' = [job EXCEPT ![r][1] = "none"]
  /\ phase' = [phase EXCEPT ![r] = "exchange"]
  /\ Admitted /\ UNCHANGED <<row, paid, notified, up, headers, key, aside, raised, answer>>

\* Mutant of Exchange: the delivery code is asked for before the loop.
ExchangeAndNotify(r) ==
  /\ phase[r] = "exchange" /\ up
  /\ headers' = [headers EXCEPT ![r].auth = "service"]
  /\ aside' = [aside EXCEPT ![r] = "asking"]
  /\ phase' = [phase EXCEPT ![r] = "loop"]
  /\ Admitted /\ UNCHANGED <<row, paid, notified, up, job, key, raised, answer>>

Exchange(r) ==
  /\ phase[r] = "exchange" /\ up
  /\ \E token \in ExchangedTokens(headers[r].auth) :
       headers' = [headers EXCEPT ![r].auth = token]
  /\ phase' = [phase EXCEPT ![r] = "loop"]
  /\ Admitted /\ UNCHANGED <<row, paid, notified, up, job, key, aside, raised, answer>>

\* putInDb and holdInPayment.
CallHold(r) ==
  LET o == orders[r][1] IN
  /\ phase[r] = "loop" /\ up
  /\ route[r] = "create" /\ row[o] = "NONE"
  /\ row' = [row EXCEPT ![o] = "HOLD_PROCESSING"]
  /\ headers' = [headers EXCEPT ![r].key = o]
  /\ phase' = [phase EXCEPT ![r] = "holding"]
  /\ Admitted /\ UNCHANGED <<paid, notified, up, job, key, aside, raised, answer>>

\* A rollback's create holds in the wallet, under the key of the wallet's row, or has nothing
\* to hold.  It asks for a balance first, unless another request has put the row in place.
HoldWallet(r) ==
  /\ phase[r] = "loop" /\ up
  /\ route[r] = "rollback"
  /\ \/ /\ headers' = [headers EXCEPT ![r].key = NoOrder]
        /\ phase' = [phase EXCEPT ![r] = "holding"]
     \/ phase' = [phase EXCEPT ![r] = "tail"] /\ UNCHANGED headers
  /\ Admitted /\ UNCHANGED <<row, paid, notified, up, job, key, aside, raised, answer>>

HoldAnswered(r) ==
  /\ phase[r] = "holding" /\ up /\ headers[r].auth # "none"
  /\ row' = IF route[r] = "create" THEN [row EXCEPT ![orders[r][1]] = "AWAITING_PAYMENT"] ELSE row
  /\ phase' = [phase EXCEPT ![r] = "tail"]
  /\ Admitted /\ UNCHANGED <<paid, notified, up, headers, job, key, aside, raised, answer>>

\* A call fails, or the handler refuses; the loop ends and the request is answered.
LoopThrows(r) ==
  /\ up
  /\ \E e \in Exceptions :
       /\ \/ phase[r] = "holding" /\ e \in CallFailures
          \/ phase[r] = "loop" /\ e \in CallFailures \cup {Refusal}
       /\ Raise(r, e)
       /\ Reply(r, Told(e))
  /\ Admitted /\ UNCHANGED <<row, paid, notified, up, headers, job, key, aside>>

\* After the loop the delivery code is asked for and left to itself, and the breakdown begins.
Tail(r) ==
  /\ phase[r] = "tail" /\ up
  /\ aside' = [aside EXCEPT ![r] = "asking"]
  /\ job' = [job EXCEPT ![r][1] = "find"]
  /\ phase' = [phase EXCEPT ![r] = "jobs"]
  /\ Admitted /\ UNCHANGED <<row, paid, notified, up, headers, key, raised, answer>>

-----------------------------------------------------------------------------
\* The promises a handler waits for.  They go on after the answer if one of them rejected.

\* getSubtransactions reads the rows, and when the payment is awaited writes the key into the
\* request's headers and makes the call without a pause in between.
Find(r, i) ==
  LET o == orders[r][i]
      asks == row[o] = "AWAITING_PAYMENT" IN
  /\ job[r][i] = "find" /\ up
  /\ job' = [job EXCEPT ![r][i] = IF asks THEN "poll" ELSE "done"]
  /\ headers' = [headers EXCEPT ![r].key = IF asks THEN o ELSE @]
  /\ key' = [key EXCEPT ![r][i] = IF asks THEN o ELSE @]
  /\ Admitted /\ UNCHANGED <<row, paid, notified, up, phase, aside, raised, answer>>

\* Mutant of KeyOfCall: the headers are read when an attempt is sent.
KeyAtSending(r, i) == headers[r].key

\* The key paymentStatus sends, attempt after attempt.
KeyOfCall(r, i) == key[r][i]

PollAnswered(r, i) ==
  /\ job[r][i] = "poll" /\ up /\ headers[r].auth # "none"
  /\ job' = [job EXCEPT ![r][i] = IF KeyOfCall(r, i) \in paid THEN "write" ELSE "done"]
  /\ Admitted
  /\ UNCHANGED <<row, paid, notified, up, phase, headers, key, aside, raised, answer>>

\* paymentNotification takes the key out of its headers once, and reads the row it then writes.
CheckNotified(r, i) ==
  /\ job[r][i] = "check" /\ up
  /\ job' = [job EXCEPT ![r][i] =
               IF row[orders[r][i]] \in {"AWAITING_PAYMENT", "HOLD_PROCESSING"}
                 THEN "write" ELSE "done"]
  /\ Admitted
  /\ UNCHANGED <<row, paid, notified, up, phase, headers, key, aside, raised, answer>>

WriteHold(r, i) ==
  /\ job[r][i] = "write" /\ up
  /\ row' = [row EXCEPT ![orders[r][i]] = "HOLD"]
  /\ job' = [job EXCEPT ![r][i] = "done"]
  /\ Admitted /\ UNCHANGED <<paid, notified, up, phase, headers, key, aside, raised, answer>>

\* What only feeds the response: quotes, the money moved, and the wallet row a cash amount is
\* computed from.  A rollback ends so when there is nothing to create anew.
Answered(r, i) ==
  /\ job[r][i] \in {"quote", "move", "look"} /\ up
  /\ route[r] = "rollback" => row[orders[r][1]] = "NONE"
  /\ job' = [job EXCEPT ![r][i] = "done"]
  /\ Admitted
  /\ UNCHANGED <<row, paid, notified, up, phase, headers, key, aside, raised, answer>>

\* Promise.all waits for every promise from the start, also those that reject after it did.
JobFails(r, i) ==
  /\ job[r][i] \notin {"none", "done", "failed"} /\ up
  /\ job' = [job EXCEPT ![r][i] = "failed"]
  /\ \E e \in CallFailures \cup {Refusal} :
       /\ job[r][i] # "move" => e # Refusal
       /\ job[r][i] \in {"find", "check", "write", "look"} => e = Unexpected   \* the database's
       /\ IF raised[r] = NoException THEN Raise(r, e) ELSE UNCHANGED raised
  /\ Admitted /\ UNCHANGED <<row, paid, notified, up, phase, headers, key, aside, answer>>

\* Mutant of JobsDone: the first answer settles the batch.
SomeJobDone(r) == \E i \in Slots : job[r][i] = "done"

JobsDone(r) == \A i \in Slots : job[r][i] \in {"none", "done"}

\* The handler returns, or the first rejection ends it.
Return(r) ==
  /\ phase[r] = "jobs" /\ up
  /\ raised[r] = NoException /\ JobsDone(r)
  /\ Reply(r, Success)
  /\ Admitted /\ UNCHANGED <<row, paid, notified, up, headers, job, key, aside, raised>>

Throw(r) ==
  /\ phase[r] = "jobs" /\ up
  /\ raised[r] # NoException
  /\ Reply(r, Told(raised[r]))
  /\ Admitted /\ UNCHANGED <<row, paid, notified, up, headers, job, key, aside, raised>>

-----------------------------------------------------------------------------
\* The promise nobody waits for

AsideMoves(r, to) ==
  /\ aside' = [aside EXCEPT ![r] = to]
  /\ Admitted
  /\ UNCHANGED <<row, paid, phase, headers, job, key, raised, answer>>

\* generateDeliveryVerificationCode answers and the notification goes out; a balance nobody
\* asked for is dropped.
AsideAnswered(r) ==
  /\ aside[r] = "asking" /\ up /\ headers[r].auth # "none"
  /\ AsideMoves(r, IF route[r] \in {"create", "rollback"} THEN "pushing" ELSE "over")
  /\ UNCHANGED <<notified, up>>

\* A promise that rejects with nobody waiting for it: src/ listens for no unhandledRejection,
\* and Node ends the process unless a monitoring library does.
AsideFails(r) ==
  /\ aside[r] = "asking" /\ up
  /\ AsideMoves(r, "rejected")
  /\ up' \in BOOLEAN /\ UNCHANGED notified

\* sendPushNotification logs its failure and throws nothing.
Push(r) ==
  /\ aside[r] = "pushing" /\ up
  /\ AsideMoves(r, "over")
  /\ notified' \in {notified, notified \cup {r}}
  /\ UNCHANGED up

-----------------------------------------------------------------------------
\* The customer pays with SADAD once the payment service has the intent.
Pay(o) ==
  /\ o \notin paid /\ row[o] \in {"HOLD_PROCESSING", "AWAITING_PAYMENT"}
  /\ paid' = paid \cup {o}
  /\ UNCHANGED <<row, notified, up, route, phase, orders, headers, job, key, aside,
                 asked, raised, answer>>

RequestStep(r) ==
  \/ TurnAway(r) \/ Admit(r)
  \/ Recreate(r) \/ Exchange(r) \/ CallHold(r) \/ HoldWallet(r) \/ HoldAnswered(r)
  \/ LoopThrows(r) \/ Tail(r)
  \/ Return(r) \/ Throw(r)
  \/ AsideAnswered(r) \/ AsideFails(r) \/ Push(r)

JobStep(r, i) ==
  \/ Find(r, i) \/ PollAnswered(r, i) \/ CheckNotified(r, i) \/ WriteHold(r, i)
  \/ Answered(r, i) \/ JobFails(r, i)

RequestsNext ==
  \/ \E r \in Reqs : RequestStep(r)
  \/ \E r \in Reqs, i \in Slots : JobStep(r, i)
  \/ \E o \in Orders : Pay(o)

RequestsSpec == RequestsInit /\ [][RequestsNext]_requestvars

-----------------------------------------------------------------------------
\* The hold of an order's payment has come back.
Placed(o) == row[o] \in RowStates \ {"NONE", "HOLD_PROCESSING"}

RequestsTypeOK ==
  /\ row \in [Orders -> RowStates] /\ paid \subseteq Orders /\ notified \subseteq Reqs
  /\ up \in BOOLEAN
  /\ route \in [Reqs -> Routes] /\ phase \in [Reqs -> Phases]
  /\ orders \in [Reqs -> [Slots -> Keys]]
  /\ headers \in [Reqs -> [auth : Tokens, key : Keys]]
  /\ job \in [Reqs -> [Slots -> Steps]] /\ key \in [Reqs -> [Slots -> Keys]]
  /\ aside \in [Reqs -> Asides] /\ asked \in [Reqs -> SUBSET {"cart", "wallet", "knexa"}]
  /\ raised \in [Reqs -> Exceptions \cup {NoException}]
  /\ answer \in [Reqs -> {NoAnswer, Success} \cup {Told(e) : e \in Exceptions}]

\* A SADAD row is taken for paid only if its own payment was made, although the orders of a
\* batch are asked about at the same time under one headers object, which each of them
\* overwrites (getOrdersBreakdown, getSubtransactions, paymentStatus).
HeldIsPaid == \A o \in Orders : row[o] = "HOLD" => o \in paid

\* A client told 401 may come back with a token and lose nothing: no promise of the request was
\* started and no key was put in its headers, whatever the services called by other requests
\* answer (the guards' exceptions against GlobalExceptionFilter._getStatus).
UnauthorizedLeavesNothing ==
  \A r \in Reqs : answer[r].status = 401 =>
    /\ headers[r].key = NoOrder /\ aside[r] = "none"
    /\ \A i \in Slots : job[r][i] = "none"

\* No call that moves money goes out in a consumer's name.  Completions, cancellations and what a
\* rollback gives back go out in a service's, because their guards let only services in; the hold
\* of a create, also of the one in a rollback, goes out after the exchange of the caller's token,
\* which may have failed, and then with no token at all.
MoneyMovesForServices ==
  \A r \in Reqs :
    /\ phase[r] = "holding" => headers[r].auth \in {"service", "none"}
    /\ \A i \in Slots : job[r][i] = "move" => headers[r].auth = "service"

\* Who is told of success is told so after all the work the answer speaks of: the row of a
\* create has been held, and of a batch no order is still being asked about, nor did one fail
\* (Promise.all in getOrdersBreakdown and calculateBreakdown).
SuccessIsWhole ==
  \A r \in Reqs : answer[r] = Success =>
    /\ \A i \in Slots : job[r][i] \in {"none", "done"}
    /\ route[r] = "create" => Placed(orders[r][1])

\* The retailer hears of a delivery code only once the loop of createTransaction is through, at
\* the end of a rollback too, and for an order paid by SADAD only once its hold has come back.
CodesForPlacedOrders ==
  \A r \in notified :
    /\ phase[r] \in {"jobs", "answered"}
    /\ route[r] = "create" => Placed(orders[r][1])

\* What calculateBreakdown says of itself, "calling knexa asynchronously": a breakdown that was
\* answered has asked the cart, the wallet and Knexa.
KnexaIsAsked ==
  \A r \in Reqs : route[r] = "breakdown" /\ answer[r] = Success =>
    asked[r] = {q.to : q \in BreakdownRequests}
=============================================================================
