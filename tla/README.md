# Payment engine: a TLA+ model of its transactions

The payment engine (`src/`, NestJS on MySQL) decides how an order is paid. It keeps a table of
*subtransactions*, one row per order and payment method, and drives the payments behind them
through a separate payment service. Requests are served by several replicas, the payment service
is reached over HTTP, and nothing in the code locks a row or compares before it writes. This
directory models that engine, checks it with TLC and proves part of it with TLAPS.

Paths below are relative to `src/src/`; `transaction.service.ts` is in `transaction/services/`.

## 1. Inventory

| Component | State | Operations | Interacts with |
|---|---|---|---|
| `TransactionService` | none between requests; each handler keeps the entities it read | create, cancel, complete, roll back a transaction; payment notification; breakdown | table, payment service, wallet balance |
| `DbWrapperService`, `SubtransactionEntity` | the `subtransaction` table, unique index on `idemp_key` | insert, set state, retire (`rollbackSubtransaction`, `cancelIntent`), cancel, lookups | MySQL, one transaction per call |
| `ApiWrapperService`, `genericRetryStrategy` | none | hold, charge, release, cancel, rollback, status, balance, order total, delivery code | HTTP; 30 s timeout and 3 retries on all but hold |
| payment service (external) | a payment per idempotency key | the same, plus notifications | the payer, the engine |
| `MoneyDto` | amount, currency | arithmetic, comparison, conversion from and to decimals | everything above |
| cash amounts and breakdowns | none, but the SADAD poll writes | `calculateCashAmount`, `calculateBreakdown`, `getOrderSubtransactions`, `paymentMethodBreakdown`, batches | table, payment service, cart |
| delivery code, push notification | a promise nobody waits for | after a create: ask the LMS for a code, tell the retailer | LMS, notification library |
| controller, guards, strategies | one `HeadersDto` per request, written by all that runs for it | routes, token checks, exchange of the caller's token | auth library, handlers |
| exception filter, `ErrorService`, log decorator, interceptors | none | status and name of an error, log, shape answers | clients |
| configuration, health, telemetry, migrations, charts | none at run time | | |

How a row lives. `createTransaction` inserts it in `HOLD_PROCESSING`, holds the money and writes
`HOLD` (cash, wallet) or `AWAITING_PAYMENT` (SADAD, until a notification or a poll says it was
paid). `completeTransaction` moves it over `COMPLETE_PROCESSING` to `COMPLETED`,
`cancelTransaction` over `CANCEL_PROCESSING` to `CANCELLED`, `rollbackTransaction` over
`ROLLBACK_PROCESSING` to `ROLLBACKED`, where its key is freed for a successor. Changing the
payment method sends the SADAD row over `CANCEL_PROCESSING` directly to `ROLLBACKED`.
The pattern is always: write `*_PROCESSING`, call the payment service under the row's id as
idempotency key, write the settled state.

What is hard, and what makes each part correct:

* **A request dies between two awaits.** The state it wrote before the call must let the next
  request finish the work without doing it twice (`LedgerAgreement`, `OneChargePerMethod`), and
  nothing but such a request ever will (`CompletionSettles` and its like).
* **An answer is lost or a call arrives late.** Retried and late calls meet a payment that has
  moved on (`LedgerAgreement`, `ConfirmedByPayment`).
* **Two requests of one order run at once**, each with entities read earlier. Writes are
  unconditional, so only the unique index and the payment service's refusals stand in the way
  (`RetiredIsUndone`, `InstantChargedOnce`, `ConfirmedByPayment`, `OneAccountPerMethod`).
* **Legal requests in an unexpected order** add up to a wrong amount (`SettledAmount`,
  `RefundsBalance`), or clients are told another amount than is charged (`BreakdownTellsCharges`,
  `CashPreviewHolds`).
* **Retried calls** reach the service late, twice or out of order (`IsOneCall`), and must end
  (`Settles`).
* **Promises of one request run at the same time**, share its headers, and may fail after the
  answer; some are awaited by nobody (`HeldIsPaid`, `SuccessIsWhole`, `CodesForPlacedOrders`); the
  same object carries the token that services act under (`MoneyMovesForServices`).
* **What a client is told** must not lead it astray: another service's 401 is not its own
  (`UnauthorizedLeavesNothing`).
* **Roundings** of reading, computing, storing and writing add up (`MismatchMeansAnotherTotal`,
  `CashMakesUp`).

`PROJECT.json` lists the hazards line by line with the property that watches each.

## 2. Modules

| Module | Models | Code |
|---|---|---|
| `PaymentEnums` | methods, states, order payment methods, `AppUtil` predicates | `shared/enums`, `shared/utils/app.util.ts` |
| `Subtransactions` | the table `tbl` and each statement on it | `db-wrapper.service.ts`, `subtransaction.entity.ts` |
| `PaymentService` | external: payments `pay`, the adjustment a rollback carried, calls given up by their caller (`late`) | `api-wrapper.service.ts`, `retry.util.ts` |
| `TransactionService` | the handlers as workers (`job`), composed with the two above; `TSpec` | `transaction.service.ts`, `transaction.controller.ts` |
| `PaymentSafety` | the properties | |
| `IntentLog`, `PaymentRefinement` | the abstract specification of the table as a write-ahead log of the payments, and the mapping from `TransactionService` to it | |
| `MethodAccount`, `AccountRefinement` | the abstract specification of an order's wallet and cash payments as one account each, and the mapping from `TransactionService` to it | |
| `PaymentLiveness` | what becomes of work that died half way: `TransactionService` with requests for ever, failures that end and fairness; `LSpec` | |
| `Breakdowns`, `BreakdownSafety` | what clients are told, as views of the table; its properties | `transaction.service.ts`, `breakdown.util.ts`, `mapper.util.ts` |
| `Money` | amounts to the last digit, with every rounding | `money.dto.ts`, `subtransaction.entity.ts` |
| `OrderAmounts` | the amounts of an order that result from them; `ASpec` | `transaction.service.ts` |
| `OneCall`, `Retry` | what a handler supposes of a call, and `genericRetryStrategy` attempt by attempt over `PaymentService`; `RSpec` | `retry.util.ts`, `api-wrapper.service.ts`, `headers.dto.ts` |
| `Requests` | a request from the guards to its answer, with the promises it waits for and those it does not; `RequestsSpec` | `transaction.controller.ts`, `auth/`, `core/guards`, `core/filters`, `error.service.ts`, and what runs under one headers object in `transaction.service.ts` and `api-wrapper.service.ts` |
| `MCTransactionService`, `MCOrderAmounts`, `MCRetry`, `MCRequests` | TLC instances | |
| `TransactionServiceInvariant` | the inductive invariant `IInv` | |
| `TransactionServiceProofs` | what each continuation of a handler and each action does to `IInv`, and the theorems for any number of workers | |
| `SerialInvariant` | the inductive invariant `SInv`, which adds to `IInv` what holds of one worker | |
| `SerialProofs` | how each action moves the ledger of one worker, and the theorems for one worker | |
| `AccountProofs` | that `TransactionService` implements `MethodAccount` | |
| `CheckoutInvariant` | the inductive invariant `CInv`, which adds to `SInv` what completions need to know of amounts | |
| `RefundInvariant` | the inductive invariant `BInv`, which adds to `CInv` what rollbacks return | |
| `CheckoutProofs` | that every action keeps `CInv` and `BInv`, and the theorems about amounts, breakdowns and refunds | |
| `SumLemmas` | sums over finite sets of ids: they exist, are unique, and follow a row that changes | |
| `OrderAmountsProofs`, `RetryProofs`, `RequestsProofs` | theorems about the modules they name | |

**Correspondence.** A worker `p` is a request being served. `job[p].pc` names what the code is
about to await; an action performs that await and everything up to the next one. `job[p].snap`
holds the entities the handler read, which the code never refreshes; `todo` the methods it has
still to work through; `on` the method it works on; `amount` the deduction of a create, the
remaining amount of a complete or the released cash of a rollback; `scrap` says that a deduction is
more than nothing although its row will be of nothing. The switches of the code
(`CreateSwitch`, `CancelSwitch`, `CompleteSwitch`, `RollbackSwitch`, `NotifySwitch`) map a state
to where its case goes, fall-throughs included. Continuations (`Created`, `Cancelled`, `ToSadad`,
`Settled`, `RolledBack`, `Polled`...) are what the calling handler does when the awaited helper
returns. A request that throws comes to rest in `failed`; in `type_error` when what it throws is
the `TypeError` of reading `rollbackPayment.data` of an undefined value.

**Abstractions.** One order, as no statement touches rows of two orders. `idemp_key` is one bit:
under it a row answers lookups (live) or its id was appended (retired). Amounts are whole units of
the lowest denomination, as the column stores them. Balances and totals have digits below
(`MoneyDto.fromJSON`); of these one bit is kept, `scrap`: a deduction of less than half a unit
passes `isZeroOrNegative`, is inserted as a row of zero and is never held, as `holdInPayment`
returns before it calls. Any deduction of zero units may be such a one. Two consecutive reads of one
row are one read. AED is left out: only SAR is told apart. Deliveries of a call are one abstract
call that answers or fails with its effect applied, not applied or still to come.

**What is assumed of the payment service** (`PaymentService`, external): one payment per
idempotency key; a repeated call is answered like the first; a call that does not fit the
payment's state is refused and has no effect. The engine's retries rely on the first two, its
lack of locks on the third.

**Layers.** `TransactionService` computes in whole units and makes each call one step. The two
layers below it are modules of their own, which show what it may take for granted.
`OrderAmounts` follows the same handlers' amounts in hundredths of a unit, one request after the
other without faults. `Retry` runs a call's attempts one by one over the actions of
`PaymentService` and implements `OneCall`: an effect at most once, success only after it, failure
at any time. Those are the outcomes a call has in `PaymentService`. There effect and answer are
one step; that is enough, as a worker that waits for its answer takes no step in between.

**Around the handlers.** `Requests` keeps what `TransactionService` leaves out: several promises of
one request in progress at once. `job[r][i]` is the promise a handler waits for in slot `i`,
`aside[r]` the one it does not, `headers[r]` the object they share, `key[r][i]` the key their call
was made with; `raised[r]` is the exception that ends the handler, `answer[r]` what the filter or
the interceptor makes of it. A call takes its key from the headers when it is made
(`headers.toJSON()` copies them), so a retry repeats the key of its own call (`KeyOfCall`).
`Promise.all` waits for every promise from the start, so a later rejection is handled as well
(`JobFails`). A rejection nobody waits for may end the process or not (`AsideFails`): nothing in
`src/` listens for `unhandledRejection`, but the monitoring libraries it loads may. In exchange,
rows are reduced to what polls and creates do to them: a create is that of an order paid by SADAD
which has no row, and complete, cancel and a rollback's own calls are one call that leaves rows
alone. A rollback of an order with a SADAD row then goes on with a create of its own, for the
wallet, under the same headers (`Recreate`): the exchange overwrites the caller's token, the wallet
may be held (`HoldWallet`), under a key that is no SADAD row's, and the delivery code is asked for
by the same detached promise. The cash routes only read. `paymentNotification` takes the key out of
its headers before its first await, reads the row and writes it; the payment service is taken to
send it for paid bills only. In the filter, the branches for `UnauthorizedException` and
`NotFoundException` are never taken, as `HttpException`'s comes first.

**The log.** `IntentLog` says what the table promises: nothing happens to the money that was not
announced in the row before, and the row confirms only what was done. `PaymentRefinement` maps a
row to its entry (`EntryOf`) and its payment to the fate of the money (`FateOf`).

**The account.** The log is kept when requests come one after the other. `MethodAccount` says what is
left when they race: per order and instant method one payment is open at a time; its money is held,
then taken, paid out or let go, and returned before another payment is opened. `AccountRefinement`
reads the account off the payments: `CurrentOf(m)` is the only open payment of `m`, `StageOf` what
became of its money. Two open payments are mapped to none, which no step of the account allows.

**Faults.** `refused` (the service says no), `lost` (effect applied, answer lost), `late` (effect
to come at any later time), `crash` (a worker stops at any await; also an exception thrown by
whatever is awaited). A constant selects them per run.

## 3. Runs

`fractions` checks `ASpec`, `retry` checks `RSpec`, `liveness` checks `LSpec`, `requests` and
`knexa` check `RequestsSpec`, all others `TSpec`. Requests are bounded by `MaxRequests` and stop
when it is reached, a call is over when it ended and a request when it was answered, so runs do not
check for deadlock.

| Run | Instance | Properties | Shows |
|---|---|---|---|
| `serial_faults` | 1 worker, all faults, 4 requests of every kind, 4 rows, all methods, one total, balances 0 and 3 | `TTypeOK`, `LedgerAgreement`, `RetiredIffRollbacked`, `OneChargePerMethod`, `FollowsLifecycle`, `IntentLogged` | recovery: whatever a request leaves, the next one resumes; the table is a write-ahead log |
| `concurrent` | 2 workers, lost, late, crash, 3 requests, 3 rows | `ConfirmedByPayment`, `RetiredIsUndone`, `InstantChargedOnce`, `OneAccountPerMethod` | interleavings: the index, the ids as keys and the refusals are as good as a lock for wallet and cash |
| `liveness` | 1 worker, requests for ever, refusals, and lost answers and crashes that come to an end; wallet with cash or SADAD, one balance, 3 rows | `CompletionSettles`, `CancellationSettles`, `RollbackSettles`, `HoldSettles`, `PaidBillIsHeld` | what died half way is finished when the client asks again; a poll stands in for a lost notification |
| `checkout_faults` | 1 worker, all faults, 5 requests, cash and wallet, totals 6 and 8, final total 4 | `SettledAmount` | the amount collected despite faults, with release of what was held too much |
| `checkout` | 1 worker, no faults, 5 requests, all methods, PKR and SAR, wallet balances -1, 0, 3, 9 | `SettledAmount`, `RefundsBalance`, `BreakdownTellsCharges`, `CashPreviewHolds`, `BreakdownAddsUp` | amounts over whole request sequences, and what clients and riders are told of them |
| `fractions` | 4 requests, 9 totals, 8 balances | `AmountsTypeOK`, `SadadCoversQuote`, `MismatchMeansAnotherTotal`, `CashMakesUp`, `CashToldIsTaken` | roundings are harmless |
| `retry` | the defaults of the code, every retried operation, answers at once or just before the timeout | `RetryTypeOK`, `GivesUpInTime`, `IsOneCall`, `Settles` | attempts together are one call, which ends |
| `requests` | a request that asks (breakdown, one order, batches of up to two, cash of a batch) beside one that creates, completes, rolls back or notifies, 2 orders, any token, any failure of a call | `RequestsTypeOK`, `HeldIsPaid`, `UnauthorizedLeavesNothing`, `MoneyMovesForServices`, `SuccessIsWhole`, `CodesForPlacedOrders` | promises under one headers object do not mix up payments, answers are true, no money moves in a consumer's name |
| `knexa` | 1 request of any route | `KnexaIsAsked` (violated) | finding 4 |
| `end_state` | 2 workers, no faults | `EndStateIsFinal` (violated) | finding 1 |
| `rollback_of_held` | 1 worker, crash | `RollbackAnswers` (violated) | finding 2 |
| `double_settlement` | 1 worker, no faults | `SettledAmount` (violated) | finding 3 |

**Bounds.** Rows: an order uses at most three live rows, and four ids let a method have a retired
row beside its successor (a fifth would only repeat that). Requests: three suffice for two
overlapping requests over a row a third one left; four for create, complete, rollback and a
repetition; five for a create with one method, another create, a completion, its repetition and a
rollback. Balances cover an overdrawn, an empty, a short and an ample wallet; the empty one may hold a
fraction of a unit. Totals are chosen so that the
final total is below and above what is held; `Tolerance` stands for the 100 of `isAlmostZero` and
is small against them. `concurrent` leaves out COD alone and refusals not due to the payment's
state, to stay small: a refusal and a crash before the call leave the same state. The totals and
balances of `fractions` lie on both sides of half a unit, of a unit and of the tolerance. `retry`
needs no bound but on answer times: four attempts are all the code makes. `requests` needs two
slots and two orders for one promise to disturb another, and `RequestsProofs` covers any number;
its orders start with no SADAD row or with one that awaits payment, and are created once. In
`liveness` `MaxRequests` bounds no behaviour: `Renew` resets the count when it is reached. Its three
rows are one for each method, or an old and a new row of one: an order that would insert a fourth
stops there, and what is shown is shown of orders that do not.

**Serial and concurrent.** `LedgerAgreement`, `RetiredIffRollbacked`, `OneChargePerMethod`,
`FollowsLifecycle` and `IntentLogged` hold when the requests of an order come one after the other,
which is what the `*_PROCESSING` states are made for. They do not hold for overlapping requests: a
hold that settles after another request retired its row writes `AWAITING_PAYMENT` over the end
state, and with enough requests SADAD can then be charged on two rows. What survives every
interleaving is the first group, proved for any number of workers; the second group is proved for
one worker.

**Clients.** `SettledAmount` supposes (`OneCheckout`) that clients do not create a transaction
anew once a completion has begun; `double_settlement` shows why. With faults it is checked for
cash and wallet only: when the answer of a SADAD hold is lost, a completion takes cash, the payer
can still pay the bill, and a later completion charges it as well. `RefundsBalance` is checked
without faults: a crash between rolling back the cash and the wallet loses the adjustment. It is
checked and proved for final totals above zero: `rollbackPayment` sends an adjustment of exactly
nothing like none, so with a final total of zero the wallet would be refunded in full on top of the
cash released to it (TLC shows it with `FinalTotals = {0}`; `MoneyDto` lets zero through, and nothing
in the repository says which is meant).

**What is told.** `calculateCashAmount` looks at the wallet only, so `CashPreviewHolds` speaks of
orders without SADAD. With an overdrawn wallet the checkout page adds the debt to the order and
`createTransaction` does not (theorem `OverdrawnPreview`). Without a wallet the rider may be told
one unit more than the cash row takes (`CashToldIsTaken`). A wallet balance below half a unit is
stored as a row of nothing that is never held (`scrap` in `TransactionService`, the digits in
`OrderAmounts`), and the order can then not be completed (`stuck` in `OrderAmounts`); a wallet service
that answers in whole units never causes it. The payment service never hears of such a row
(`TTypeOK`). Nor can a rollback undo it: a create that met it leaves it in `HOLD_PROCESSING`.

**Liveness.** Nothing in the engine resumes what died: no timer, no scan of the table, no start-up
task. So each property has the client's patience as its antecedent, such as `CompleteAgain`: always, a
completion is asked for again. `CompletionSettles` then says that `COMPLETE_PROCESSING` is left again and
again; `CancellationSettles`, `RollbackSettles` and `HoldSettles` say so of the other states, and
`PaidBillIsHeld` that a paid bill is noticed if somebody keeps asking for the breakdown. They hold of
clients that end what they began (`Timely`): without it TLC finds orders that are stuck for ever. A
completion that comes while a cancellation or a rollback is half done inserts and holds cash before
the wallet's state makes it throw; from then on a rollback throws the `TypeError` of finding 2 on the
cash, a completion throws on the wallet, and a cancellation may throw on SADAD's
`ROLLBACK_PROCESSING`. No document of the repository says what clients must not do, so this is a limit
of the properties and no finding. `OneCheckout` holds here too. The balance is one and above zero. With
an empty wallet that is filled between two creates, of which the second dies before it cancels SADAD,
TLC finds `CompletionSettles` violated: completions pass over the SADAD row, as it is on
`HOLD_PROCESSING`; its bill is paid while one of them settles the wallet and dies; every later one
counts it and ends in `TOTAL_AMOUNT_MISMATCH`, with the wallet on `COMPLETE_PROCESSING`. `HoldSettles`
speaks of rows with an amount: a row of nothing is never held.

**Fairness.** `TSpec`, `ASpec` and `RequestsSpec` assume none: their properties are safety properties.
`RSpec` assumes that the timeout and the backoff timer of a call fire, which the event loop does; it
assumes nothing of the network and the service. `LSpec` assumes weak fairness of `Run`, a worker's next
step: the event loop runs what is ready, and every call ends, which `retry` shows (`Settles`) for all
calls but the hold, whose HTTP client is taken to end it; and of `Calm`, after which no worker crashes
and no call fails that the payment service would have answered (`Mishap`): replicas and networks recover.
A refusal because of the payment's state stays possible for ever. Nothing is assumed of clients, the
payer and notifications but what a property's antecedent says. Late calls are left out of `liveness`
(`NoLateCalls`), as they make it too large; `IntentLogged` shows that a late call does what its row
announces, as the next request's would.

## 4. Findings

1. `end_state`. `holdInPayment` writes `AWAITING_PAYMENT` (`transaction.service.ts:398`) without regard
   to what happened during the call: a create for COD that comes while SADAD is being held finds
   the row on `HOLD_PROCESSING` and retires it with `cancelIntent` (`:150-152`), "directly to end state"
   (`db-wrapper.service.ts:49`), and the write brings it back as awaiting payment, under a key no lookup
   finds. The writes of `paymentNotification` (`:414`), of the poll (`:555`) and of `cancelSubtransaction`
   (`db-wrapper.service.ts:56`) are as unconditional.
2. `rollback_of_held`. `rollbackSubtransaction` (`:444-453`) dereferences the answer of a call it
   did not make for every state without a case of its own. A completion holds the cash, writes
   `HOLD` and crashes; the rollback that follows finds no SADAD row, reads the cash on `HOLD` and throws
   a `TypeError`. `rollback-transaction.spec.ts:76` expects an answer for such an order, and gets one
   from a mock.
3. `double_settlement`. The `TOTAL_AMOUNT_MISMATCH` assertion (`:202-203`) leaves cash out of the
   sum: SADAD created after a cash completion is charged on top of it.
4. `knexa`. `calculateBreakdown` says it is "calling knexa asynchronously" (`:505`), but
   `callKnexaGetWalletBalance` (`api-wrapper.service.ts:160-170`) builds a cold Observable that
   nobody subscribes to: no request is sent.

## 5. Proofs

Proved from the `ASSUME`s on the constants only, for any numbers of workers, ids, requests and any
amounts, faults and client behaviour:

| Theorem | Statement |
|---|---|
| `InvariantHolds` | `TSpec => []IInv` |
| `TypesHold` | `TSpec => []TTypeOK` |
| `ConfirmedHolds` | `TSpec => []ConfirmedByPayment` |
| `UndoneHolds` | `TSpec => []RetiredIsUndone` |
| `InstantChargedOnceHolds` | `TSpec => []InstantChargedOnce` |
| `AgreementHolds`, `RetiredHolds`, `OneChargeHolds` | `Serial /\ TSpec` implies always `LedgerAgreement`, `RetiredIffRollbacked`, `OneChargePerMethod` |
| `LifecycleHolds` | `Serial /\ TSpec => FollowsLifecycle` |
| `IntentLogHolds` | `Serial /\ TSpec => IntentLogged`: `TransactionService` implements `IntentLog` |
| `SerialInvariantHolds` | `Serial /\ TSpec => []SInv` |
| `LogAccounts` | `Serial /\ TSpec => []Log!Accounted`: what a reader of the log may conclude |
| `CheckoutInvariantHolds` | `CheckoutAssumption /\ TSpec => []CInv` |
| `SettledHolds`, `BreakdownTellsHolds`, `CashPreviewIsKept`, `BreakdownSums` | `CheckoutAssumption /\ TSpec` implies always `SettledAmount`, `BreakdownTellsCharges`, `CashPreviewHolds`, `BreakdownAddsUp` |
| `RefundInvariantHolds` | `RefundAssumption /\ TSpec => []BInv` |
| `RefundsHold` | `RefundAssumption /\ TSpec => []RefundsBalance` |
| `RetryIsOneCall` | `RSpec => IsOneCall`, for any number of retries and any timeout |
| `RetryTyped`, `RetryGivesUp` | `RSpec` implies always `RetryTypeOK`, `GivesUpInTime` |
| `AccountsHold` | `TSpec => OneAccountPerMethod` |
| `AmountsTyped`, `SadadHolds`, `MismatchHolds`, `CashHolds`, `CashToldHolds` | `ASpec` implies always each property of the run `fractions`, for all totals and balances |
| `JsonKeepsUnits` | a stored amount survives `toJSON` and `fromJSON` |
| `RequestsTyped`, `HeldRowsArePaid`, `NothingLostBy401`, `ServicesMoveMoney`, `SuccessHolds`, `CodesHold` | `RequestsSpec` implies always each property of the run `requests`, for any number of requests and orders and batches of any length |
| `PreviewIsKept`, `OverdrawnPreview`, `CashAmountAddsUp`, `BreakdownHasMethod` | what clients are told, for all totals, balances and rows |

(The first five are in `TransactionServiceProofs`, which this section is about next. `Serial` says
that there is one worker: the requests of an order come one after the other, each of which may
crash at any await, lose answers and leave calls that arrive at any later time.)

None of the safety properties is inductive. A row becomes `COMPLETED` in a step that makes
no call, on the word of a worker that made it some steps earlier while others ran. `IInv`
therefore ties a worker's place to its payment: the argument is that payments only move forward,
so once a payment passed a *milestone* (held, charged, cancelled, rolled back...) it never
un-passes it (`Later`), and a worker that stands after a call keeps the milestone that call
established whatever the others do. The parts of `IInv`:

* `SnapsOK`: an entity a worker holds names a stored row of its method, with
  its amount, which never change; its state may be outdated, but what it confirms is a milestone.
* `FlowOK`, `AnswerOK`: which request can stand where, and that a worker about to write a settled
  state has seen the call for it answered; who is about to hold has a row of more than nothing.
* `RowOK`: each row's state is confirmed, and the key of an instant method's row is given up only when
  its payment was rolled back (`UndoneHolds` is read off it). A row of nothing has no payment.
* `KeysUnique`: the unique index, including the write-back of a key by `cancelSubtransaction`.
* `LedgerOK`: late calls name stored rows, a late hold one of more than nothing, and an id without a
  row has no payment.

`TransactionServiceProofs` shows once for each continuation that the job it returns keeps the
worker's part of the invariant, and then has a lemma per action. `InstantChargedOnce`
follows from `RowOK` and `KeysUnique`: a charged instant row still has its key, and keys are unique.

`AccountProofs` adds the refinement. A step either leaves the payments alone, and the methods of
their rows with them (`Idle`), or moves one payment onward; which call a worker makes, a crash and a
late call come to the same. What remains is that a payment opens only when no other of its method is
open. This is read off `IInv` *after* the step: two open instant payments would be two rows that have
not been rolled back, which both have their key (`RetiredUndone`), and `KeysUnique` makes them one.

`SerialProofs` needs more, as `IInv` lets a row's state be anything its payment confirms. `SInv` adds:

* `Agreed`: table and payments agree up to the announced call, and only rolled back rows gave up
  their key.
* `LateOK`: a call that is still late is announced by its row, or came too late: its payment has
  reached a state in which it does nothing, and no payment leaves those states. This is what makes
  a late call harmless after the row moved on, and the only reason a row may move on at all.
* `StandingOK`: the row a worker stands with is in the state that led it there. With one worker
  nobody else writes rows; with two this fails, and the properties with it.
* `KeptOK`: a completion reads all rows first and settles them in turn, so the entities it has yet
  to settle still tell the truth.

The proof has two halves. A step may move the ledger in three ways only (`LedgerStep`): not at all,
but for a call given up; a row along its life cycle, to a state its payment bears out (`RowMoves`);
a payment as its row announces (`PayMoves`). The first half shows that each way keeps the ledger
agreed, follows the life cycle and is a step of `IntentLog`, with no word of workers. The second
has a lemma per action: it moves the ledger in one of the ways, and the worker goes on knowing its
rows (`Serves`). `OneChargeHolds` needs both invariants: charged rows are not rolled back, so they
have their key, and `KeysUnique` makes them one.

`CheckoutProofs` is about amounts, under `CheckoutAssumption`: requests come one after the other
(`Serial`), clients do not create anew what a completion has begun to settle (`OneCheckout`), every
completion of an order asks for the same total (`OneFinalTotal`), and either nothing fails or nobody
asks for SADAD. Each part is needed, and TLC shows what happens without it on the instances of
`checkout` and `checkout_faults`:

* without `Serial` all four properties fail: two completions insert and settle cash against outdated
  entities;
* without `OneCheckout` all four properties fail (finding 3 is one way);
* with a second final total a completion repeated for another total finds its rows `COMPLETED`,
  changes nothing and reports success (`SettledAmount`, `BreakdownTellsCharges` and
  `CashPreviewHolds` fail);
* with faults and SADAD, a lost answer of its hold leaves `HOLD_PROCESSING`, which completions do not
  look for: the payer pays the bill after the completion took cash (`SettledAmount` and
  `BreakdownTellsCharges` fail).

Two constants are constrained by name: there are finitely many ids (`IdsAreFinite`, or no sum over
the table exists), and `Tolerance` is at least one (`isAlmostZero` compares with 100: nothing
remaining must count as almost nothing). `CInv` adds to `SInv`:

* `CashOK`: a cash row is for exactly what the wallet leaves of the final total, is charged only when
  that is due and paid out only when it is owed, and where it is, SADAD is called off.
* `CompletionOK`: per place of a completion, what has been settled and what remains make up the
  total: SADAD covers all but the tolerance and there is no cash, or SADAD is gone and cash covers
  it (`Plan`). A row of nothing counts as gone: it stays on `HOLD_PROCESSING` and adds nothing.
  After the last settlement this is `SettledUp`.
* `CreationFlow`, `CancelFlow`, `RollbackFlow`: the order in which methods are worked through;
  `NoCashYet`: the wallet's row is created and retired only while there is no cash, so the amount
  that cash was computed from stays what it was.
* `CreationOK`: SADAD is created for what the wallet's row leaves of the total.
* `SadadInHand`, `CashOnly`: the two cases of the last assumption; in each a completion that finds no
  active SADAD row may leave SADAD out.
* `Priced`: entities tell their rows' amounts.

The proof has two halves again. What every request is told by its last read or call is carried over
to the next place it stands at, one lemma per continuation (`...Checks`), without a step being taken.
Then one lemma per action (`...Keeps`) shows that the rows it writes, or the payment it moves, leave
`CashOK` and what the worker knows in place: writes of a state (`WriteKeeps`), inserts
(`InsertKeeps`), payments (`CallKeeps`). `SettledHolds` then reads `Paid` off the rows. A method
is charged at most on the one row that has its key (`ChargedIsLive`), so the sum over the table is the
sum over the methods (`PaidSplits`). The induction theorems of the library are out of reach, so
`SumLemmas` does induction over a set's size by looking at the least size for which a claim fails
(`NatSets`).

`RefundsHold` supposes in addition (`RefundAssumption`) that nothing fails and that no final total is
zero. A rollback returns cash before the wallet, and `RefundsBalance` does not hold in between: what
the released cash left in the wallet is then only in the hands of the worker, as the `adjustedMoney`
it passes on. `BInv` says so:

* `Balanced`: what the payments rolled back so far gained the wallet is what the rollback under way
  has yet to make up for, which is nothing where no rollback runs.
* `ReleasedOK`, `ReturnOK`: while cash is released the wallet's row is `COMPLETED`, and it is still
  found so when the worker comes to it; the amount in hand is positive and less than that row's.
  A final total of zero would make it the row's whole amount, and the adjustment nothing.
* `RollbackInHand`, `RollbackKind`: a row in `ROLLBACK_PROCESSING` is the worker's own, so each payment
  is rolled back once. With faults this fails: a worker that dies after the cash was returned takes
  the amount with it.

Of its actions only `RollbackCall` moves a payment to a rolled back state (`RollbackCallRefunds`, by
`GainsAdd` on the sum over the table). All others leave those alone (`QuietKeeps`), as an
operation on a payment that was undone has no effect (`GainsStay`).

`OrderAmountsProofs` bounds each rounding by a lemma (`NearestUnit`, `Floored`, `WholeUnits`) and
proves the conjunction of the run's properties inductive: `SadadCoversQuote` is what makes
`MismatchMeansAnotherTotal` so, as the difference it leaves is within the tolerance. `RetryProofs`
rests on `Apart`: no state an operation leads to is one it applies to, so `After` is never left and
a repeated attempt has no effect. `RequestsProofs` proves `RInv`: the properties of the run with
`JobsOwnOrder` (a poll carries its own order's key, a write follows its payment), `NotYet` (nothing
runs before the guards let a request in), `CreateRuns` (what a create has done in each phase, that of a
rollback included) and `RollbackRuns` (a rollback's own calls are over before its create begins).

`RetryGivesUp` bounds the time a call has taken by what its attempts and timers have used so far;
powers of two are the recursive function `TwoTo`, whose two defining equations the proof cites.

Every safety and action property of the runs is stated by a theorem. Only model-checked is what needs
fairness: `Settles` and the run `liveness`. `CInv` and `BInv` were checked as invariants on the
instances of `checkout` and, for `CInv`, `checkout_faults`, as `IInv` and `SInv` were on theirs, before
they were proved.

## 6. Not modelled

Presentation (validation of bodies, texts, logging, caching, health, telemetry, deployment): it
keeps no payment state. The gRPC wrapper is not used by the service, and the stubs are generated.
`setSubtransactionsState`, `rechargeWallet` and `selectMin` have no caller. In `Requests`, after `up`
turned false the state stays, as the restart is `TransactionService`'s crash. An order created
anew, with the cancellation of its SADAD row that comes first, is in `TransactionService` only.

## 7. Plan

Done: the table, the payment service, the handlers and their composition, safety serial and
concurrent, the write-ahead log and the accounts as abstract specifications, breakdowns, amounts to
the last digit, retries, requests of every route from the guards to their answers, liveness of what
died half way, and theorems of each, those of serial requests and the refinement included. Next, in
this order:

1. The compensation of `holdInPayment` (`:400`), which waits for a name no exception has at that
   point: what would change if it ran.
2. Replicas of `Requests`, so that a process that ends takes its requests' rows to the next one.
