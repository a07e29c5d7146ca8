------------------------- MODULE TransactionService -------------------------
(***************************************************************************)
(* TransactionService: the requests that create, cancel, complete and roll *)
(* back the payment of one order, and the payment notifications, run by    *)
(* workers that share the subtransaction table and the payment service.    *)
(*                                                                         *)
(* A worker is one request being served, by any replica: an action runs    *)
(* from one await of the code to the next, so what a worker read it keeps  *)
(* (snap) while others write.  Nothing in the code locks a row, compares   *)
(* before it writes or retries a request: a failed or crashed request is   *)
(* abandoned where it stood and a later request finds what it left.        *)
(*                                                                         *)
(* Two reads of one row with nothing awaited but each other are one read   *)
(* here.  Amounts are whole units, as the column stores them; of the       *)
(* digits below only this is kept, that an amount can be more than nothing *)
(* and yet be stored as nothing (scrap; OrderAmounts has the digits).      *)
(*                                                                         *)
(* The delivery code and the push notification (fire and forget)           *)
(* and the text of the answers touch none of this state and are left out.  *)
(***************************************************************************)
EXTENDS Subtransactions, PaymentService

CONSTANTS
  Procs,          \* workers: requests served at the same time
  Kinds,          \* the requests that come, a subset of RequestKinds
  OpenMethods,    \* the order payment methods clients ask for
  Totals,         \* order totals at creation, in the lowest denomination
  FinalTotals,    \* order totals at completion
  OrderCurrencies,\* currencies of the requests
  Balances,       \* what the wallet service may answer
  Tolerance,      \* MoneyDto.isAlmostZero: amounts closer to zero than this pass for zero
  OneCheckout,    \* clients do not create anew what a complete request has begun to settle
  MaxRequests     \* requests the model serves, notifications included

RequestKinds == {"create", "cancel", "complete", "rollback", "breakdown"}

ASSUME KindsAreKnown == Kinds \subseteq RequestKinds /\ OpenMethods \subseteq OrderMethods
ASSUME AmountsAreIntegers == Totals \cup FinalTotals \subseteq Nat /\ Balances \subseteq Int
ASSUME CurrenciesAreKnown == OrderCurrencies \subseteq Currencies
ASSUME BoundsAreNatural == Tolerance \in Nat \ {0} /\ MaxRequests \in Nat /\ OneCheckout \in BOOLEAN

VARIABLES
  job,        \* worker |-> the request it serves, its place in the code and its locals
  served      \* requests and notifications taken up so far

tvars == <<tbl, pay, adjusted, late, job, served>>

\* Where a worker stands: at rest, or about to await what the label names.
RestLabels == {"idle", "done", "returned_false", "failed", "type_error"}

BusyLabels ==
  {"resolve", "sadad_amount", "create_read", "insert", "hold", "hold_settle",
   "cancel_read", "cancel_mark", "cancel_call", "cancel_retire", "cancel_key", "cancel_write",
   "wallet_read", "poll", "status", "poll_settle",
   "complete_mark", "complete_call", "complete_settle", "cash_read", "cash_insert",
   "rollback_read", "rollback_mark", "rollback_call", "rollback_settle", "notify_settle"}

Job == [pc       : RestLabels \cup BusyLabels,
        kind     : RequestKinds \cup {"none", "notify"},
        opm      : OrderMethods,
        total    : Nat,
        currency : Currencies,
        on       : Methods,            \* the method of the subtransaction worked on
        todo     : Seq(Methods),       \* methods the request has yet to finish
        snap     : [Methods -> Snap],  \* subtransactions as last read
        amount   : Int,                \* deduction, remaining amount or amount released
        scrap    : BOOLEAN]            \* the deduction is more than nothing, its row's amount is not

NoSnaps == [m \in Methods |-> NoSnap]

IdleJob == [pc |-> "idle", kind |-> "none", opm |-> "COD", total |-> 0, currency |-> "PKR",
            on |-> "CASH", todo |-> <<>>, snap |-> NoSnaps, amount |-> 0, scrap |-> FALSE]

AtRest(p) == job[p].pc \in RestLabels

TInit ==
  /\ TblInit
  /\ PayInit
  /\ job = [p \in Procs |-> IdleJob]
  /\ served = 0

-----------------------------------------------------------------------------
\* Moves of a worker: functions from a job to a job.

\* The request ends; what it asked for is kept to tell what its end means.
Rest(j, outcome) ==
  [IdleJob EXCEPT !.pc = outcome, !.kind = j.kind, !.total = j.total, !.opm = j.opm]

Go(j, label) == IF label \in RestLabels THEN Rest(j, label) ELSE [j EXCEPT !.pc = label]

See(j, s) == [j EXCEPT !.snap[j.on] = s]

Snapped(j) == j.snap[j.on]

Become(p, j) == job' = [job EXCEPT ![p] = j]

\* The last stage of create, complete and breakdown requests: paymentMethodBreakdown.
Breakdown(j) == [j EXCEPT !.pc = "poll", !.on = "SADAD", !.todo = <<>>]

-----------------------------------------------------------------------------
\* createTransaction and createSubtransaction

\* The next method of the loop: resolvePMAmount starts with the wallet balance, or with
\* cancelling what was asked of SADAD before.
NextMethod(j) ==
  IF j.todo = <<>> THEN Breakdown(j)
  ELSE IF Head(j.todo) = "WALLET" THEN [j EXCEPT !.pc = "resolve", !.on = "WALLET"]
  ELSE [j EXCEPT !.pc = "cancel_read", !.on = "SADAD"]

StartCreate(j, opm, total, currency) ==
  NextMethod([j EXCEPT !.kind = "create", !.opm = opm, !.total = total, !.currency = currency,
                       !.todo = PaymentMethodsOf(opm), !.snap = NoSnaps, !.amount = 0,
                       !.scrap = FALSE])

\* createSubtransaction returned: its row is known to the methods that follow.
Created(j) == NextMethod([j EXCEPT !.todo = Tail(@)])

\* Mutant of CreateSwitch: a hold under way is left to whoever began it.
CreateSwitchForgets(state, nothing) ==
  CASE state = "ABSENT"                          -> IF nothing THEN "return" ELSE "insert"
    [] state \in {"AWAITING_PAYMENT", "HOLD_PROCESSING", "HOLD"} -> "return"
    [] OTHER                                     -> "failed"

\* The switch of createSubtransaction; "return" when the code returns the row.
CreateSwitch(state, nothing) ==
  CASE state = "ABSENT"                       -> IF nothing THEN "return" ELSE "insert"
    [] state = "HOLD_PROCESSING"              -> "hold"
    [] state \in {"AWAITING_PAYMENT", "HOLD"} -> "return"
    [] OTHER                                  -> "failed"

\* isZeroOrNegative of the deduction.
IsNothing(j) == j.amount <= 0 /\ ~j.scrap

\* What of the total the wallet covers.
Coverable(balance, total) ==
  IF balance < 0 THEN 0 ELSE IF balance <= total THEN balance ELSE total

\* A deduction of no whole unit, of a balance or a total that may well have digits below.
MayBeScrap(amount) == IF amount = 0 THEN BOOLEAN ELSE {FALSE}

\* resolvePMAmount, WALLET.
ResolveWallet(p) ==
  LET j == job[p] IN
  /\ j.pc = "resolve"
  /\ \E s \in FindByIdempKey("WALLET") :
       IF Exists(s)
         THEN Become(p, [j EXCEPT !.pc = "create_read", !.amount = s.amount, !.scrap = FALSE])
         ELSE \E b \in Balances : LET amount == Coverable(b, j.total) IN
                \E scrap \in IF b < 0 THEN {FALSE} ELSE MayBeScrap(amount) :
                  Become(p, [j EXCEPT !.pc = "create_read", !.amount = amount, !.scrap = scrap])
  /\ UNCHANGED <<tbl, pay, adjusted, late, served>>

\* resolvePMAmount, SADAD, once the earlier SADAD subtransaction is out of the way.
ResolveSadad(p) ==
  LET j == job[p] IN
  /\ j.pc = "sadad_amount"
  /\ \E w \in IF Exists(j.snap["WALLET"]) THEN {j.snap["WALLET"]} ELSE FindByIdempKey("WALLET") :
       IF \/ j.currency # "SAR"                                    \* CURRENCY_INVALID
          \/ Exists(w) /\ (j.opm = "SADAD" \/ w.currency # "SAR")  \* WALLET_EXISTS
         THEN Become(p, Go(j, "failed"))
         \* subtract leaves whole units, the total alone need not be.
         ELSE \E scrap \in IF Exists(w) THEN {FALSE} ELSE MayBeScrap(j.total) :
                Become(p, [j EXCEPT !.pc = "create_read", !.amount = j.total - w.amount,
                                    !.scrap = scrap])
  /\ UNCHANGED <<tbl, pay, adjusted, late, served>>

-----------------------------------------------------------------------------
\* A call to the payment service for the subtransaction worked on.  When it fails the request
\* fails with it: holdInPayment's own catch looks for an error name no HTTP error carries.

Call(p, op, adjust, answered) ==
  LET c == [op |-> op, id |-> Snapped(job[p]).id, adjust |-> adjust] IN
  \/ Answered(c) /\ Become(p, answered)
  \/ Failed(c) /\ Become(p, Go(job[p], "failed"))

\* A write of the state of the subtransaction worked on, after which the request stands at j.
Mark(p, state, j) ==
  /\ SetState(Snapped(job[p]).id, state)
  /\ Become(p, j)
  /\ UNCHANGED <<pay, adjusted, late, served>>

-----------------------------------------------------------------------------
\* completeSubtransaction, from the state its caller read earlier.

\* Mutant of CompleteSwitch: the charge before the mark.
CompleteSwitchUnmarked(state) ==
  CASE state \in {"HOLD", "COMPLETE_PROCESSING"} -> "complete_call"
    [] state \in {"COMPLETED", "ABSENT"}         -> "return"
    [] OTHER                                     -> "failed"

\* Mutant of CompleteSwitch: a settlement under way is refused.
CompleteSwitchForgets(state) ==
  CASE state = "HOLD"                     -> "complete_mark"
    [] state \in {"COMPLETED", "ABSENT"}  -> "return"
    [] OTHER                              -> "failed"

CompleteSwitch(state) ==
  CASE state = "HOLD"                     -> "complete_mark"
    [] state = "COMPLETE_PROCESSING"      -> "complete_call"
    [] state \in {"COMPLETED", "ABSENT"}  -> "return"
    [] OTHER                              -> "failed"

\* completeTransaction settles SADAD, then the wallet, then cash: what follows each.
ToCash(j) ==
  LET k == [j EXCEPT !.on = "CASH"]
      label == CompleteSwitch(Snapped(k).state)
  IN  IF label = "return" THEN Breakdown(k) ELSE Go(k, label)

ToWallet(j) ==
  LET k == [j EXCEPT !.on = "WALLET"]
      label == CompleteSwitch(Snapped(k).state)
  IN  IF label = "return" THEN ToCash(k) ELSE Go(k, label)

ToCashRow(j) == [j EXCEPT !.pc = "cash_read", !.on = "CASH"]

SadadSettled(j) == ToCashRow([j EXCEPT !.amount = 0])

AlmostZero(amount) == -Tolerance < amount /\ amount < Tolerance

\* Mutant of ToSadad: the total is not compared.
ToSadadUnchecked(j) ==
  LET k == [j EXCEPT !.on = "SADAD"]
      label == CompleteSwitch(Snapped(k).state)
  IN  IF ~Exists(Snapped(k)) THEN ToCashRow(j)
      ELSE IF label = "return" THEN SadadSettled(k) ELSE Go(k, label)

\* What SADAD holds must be what the wallet leaves, or TOTAL_AMOUNT_MISMATCH.
ToSadad(j) ==
  LET k == [j EXCEPT !.on = "SADAD", !.amount = @ - j.snap["SADAD"].amount]
      label == CompleteSwitch(Snapped(k).state)
  IN  IF ~Exists(Snapped(k)) THEN ToCashRow(j)
      ELSE IF ~AlmostZero(k.amount) THEN Go(k, "failed")
      ELSE IF label = "return" THEN SadadSettled(k) ELSE Go(k, label)

Settled(j) ==
  CASE j.on = "SADAD"  -> SadadSettled(j)
    [] j.on = "WALLET" -> ToCash(j)
    [] j.on = "CASH"   -> Breakdown(j)

\* Mutant of IsTopup: what was held too much is charged once more.
IsTopupNever(j) == FALSE

\* A negative remainder pays cash out to the wallet.
IsTopup(j) == j.on = "CASH" /\ j.amount < 0

CompleteMark(p) ==
  /\ job[p].pc = "complete_mark"
  /\ Mark(p, "COMPLETE_PROCESSING", Go(job[p], "complete_call"))

CompleteCall(p) ==
  /\ job[p].pc = "complete_call"
  /\ Call(p, IF IsTopup(job[p]) THEN "release" ELSE "charge", 0, Go(job[p], "complete_settle"))
  /\ UNCHANGED <<tbl, served>>

CompleteSettle(p) ==
  /\ job[p].pc = "complete_settle"
  /\ Mark(p, "COMPLETED", Settled(job[p]))

\* completeTransaction begins with the wallet row, and gives up on a cancelled one.
WalletRead(p) ==
  LET j == job[p] IN
  /\ j.pc = "wallet_read"
  /\ \E s \in FindByIdempKey("WALLET") :
       Become(p, IF s.state = "CANCELLED" THEN Go(j, "returned_false")
                 ELSE [See(j, s) EXCEPT !.pc = "poll", !.on = "SADAD",
                                        !.amount = j.total - s.amount])
  /\ UNCHANGED <<tbl, pay, adjusted, late, served>>

-----------------------------------------------------------------------------
\* holdInPayment

\* Mutant of HeldState: the third party forgotten.
HeldStateInstant(pm) == "HOLD"

\* An instant method is held by the call, a third party has yet to collect.
HeldState(pm) == IF IsInstantPayment(pm) THEN "HOLD" ELSE "AWAITING_PAYMENT"

\* Back in createTransaction, or in completeTransaction with the cash row held.
AfterHold(j, state) ==
  IF j.kind = "create" THEN Created(j)
  ELSE ToWallet([j EXCEPT !.snap[j.on].state = state])

\* Mutant of ToHold: the amount is not looked at.
ToHoldAnyway(j) == [j EXCEPT !.pc = "hold"]

\* A row of nothing is returned as it is.
ToHold(j) ==
  IF Snapped(j).amount <= 0 THEN AfterHold(j, Snapped(j).state) ELSE [j EXCEPT !.pc = "hold"]

HoldCall(p) ==
  LET j == job[p] IN
  /\ j.pc = "hold"
  /\ Call(p, HoldOp(j.on), 0, Go(j, "hold_settle"))
  /\ UNCHANGED <<tbl, served>>

HoldSettle(p) ==
  LET j == job[p] IN
  /\ j.pc = "hold_settle"
  /\ Mark(p, HeldState(j.on), AfterHold(j, HeldState(j.on)))

-----------------------------------------------------------------------------
\* Who holds: createSubtransaction, which reads the row of its key ...
CreateRead(p) ==
  LET j == job[p] IN
  /\ j.pc = "create_read"
  /\ \E s \in FindByIdempKey(j.on) :
       LET label == CreateSwitch(s.state, IsNothing(j)) IN
       Become(p, CASE label = "return" -> Created(See(j, s))
                   [] label = "hold"   -> ToHold(See(j, s))
                   [] OTHER            -> Go(See(j, s), label))
  /\ UNCHANGED <<tbl, pay, adjusted, late, served>>

\* ... and completeTransaction with the cash row: read, or else created for what remains, of
\* either sign.
CashRead(p) ==
  LET j == job[p] IN
  /\ j.pc = "cash_read"
  /\ \E s \in FindByIdempKey("CASH") :
       Become(p, IF ~Exists(s) /\ j.amount # 0 THEN [See(j, s) EXCEPT !.pc = "cash_insert"]
                 ELSE IF s.state = "HOLD_PROCESSING" THEN ToHold(See(j, s))
                 ELSE ToWallet(See(j, s)))
  /\ UNCHANGED <<tbl, pay, adjusted, late, served>>

\* putInDb: the insert, refused by the unique index when somebody was faster.
Insert(p) ==
  LET j == job[p] IN
  /\ j.pc \in {"insert", "cash_insert"}
  /\ LET amount == IF j.amount < 0 THEN -j.amount ELSE j.amount IN
     \/ \E i \in Ids :
          /\ CreateRow(i, j.on, amount, j.currency)
          /\ Become(p, ToHold(See(j, [id |-> i, state |-> "HOLD_PROCESSING", amount |-> amount,
                                      currency |-> j.currency, live |-> TRUE])))
     \/ ~KeyFree(j.on) /\ Become(p, Go(j, "failed")) /\ UNCHANGED tbl
  /\ UNCHANGED <<pay, adjusted, late, served>>

-----------------------------------------------------------------------------
\* cancelSubtransaction

\* Mutant of CancelSwitch: the call before the mark.
CancelSwitchUnmarked(state, pm) ==
  CASE state \in {"HOLD", "AWAITING_PAYMENT", "CANCEL_PROCESSING"} -> "cancel_call"
    [] state = "HOLD_PROCESSING" /\ Is3PMethod(pm)                -> "cancel_retire"
    [] state \in {"ABSENT", "CANCELLED"}                          -> "return"
    [] OTHER                                                      -> "failed"

\* Mutant of CancelSwitch: a settlement under way is taken for a hold under way.
CancelSwitchSettling(state, pm) ==
  CASE state \in {"HOLD", "AWAITING_PAYMENT"}                     -> "cancel_mark"
    [] state = "CANCEL_PROCESSING"                                -> "cancel_call"
    [] state \in {"HOLD_PROCESSING", "COMPLETE_PROCESSING"} /\ Is3PMethod(pm)
                                                                  -> "cancel_retire"
    [] state \in {"ABSENT", "CANCELLED"}                          -> "return"
    [] OTHER                                                      -> "failed"

\* Mutant of CancelSwitch: a cancellation under way is left to whoever began it.
CancelSwitchForgets(state, pm) ==
  CASE state \in {"HOLD", "AWAITING_PAYMENT"}                     -> "cancel_mark"
    [] state = "HOLD_PROCESSING" /\ Is3PMethod(pm)                -> "cancel_retire"
    [] state \in {"ABSENT", "CANCELLED", "CANCEL_PROCESSING"}     -> "return"
    [] OTHER                                                      -> "failed"

CancelSwitch(state, pm) ==
  CASE state \in {"HOLD", "AWAITING_PAYMENT"}             -> "cancel_mark"
    [] state = "CANCEL_PROCESSING"                        -> "cancel_call"
    [] state = "HOLD_PROCESSING" /\ Is3PMethod(pm)        -> "cancel_retire"
    [] state \in {"ABSENT", "CANCELLED"}                  -> "return"
    [] OTHER                                              -> "failed"

\* toEndState: createTransaction replaces what it cancels, cancelTransaction does not.
ToEndState(j) == j.kind = "create"

\* Back in resolvePMAmount for SADAD or CASH, or in cancelTransaction.
Cancelled(j) ==
  IF j.kind = "create"
    THEN IF Head(j.todo) = "SADAD" THEN [j EXCEPT !.pc = "sadad_amount"]
         ELSE [j EXCEPT !.pc = "create_read", !.on = "CASH", !.amount = 0, !.scrap = FALSE]
    ELSE IF Tail(j.todo) = <<>> THEN Go(j, "done")
         ELSE [j EXCEPT !.pc = "cancel_read", !.todo = Tail(@), !.on = Head(Tail(j.todo))]

CancelRead(p) ==
  LET j == job[p] IN
  /\ j.pc = "cancel_read"
  /\ \E s \in FindByIdempKey(j.on) :
       LET label == CancelSwitch(s.state, j.on) IN
       Become(p, IF label = "return" THEN Cancelled(See(j, s)) ELSE Go(See(j, s), label))
  /\ UNCHANGED <<tbl, pay, adjusted, late, served>>

CancelMark(p) ==
  /\ job[p].pc = "cancel_mark"
  /\ Mark(p, "CANCEL_PROCESSING", Go(job[p], "cancel_call"))

CancelCall(p) ==
  LET j == job[p] IN
  /\ j.pc = "cancel_call"
  /\ Call(p, "cancel", 0, Go(j, IF ToEndState(j) THEN "cancel_retire" ELSE "cancel_key"))
  /\ UNCHANGED <<tbl, served>>

\* cancelIntent.
CancelRetire(p) ==
  LET j == job[p] IN
  /\ j.pc = "cancel_retire"
  /\ RetireRow(Snapped(j).id)
  /\ Become(p, Cancelled(j))
  /\ UNCHANGED <<pay, adjusted, late, served>>

\* DbWrapper.cancelSubtransaction reads the key in its transaction ...
CancelKey(p) ==
  LET j == job[p] IN
  /\ j.pc = "cancel_key"
  /\ Become(p, [See(j, SnapOf(Snapped(j).id)) EXCEPT !.pc = "cancel_write"])
  /\ UNCHANGED <<tbl, pay, adjusted, late, served>>

\* ... and writes it back with the state, by then perhaps over a retired key.
CancelWrite(p) ==
  LET j == job[p]
      s == Snapped(j) IN
  /\ j.pc = "cancel_write"
  /\ \/ WriteCancelled(s.id, s.live) /\ Become(p, Cancelled(j))
     \/ ~CanWriteBack(s.id, s.live) /\ Become(p, Go(j, "failed")) /\ UNCHANGED tbl
  /\ UNCHANGED <<pay, adjusted, late, served>>

-----------------------------------------------------------------------------
\* getSubtransactions: the order's active rows, SADAD brought up to date by polling.

\* Back in completeTransaction before anything is settled, or at the end of the request.
Polled(j) == IF j.kind = "complete" /\ j.todo # <<>> THEN ToSadad([j EXCEPT !.todo = <<>>])
             ELSE Go(j, "done")

Poll(p) ==
  LET j == job[p] IN
  /\ j.pc = "poll"
  /\ \E s \in FindActive("SADAD") :
       Become(p, IF s.state = "AWAITING_PAYMENT" THEN [See(j, s) EXCEPT !.pc = "status"]
                 ELSE Polled(See(j, s)))
  /\ UNCHANGED <<tbl, pay, adjusted, late, served>>

Status(p) ==
  LET j == job[p] IN
  /\ j.pc = "status"
  /\ Become(p, IF IsPaid(Snapped(j).id) THEN Go(j, "poll_settle") ELSE Polled(j))
  /\ UNCHANGED <<tbl, pay, adjusted, late, served>>

PollSettle(p) ==
  LET j == job[p] IN
  /\ j.pc = "poll_settle"
  /\ Mark(p, "HOLD", Polled([j EXCEPT !.snap["SADAD"].state = "HOLD"]))

-----------------------------------------------------------------------------
\* rollbackTransaction and rollbackSubtransaction

\* Mutant of RollbackSwitch: a rollback under way is taken to have reached the payment service.
RollbackSwitchAssumes(state) ==
  CASE state = "ABSENT"                       -> "return"
    [] state \in {"COMPLETED", "CANCELLED"}   -> "rollback_mark"
    [] state = "ROLLBACK_PROCESSING"          -> "rollback_settle"
    [] OTHER                                  -> "type_error"

\* Mutant of RollbackSwitch: a rollback under way has no case of its own.
RollbackSwitchForgets(state) ==
  CASE state = "ABSENT"                       -> "return"
    [] state \in {"COMPLETED", "CANCELLED"}   -> "rollback_mark"
    [] OTHER                                  -> "type_error"

\* A state without a case of its own reads the answer of a call that was not made.
RollbackSwitch(state) ==
  CASE state = "ABSENT"                       -> "return"
    [] state \in {"COMPLETED", "CANCELLED"}   -> "rollback_mark"
    [] state = "ROLLBACK_PROCESSING"          -> "rollback_call"
    [] OTHER                                  -> "type_error"

\* What was rolled back and is not cash is asked for again as COD_WALLET.
Recreate(j) ==
  LET cash == j.snap["CASH"]
      wallet == j.snap["WALLET"]
      sadad == j.snap["SADAD"]
      total == wallet.amount + sadad.amount
      currency == IF Exists(cash) THEN cash.currency
                  ELSE IF Exists(wallet) THEN wallet.currency ELSE sadad.currency
  IN  IF total > 0 THEN StartCreate(j, "COD_WALLET", total, currency) ELSE Go(j, "done")

RolledBack(j) ==
  IF Tail(j.todo) = <<>> THEN Recreate(j)
  ELSE [j EXCEPT !.pc = "rollback_read", !.todo = Tail(@), !.on = Head(Tail(j.todo))]

\* Mutant of Adjusted: the wallet is always refunded in full.
AdjustedNever(j) == 0

\* adjustedMoney: cash the wallet was topped up with is not refunded to it once more.  Null goes
\* out as zero, and MoneyDto.toJSON clamps a negative amount to zero.
Adjusted(j) ==
  LET rest == j.snap["WALLET"].amount - j.amount
  IN  IF j.on = "WALLET" /\ j.amount > 0 /\ rest > 0 THEN rest ELSE 0

RollbackRead(p) ==
  LET j == job[p] IN
  /\ j.pc = "rollback_read"
  /\ \E s \in FindByIdempKey(j.on) :
       LET label == RollbackSwitch(s.state) IN
       Become(p, IF label = "return" THEN RolledBack(See(j, s)) ELSE Go(See(j, s), label))
  /\ UNCHANGED <<tbl, pay, adjusted, late, served>>

RollbackMark(p) ==
  /\ job[p].pc = "rollback_mark"
  /\ Mark(p, "ROLLBACK_PROCESSING", Go(job[p], "rollback_call"))

\* The answer's isReleased matters for cash only: amount then holds what was released.
RollbackCall(p) ==
  LET j == job[p]
      released == IF j.on = "CASH" /\ IsReleased(Snapped(j).id) THEN Snapped(j).amount ELSE 0 IN
  /\ j.pc = "rollback_call"
  /\ Call(p, "rollback", Adjusted(j), [j EXCEPT !.pc = "rollback_settle", !.amount = released])
  /\ UNCHANGED <<tbl, served>>

RollbackSettle(p) ==
  LET j == job[p] IN
  /\ j.pc = "rollback_settle"
  /\ RetireRow(Snapped(j).id)
  /\ Become(p, RolledBack(j))
  /\ UNCHANGED <<pay, adjusted, late, served>>

-----------------------------------------------------------------------------
\* paymentNotification: the payment service reports that the payer paid, at least once and with
\* any delay.

\* Mutant of NotifySwitch: every notification is taken at its word.
NotifySwitchAlways(state) == "notify_settle"

NotifySwitch(state) == IF state \in {"AWAITING_PAYMENT", "HOLD_PROCESSING"}
                         THEN "notify_settle" ELSE "returned_false"

WasPaid(i) == tbl[i].pm = "SADAD" /\ pay[i] \notin {"NONE", "PENDING"}

Notify(p, i) ==
  LET j == See([IdleJob EXCEPT !.kind = "notify", !.on = "SADAD"], SnapOf(i)) IN
  /\ AtRest(p)
  /\ served < MaxRequests
  /\ WasPaid(i)
  /\ Become(p, Go(j, NotifySwitch(tbl[i].state)))
  /\ served' = served + 1
  /\ UNCHANGED <<tbl, pay, adjusted, late>>

NotifySettle(p) ==
  /\ job[p].pc = "notify_settle"
  /\ Mark(p, "HOLD", Go(job[p], "done"))

-----------------------------------------------------------------------------
\* The controller hands a request to a worker.

Begin(kind) == [IdleJob EXCEPT !.kind = kind]

\* Rows that say a complete request was here: it alone inserts cash and marks COMPLETE_PROCESSING.
CheckoutBegun ==
  \E i \in Ids : /\ tbl[i].live
                 /\ \/ tbl[i].pm = "CASH"
                    \/ tbl[i].state \in {"COMPLETE_PROCESSING", "COMPLETED", "ROLLBACK_PROCESSING"}

Request(p, j) ==
  /\ AtRest(p)
  /\ served < MaxRequests
  /\ j.kind \in Kinds
  /\ Become(p, j)
  /\ served' = served + 1
  /\ UNCHANGED <<tbl, pay, adjusted, late>>

Create(p) ==
  /\ OneCheckout => ~CheckoutBegun
  /\ \E opm \in OpenMethods, total \in Totals, currency \in OrderCurrencies :
       Request(p, StartCreate(Begin("create"), opm, total, currency))

Cancel(p) ==
  Request(p, [Begin("cancel") EXCEPT !.pc = "cancel_read", !.on = "SADAD",
                                     !.todo = <<"SADAD", "WALLET">>])

Complete(p) ==
  \E total \in FinalTotals, currency \in OrderCurrencies :
    Request(p, [Begin("complete") EXCEPT !.pc = "wallet_read", !.on = "WALLET", !.total = total,
                  !.currency = currency, !.todo = <<"SADAD", "WALLET", "CASH">>])

Rollback(p) ==
  Request(p, [Begin("rollback") EXCEPT !.pc = "rollback_read", !.on = "SADAD",
                                       !.todo = <<"SADAD", "CASH", "WALLET">>])

GetBreakdown(p) == Request(p, Breakdown(Begin("breakdown")))

-----------------------------------------------------------------------------
\* A crash of the replica, or an exception at whatever is awaited: the request is abandoned.
Crash(p) ==
  /\ "crash" \in Faults
  /\ ~AtRest(p)
  /\ Become(p, Go(job[p], "failed"))
  /\ UNCHANGED <<tbl, pay, adjusted, late, served>>

LateCall == \E c \in late : HandleLate(c) /\ UNCHANGED <<tbl, job, served>>

Payer == \E i \in Ids : PayBill(i) /\ UNCHANGED <<tbl, job, served>>

Serve(p) ==
  \/ Create(p) \/ Cancel(p) \/ Complete(p) \/ Rollback(p) \/ GetBreakdown(p)
  \/ \E i \in Ids : Notify(p, i)

Advance(p) ==
  \/ ResolveWallet(p) \/ ResolveSadad(p) \/ CreateRead(p) \/ Insert(p)
  \/ HoldCall(p) \/ HoldSettle(p)
  \/ CancelRead(p) \/ CancelMark(p) \/ CancelCall(p) \/ CancelRetire(p)
  \/ CancelKey(p) \/ CancelWrite(p)
  \/ WalletRead(p) \/ Poll(p) \/ Status(p) \/ PollSettle(p)
  \/ CompleteMark(p) \/ CompleteCall(p) \/ CompleteSettle(p) \/ CashRead(p)
  \/ RollbackRead(p) \/ RollbackMark(p) \/ RollbackCall(p) \/ RollbackSettle(p)
  \/ NotifySettle(p)

TNext == \/ \E p \in Procs : Serve(p) \/ Advance(p) \/ Crash(p)
         \/ LateCall
         \/ Payer

TSpec == TInit /\ [][TNext]_tvars
=============================================================================
