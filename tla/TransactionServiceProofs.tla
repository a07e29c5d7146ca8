---------------------- MODULE TransactionServiceProofs ----------------------
(***************************************************************************)
(* TransactionService keeps TTypeOK, ConfirmedByPayment, RetiredIsUndone   *)
(* and InstantChargedOnce for every set of workers and ids, every fault    *)
(* and every bound: the proofs that IInv is inductive and implies them.    *)
(***************************************************************************)
EXTENDS TransactionServiceInvariant, TLAPS

-----------------------------------------------------------------------------
\* Where a worker goes next, it knows what it needs there: JobOK of each of the functions from a
\* job to a job that TransactionService is written with.  T and P stand for the table and the
\* payments, before a step or after it.

\* The lists of methods requests begin with.
LEMMA TodoTypes ==
  /\ <<>> \in Seq(Methods)
  /\ \A m \in Methods : <<m>> \in Seq(Methods)
  /\ \A m, n \in Methods : <<m, n>> \in Seq(Methods)
  /\ \A m, n, o \in Methods : <<m, n, o>> \in Seq(Methods)
  OBVIOUS

\* An idle worker is a job.
LEMMA IdleJobType == IdleJob \in Job /\ NoSnaps \in [Methods -> Snap]
<1>1. NoSnap \in Snap
  BY DEF NoSnap, Snap, Currencies
<1>2. NoSnaps \in [Methods -> Snap]
  BY <1>1 DEF NoSnaps
<1>3. <<>> \in Seq(Methods)
  BY TodoTypes
<1>4. /\ "idle" \in RestLabels /\ "none" \in RequestKinds \cup {"none", "notify"}
      /\ "COD" \in OrderMethods /\ "PKR" \in Currencies /\ "CASH" \in Methods
  BY DEF RestLabels, RequestKinds, OrderMethods, Currencies, Methods
<1>. QED
  BY <1>2, <1>3, <1>4 DEF IdleJob, Job

\* A worker that ends its request holds nothing.
LEMMA RestOK ==
  ASSUME NEW j \in Job, NEW outcome \in RestLabels, NEW T, NEW P
  PROVE  JobOK(Rest(j, outcome), T, P)
<1> DEFINE r == Rest(j, outcome)
<1>1. r.pc = outcome /\ r.snap = NoSnaps /\ r \in Job
  <2>1. IdleJob \in Job /\ IdleJob.snap = NoSnaps
    BY IdleJobType DEF IdleJob
  <2>. QED
    BY <2>1 DEF Rest, Job
<1>2. SnapsOK(r, T)
  BY <1>1 DEF SnapsOK, SnapOK, NoSnaps, NoSnap, Exists
<1>3. FlowOK(r) /\ AnswerOK(r, P)
  BY <1>1 DEF FlowOK, AnswerOK, RestLabels, LoopLabels, CreateLabels, RollbackLabels,
         CancelLabels, HoldLabels, SettleLabels, RowLabels
<1>. QED
  BY <1>1, <1>2, <1>3 DEF JobOK

\* Only the label changes.
LEMMA PcOK ==
  ASSUME NEW j \in Job, NEW T, SnapsOK(j, T), NEW label \in BusyLabels
  PROVE  LET r == [j EXCEPT !.pc = label]
         IN  /\ r \in Job /\ SnapsOK(r, T) /\ Snapped(r) = Snapped(j)
             /\ r.pc = label /\ r.kind = j.kind /\ r.on = j.on
             /\ r.todo = j.todo /\ r.amount = j.amount /\ r.scrap = j.scrap
             /\ Go(j, label) = r
<1> DEFINE r == [j EXCEPT !.pc = label]
<1>1. label \notin RestLabels
  BY DEF RestLabels, BusyLabels
<1>2. /\ r \in Job /\ r.snap = j.snap
      /\ r.pc = label /\ r.kind = j.kind /\ r.on = j.on
      /\ r.todo = j.todo /\ r.amount = j.amount /\ r.scrap = j.scrap
  BY DEF Job
<1>. QED
  BY <1>1, <1>2 DEF SnapsOK, Snapped, Go

\* What a read returns is known as it was read, and the rest as before.
LEMMA SeeOK ==
  ASSUME NEW j \in Job, NEW T, SnapsOK(j, T), NEW s \in Snap, SnapOK(s, j.on, T)
  PROVE  /\ See(j, s) \in Job
         /\ SnapsOK(See(j, s), T)
         /\ Snapped(See(j, s)) = s
         /\ See(j, s).pc = j.pc /\ See(j, s).kind = j.kind /\ See(j, s).on = j.on
         /\ See(j, s).todo = j.todo /\ See(j, s).amount = j.amount
         /\ See(j, s).total = j.total /\ See(j, s).currency = j.currency
         /\ See(j, s).opm = j.opm /\ See(j, s).scrap = j.scrap
  BY DEF See, Snapped, SnapsOK, Job

\* The end of create, complete and breakdown requests: the SADAD row is polled.
LEMMA BreakdownOK ==
  ASSUME NEW j \in Job, NEW T, NEW P, SnapsOK(j, T)
  PROVE  JobOK(Breakdown(j), T, P)
<1> DEFINE r == Breakdown(j)
<1>1. r \in Job /\ r.pc = "poll" /\ r.on = "SADAD" /\ r.snap = j.snap
  <2>1. "poll" \in BusyLabels /\ "SADAD" \in Methods /\ <<>> \in Seq(Methods)
    BY TodoTypes DEF BusyLabels, Methods
  <2>. QED
    BY <2>1 DEF Breakdown, Job
<1>2. SnapsOK(r, T)
  BY <1>1 DEF SnapsOK
<1>3. FlowOK(r) /\ AnswerOK(r, P)
  BY <1>1 DEF FlowOK, AnswerOK, LoopLabels, CreateLabels, RollbackLabels,
         CancelLabels, HoldLabels, SettleLabels, RowLabels
<1>. QED
  BY <1>1, <1>2, <1>3 DEF JobOK

\* The next method of the loop of createTransaction.
LEMMA NextMethodOK ==
  ASSUME NEW j \in Job, NEW T, NEW P, SnapsOK(j, T), j.kind = "create"
  PROVE  JobOK(NextMethod(j), T, P)
<1> DEFINE r == NextMethod(j)
<1>1. CASE j.todo = <<>>
  BY <1>1, BreakdownOK DEF NextMethod
<1>2. CASE j.todo # <<>>
  <2>1. /\ r \in Job /\ r.snap = j.snap /\ r.todo # <<>> /\ r.kind = "create"
        /\ \/ r.pc = "resolve"
           \/ r.pc = "cancel_read" /\ r.on = "SADAD"
    BY <1>2 DEF NextMethod, Job, BusyLabels, Methods
  <2>2. SnapsOK(r, T)
    BY <2>1 DEF SnapsOK
  <2>3. FlowOK(r) /\ AnswerOK(r, P)
    BY <2>1 DEF FlowOK, AnswerOK, LoopLabels, CreateLabels, RollbackLabels,
           CancelLabels, HoldLabels, SettleLabels, RowLabels
  <2>. QED
    BY <2>1, <2>2, <2>3 DEF JobOK
<1>. QED
  BY <1>1, <1>2

\* createTransaction begins, for a client or for rollbackTransaction.
LEMMA StartCreateOK ==
  ASSUME NEW j \in Job, NEW T, NEW P, NEW opm \in OrderMethods, NEW total \in Nat,
         NEW currency \in Currencies
  PROVE  JobOK(StartCreate(j, opm, total, currency), T, P)
<1> DEFINE r == [j EXCEPT !.kind = "create", !.opm = opm, !.total = total, !.currency = currency,
                          !.todo = PaymentMethodsOf(opm), !.snap = NoSnaps, !.amount = 0,
                          !.scrap = FALSE]
<1>1. PaymentMethodsOf(opm) \in Seq(Methods)
  <2>1. "CASH" \in Methods /\ "WALLET" \in Methods /\ "SADAD" \in Methods
    BY DEF Methods
  <2>. QED
    BY <2>1, TodoTypes DEF PaymentMethodsOf, OrderMethods
<1>2. "create" \in RequestKinds /\ 0 \in Int
  BY DEF RequestKinds
<1>3. r \in Job /\ r.snap = NoSnaps /\ r.kind = "create"
  BY <1>1, <1>2, IdleJobType DEF Job
<1>4. SnapsOK(r, T)
  BY <1>3 DEF SnapsOK, SnapOK, NoSnaps, NoSnap, Exists
<1>. QED
  BY <1>3, <1>4, NextMethodOK DEF StartCreate

\* createSubtransaction returned.
LEMMA CreatedOK ==
  ASSUME NEW j \in Job, NEW T, NEW P, SnapsOK(j, T), j.todo # <<>>, j.kind = "create"
  PROVE  JobOK(Created(j), T, P)
<1> DEFINE r == [j EXCEPT !.todo = Tail(@)]
<1>1. r \in Job /\ r.snap = j.snap /\ r.kind = "create"
  <2>1. j.todo \in Seq(Methods)
    BY DEF Job
  <2>2. Tail(j.todo) \in Seq(Methods)
    BY <2>1
  <2>. QED
    BY <2>2 DEF Job
<1>2. SnapsOK(r, T)
  BY <1>1 DEF SnapsOK
<1>. QED
  BY <1>1, <1>2, NextMethodOK DEF Created
-----------------------------------------------------------------------------
\* Settlement: each continuation of completeTransaction finds the row it needs in its snapshot.

\* completeSubtransaction acts on a row, never on one that was not found.
LEMMA CompleteSwitchOK ==
  ASSUME NEW state, CompleteSwitch(state) # "return"
  PROVE  /\ state # "ABSENT"
         /\ CompleteSwitch(state) \in {"complete_mark", "complete_call", "failed"}
  BY DEF CompleteSwitch

\* A worker about to complete the subtransaction in its hands, or to fail.
LEMMA GoCompleteOK ==
  ASSUME NEW j \in Job, NEW T, NEW P, SnapsOK(j, T), j.kind = "complete",
         Exists(Snapped(j)), NEW label \in {"complete_mark", "complete_call", "failed"}
  PROVE  JobOK(Go(j, label), T, P)
<1>1. CASE label = "failed"
  BY <1>1, RestOK DEF Go, RestLabels
<1>2. CASE label # "failed"
  <2> DEFINE r == [j EXCEPT !.pc = label]
  <2>1. Go(j, label) = r
    BY <1>2 DEF Go, RestLabels
  <2>2. r \in Job /\ r.pc = label /\ r.snap = j.snap /\ r.on = j.on /\ r.kind = j.kind
    BY <1>2 DEF Job, BusyLabels
  <2>3. SnapsOK(r, T)
    BY <2>2 DEF SnapsOK
  <2>4. FlowOK(r) /\ AnswerOK(r, P)
    BY <1>2, <2>2 DEF FlowOK, AnswerOK, Snapped, LoopLabels, CancelLabels, HoldLabels,
                      SettleLabels, RowLabels, CreateLabels, RollbackLabels
  <2>. QED
    BY <2>1, <2>2, <2>3, <2>4 DEF JobOK
<1>. QED
  BY <1>1, <1>2

\* On to the cash row, as last read.
LEMMA ToCashOK ==
  ASSUME NEW j \in Job, NEW T, NEW P, SnapsOK(j, T), j.kind = "complete"
  PROVE  JobOK(ToCash(j), T, P)
<1> DEFINE k == [j EXCEPT !.on = "CASH"]
           label == CompleteSwitch(Snapped(k).state)
<1>1. k \in Job /\ k.snap = j.snap /\ k.kind = "complete"
  BY DEF Job, Methods
<1>2. SnapsOK(k, T)
  BY <1>1 DEF SnapsOK
<1>3. ToCash(j) = IF label = "return" THEN Breakdown(k) ELSE Go(k, label)
  BY DEF ToCash
<1>4. CASE label = "return"
  BY <1>1, <1>2, <1>3, <1>4, BreakdownOK
<1>5. CASE label # "return"
  BY <1>1, <1>2, <1>3, <1>5, CompleteSwitchOK, GoCompleteOK DEF Exists
<1>. QED
  BY <1>4, <1>5

\* On to the wallet row, as last read.
LEMMA ToWalletOK ==
  ASSUME NEW j \in Job, NEW T, NEW P, SnapsOK(j, T), j.kind = "complete"
  PROVE  JobOK(ToWallet(j), T, P)
<1> DEFINE k == [j EXCEPT !.on = "WALLET"]
           label == CompleteSwitch(Snapped(k).state)
<1>1. k \in Job /\ k.snap = j.snap /\ k.kind = "complete"
  BY DEF Job, Methods
<1>2. SnapsOK(k, T)
  BY <1>1 DEF SnapsOK
<1>3. ToWallet(j) = IF label = "return" THEN ToCash(k) ELSE Go(k, label)
  BY DEF ToWallet
<1>4. CASE label = "return"
  BY <1>1, <1>2, <1>3, <1>4, ToCashOK
<1>5. CASE label # "return"
  BY <1>1, <1>2, <1>3, <1>5, CompleteSwitchOK, GoCompleteOK DEF Exists
<1>. QED
  BY <1>4, <1>5

\* On to reading the cash row.
LEMMA ToCashRowOK ==
  ASSUME NEW j \in Job, NEW T, NEW P, SnapsOK(j, T), j.kind = "complete"
  PROVE  JobOK(ToCashRow(j), T, P)
<1> DEFINE r == ToCashRow(j)
<1>1. /\ r \in Job /\ r.snap = j.snap /\ r.kind = "complete"
      /\ r.pc = "cash_read" /\ r.on = "CASH"
  BY DEF ToCashRow, Job, BusyLabels, Methods
<1>2. SnapsOK(r, T)
  BY <1>1 DEF SnapsOK
<1>3. FlowOK(r) /\ AnswerOK(r, P)
  BY <1>1 DEF FlowOK, AnswerOK, LoopLabels, CreateLabels, RollbackLabels,
         CancelLabels, HoldLabels, SettleLabels, RowLabels
<1>. QED
  BY <1>1, <1>2, <1>3 DEF JobOK

\* SADAD settled what the wallet leaves.
LEMMA SadadSettledOK ==
  ASSUME NEW j \in Job, NEW T, NEW P, SnapsOK(j, T), j.kind = "complete"
  PROVE  JobOK(SadadSettled(j), T, P)
<1> DEFINE k == [j EXCEPT !.amount = 0]
<1>1. k \in Job /\ k.snap = j.snap /\ k.kind = "complete"
  BY DEF Job
<1>2. SnapsOK(k, T)
  BY <1>1 DEF SnapsOK
<1>. QED
  BY <1>1, <1>2, ToCashRowOK DEF SadadSettled

\* On to the SADAD row, as last polled, or to TOTAL_AMOUNT_MISMATCH.
LEMMA ToSadadOK ==
  ASSUME NEW j \in Job, NEW T, NEW P, SnapsOK(j, T), j.kind = "complete"
  PROVE  JobOK(ToSadad(j), T, P)
<1> DEFINE k == [j EXCEPT !.on = "SADAD", !.amount = @ - j.snap["SADAD"].amount]
           label == CompleteSwitch(Snapped(k).state)
<1>1. k \in Job /\ k.snap = j.snap /\ k.kind = "complete"
  <2>1. "SADAD" \in Methods
    BY DEF Methods
  <2>2. j.amount - j.snap["SADAD"].amount \in Int
    BY <2>1 DEF Job, Snap
  <2>. QED
    BY <2>1, <2>2 DEF Job
<1>2. SnapsOK(k, T)
  BY <1>1 DEF SnapsOK
<1>3. CASE ~Exists(Snapped(k))
  BY <1>3, ToCashRowOK DEF ToSadad
<1>4. CASE Exists(Snapped(k)) /\ ~AlmostZero(k.amount)
  <2>1. ToSadad(j) = Rest(k, "failed")
    BY <1>4 DEF ToSadad, Go, RestLabels
  <2>. QED
    BY <1>1, <2>1, RestOK DEF RestLabels
<1>5. CASE Exists(Snapped(k)) /\ AlmostZero(k.amount) /\ label = "return"
  BY <1>1, <1>2, <1>5, SadadSettledOK DEF ToSadad
<1>6. CASE Exists(Snapped(k)) /\ AlmostZero(k.amount) /\ label # "return"
  <2>1. ToSadad(j) = Go(k, label)
    BY <1>6 DEF ToSadad
  <2>2. label \in {"complete_mark", "complete_call", "failed"}
    BY <1>6, CompleteSwitchOK
  <2>. QED
    BY <1>1, <1>2, <1>6, <2>1, <2>2, GoCompleteOK
<1>. QED
  BY <1>3, <1>4, <1>5, <1>6

\* A method is settled, on to the next.
LEMMA SettledOK ==
  ASSUME NEW j \in Job, NEW T, NEW P, SnapsOK(j, T), j.kind = "complete"
  PROVE  JobOK(Settled(j), T, P)
<1>1. j.on \in {"CASH", "WALLET", "SADAD"}
  BY DEF Job, Methods
<1>. QED
  BY <1>1, SadadSettledOK, ToCashOK, BreakdownOK DEF Settled

-----------------------------------------------------------------------------
\* Holding, cancelling, polling and rolling back.

\* The held row is in the snapshot with its new state.
LEMMA AfterHoldOK ==
  ASSUME NEW j \in Job, NEW T, NEW P, SnapsOK(j, T), Exists(Snapped(j)), NEW state \in States,
         j.kind = "create" => j.todo # <<>>,
         j.kind # "create" => j.kind = "complete"
  PROVE  JobOK(AfterHold(j, state), T, P)
<1>1. CASE j.kind = "create"
  BY <1>1, CreatedOK DEF AfterHold
<1>2. CASE j.kind = "complete"
  <2> DEFINE r == [j EXCEPT !.snap[j.on].state = state]
  <2>1. [Snapped(j) EXCEPT !.state = state] \in Snap
    <3>1. Snapped(j) \in Snap
      BY DEF Job, Snapped
    <3>. QED
      BY <3>1 DEF Snap
  <2>2. r = [j EXCEPT !.snap = [j.snap EXCEPT ![j.on] = [Snapped(j) EXCEPT !.state = state]]]
    BY DEF Job, Snapped
  <2>3. r \in Job /\ r.kind = "complete"
    BY <1>2, <2>1, <2>2 DEF Job
  <2>4. SnapsOK(r, T)
    BY <2>1, <2>2 DEF SnapsOK, SnapOK, Exists, Snapped, Job, Snap
  <2>. QED
    BY <1>2, <2>3, <2>4, ToWalletOK DEF AfterHold
<1>. QED
  BY <1>1, <1>2

\* A row about to be held, or one of nothing, with which the request goes on.
LEMMA ToHoldOK ==
  ASSUME NEW j \in Job, NEW T, NEW P, SnapsOK(j, T), Exists(Snapped(j)),
         j.kind = "create" => j.todo # <<>>,
         j.kind # "create" => j.kind = "complete"
  PROVE  JobOK(ToHold(j), T, P)
<1>1. Snapped(j) \in Snap /\ Snapped(j).amount \in Nat /\ Snapped(j).state \in States
  <2>1. Snapped(j) \in Snap
    BY DEF Job, Snapped
  <2>. QED
    BY <2>1 DEF Snap, Exists
<1>2. CASE Snapped(j).amount <= 0
  <2>1. ToHold(j) = AfterHold(j, Snapped(j).state)
    BY <1>2 DEF ToHold
  <2>. QED
    BY <1>1, <2>1, AfterHoldOK
<1>3. CASE ~(Snapped(j).amount <= 0)
  <2> DEFINE r == [j EXCEPT !.pc = "hold"]
  <2>1. ToHold(j) = r
    BY <1>3 DEF ToHold
  <2>2. /\ r \in Job /\ SnapsOK(r, T) /\ Snapped(r) = Snapped(j) /\ r.pc = "hold"
        /\ r.kind = j.kind /\ r.todo = j.todo
    <3>1. "hold" \in BusyLabels
      BY DEF BusyLabels
    <3>. QED
      BY <3>1, PcOK
  <2>3. Snapped(r).amount > 0
    BY <1>1, <1>3, <2>2
  <2>4. FlowOK(r) /\ AnswerOK(r, P)
    BY <2>2, <2>3 DEF FlowOK, AnswerOK, LoopLabels, CreateLabels, RollbackLabels,
           CancelLabels, HoldLabels, SettleLabels, RowLabels
  <2>. QED
    BY <2>1, <2>2, <2>4 DEF JobOK
<1>. QED
  BY <1>2, <1>3

\* cancelSubtransaction returned to createTransaction or cancelTransaction.
LEMMA CancelledOK ==
  ASSUME NEW j \in Job, NEW T, NEW P, SnapsOK(j, T), j.todo # <<>>,
         j.kind = "create" => j.on = "SADAD"
  PROVE  JobOK(Cancelled(j), T, P)
<1> DEFINE r == Cancelled(j)
<1>1. CASE j.kind = "create"
  <2>1. /\ r \in Job /\ r.snap = j.snap /\ r.todo # <<>> /\ r.kind = "create"
        /\ r.pc \in {"sadad_amount", "create_read"}
        /\ r.pc = "create_read" => r.scrap = FALSE
    <3>1. "CASH" \in Methods /\ {"sadad_amount", "create_read"} \subseteq BusyLabels
      BY DEF Methods, BusyLabels
    <3>2. CASE Head(j.todo) = "SADAD"
      BY <1>1, <3>1, <3>2 DEF Cancelled, Job
    <3>3. CASE Head(j.todo) # "SADAD"
      <4>1. r = [j EXCEPT !.pc = "create_read", !.on = "CASH", !.amount = 0, !.scrap = FALSE]
        BY <1>1, <3>3 DEF Cancelled
      <4>2. "create_read" \in BusyLabels /\ 0 \in Int
        BY <3>1
      <4>3. r \in Job
        BY <3>1, <4>1, <4>2 DEF Job
      <4>4. /\ r.snap = j.snap /\ r.todo = j.todo /\ r.kind = j.kind
            /\ r.pc = "create_read" /\ r.scrap = FALSE
        BY <4>1 DEF Job
      <4>. QED
        BY <1>1, <4>3, <4>4
    <3>. QED
      BY <3>2, <3>3
  <2>2. SnapsOK(r, T)
    BY <2>1 DEF SnapsOK
  <2>3. FlowOK(r) /\ AnswerOK(r, P)
    BY <2>1 DEF FlowOK, AnswerOK, LoopLabels, CreateLabels, RollbackLabels,
           CancelLabels, HoldLabels, SettleLabels, RowLabels
  <2>. QED
    BY <2>1, <2>2, <2>3 DEF JobOK
<1>2. CASE j.kind # "create" /\ Tail(j.todo) = <<>>
  BY <1>2, RestOK DEF Cancelled, Go, RestLabels
<1>3. CASE j.kind # "create" /\ Tail(j.todo) # <<>>
  <2>1. Tail(j.todo) \in Seq(Methods)
    BY DEF Job
  <2>2. Head(Tail(j.todo)) \in Methods
    BY <1>3, <2>1
  <2>3. /\ r \in Job /\ r.snap = j.snap /\ r.todo # <<>> /\ r.kind # "create"
        /\ r.pc = "cancel_read"
    BY <1>3, <2>1, <2>2 DEF Cancelled, Job, BusyLabels
  <2>4. SnapsOK(r, T)
    BY <2>3 DEF SnapsOK
  <2>5. FlowOK(r) /\ AnswerOK(r, P)
    BY <2>3 DEF FlowOK, AnswerOK, LoopLabels, CreateLabels, RollbackLabels,
           CancelLabels, HoldLabels, SettleLabels, RowLabels
  <2>. QED
    BY <2>3, <2>4, <2>5 DEF JobOK
<1>. QED
  BY <1>1, <1>2, <1>3

\* getSubtransactions returned.
LEMMA PolledOK ==
  ASSUME NEW j \in Job, NEW T, NEW P, SnapsOK(j, T)
  PROVE  JobOK(Polled(j), T, P)
<1>1. CASE j.kind = "complete" /\ j.todo # <<>>
  <2> DEFINE k == [j EXCEPT !.todo = <<>>]
  <2>1. k \in Job /\ k.snap = j.snap /\ k.kind = "complete"
    BY <1>1, TodoTypes DEF Job
  <2>2. SnapsOK(k, T)
    BY <2>1 DEF SnapsOK
  <2>. QED
    BY <1>1, <2>1, <2>2, ToSadadOK DEF Polled
<1>2. CASE ~(j.kind = "complete" /\ j.todo # <<>>)
  BY <1>2, RestOK DEF Polled, Go, RestLabels
<1>. QED
  BY <1>1, <1>2

\* rollbackTransaction ends, or creates anew what was not cash.
LEMMA RecreateOK ==
  ASSUME NEW j \in Job, NEW T, NEW P, SnapsOK(j, T)
  PROVE  JobOK(Recreate(j), T, P)
<1> DEFINE cash == j.snap["CASH"]
           wallet == j.snap["WALLET"]
           sadad == j.snap["SADAD"]
           total == wallet.amount + sadad.amount
           currency == IF Exists(cash) THEN cash.currency
                       ELSE IF Exists(wallet) THEN wallet.currency ELSE sadad.currency
<1>1. cash \in Snap /\ wallet \in Snap /\ sadad \in Snap
  BY DEF Job, Methods
<1>2. total \in Nat /\ currency \in Currencies
  BY <1>1 DEF Snap
<1>3. Recreate(j) = IF total > 0 THEN StartCreate(j, "COD_WALLET", total, currency)
                    ELSE Rest(j, "done")
  BY DEF Recreate, Go, RestLabels
<1>4. "COD_WALLET" \in OrderMethods /\ "done" \in RestLabels
  BY DEF OrderMethods, RestLabels
<1>. QED
  BY <1>2, <1>3, <1>4, StartCreateOK, RestOK

\* rollbackSubtransaction returned.
LEMMA RolledBackOK ==
  ASSUME NEW j \in Job, NEW T, NEW P, SnapsOK(j, T), j.todo # <<>>
  PROVE  JobOK(RolledBack(j), T, P)
<1> DEFINE r == RolledBack(j)
<1>1. CASE Tail(j.todo) = <<>>
  BY <1>1, RecreateOK DEF RolledBack
<1>2. CASE Tail(j.todo) # <<>>
  <2>1. Tail(j.todo) \in Seq(Methods)
    BY DEF Job
  <2>2. Head(Tail(j.todo)) \in Methods
    BY <1>2, <2>1
  <2>3. r \in Job /\ r.snap = j.snap /\ r.todo # <<>> /\ r.pc = "rollback_read"
    BY <1>2, <2>1, <2>2 DEF RolledBack, Job, BusyLabels
  <2>4. SnapsOK(r, T)
    BY <2>3 DEF SnapsOK
  <2>5. FlowOK(r) /\ AnswerOK(r, P)
    BY <2>3 DEF FlowOK, AnswerOK, LoopLabels, CreateLabels, RollbackLabels,
           CancelLabels, HoldLabels, SettleLabels, RowLabels
  <2>. QED
    BY <2>3, <2>4, <2>5 DEF JobOK
<1>. QED
  BY <1>1, <1>2

-----------------------------------------------------------------------------
\* Payments

\* A call moves a payment forward only: no milestone is left by it.
LEMMA ToAdvances ==
  ASSUME NEW op \in Ops, NEW state \in From(op)
  PROVE  /\ To(op, state) \in PayStates
         /\ \A M \in Milestones : state \in M => To(op, state) \in M
  BY DEF Ops, From, To, PayStates, Milestones, Begun, Collected, CalledOff, Taken, Undone

\* What a worker knows stays true while others move the table and the payments on.
LEMMA JobOKStable ==
  ASSUME NEW T, NEW P, NEW T2, NEW P2, NEW j, JobOK(j, T, P), Later(T, P, T2, P2)
  PROVE  JobOK(j, T2, P2)
<1>1. SnapsOK(j, T2)
  BY DEF JobOK, SnapsOK, SnapOK, Later
<1>2. AnswerOK(j, P2)
  <2>1. ASSUME j.pc \in RowLabels
        PROVE  Snapped(j).id \in Ids
    BY <2>1 DEF JobOK, FlowOK, SnapsOK, SnapOK, Snapped, Job
  <2>2. ASSUME NEW M \in Milestones, j.pc \in RowLabels, P[Snapped(j).id] \in M
        PROVE  P2[Snapped(j).id] \in M
    BY <2>1, <2>2 DEF Later
  <2>. QED
    BY <2>2 DEF JobOK, AnswerOK, RowLabels, HoldLabels, CancelLabels, RollbackLabels,
                  Milestones
<1>. QED
  BY <1>1, <1>2 DEF JobOK

\* The service handles a call for a row of the table.
LEMMA HandleLedger ==
  ASSUME NEW c \in Calls, LedgerOK(tbl, pay, adjusted, late), CallOK(tbl, c),
         Handle(c), tbl' = tbl, late' \subseteq late \cup {c}
  PROVE  /\ LedgerOK(tbl', pay', adjusted', late')
         /\ Later(tbl, pay, tbl', pay')
         /\ c.id \in Ids
         /\ pay[c.id] \in From(c.op) => pay'[c.id] = To(c.op, pay[c.id])
         /\ pay[c.id] \notin From(c.op) => pay'[c.id] = pay[c.id]
<1>. USE DEF LedgerOK
<1>1. c.op \in Ops /\ c.id \in Ids /\ c.adjust \in Nat
  BY DEF Calls
<1>2. /\ pay' \in [Ids -> PayStates]
      /\ adjusted' \in [Ids -> Nat]
  BY <1>1, ToAdvances DEF Handle
<1>3. /\ \A i \in Ids \ {c.id} : pay'[i] = pay[i]
      /\ pay[c.id] \in From(c.op) => pay'[c.id] = To(c.op, pay[c.id])
      /\ pay[c.id] \notin From(c.op) => pay'[c.id] = pay[c.id]
  BY <1>1 DEF Handle
<1>4. \A i \in Ids : \A M \in Milestones : pay[i] \in M => pay'[i] \in M
  BY <1>1, <1>3, ToAdvances
<1>5. Later(tbl, pay, tbl', pay')
  BY <1>4 DEF Later
<1>6. \A i \in Ids : RowOK(tbl'[i], pay'[i])
  <2>1. \A i \in Ids : pay'[i] # "NONE" => tbl'[i].state # "ABSENT" /\ tbl'[i].amount > 0
    <3>1. pay[c.id] # "NONE" \/ (pay[c.id] \in From(c.op) => c.op \in {"hold", "hold3P"})
      BY <1>1 DEF From, Ops
    <3>. QED
      BY <1>1, <1>3, <3>1 DEF RowOK, CallOK
  <2>2. \A i \in Ids : RowConfirmed(tbl'[i], pay'[i]) /\ RetiredUndone(tbl'[i], pay'[i])
    BY <1>4 DEF RowOK, RowConfirmed, RetiredUndone, Milestones
  <2>. QED
    BY <2>1, <2>2 DEF RowOK
<1>7. KeysUnique(tbl')
  BY DEF KeysUnique
<1>8. late' \subseteq Calls /\ \A d \in late' : CallOK(tbl', d)
  BY DEF CallOK
<1>. QED
  BY <1>1, <1>2, <1>3, <1>5, <1>6, <1>7, <1>8
-----------------------------------------------------------------------------
\* Statements on the table

\* A worker writes a state its payment has reached.
LEMMA SetStateLedger ==
  ASSUME NEW i \in Ids, NEW state \in States, LedgerOK(tbl, pay, adjusted, late),
         tbl[i].state # "ABSENT", SetState(i, state), UNCHANGED <<pay, adjusted, late>>,
         state = "HOLD" => pay[i] \in Collected,
         state = "AWAITING_PAYMENT" => pay[i] \in Begun,
         state = "COMPLETED" => pay[i] \in Taken,
         state \notin {"CANCELLED", "ROLLBACKED"}
  PROVE  LedgerOK(tbl', pay', adjusted', late') /\ Later(tbl, pay, tbl', pay')
<1>. USE DEF LedgerOK
<1>1. /\ tbl' \in [Ids -> Row]
      /\ \A k \in Ids \ {i} : tbl'[k] = tbl[k]
      /\ tbl'[i] = [tbl[i] EXCEPT !.state = state]
  BY DEF SetState, Row
<1>2. /\ tbl'[i].state = state /\ state # "ABSENT"
      /\ tbl'[i].pm = tbl[i].pm /\ tbl'[i].live = tbl[i].live /\ tbl'[i].amount = tbl[i].amount
  BY <1>1 DEF Row, States
<1>3. \A k \in Ids : RowOK(tbl'[k], pay'[k])
  BY <1>1, <1>2 DEF RowOK, RowConfirmed, RetiredUndone
<1>4. \A k \in Ids : IsLive(tbl'[k]) <=> IsLive(tbl[k])
  BY <1>1, <1>2, Zenon DEF IsLive
<1>5. KeysUnique(tbl')
  <2>1. \A k \in Ids : tbl'[k].pm = tbl[k].pm
    BY <1>1, <1>2
  <2>. QED
    BY <1>4, <2>1 DEF KeysUnique
<1>6. \A c \in late : CallOK(tbl', c)
  BY <1>1, <1>2 DEF Calls, CallOK
<1>7. Later(tbl, pay, tbl', pay')
  BY <1>1, <1>2 DEF Later
<1>. QED
  BY <1>1, <1>3, <1>5, <1>6, <1>7

\* A row goes to its end state: rolled back, or of a third party.
LEMMA RetireLedger ==
  ASSUME NEW i \in Ids, LedgerOK(tbl, pay, adjusted, late), tbl[i].state # "ABSENT",
         RetireRow(i), UNCHANGED <<pay, adjusted, late>>,
         IsInstantPayment(tbl[i].pm) => pay[i] \in Undone
  PROVE  LedgerOK(tbl', pay', adjusted', late') /\ Later(tbl, pay, tbl', pay')
<1>. USE DEF LedgerOK
<1>1. /\ [tbl[i] EXCEPT !.state = "ROLLBACKED", !.live = FALSE] \in Row
      /\ tbl' = [tbl EXCEPT ![i] = [tbl[i] EXCEPT !.state = "ROLLBACKED", !.live = FALSE]]
  <2>1. tbl[i] \in Row
    OBVIOUS
  <2>2. [tbl[i] EXCEPT !.state = "ROLLBACKED", !.live = FALSE] \in Row
    BY <2>1 DEF Row, States
  <2>. QED
    BY <2>2 DEF RetireRow
<1>2. /\ tbl'[i].state = "ROLLBACKED"
      /\ tbl'[i].pm = tbl[i].pm /\ tbl'[i].live = FALSE /\ tbl'[i].amount = tbl[i].amount
  BY <1>1 DEF Row
<1>3. \A k \in Ids : RowOK(tbl'[k], pay'[k])
  BY <1>1, <1>2 DEF RowOK, RowConfirmed, RetiredUndone
<1>4. KeysUnique(tbl')
  BY <1>1, <1>2 DEF KeysUnique, IsLive
<1>5. \A c \in late : CallOK(tbl', c)
  BY <1>1, <1>2 DEF Calls, CallOK
<1>6. Later(tbl, pay, tbl', pay')
  BY <1>1, <1>2 DEF Later
<1>. QED
  BY <1>1, <1>3, <1>4, <1>5, <1>6

\* A row is inserted where its key is free.
LEMMA CreateRowLedger ==
  ASSUME NEW i \in Ids, NEW pm \in Methods, NEW amount \in Nat,
         NEW currency \in Currencies, LedgerOK(tbl, pay, adjusted, late),
         CreateRow(i, pm, amount, currency), UNCHANGED <<pay, adjusted, late>>
  PROVE  /\ LedgerOK(tbl', pay', adjusted', late') /\ Later(tbl, pay, tbl', pay')
         /\ tbl'[i].state = "HOLD_PROCESSING" /\ tbl'[i].pm = pm /\ tbl'[i].amount = amount
<1>. USE DEF LedgerOK
<1>1. /\ tbl' \in [Ids -> Row]
      /\ \A k \in Ids \ {i} : tbl'[k] = tbl[k]
      /\ tbl[i].state = "ABSENT"
      /\ tbl'[i].state = "HOLD_PROCESSING" /\ tbl'[i].pm = pm /\ tbl'[i].live = TRUE
      /\ tbl'[i].amount = amount
  BY DEF CreateRow, Row, States, Stored
<1>2. \A k \in Ids : ~(IsLive(tbl[k]) /\ tbl[k].pm = pm)
  BY DEF CreateRow, KeyFree, LiveIds, Stored, IsLive
<1>3. \A k \in Ids : RowOK(tbl'[k], pay'[k])
  BY <1>1 DEF RowOK, RowConfirmed, RetiredUndone
<1>4. KeysUnique(tbl')
  BY <1>1, <1>2 DEF KeysUnique, IsLive
<1>5. \A c \in late : CallOK(tbl', c)
  BY <1>1 DEF Calls, CallOK, Stored
<1>6. Later(tbl, pay, tbl', pay')
  BY <1>1 DEF Later
<1>. QED
  BY <1>1, <1>3, <1>4, <1>5, <1>6

\* The cancelled state is written with the key read before.
LEMMA CancelledLedger ==
  ASSUME NEW i \in Ids, NEW live \in BOOLEAN, LedgerOK(tbl, pay, adjusted, late),
         tbl[i].state # "ABSENT", WriteCancelled(i, live), UNCHANGED <<pay, adjusted, late>>,
         pay[i] \in CalledOff,
         (~live /\ IsInstantPayment(tbl[i].pm)) => pay[i] \in Undone
  PROVE  LedgerOK(tbl', pay', adjusted', late') /\ Later(tbl, pay, tbl', pay')
<1>. USE DEF LedgerOK
<1>1. /\ [tbl[i] EXCEPT !.state = "CANCELLED", !.live = live] \in Row
      /\ tbl' = [tbl EXCEPT ![i] = [tbl[i] EXCEPT !.state = "CANCELLED", !.live = live]]
  <2>1. tbl[i] \in Row
    OBVIOUS
  <2>2. [tbl[i] EXCEPT !.state = "CANCELLED", !.live = live] \in Row
    BY <2>1 DEF Row, States
  <2>. QED
    BY <2>2 DEF WriteCancelled
<1>2. /\ tbl'[i].state = "CANCELLED"
      /\ tbl'[i].pm = tbl[i].pm /\ tbl'[i].live = live /\ tbl'[i].amount = tbl[i].amount
  BY <1>1 DEF Row
<1>3. \A k \in Ids : RowOK(tbl'[k], pay'[k])
  BY <1>1, <1>2 DEF RowOK, RowConfirmed, RetiredUndone
<1>4. live => \A k \in Ids : (IsLive(tbl[k]) /\ tbl[k].pm = tbl[i].pm) => k = i
  BY DEF WriteCancelled, CanWriteBack, LiveIds, Stored, IsLive
<1>5. KeysUnique(tbl')
  <2>1. \A k \in Ids \ {i} : tbl'[k] = tbl[k]
    BY <1>1
  <2>2. IsLive(tbl'[i]) => live
    BY <1>2, Zenon DEF IsLive
  <2>. QED
    BY <1>2, <1>4, <2>1, <2>2 DEF KeysUnique
<1>6. \A c \in late : CallOK(tbl', c)
  BY <1>1, <1>2 DEF Calls, CallOK
<1>7. Later(tbl, pay, tbl', pay')
  BY <1>1, <1>2 DEF Later
<1>. QED
  BY <1>1, <1>3, <1>5, <1>6, <1>7

-----------------------------------------------------------------------------
\* Steps of a worker

\* What the invariant says of one worker.
LEMMA WorkerKnows ==
  ASSUME IInv, NEW p \in Procs
  PROVE  /\ job[p] \in Job /\ SnapsOK(job[p], tbl) /\ FlowOK(job[p]) /\ AnswerOK(job[p], pay)
         /\ LedgerOK(tbl, pay, adjusted, late)
         /\ job[p].on \in Methods /\ job[p].todo \in Seq(Methods) /\ job[p].amount \in Int
         /\ job[p].total \in Nat /\ job[p].currency \in Currencies
         /\ job[p].pc \in RowLabels => /\ Snapped(job[p]).id \in Ids
                                       /\ tbl[Snapped(job[p]).id].state # "ABSENT"
                                       /\ tbl[Snapped(job[p]).id].pm = job[p].on
                                       /\ Snapped(job[p]) \in Snap
         /\ job[p].pc \in HoldLabels => tbl[Snapped(job[p]).id].amount > 0
<1>1. job[p] \in Job /\ JobOK(job[p], tbl, pay) /\ LedgerOK(tbl, pay, adjusted, late)
  BY DEF IInv
<1>2. /\ SnapsOK(job[p], tbl) /\ FlowOK(job[p]) /\ AnswerOK(job[p], pay)
      /\ job[p].on \in Methods /\ job[p].todo \in Seq(Methods) /\ job[p].amount \in Int
      /\ job[p].total \in Nat /\ job[p].currency \in Currencies
  BY <1>1 DEF JobOK, Job
<1>3. ASSUME job[p].pc \in RowLabels
      PROVE  /\ Snapped(job[p]).id \in Ids
             /\ tbl[Snapped(job[p]).id].state # "ABSENT"
             /\ tbl[Snapped(job[p]).id].pm = job[p].on
             /\ tbl[Snapped(job[p]).id].amount = Snapped(job[p]).amount
             /\ Snapped(job[p]) \in Snap
  BY <1>1, <1>2, <1>3 DEF Job, FlowOK, SnapsOK, SnapOK, Snapped
<1>4. ASSUME job[p].pc \in HoldLabels
      PROVE  tbl[Snapped(job[p]).id].amount > 0
  <2>1. job[p].pc \in RowLabels
    BY <1>4 DEF RowLabels
  <2>. QED
    BY <1>2, <1>3, <1>4, <2>1 DEF FlowOK
<1>. QED
  BY <1>1, <1>2, <1>3, <1>4

\* A step of one worker that leaves the ledger sound leaves everybody informed.
LEMMA WorkerStep ==
  ASSUME IInv, NEW p \in Procs, NEW j, Become(p, j), JobOK(j, tbl', pay'),
         LedgerOK(tbl', pay', adjusted', late'), Later(tbl, pay, tbl', pay'), served' \in Nat
  PROVE  IInv'
<1>1. j \in Job
  BY DEF JobOK
<1>2. job' \in [Procs -> Job] /\ job'[p] = j /\ \A q \in Procs \ {p} : job'[q] = job[q]
  BY <1>1 DEF Become, IInv
<1>3. \A q \in Procs : JobOK(job'[q], tbl', pay')
  <2>1. ASSUME NEW q \in Procs \ {p}
        PROVE  JobOK(job[q], tbl', pay')
    BY JobOKStable DEF IInv
  <2>. QED
    BY <1>2, <2>1
<1>. QED
  BY <1>2, <1>3 DEF IInv

\* A step that only moves the worker on.
LEMMA ReadStep ==
  ASSUME IInv, NEW p \in Procs, NEW j, Become(p, j), JobOK(j, tbl, pay),
         UNCHANGED <<tbl, pay, adjusted, late>>, served' \in Nat
  PROVE  IInv'
<1>1. Later(tbl, pay, tbl', pay')
  BY DEF Later
<1>2. LedgerOK(tbl', pay', adjusted', late')
  BY DEF IInv
<1>. QED
  BY <1>1, <1>2, WorkerStep

\* A step that writes a state the payment has reached.
LEMMA MarkStep ==
  ASSUME IInv, NEW p \in Procs, NEW j, NEW state \in States, Mark(p, state, j),
         job[p].pc \in RowLabels, JobOK(j, tbl, pay),
         state = "HOLD" => pay[Snapped(job[p]).id] \in Collected,
         state = "AWAITING_PAYMENT" => pay[Snapped(job[p]).id] \in Begun,
         state = "COMPLETED" => pay[Snapped(job[p]).id] \in Taken,
         state \notin {"CANCELLED", "ROLLBACKED"}
  PROVE  IInv'
<1>1. LedgerOK(tbl', pay', adjusted', late') /\ Later(tbl, pay, tbl', pay')
  BY WorkerKnows, SetStateLedger DEF Mark
<1>2. JobOK(j, tbl', pay')
  BY <1>1, JobOKStable
<1>3. served' \in Nat /\ Become(p, j)
  BY DEF Mark, IInv
<1>. QED
  BY <1>1, <1>2, <1>3, WorkerStep

\* An answered call has taken its payment where the call takes it.
LEMMA CallLedger ==
  ASSUME IInv, NEW p \in Procs, NEW op \in Ops, NEW adjust \in Nat, NEW answered,
         Call(p, op, adjust, answered), UNCHANGED <<tbl, served>>, job[p].pc \in RowLabels,
         op \in {"hold", "hold3P"} => job[p].pc \in HoldLabels
  PROVE  /\ LedgerOK(tbl', pay', adjusted', late') /\ Later(tbl, pay, tbl', pay')
         /\ served' \in Nat
         /\ \/ Become(p, answered) /\ pay'[Snapped(job[p]).id] \in Done(op)
            \/ Become(p, Rest(job[p], "failed"))
<1> DEFINE id == Snapped(job[p]).id
           c == [op |-> op, id |-> id, adjust |-> adjust]
<1>1. /\ id \in Ids /\ tbl[id].state # "ABSENT" /\ LedgerOK(tbl, pay, adjusted, late)
      /\ served' \in Nat
  BY WorkerKnows DEF IInv
<1>2. c \in Calls /\ c.op = op /\ c.id = id /\ CallOK(tbl, c)
  BY <1>1, WorkerKnows DEF Calls, CallOK
<1>3. Go(job[p], "failed") = Rest(job[p], "failed")
  BY DEF Go, RestLabels
<1>4. CASE Answered(c) /\ Become(p, answered)
  <2>1. Handle(c) /\ Accepts(op, id) /\ late' = late
    BY <1>2, <1>4 DEF Answered
  <2>2. /\ LedgerOK(tbl', pay', adjusted', late') /\ Later(tbl, pay, tbl', pay')
        /\ pay[id] \in From(op) => pay'[id] = To(op, pay[id])
        /\ pay[id] \notin From(op) => pay'[id] = pay[id]
    BY <1>1, <1>2, <2>1, HandleLedger
  <2>3. pay'[id] \in Done(op)
    BY <2>1, <2>2 DEF Accepts, From, Done, To, Ops
  <2>. QED
    BY <1>1, <1>4, <2>2, <2>3
<1>5. CASE Failed(c) /\ Become(p, Go(job[p], "failed"))
  <2>1. CASE Handle(c) /\ UNCHANGED late
    BY <1>1, <1>2, <1>3, <1>5, <2>1, HandleLedger
  <2>2. CASE UNCHANGED <<pay, adjusted>> /\ late' \subseteq late \cup {c}
    <3>1. LedgerOK(tbl', pay', adjusted', late')
      BY <1>1, <1>2, <2>2 DEF LedgerOK
    <3>2. Later(tbl, pay, tbl', pay')
      BY <2>2 DEF Later
    <3>. QED
      BY <1>1, <1>3, <1>5, <3>1, <3>2
  <2>. QED
    BY <1>5, <2>1, <2>2 DEF Failed, Refused, AnswerLost, GivenUp
<1>. QED
  BY <1>4, <1>5 DEF Call

\* A call: the worker knows the answer, or gives up.
LEMMA CallStep ==
  ASSUME IInv, NEW p \in Procs, NEW op \in Ops, NEW adjust \in Nat, NEW answered,
         Call(p, op, adjust, answered), UNCHANGED <<tbl, served>>, job[p].pc \in RowLabels,
         op \in {"hold", "hold3P"} => job[p].pc \in HoldLabels,
         pay'[Snapped(job[p]).id] \in Done(op) => JobOK(answered, tbl, pay')
  PROVE  IInv'
<1>1. /\ LedgerOK(tbl', pay', adjusted', late') /\ Later(tbl, pay, tbl', pay')
      /\ served' \in Nat
      /\ \/ Become(p, answered) /\ pay'[Snapped(job[p]).id] \in Done(op)
         \/ Become(p, Rest(job[p], "failed"))
  BY CallLedger
<1>2. JobOK(Rest(job[p], "failed"), tbl', pay')
  BY WorkerKnows, RestOK DEF RestLabels
<1>. QED
  BY <1>1, <1>2, WorkerStep

-----------------------------------------------------------------------------
\* Reads

\* A lookup by key finds a row of the method, or nothing.
LEMMA FindByKeyOK ==
  ASSUME LedgerOK(tbl, pay, adjusted, late), NEW pm \in Methods, NEW s \in FindByIdempKey(pm)
  PROVE  s \in Snap /\ SnapOK(s, pm, tbl)
<1>1. NoSnap \in Snap /\ SnapOK(NoSnap, pm, tbl)
  BY DEF NoSnap, Snap, SnapOK, Exists, Currencies
<1>2. ASSUME NEW i \in LiveIds(pm)
      PROVE  SnapOf(i) \in Snap /\ SnapOK(SnapOf(i), pm, tbl)
  <2>1. i \in Ids /\ tbl[i] \in Row /\ tbl[i].state # "ABSENT" /\ tbl[i].pm = pm
    BY DEF LiveIds, Stored, LedgerOK
  <2>. QED
    BY <2>1 DEF SnapOf, Snap, Row, SnapOK, Exists
<1>. QED
  BY <1>1, <1>2 DEF FindByIdempKey

\* The order's active row of a method is a row of that method, or nothing.
LEMMA FindActiveOK ==
  ASSUME LedgerOK(tbl, pay, adjusted, late), NEW pm \in Methods, NEW s \in FindActive(pm)
  PROVE  s \in Snap /\ SnapOK(s, pm, tbl)
<1>1. NoSnap \in Snap /\ SnapOK(NoSnap, pm, tbl)
  BY DEF NoSnap, Snap, SnapOK, Exists, Currencies
<1>2. ASSUME NEW i \in Ids, tbl[i].pm = pm, tbl[i].state \in ActiveStates
      PROVE  SnapOf(i) \in Snap /\ SnapOK(SnapOf(i), pm, tbl)
  <2>1. tbl[i] \in Row /\ tbl[i].state # "ABSENT"
    BY <1>2 DEF ActiveStates, LedgerOK
  <2>. QED
    BY <1>2, <2>1 DEF SnapOf, Snap, Row, SnapOK, Exists
<1>. QED
  BY <1>1, <1>2 DEF FindActive

\* resolvePMAmount, WALLET: the worker has an amount to create.
LEMMA ResolveWalletStep ==
  ASSUME IInv, NEW p \in Procs, ResolveWallet(p)
  PROVE  IInv'
<1> DEFINE j == job[p]
<1>1. PICK a \in Int, scrap \in BOOLEAN :
        /\ Become(p, [j EXCEPT !.pc = "create_read", !.amount = a, !.scrap = scrap])
        /\ scrap => a = 0
  <2>1. PICK s \in FindByIdempKey("WALLET") :
          IF Exists(s)
            THEN Become(p, [j EXCEPT !.pc = "create_read", !.amount = s.amount, !.scrap = FALSE])
            ELSE \E b \in Balances : LET amount == Coverable(b, j.total) IN
                   \E scrap \in IF b < 0 THEN {FALSE} ELSE MayBeScrap(amount) :
                     Become(p, [j EXCEPT !.pc = "create_read", !.amount = amount,
                                         !.scrap = scrap])
    BY DEF ResolveWallet
  <2>2. CASE Exists(s)
    <3>1. s.amount \in Int
      BY FindByKeyOK, WorkerKnows DEF Methods, Snap
    <3>. QED
      BY <2>1, <2>2, <3>1
  <2>3. CASE ~Exists(s)
    <3>1. PICK b \in Balances, scrap \in BOOLEAN :
            /\ Become(p, [j EXCEPT !.pc = "create_read", !.amount = Coverable(b, j.total),
                                   !.scrap = scrap])
            /\ scrap => Coverable(b, j.total) = 0
      BY <2>1, <2>3 DEF MayBeScrap
    <3>2. Coverable(b, j.total) \in Int
      BY WorkerKnows, AmountsAreIntegers DEF Coverable
    <3>. QED
      BY <3>1, <3>2
  <2>. QED
    BY <2>2, <2>3
<1> DEFINE r == [j EXCEPT !.pc = "create_read", !.amount = a, !.scrap = scrap]
<1>3. /\ r \in Job /\ r.snap = j.snap /\ (r.scrap => r.amount = 0)
      /\ r.pc = "create_read" /\ r.kind = j.kind /\ r.todo = j.todo
  <2>1. j \in Job /\ "create_read" \in BusyLabels
    BY WorkerKnows DEF BusyLabels
  <2>2. r \in Job
    BY <2>1 DEF Job
  <2>. QED
    BY <1>1, <2>1, <2>2 DEF Job
<1>4. j.kind = "create" /\ j.todo # <<>>
  BY WorkerKnows DEF ResolveWallet, FlowOK, CreateLabels, LoopLabels
<1>5. FlowOK(r) /\ AnswerOK(r, pay)
  BY <1>3, <1>4 DEF FlowOK, AnswerOK, LoopLabels, CreateLabels, RollbackLabels,
         CancelLabels, HoldLabels, SettleLabels, RowLabels
<1>6. JobOK(r, tbl, pay)
  BY <1>3, <1>5, WorkerKnows DEF JobOK, SnapsOK
<1>7. UNCHANGED <<tbl, pay, adjusted, late>> /\ served' \in Nat
  BY DEF ResolveWallet, IInv
<1>. QED
  BY <1>1, <1>6, <1>7, ReadStep

\* resolvePMAmount, SADAD: an amount to create, or a refusal.
LEMMA ResolveSadadStep ==
  ASSUME IInv, NEW p \in Procs, ResolveSadad(p)
  PROVE  IInv'
<1> DEFINE j == job[p]
           ws == IF Exists(j.snap["WALLET"]) THEN {j.snap["WALLET"]} ELSE FindByIdempKey("WALLET")
<1>4. ASSUME NEW w \in ws
      PROVE  w \in Snap /\ (~Exists(w) => w.amount = 0)
  <2>1. CASE Exists(j.snap["WALLET"])
    <3>1. w = j.snap["WALLET"] /\ Exists(w)
      BY <2>1
    <3>. QED
      BY <3>1, WorkerKnows DEF Job, Methods
  <2>2. CASE ~Exists(j.snap["WALLET"])
    <3>1. w \in FindByIdempKey("WALLET")
      BY <2>2
    <3>2. w \in Snap
      BY <3>1, FindByKeyOK, WorkerKnows DEF Methods
    <3>3. w = NoSnap \/ Exists(w)
      BY <3>1 DEF FindByIdempKey, SnapOf, LiveIds, Stored, Exists
    <3>. QED
      BY <3>2, <3>3 DEF NoSnap
  <2>. QED
    BY <2>1, <2>2
<1>1. PICK w \in ws :
        \/ Become(p, Go(j, "failed"))
        \/ \E scrap \in IF Exists(w) THEN {FALSE} ELSE MayBeScrap(j.total) :
              Become(p, [j EXCEPT !.pc = "create_read", !.amount = j.total - w.amount,
                                  !.scrap = scrap])
  BY DEF ResolveSadad
<1>2. CASE Become(p, Go(j, "failed"))
  <2>1. JobOK(Go(j, "failed"), tbl, pay)
    BY WorkerKnows, RestOK DEF Go, RestLabels
  <2>. QED
    BY <1>2, <2>1, ReadStep DEF ResolveSadad, IInv
<1>3. CASE \E scrap \in IF Exists(w) THEN {FALSE} ELSE MayBeScrap(j.total) :
              Become(p, [j EXCEPT !.pc = "create_read", !.amount = j.total - w.amount,
                                  !.scrap = scrap])
  <2>8. PICK scrap \in IF Exists(w) THEN {FALSE} ELSE MayBeScrap(j.total) :
              Become(p, [j EXCEPT !.pc = "create_read", !.amount = j.total - w.amount,
                                  !.scrap = scrap])
    BY <1>3
  <2>9. scrap \in BOOLEAN /\ (scrap => j.total - w.amount = 0)
    <3>1. w \in Snap /\ (~Exists(w) => w.amount = 0)
      BY <1>4
    <3>2. CASE Exists(w)
      BY <3>2
    <3>3. CASE ~Exists(w)
      <4>1. scrap \in MayBeScrap(j.total)
        BY <3>3
      <4>2. scrap \in BOOLEAN /\ (scrap => j.total = 0)
        BY <4>1 DEF MayBeScrap
      <4>. QED
        BY <3>1, <3>3, <4>2
    <3>. QED
      BY <3>2, <3>3
  <2> DEFINE r == [j EXCEPT !.pc = "create_read", !.amount = j.total - w.amount,
                            !.scrap = scrap]
  <2>1. w \in Snap
    BY <1>4
  <2>2. j.total - w.amount \in Int
    BY <2>1, WorkerKnows DEF Snap
  <2>3. /\ r \in Job /\ r.snap = j.snap /\ (r.scrap => r.amount = 0)
        /\ r.pc = "create_read" /\ r.kind = j.kind /\ r.todo = j.todo
    <3>1. /\ r.snap = j.snap /\ r.scrap = scrap /\ r.amount = j.total - w.amount
          /\ r.pc = "create_read" /\ r.kind = j.kind /\ r.todo = j.todo
      BY WorkerKnows DEF Job
    <3>2. r \in Job
      <4>1. "create_read" \in BusyLabels
        BY DEF BusyLabels, RowLabels, RestLabels
      <4>. QED
        BY <2>2, <2>9, <4>1, WorkerKnows DEF Job
    <3>. QED
      BY <2>9, <3>1, <3>2
  <2>4. j.kind = "create" /\ j.todo # <<>>
    BY WorkerKnows DEF ResolveSadad, FlowOK, CreateLabels, LoopLabels
  <2>5. FlowOK(r) /\ AnswerOK(r, pay)
    BY <2>3, <2>4 DEF FlowOK, AnswerOK, LoopLabels, CreateLabels, RollbackLabels,
           CancelLabels, HoldLabels, SettleLabels, RowLabels
  <2>6. JobOK(r, tbl, pay)
    BY <2>3, <2>5, WorkerKnows DEF JobOK, SnapsOK
  <2>7. UNCHANGED <<tbl, pay, adjusted, late>> /\ served' \in Nat
    BY DEF ResolveSadad, IInv
  <2>. QED
    BY <2>8, <2>6, <2>7, ReadStep
<1>. QED
  BY <1>1, <1>2, <1>3

\* createSubtransaction looked its row up.
LEMMA CreateReadStep ==
  ASSUME IInv, NEW p \in Procs, CreateRead(p)
  PROVE  IInv'
<1> DEFINE j == job[p]
<1>1. PICK s \in FindByIdempKey(j.on) :
        LET label == CreateSwitch(s.state, IsNothing(j)) IN
        Become(p, CASE label = "return" -> Created(See(j, s))
                    [] label = "hold"   -> ToHold(See(j, s))
                    [] OTHER            -> Go(See(j, s), label))
  BY DEF CreateRead
<1> DEFINE label == CreateSwitch(s.state, IsNothing(j))
           k == See(j, s)
<1>2. s \in Snap /\ SnapOK(s, j.on, tbl)
  BY FindByKeyOK, WorkerKnows
<1>3. /\ k \in Job /\ SnapsOK(k, tbl) /\ Snapped(k) = s
      /\ k.kind = j.kind /\ k.todo = j.todo /\ k.amount = j.amount
  BY <1>2, WorkerKnows, SeeOK
<1>4. j.kind = "create" /\ j.todo # <<>> /\ j.amount \in Int /\ (j.scrap => j.amount = 0)
  BY WorkerKnows DEF CreateRead, FlowOK, CreateLabels, LoopLabels
<1>5. CASE label = "return"
  <2>1. JobOK(Created(k), tbl, pay)
    BY <1>3, <1>4, CreatedOK
  <2>. QED
    BY <1>1, <1>5, <2>1, ReadStep DEF CreateRead, IInv
<1>6. CASE label = "failed"
  <2>1. JobOK(Go(k, "failed"), tbl, pay)
    BY <1>3, RestOK DEF Go, RestLabels
  <2>. QED
    BY <1>1, <1>6, <2>1, ReadStep DEF CreateRead, IInv
<1>9. CASE label = "hold"
  <2>1. Exists(s)
    BY <1>9 DEF CreateSwitch, Exists
  <2>2. JobOK(ToHold(k), tbl, pay)
    BY <1>3, <1>4, <2>1, ToHoldOK
  <2>. QED
    BY <1>1, <1>9, <2>2, ReadStep DEF CreateRead, IInv
<1>7. CASE label = "insert"
  <2>1. j.amount >= 0
    BY <1>4, <1>7 DEF CreateSwitch, IsNothing
  <2> DEFINE r == [k EXCEPT !.pc = label]
  <2>3. /\ r \in Job /\ SnapsOK(r, tbl) /\ Snapped(r) = s /\ r.pc = label /\ Go(k, label) = r
        /\ r.kind = "create" /\ r.todo # <<>> /\ r.amount = j.amount
    <3>1. label \in BusyLabels
      BY <1>7 DEF BusyLabels
    <3>. QED
      BY <1>3, <1>4, <3>1, PcOK
  <2>4. FlowOK(r) /\ AnswerOK(r, pay)
    BY <1>7, <2>1, <2>3 DEF FlowOK, AnswerOK, LoopLabels, CreateLabels, RollbackLabels,
           CancelLabels, HoldLabels, SettleLabels, RowLabels
  <2>5. JobOK(Go(k, label), tbl, pay)
    BY <2>3, <2>4 DEF JobOK
  <2>. QED
    BY <1>1, <1>7, <2>5, ReadStep DEF CreateRead, IInv
<1>8. label \in {"return", "failed", "insert", "hold"}
  BY DEF CreateSwitch
<1>. QED
  BY <1>5, <1>6, <1>7, <1>8, <1>9

\* cancelSubtransaction looked its row up.
LEMMA CancelReadStep ==
  ASSUME IInv, NEW p \in Procs, CancelRead(p)
  PROVE  IInv'
<1> DEFINE j == job[p]
<1>1. PICK s \in FindByIdempKey(j.on) :
        Become(p, IF CancelSwitch(s.state, j.on) = "return" THEN Cancelled(See(j, s))
                  ELSE Go(See(j, s), CancelSwitch(s.state, j.on)))
  BY DEF CancelRead
<1> DEFINE label == CancelSwitch(s.state, j.on)
           k == See(j, s)
<1>2. s \in Snap /\ SnapOK(s, j.on, tbl)
  BY FindByKeyOK, WorkerKnows
<1>3. /\ k \in Job /\ SnapsOK(k, tbl) /\ Snapped(k) = s
      /\ k.kind = j.kind /\ k.todo = j.todo /\ k.on = j.on
  BY <1>2, WorkerKnows, SeeOK
<1>4. (j.kind = "create" => j.on = "SADAD") /\ j.todo # <<>> /\ j.on \in Methods
  BY WorkerKnows DEF CancelRead, FlowOK, CancelLabels, LoopLabels
<1>5. CASE label = "return"
  <2>1. JobOK(Cancelled(k), tbl, pay)
    BY <1>3, <1>4, CancelledOK
  <2>. QED
    BY <1>1, <1>5, <2>1, ReadStep DEF CancelRead, IInv
<1>6. CASE label = "failed"
  <2>1. JobOK(Go(k, "failed"), tbl, pay)
    BY <1>3, RestOK DEF Go, RestLabels
  <2>. QED
    BY <1>1, <1>6, <2>1, ReadStep DEF CancelRead, IInv
<1>7. CASE label \in {"cancel_mark", "cancel_call", "cancel_retire"}
  <2>1. Exists(s) /\ (label = "cancel_retire" => j.on = "SADAD")
    BY <1>4, <1>7 DEF CancelSwitch, Exists, Is3PMethod, IsInstantPayment, Methods
  <2> DEFINE r == [k EXCEPT !.pc = label]
  <2>2. /\ r \in Job /\ SnapsOK(r, tbl) /\ Snapped(r) = s /\ r.pc = label /\ Go(k, label) = r
        /\ r.kind = j.kind /\ r.todo # <<>> /\ r.on = j.on
    <3>1. label \in BusyLabels
      BY <1>7 DEF BusyLabels
    <3>. QED
      BY <1>3, <1>4, <3>1, PcOK
  <2>3. FlowOK(r) /\ AnswerOK(r, pay)
    BY <1>4, <1>7, <2>1, <2>2 DEF FlowOK, AnswerOK, LoopLabels, CreateLabels, RollbackLabels,
           CancelLabels, HoldLabels, SettleLabels, RowLabels
  <2>4. JobOK(Go(k, label), tbl, pay)
    BY <2>2, <2>3 DEF JobOK
  <2>. QED
    BY <1>1, <1>7, <2>4, ReadStep DEF CancelRead, IInv
<1>8. label \in {"return", "failed", "cancel_mark", "cancel_call", "cancel_retire"}
  BY DEF CancelSwitch
<1>. QED
  BY <1>5, <1>6, <1>7, <1>8

\* rollbackSubtransaction looked its row up.
LEMMA RollbackReadStep ==
  ASSUME IInv, NEW p \in Procs, RollbackRead(p)
  PROVE  IInv'
<1> DEFINE j == job[p]
<1>1. PICK s \in FindByIdempKey(j.on) :
        Become(p, IF RollbackSwitch(s.state) = "return" THEN RolledBack(See(j, s))
                  ELSE Go(See(j, s), RollbackSwitch(s.state)))
  BY DEF RollbackRead
<1> DEFINE label == RollbackSwitch(s.state)
           k == See(j, s)
<1>2. s \in Snap /\ SnapOK(s, j.on, tbl)
  BY FindByKeyOK, WorkerKnows
<1>3. /\ k \in Job /\ SnapsOK(k, tbl) /\ Snapped(k) = s
      /\ k.kind = j.kind /\ k.todo = j.todo /\ k.on = j.on
  BY <1>2, WorkerKnows, SeeOK
<1>4. j.todo # <<>>
  BY WorkerKnows DEF RollbackRead, FlowOK, RollbackLabels, LoopLabels
<1>5. CASE label = "return"
  <2>1. JobOK(RolledBack(k), tbl, pay)
    BY <1>3, <1>4, RolledBackOK
  <2>. QED
    BY <1>1, <1>5, <2>1, ReadStep DEF RollbackRead, IInv
<1>6. CASE label = "type_error"
  <2>1. JobOK(Go(k, "type_error"), tbl, pay)
    BY <1>3, RestOK DEF Go, RestLabels
  <2>. QED
    BY <1>1, <1>6, <2>1, ReadStep DEF RollbackRead, IInv
<1>7. CASE label \in {"rollback_mark", "rollback_call"}
  <2>1. Exists(s)
    BY <1>7 DEF RollbackSwitch, Exists
  <2> DEFINE r == [k EXCEPT !.pc = label]
  <2>2. /\ r \in Job /\ SnapsOK(r, tbl) /\ Snapped(r) = s /\ r.pc = label /\ Go(k, label) = r
        /\ r.kind = j.kind /\ r.todo # <<>> /\ r.on = j.on
    <3>1. label \in BusyLabels
      BY <1>7 DEF BusyLabels
    <3>. QED
      BY <1>3, <1>4, <3>1, PcOK
  <2>3. FlowOK(r) /\ AnswerOK(r, pay)
    BY <1>7, <2>1, <2>2 DEF FlowOK, AnswerOK, LoopLabels, CreateLabels, RollbackLabels,
           CancelLabels, HoldLabels, SettleLabels, RowLabels
  <2>4. JobOK(Go(k, label), tbl, pay)
    BY <2>2, <2>3 DEF JobOK
  <2>. QED
    BY <1>1, <1>7, <2>4, ReadStep DEF RollbackRead, IInv
<1>8. label \in {"return", "type_error", "rollback_mark", "rollback_call"}
  BY DEF RollbackSwitch
<1>. QED
  BY <1>5, <1>6, <1>7, <1>8

\* completeTransaction looked the wallet row up.
LEMMA WalletReadStep ==
  ASSUME IInv, NEW p \in Procs, WalletRead(p)
  PROVE  IInv'
<1> DEFINE j == job[p]
<1>1. PICK s \in FindByIdempKey("WALLET") :
        Become(p, IF s.state = "CANCELLED" THEN Go(j, "returned_false")
                  ELSE [See(j, s) EXCEPT !.pc = "poll", !.on = "SADAD",
                                         !.amount = j.total - s.amount])
  BY DEF WalletRead
<1>2. CASE s.state = "CANCELLED"
  <2>1. JobOK(Go(j, "returned_false"), tbl, pay)
    BY WorkerKnows, RestOK DEF Go, RestLabels
  <2>. QED
    BY <1>1, <1>2, <2>1, ReadStep DEF WalletRead, IInv
<1>3. CASE s.state # "CANCELLED"
  <2> DEFINE k == See(j, s)
             r == [k EXCEPT !.pc = "poll", !.on = "SADAD", !.amount = j.total - s.amount]
  <2>1. j.on = "WALLET"
    BY WorkerKnows DEF WalletRead, FlowOK
  <2>2. s \in Snap /\ SnapOK(s, j.on, tbl)
    BY <2>1, FindByKeyOK, WorkerKnows DEF Methods
  <2>3. k \in Job /\ SnapsOK(k, tbl)
    BY <2>2, WorkerKnows, SeeOK
  <2>4. j.total - s.amount \in Int
    BY <2>2, WorkerKnows DEF Snap
  <2>5. r \in Job /\ r.snap = k.snap /\ r.pc = "poll" /\ r.on = "SADAD"
    BY <2>3, <2>4 DEF Job, BusyLabels, Methods
  <2>6. FlowOK(r) /\ AnswerOK(r, pay)
    BY <2>5 DEF FlowOK, AnswerOK, LoopLabels, CreateLabels, RollbackLabels,
           CancelLabels, HoldLabels, SettleLabels, RowLabels
  <2>7. JobOK(r, tbl, pay)
    BY <2>3, <2>5, <2>6 DEF JobOK, SnapsOK
  <2>. QED
    BY <1>1, <1>3, <2>7, ReadStep DEF WalletRead, IInv
<1>. QED
  BY <1>2, <1>3

\* completeTransaction looked the cash row up.
LEMMA CashReadStep ==
  ASSUME IInv, NEW p \in Procs, CashRead(p)
  PROVE  IInv'
<1> DEFINE j == job[p]
<1>1. PICK s \in FindByIdempKey("CASH") :
       Become(p, IF ~Exists(s) /\ j.amount # 0 THEN [See(j, s) EXCEPT !.pc = "cash_insert"]
                 ELSE IF s.state = "HOLD_PROCESSING" THEN ToHold(See(j, s))
                 ELSE ToWallet(See(j, s)))
  BY DEF CashRead
<1> DEFINE k == See(j, s)
<1>2. j.on = "CASH" /\ j.kind = "complete"
  BY WorkerKnows DEF CashRead, FlowOK, SettleLabels
<1>3. s \in Snap /\ SnapOK(s, j.on, tbl)
  BY <1>2, FindByKeyOK, WorkerKnows DEF Methods
<1>4. /\ k \in Job /\ SnapsOK(k, tbl) /\ Snapped(k) = s
      /\ k.kind = "complete" /\ k.on = "CASH" /\ k.amount = j.amount
  BY <1>2, <1>3, WorkerKnows, SeeOK
<1>5. CASE Become(p, ToWallet(k))
  BY <1>4, <1>5, ToWalletOK, ReadStep DEF CashRead, IInv
<1>7. CASE Become(p, ToHold(k)) /\ Exists(s)
  BY <1>4, <1>7, ToHoldOK, ReadStep DEF CashRead, IInv
<1>6. CASE Become(p, [k EXCEPT !.pc = "cash_insert"]) /\ j.amount # 0
  <2> DEFINE r == [k EXCEPT !.pc = "cash_insert"]
  <2>1. /\ r \in Job /\ SnapsOK(r, tbl) /\ Snapped(r) = s /\ r.pc = "cash_insert"
        /\ r.kind = "complete" /\ r.on = "CASH" /\ r.amount = j.amount
    <3>1. "cash_insert" \in BusyLabels
      BY DEF BusyLabels
    <3>. QED
      BY <1>4, <3>1, PcOK
  <2>2. FlowOK(r) /\ AnswerOK(r, pay)
    BY <1>6, <2>1 DEF FlowOK, AnswerOK, LoopLabels, CreateLabels, RollbackLabels,
           CancelLabels, HoldLabels, SettleLabels, RowLabels
  <2>3. JobOK(r, tbl, pay)
    BY <2>1, <2>2 DEF JobOK
  <2>. QED
    BY <1>6, <2>3, ReadStep DEF CashRead, IInv
<1>. QED
  BY <1>1, <1>5, <1>6, <1>7 DEF Exists

\* cancelSubtransaction of DbWrapper read the row again, key and all.
LEMMA CancelKeyStep ==
  ASSUME IInv, NEW p \in Procs, CancelKey(p)
  PROVE  IInv'
<1> DEFINE j == job[p]
           i == Snapped(j).id
           s == SnapOf(i)
           k == See(j, s)
           r == [k EXCEPT !.pc = "cancel_write"]
<1>1. /\ i \in Ids /\ tbl[i].state # "ABSENT" /\ tbl[i].pm = j.on
      /\ j.todo # <<>> /\ (j.kind = "create" => j.on = "SADAD")
      /\ pay[i] \in CalledOff
  BY WorkerKnows DEF CancelKey, RowLabels, CancelLabels, FlowOK, LoopLabels, AnswerOK
<1>2. /\ tbl[i] \in Row /\ RetiredUndone(tbl[i], pay[i])
  BY <1>1 DEF IInv, LedgerOK, RowOK
<1>3. s \in Snap /\ SnapOK(s, j.on, tbl) /\ s.id = i /\ s.live = tbl[i].live /\ Exists(s)
  BY <1>1, <1>2 DEF SnapOf, Snap, Row, SnapOK, Exists
<1>4. /\ k \in Job /\ SnapsOK(k, tbl) /\ Snapped(k) = s
      /\ k.kind = j.kind /\ k.todo = j.todo /\ k.on = j.on
  BY <1>3, WorkerKnows, SeeOK
<1>5. /\ r \in Job /\ SnapsOK(r, tbl) /\ Snapped(r) = s /\ r.pc = "cancel_write"
      /\ r.kind = j.kind /\ r.todo = j.todo /\ r.on = j.on
  <2>1. "cancel_write" \in BusyLabels
    BY DEF BusyLabels
  <2>. QED
    BY <1>4, <2>1, PcOK
<1>6. FlowOK(r)
  BY <1>1, <1>3, <1>5 DEF FlowOK, LoopLabels, CreateLabels, RollbackLabels,
         CancelLabels, HoldLabels, SettleLabels, RowLabels
<1>7. (~s.live /\ IsInstantPayment(r.on)) => pay[i] \in Undone
  BY <1>1, <1>2, <1>3, <1>5, Zenon DEF RetiredUndone
<1>8. AnswerOK(r, pay)
  BY <1>1, <1>3, <1>5, <1>7 DEF AnswerOK
<1>9. JobOK(r, tbl, pay)
  BY <1>5, <1>6, <1>8 DEF JobOK
<1>. QED
  BY <1>9, ReadStep DEF CancelKey, IInv

\* getSubtransactions looked the SADAD row up.
LEMMA PollStep ==
  ASSUME IInv, NEW p \in Procs, Poll(p)
  PROVE  IInv'
<1> DEFINE j == job[p]
<1>1. PICK s \in FindActive("SADAD") :
       Become(p, IF s.state = "AWAITING_PAYMENT" THEN [See(j, s) EXCEPT !.pc = "status"]
                 ELSE Polled(See(j, s)))
  BY DEF Poll
<1> DEFINE k == See(j, s)
           r == [k EXCEPT !.pc = "status"]
<1>2. j.on = "SADAD"
  BY WorkerKnows DEF Poll, FlowOK
<1>3. s \in Snap /\ SnapOK(s, j.on, tbl)
  BY <1>2, FindActiveOK, WorkerKnows DEF Methods
<1>4. k \in Job /\ SnapsOK(k, tbl) /\ Snapped(k) = s /\ k.on = "SADAD"
  BY <1>2, <1>3, WorkerKnows, SeeOK
<1>5. CASE s.state = "AWAITING_PAYMENT"
  <2>1. /\ r \in Job /\ SnapsOK(r, tbl) /\ Snapped(r) = s /\ r.pc = "status" /\ r.on = "SADAD"
    <3>1. "status" \in BusyLabels
      BY DEF BusyLabels
    <3>. QED
      BY <1>4, <3>1, PcOK
  <2>2. FlowOK(r) /\ AnswerOK(r, pay)
    BY <1>5, <2>1 DEF FlowOK, AnswerOK, Exists, LoopLabels, CreateLabels, RollbackLabels,
           CancelLabels, HoldLabels, SettleLabels, RowLabels
  <2>3. JobOK(r, tbl, pay)
    BY <2>1, <2>2 DEF JobOK
  <2>. QED
    BY <1>1, <1>5, <2>3, ReadStep DEF Poll, IInv
<1>6. CASE s.state # "AWAITING_PAYMENT"
  BY <1>1, <1>4, <1>6, PolledOK, ReadStep DEF Poll, IInv
<1>. QED
  BY <1>5, <1>6

\* The payment service said whether the payer paid.
LEMMA StatusStep ==
  ASSUME IInv, NEW p \in Procs, Status(p)
  PROVE  IInv'
<1> DEFINE j == job[p]
           r == [j EXCEPT !.pc = "poll_settle"]
<1>1. /\ j.on = "SADAD" /\ Exists(Snapped(j))
      /\ Become(p, IF IsPaid(Snapped(j).id) THEN Go(j, "poll_settle") ELSE Polled(j))
  BY WorkerKnows DEF Status, FlowOK, RowLabels
<1>2. CASE IsPaid(Snapped(j).id)
  <2>1. /\ r \in Job /\ SnapsOK(r, tbl) /\ Snapped(r) = Snapped(j) /\ Go(j, "poll_settle") = r
        /\ r.pc = "poll_settle" /\ r.on = "SADAD"
    <3>1. "poll_settle" \in BusyLabels
      BY DEF BusyLabels
    <3>. QED
      BY <1>1, <3>1, WorkerKnows, PcOK
  <2>2. FlowOK(r)
    BY <1>1, <2>1 DEF FlowOK, LoopLabels, CreateLabels, RollbackLabels,
           CancelLabels, HoldLabels, SettleLabels, RowLabels
  <2>3. AnswerOK(r, pay)
    BY <1>2, <2>1 DEF AnswerOK, IsPaid, Collected, PayStates
  <2>4. JobOK(r, tbl, pay)
    BY <2>1, <2>2, <2>3 DEF JobOK
  <2>. QED
    BY <1>1, <1>2, <2>1, <2>4, ReadStep DEF Status, IInv
<1>3. CASE ~IsPaid(Snapped(j).id)
  BY <1>1, <1>3, WorkerKnows, PolledOK, ReadStep DEF Status, IInv
<1>. QED
  BY <1>2, <1>3

-----------------------------------------------------------------------------
\* Writes

\* putInDb: the row is in, and in the worker's hands.
LEMMA InsertStep ==
  ASSUME IInv, NEW p \in Procs, Insert(p)
  PROVE  IInv'
<1> DEFINE j == job[p]
           amount == IF j.amount < 0 THEN -j.amount ELSE j.amount
<1>1. /\ amount \in Nat
      /\ \/ j.kind = "create" /\ j.todo # <<>>
         \/ j.kind = "complete"
  BY WorkerKnows DEF Insert, FlowOK, LoopLabels, CreateLabels, SettleLabels
<1>2. ASSUME NEW i \in Ids, CreateRow(i, j.on, amount, j.currency),
             Become(p, ToHold(See(j, [id |-> i, state |-> "HOLD_PROCESSING", amount |-> amount,
                                      currency |-> j.currency, live |-> TRUE])))
      PROVE  IInv'
  <2> DEFINE s == [id |-> i, state |-> "HOLD_PROCESSING", amount |-> amount,
                   currency |-> j.currency, live |-> TRUE]
             k == See(j, s)
  <2>1. UNCHANGED <<pay, adjusted, late, served>>
    BY DEF Insert
  <2>2. /\ LedgerOK(tbl', pay', adjusted', late') /\ Later(tbl, pay, tbl', pay')
        /\ tbl'[i].state = "HOLD_PROCESSING" /\ tbl'[i].pm = j.on /\ tbl'[i].amount = amount
    BY <1>1, <1>2, <2>1, WorkerKnows, CreateRowLedger
  <2>3. s \in Snap
    BY <1>1, WorkerKnows DEF Snap, States
  <2>4. SnapOK(s, j.on, tbl') /\ Exists(s)
    BY <2>2 DEF SnapOK, Exists
  <2>5. SnapsOK(j, tbl')
    BY <2>2, WorkerKnows DEF Later, SnapsOK, SnapOK
  <2>6. /\ k \in Job /\ SnapsOK(k, tbl') /\ Snapped(k) = s
        /\ k.kind = j.kind /\ k.todo = j.todo
    BY <2>3, <2>4, <2>5, WorkerKnows, SeeOK
  <2>7. JobOK(ToHold(k), tbl', pay')
    <3>. HIDE DEF k, s
    <3>. QED
      BY <1>1, <2>4, <2>6, ToHoldOK
  <2>. QED
    BY <1>2, <2>1, <2>2, <2>7, WorkerStep DEF IInv
<1>3. ASSUME Become(p, Go(j, "failed")), UNCHANGED tbl
      PROVE  IInv'
  <2>1. JobOK(Go(j, "failed"), tbl, pay)
    BY WorkerKnows, RestOK DEF Go, RestLabels
  <2>. QED
    BY <1>3, <2>1, ReadStep DEF Insert, IInv
<1>. QED
  BY <1>2, <1>3 DEF Insert

\* A worker moves from a write of a *_PROCESSING state to the call it announces.
LEMMA MarkedOK ==
  ASSUME IInv, NEW p \in Procs,
         NEW label \in {"cancel_call", "complete_call", "rollback_call"},
         job[p].pc = CASE label = "cancel_call"   -> "cancel_mark"
                       [] label = "complete_call" -> "complete_mark"
                       [] label = "rollback_call" -> "rollback_mark"
  PROVE  JobOK(Go(job[p], label), tbl, pay) /\ job[p].pc \in RowLabels
<1> DEFINE j == job[p]
           r == [j EXCEPT !.pc = label]
<1>1. label \in BusyLabels
  BY DEF BusyLabels
<1>2. /\ r \in Job /\ SnapsOK(r, tbl) /\ Snapped(r) = Snapped(j) /\ Go(j, label) = r
      /\ r.pc = label /\ r.kind = j.kind /\ r.todo = j.todo /\ r.on = j.on
  BY <1>1, WorkerKnows, PcOK
<1>3. FlowOK(r) /\ AnswerOK(r, pay)
  <2>1. FlowOK(j)
    BY WorkerKnows
  <2>. QED
    BY <1>2, <2>1 DEF FlowOK, AnswerOK, LoopLabels, CreateLabels, RollbackLabels,
           CancelLabels, HoldLabels, SettleLabels, RowLabels
<1>. QED
  BY <1>2, <1>3 DEF JobOK, RowLabels, CancelLabels, RollbackLabels

\* The *_PROCESSING states.
LEMMA MarkingSteps ==
  ASSUME IInv, NEW p \in Procs, CancelMark(p) \/ CompleteMark(p) \/ RollbackMark(p)
  PROVE  IInv'
<1>1. CASE CancelMark(p)
  BY <1>1, MarkedOK, MarkStep DEF CancelMark, States
<1>2. CASE CompleteMark(p)
  BY <1>2, MarkedOK, MarkStep DEF CompleteMark, States
<1>3. CASE RollbackMark(p)
  BY <1>3, MarkedOK, MarkStep DEF RollbackMark, States
<1>. QED
  BY <1>1, <1>2, <1>3

\* holdInPayment records what the payment service answered.
LEMMA HoldSettleStep ==
  ASSUME IInv, NEW p \in Procs, HoldSettle(p)
  PROVE  IInv'
<1> DEFINE j == job[p]
           state == HeldState(j.on)
<1>1. /\ j.pc \in RowLabels /\ Exists(Snapped(j))
      /\ j.kind = "create" => j.todo # <<>>
      /\ j.kind # "create" => j.kind = "complete"
      /\ pay[Snapped(j).id] \in Begun
      /\ IsInstantPayment(j.on) => pay[Snapped(j).id] \in Collected
  BY WorkerKnows DEF HoldSettle, FlowOK, AnswerOK, RowLabels, HoldLabels
<1>2. state \in States /\ (state = "HOLD" => IsInstantPayment(j.on))
      /\ state \in {"HOLD", "AWAITING_PAYMENT"}
  BY DEF HeldState, States
<1>3. JobOK(AfterHold(j, state), tbl, pay)
  BY <1>1, <1>2, WorkerKnows, AfterHoldOK
<1>. QED
  BY <1>1, <1>2, <1>3, MarkStep DEF HoldSettle

\* The payer paid, as a poll or a notification says.
LEMMA PaidSteps ==
  ASSUME IInv, NEW p \in Procs, PollSettle(p) \/ NotifySettle(p)
  PROVE  IInv'
<1> DEFINE j == job[p]
<1>1. /\ j.pc \in RowLabels /\ Exists(Snapped(j)) /\ pay[Snapped(j).id] \in Collected
  BY WorkerKnows DEF PollSettle, NotifySettle, FlowOK, AnswerOK, RowLabels
<1>2. CASE PollSettle(p)
  <2> DEFINE r == [j EXCEPT !.snap["SADAD"].state = "HOLD"]
  <2>1. j.on = "SADAD" /\ j \in Job /\ SnapsOK(j, tbl)
    BY <1>2, WorkerKnows DEF PollSettle, FlowOK
  <2>2. r = [j EXCEPT !.snap = [j.snap EXCEPT !["SADAD"] = [Snapped(j) EXCEPT !.state = "HOLD"]]]
    BY <2>1 DEF Job, Snapped, Methods
  <2>3. [Snapped(j) EXCEPT !.state = "HOLD"] \in Snap
    <3>1. Snapped(j) \in Snap
      BY <1>1, WorkerKnows
    <3>. QED
      BY <3>1 DEF Snap, States
  <2>4. r \in Job
    BY <2>1, <2>2, <2>3 DEF Job
  <2>5. SnapsOK(r, tbl)
    <3>1. /\ r.snap["SADAD"] = [Snapped(j) EXCEPT !.state = "HOLD"]
          /\ \A m \in Methods \ {"SADAD"} : r.snap[m] = j.snap[m]
      BY <2>1, <2>2 DEF Job, Methods
    <3>2. Snapped(j) \in Snap /\ SnapOK(Snapped(j), "SADAD", tbl)
      BY <1>1, <2>1, WorkerKnows DEF SnapsOK, Snapped, Methods
    <3>3. SnapOK([Snapped(j) EXCEPT !.state = "HOLD"], "SADAD", tbl)
      BY <1>1, <3>2 DEF SnapOK, Exists, Snap
    <3>. QED
      BY <2>1, <3>1, <3>3 DEF SnapsOK
  <2>6. JobOK(Polled(r), tbl, pay)
    BY <2>4, <2>5, PolledOK
  <2>. QED
    BY <1>1, <1>2, <2>6, MarkStep DEF PollSettle, States
<1>3. CASE NotifySettle(p)
  <2>1. JobOK(Go(j, "done"), tbl, pay)
    BY WorkerKnows, RestOK DEF Go, RestLabels
  <2>. QED
    BY <1>1, <1>3, <2>1, MarkStep DEF NotifySettle, States
<1>. QED
  BY <1>2, <1>3

\* completeSubtransaction records that the payment service charged or released.
LEMMA CompleteSettleStep ==
  ASSUME IInv, NEW p \in Procs, CompleteSettle(p)
  PROVE  IInv'
<1> DEFINE j == job[p]
<1>1. /\ j.pc \in RowLabels /\ j.kind = "complete" /\ pay[Snapped(j).id] \in Taken
  BY WorkerKnows DEF CompleteSettle, FlowOK, AnswerOK, RowLabels, SettleLabels
<1>2. JobOK(Settled(j), tbl, pay)
  BY <1>1, WorkerKnows, SettledOK
<1>. QED
  BY <1>1, <1>2, MarkStep DEF CompleteSettle, States

\* cancelIntent and rollbackSubtransaction of DbWrapper: the row is retired.
LEMMA RetireSteps ==
  ASSUME IInv, NEW p \in Procs, CancelRetire(p) \/ RollbackSettle(p)
  PROVE  IInv'
<1> DEFINE j == job[p]
           i == Snapped(j).id
<1>1. /\ i \in Ids /\ tbl[i].state # "ABSENT" /\ tbl[i].pm = j.on /\ j.todo # <<>>
      /\ LedgerOK(tbl, pay, adjusted, late)
  BY WorkerKnows DEF CancelRetire, RollbackSettle, FlowOK, RowLabels, CancelLabels,
                     RollbackLabels, LoopLabels
<1>2. /\ RetireRow(i) /\ UNCHANGED <<pay, adjusted, late, served>>
      /\ IsInstantPayment(tbl[i].pm) => pay[i] \in Undone
  BY <1>1, WorkerKnows DEF CancelRetire, RollbackSettle, FlowOK, AnswerOK, IsInstantPayment
<1>3. LedgerOK(tbl', pay', adjusted', late') /\ Later(tbl, pay, tbl', pay')
  BY <1>1, <1>2, RetireLedger
<1>4. CASE CancelRetire(p)
  <2>1. JobOK(Cancelled(j), tbl, pay)
    BY <1>1, <1>4, WorkerKnows, CancelledOK DEF CancelRetire, FlowOK, CancelLabels
  <2>2. JobOK(Cancelled(j), tbl', pay')
    BY <1>3, <2>1, JobOKStable
  <2>. QED
    BY <1>2, <1>3, <1>4, <2>2, WorkerStep DEF CancelRetire, IInv
<1>5. CASE RollbackSettle(p)
  <2>1. JobOK(RolledBack(j), tbl, pay)
    BY <1>1, WorkerKnows, RolledBackOK
  <2>2. JobOK(RolledBack(j), tbl', pay')
    BY <1>3, <2>1, JobOKStable
  <2>. QED
    BY <1>2, <1>3, <1>5, <2>2, WorkerStep DEF RollbackSettle, IInv
<1>. QED
  BY <1>4, <1>5

\* cancelSubtransaction of DbWrapper writes the state and the key it read.
LEMMA CancelWriteStep ==
  ASSUME IInv, NEW p \in Procs, CancelWrite(p)
  PROVE  IInv'
<1> DEFINE j == job[p]
           s == Snapped(j)
<1>1. /\ s.id \in Ids /\ tbl[s.id].state # "ABSENT" /\ tbl[s.id].pm = j.on /\ j.todo # <<>>
      /\ j.kind = "create" => j.on = "SADAD"
      /\ s.live \in BOOLEAN
      /\ LedgerOK(tbl, pay, adjusted, late)
  BY WorkerKnows DEF CancelWrite, FlowOK, RowLabels, CancelLabels, LoopLabels, Snap
<1>2. /\ pay[s.id] \in CalledOff
      /\ (~s.live /\ IsInstantPayment(j.on)) => pay[s.id] \in Undone
  BY WorkerKnows DEF CancelWrite, AnswerOK
<1>3. CASE WriteCancelled(s.id, s.live) /\ Become(p, Cancelled(j))
  <2>1. (~s.live /\ IsInstantPayment(tbl[s.id].pm)) => pay[s.id] \in Undone
    BY <1>1, <1>2, Zenon
  <2>2. LedgerOK(tbl', pay', adjusted', late') /\ Later(tbl, pay, tbl', pay')
    BY <1>1, <1>2, <1>3, <2>1, CancelledLedger DEF CancelWrite
  <2>3. JobOK(Cancelled(j), tbl, pay)
    BY <1>1, WorkerKnows, CancelledOK
  <2>4. JobOK(Cancelled(j), tbl', pay')
    BY <2>2, <2>3, JobOKStable
  <2>. QED
    BY <1>3, <2>2, <2>4, WorkerStep DEF CancelWrite, IInv
<1>4. CASE Become(p, Go(j, "failed")) /\ UNCHANGED tbl
  <2>1. JobOK(Go(j, "failed"), tbl, pay)
    BY WorkerKnows, RestOK DEF Go, RestLabels
  <2>. QED
    BY <1>4, <2>1, ReadStep DEF CancelWrite, IInv
<1>. QED
  BY <1>3, <1>4 DEF CancelWrite

-----------------------------------------------------------------------------
\* Calls

\* holdInPayment calls.
LEMMA HoldCallStep ==
  ASSUME IInv, NEW p \in Procs, HoldCall(p)
  PROVE  IInv'
<1> DEFINE j == job[p]
           i == Snapped(j).id
           r == [j EXCEPT !.pc = "hold_settle"]
<1>1. /\ j.pc \in RowLabels /\ Exists(Snapped(j)) /\ j.on \in Methods
      /\ \/ j.kind = "create" /\ j.todo # <<>>
         \/ j.kind = "complete"
  BY WorkerKnows DEF HoldCall, FlowOK, RowLabels, HoldLabels
<1>2. HoldOp(j.on) \in Ops /\ 0 \in Nat /\ j.pc \in HoldLabels
  BY DEF HoldOp, Ops, HoldCall, HoldLabels
<1>3. /\ r \in Job /\ SnapsOK(r, tbl) /\ Snapped(r) = Snapped(j) /\ Go(j, "hold_settle") = r
      /\ r.pc = "hold_settle" /\ r.kind = j.kind /\ r.todo = j.todo /\ r.on = j.on
  <2>1. "hold_settle" \in BusyLabels
    BY DEF BusyLabels
  <2>. QED
    BY <2>1, WorkerKnows, PcOK
<1>6. Snapped(j).amount > 0
  BY <1>2, WorkerKnows DEF FlowOK
<1>4. FlowOK(r)
  BY <1>1, <1>3, <1>6 DEF FlowOK, LoopLabels, CreateLabels, RollbackLabels,
         CancelLabels, HoldLabels, SettleLabels, RowLabels
<1>5. ASSUME pay'[i] \in Done(HoldOp(j.on))
      PROVE  JobOK(r, tbl, pay')
  <2>1. pay'[i] \in Begun /\ (IsInstantPayment(j.on) => pay'[i] \in Collected)
    BY <1>5 DEF Done, HoldOp, Begun, Collected, PayStates
  <2>2. AnswerOK(r, pay')
    BY <1>3, <2>1 DEF AnswerOK
  <2>. QED
    BY <1>3, <1>4, <2>2 DEF JobOK
<1>. QED
  BY <1>1, <1>2, <1>3, <1>5, CallStep DEF HoldCall

\* cancelSubtransaction calls.
LEMMA CancelCallStep ==
  ASSUME IInv, NEW p \in Procs, CancelCall(p)
  PROVE  IInv'
<1> DEFINE j == job[p]
           i == Snapped(j).id
           label == IF ToEndState(j) THEN "cancel_retire" ELSE "cancel_key"
           r == [j EXCEPT !.pc = label]
<1>1. /\ j.pc \in RowLabels /\ Exists(Snapped(j)) /\ j.todo # <<>>
      /\ j.kind = "create" => j.on = "SADAD"
  BY WorkerKnows DEF CancelCall, FlowOK, RowLabels, CancelLabels, LoopLabels
<1>2. "cancel" \in Ops /\ 0 \in Nat
  BY DEF Ops
<1>3. /\ r \in Job /\ SnapsOK(r, tbl) /\ Snapped(r) = Snapped(j) /\ Go(j, label) = r
      /\ r.pc = label /\ r.kind = j.kind /\ r.todo = j.todo /\ r.on = j.on
  <2>1. label \in BusyLabels
    BY DEF BusyLabels
  <2>. QED
    BY <2>1, WorkerKnows, PcOK
<1>4. (label = "cancel_retire" => j.on = "SADAD") /\ label \in {"cancel_retire", "cancel_key"}
  BY <1>1 DEF ToEndState
<1>5. FlowOK(r)
  BY <1>1, <1>3, <1>4 DEF FlowOK, LoopLabels, CreateLabels, RollbackLabels,
         CancelLabels, HoldLabels, SettleLabels, RowLabels
<1>6. ASSUME pay'[i] \in Done("cancel")
      PROVE  JobOK(r, tbl, pay')
  <2>1. pay'[i] \in CalledOff
    BY <1>6 DEF Done, CalledOff
  <2>2. AnswerOK(r, pay')
    BY <1>3, <1>4, <2>1 DEF AnswerOK
  <2>. QED
    BY <1>3, <1>5, <2>2 DEF JobOK
<1>. QED
  BY <1>1, <1>2, <1>3, <1>6, CallStep DEF CancelCall

\* completeSubtransaction calls.
LEMMA CompleteCallStep ==
  ASSUME IInv, NEW p \in Procs, CompleteCall(p)
  PROVE  IInv'
<1> DEFINE j == job[p]
           i == Snapped(j).id
           op == IF IsTopup(j) THEN "release" ELSE "charge"
           r == [j EXCEPT !.pc = "complete_settle"]
<1>1. j.pc \in RowLabels /\ Exists(Snapped(j)) /\ j.kind = "complete"
  BY WorkerKnows DEF CompleteCall, FlowOK, RowLabels, SettleLabels
<1>2. op \in Ops /\ 0 \in Nat
  BY DEF Ops
<1>3. /\ r \in Job /\ SnapsOK(r, tbl) /\ Snapped(r) = Snapped(j)
      /\ Go(j, "complete_settle") = r
      /\ r.pc = "complete_settle" /\ r.kind = j.kind /\ r.todo = j.todo /\ r.on = j.on
  <2>1. "complete_settle" \in BusyLabels
    BY DEF BusyLabels
  <2>. QED
    BY <2>1, WorkerKnows, PcOK
<1>4. FlowOK(r)
  BY <1>1, <1>3 DEF FlowOK, LoopLabels, CreateLabels, RollbackLabels,
         CancelLabels, HoldLabels, SettleLabels, RowLabels
<1>5. ASSUME pay'[i] \in Done(op)
      PROVE  JobOK(r, tbl, pay')
  <2>1. pay'[i] \in Taken
    BY <1>5 DEF Done, Taken
  <2>2. AnswerOK(r, pay')
    BY <1>3, <2>1 DEF AnswerOK
  <2>. QED
    BY <1>3, <1>4, <2>2 DEF JobOK
<1>. QED
  BY <1>1, <1>2, <1>3, <1>5, CallStep DEF CompleteCall

\* rollbackSubtransaction calls.
LEMMA RollbackCallStep ==
  ASSUME IInv, NEW p \in Procs, RollbackCall(p)
  PROVE  IInv'
<1> DEFINE j == job[p]
           i == Snapped(j).id
           released == IF j.on = "CASH" /\ IsReleased(i) THEN Snapped(j).amount ELSE 0
           r == [j EXCEPT !.pc = "rollback_settle", !.amount = released]
<1>1. j.pc \in RowLabels /\ Exists(Snapped(j)) /\ j.todo # <<>> /\ Snapped(j) \in Snap
  BY WorkerKnows DEF RollbackCall, FlowOK, RowLabels, RollbackLabels, LoopLabels
<1>2. "rollback" \in Ops /\ Adjusted(j) \in Nat /\ released \in Int
  <2>1. j.snap["WALLET"] \in Snap /\ j.amount \in Int
    BY WorkerKnows DEF Job, Methods
  <2>2. j.snap["WALLET"].amount - j.amount \in Int
    BY <2>1 DEF Snap
  <2>3. Snapped(j).amount \in Nat
    BY <1>1 DEF Snap
  <2>. QED
    BY <2>2, <2>3 DEF Ops, Adjusted
<1>3. /\ r \in Job /\ r.snap = j.snap /\ r.on = j.on
      /\ r.pc = "rollback_settle" /\ r.kind = j.kind /\ r.todo = j.todo
  <2>1. j \in Job /\ "rollback_settle" \in BusyLabels
    BY WorkerKnows DEF BusyLabels
  <2>2. r \in Job
    BY <1>2, <2>1 DEF Job
  <2>. QED
    BY <2>1, <2>2 DEF Job
<1>4. SnapsOK(r, tbl) /\ Snapped(r) = Snapped(j)
  BY <1>3, WorkerKnows DEF SnapsOK, Snapped
<1>5. FlowOK(r)
  BY <1>1, <1>3, <1>4 DEF FlowOK, LoopLabels, CreateLabels, RollbackLabels,
         CancelLabels, HoldLabels, SettleLabels, RowLabels
<1>6. ASSUME pay'[i] \in Done("rollback")
      PROVE  JobOK(r, tbl, pay')
  <2>1. pay'[i] \in Undone
    BY <1>6 DEF Done, Undone
  <2>2. AnswerOK(r, pay')
    BY <1>3, <1>4, <2>1 DEF AnswerOK
  <2>. QED
    BY <1>3, <1>4, <1>5, <2>2 DEF JobOK
<1>. QED
  BY <1>1, <1>2, <1>6, CallStep DEF RollbackCall

-----------------------------------------------------------------------------
\* Requests and notifications

\* A request begins with what its label demands.
LEMMA RequestStep ==
  ASSUME IInv, NEW p \in Procs, NEW j, Request(p, j), JobOK(j, tbl, pay)
  PROVE  IInv'
  BY ReadStep DEF Request, IInv

\* A fresh worker at the first label of cancel, complete and rollback requests.
LEMMA FreshOK ==
  ASSUME NEW r \in Job, r.snap = NoSnaps, r.todo # <<>>,
         \/ r.pc = "cancel_read" /\ r.kind = "cancel"
         \/ r.pc = "wallet_read" /\ r.kind = "complete" /\ r.on = "WALLET"
         \/ r.pc = "rollback_read"
  PROVE  JobOK(r, tbl, pay)
<1>1. SnapsOK(r, tbl)
  BY DEF SnapsOK, SnapOK, NoSnaps, NoSnap, Exists
<1>2. FlowOK(r) /\ AnswerOK(r, pay)
  BY DEF FlowOK, AnswerOK, LoopLabels, CreateLabels, RollbackLabels,
         CancelLabels, HoldLabels, SettleLabels, RowLabels
<1>. QED
  BY <1>1, <1>2 DEF JobOK

\* The five requests.
LEMMA RequestSteps ==
  ASSUME IInv, NEW p \in Procs,
         Create(p) \/ Cancel(p) \/ Complete(p) \/ Rollback(p) \/ GetBreakdown(p)
  PROVE  IInv'
<1>1. \A kind \in RequestKinds : /\ Begin(kind) \in Job /\ SnapsOK(Begin(kind), tbl)
                                 /\ Begin(kind).snap = NoSnaps /\ Begin(kind).kind = kind
  <2>1. ASSUME NEW kind \in RequestKinds
        PROVE  /\ Begin(kind) \in Job
               /\ Begin(kind).snap = NoSnaps /\ Begin(kind).kind = kind
    <3>1. IdleJob \in Job /\ IdleJob.snap = NoSnaps
      BY IdleJobType DEF IdleJob
    <3>2. kind \in RequestKinds \cup {"none", "notify"}
      OBVIOUS
    <3>3. Begin(kind) \in Job
      BY <3>1, <3>2 DEF Begin, Job
    <3>4. Begin(kind).snap = NoSnaps /\ Begin(kind).kind = kind
      BY <3>1 DEF Begin, Job
    <3>. QED
      BY <3>3, <3>4
  <2>2. ASSUME NEW kind \in RequestKinds
        PROVE  SnapsOK(Begin(kind), tbl)
    BY <2>1 DEF SnapsOK, SnapOK, NoSnaps, NoSnap, Exists
  <2>. QED
    BY <2>1, <2>2
<1>2. CASE Create(p)
  <2>1. PICK opm \in OpenMethods, total \in Totals, currency \in OrderCurrencies :
          Request(p, StartCreate(Begin("create"), opm, total, currency))
    BY <1>2 DEF Create
  <2>2. opm \in OrderMethods /\ total \in Nat /\ currency \in Currencies
    BY KindsAreKnown, AmountsAreIntegers, CurrenciesAreKnown
  <2>3. Begin("create") \in Job
    BY <1>1 DEF RequestKinds
  <2>4. JobOK(StartCreate(Begin("create"), opm, total, currency), tbl, pay)
    BY <2>2, <2>3, StartCreateOK
  <2>. QED
    BY <2>1, <2>4, RequestStep
<1>3. CASE Cancel(p)
  <2> DEFINE r == [Begin("cancel") EXCEPT !.pc = "cancel_read", !.on = "SADAD",
                                          !.todo = <<"SADAD", "WALLET">>]
  <2>1. /\ "cancel_read" \in BusyLabels /\ "SADAD" \in Methods /\ "cancel" \in RequestKinds
        /\ <<"SADAD", "WALLET">> \in Seq(Methods) /\ <<"SADAD", "WALLET">> # <<>>
    BY TodoTypes DEF BusyLabels, Methods, RequestKinds
  <2>2. /\ r \in Job /\ r.snap = NoSnaps /\ r.pc = "cancel_read" /\ r.kind = "cancel"
        /\ r.todo # <<>>
    <3>1. /\ Begin("cancel") \in Job
          /\ Begin("cancel").snap = NoSnaps /\ Begin("cancel").kind = "cancel"
      BY <1>1, <2>1
    <3>2. r \in Job
      BY <2>1, <3>1 DEF Job
    <3>. QED
      BY <2>1, <3>1, <3>2 DEF Job
  <2>3. JobOK(r, tbl, pay)
    BY <2>1, <2>2, FreshOK
  <2>. QED
    BY <1>3, <2>3, RequestStep DEF Cancel
<1>4. CASE Complete(p)
  <2>1. PICK total \in FinalTotals, currency \in OrderCurrencies :
          Request(p, [Begin("complete") EXCEPT !.pc = "wallet_read", !.on = "WALLET",
                        !.total = total, !.currency = currency,
                        !.todo = <<"SADAD", "WALLET", "CASH">>])
    BY <1>4 DEF Complete
  <2>2. total \in Nat /\ currency \in Currencies
    BY AmountsAreIntegers, CurrenciesAreKnown
  <2>3. /\ "wallet_read" \in BusyLabels /\ "WALLET" \in Methods /\ "complete" \in RequestKinds
        /\ <<"SADAD", "WALLET", "CASH">> \in Seq(Methods)
        /\ <<"SADAD", "WALLET", "CASH">> # <<>>
    BY TodoTypes DEF BusyLabels, Methods, RequestKinds
  <2> DEFINE r == [Begin("complete") EXCEPT !.pc = "wallet_read", !.on = "WALLET",
                     !.total = total, !.currency = currency,
                     !.todo = <<"SADAD", "WALLET", "CASH">>]
  <2>4. /\ r \in Job /\ r.snap = NoSnaps /\ r.pc = "wallet_read" /\ r.kind = "complete"
        /\ r.todo # <<>> /\ r.on = "WALLET"
    <3>1. /\ Begin("complete") \in Job
          /\ Begin("complete").snap = NoSnaps /\ Begin("complete").kind = "complete"
      BY <1>1, <2>3
    <3>2. r \in Job
      BY <2>2, <2>3, <3>1 DEF Job
    <3>. QED
      BY <2>3, <3>1, <3>2 DEF Job
  <2>5. JobOK(r, tbl, pay)
    BY <2>4, FreshOK
  <2>. QED
    BY <2>1, <2>5, RequestStep
<1>5. CASE Rollback(p)
  <2> DEFINE r == [Begin("rollback") EXCEPT !.pc = "rollback_read", !.on = "SADAD",
                                            !.todo = <<"SADAD", "CASH", "WALLET">>]
  <2>1. /\ "rollback_read" \in BusyLabels /\ "SADAD" \in Methods /\ "rollback" \in RequestKinds
        /\ <<"SADAD", "CASH", "WALLET">> \in Seq(Methods)
        /\ <<"SADAD", "CASH", "WALLET">> # <<>>
    BY TodoTypes DEF BusyLabels, Methods, RequestKinds
  <2>2. /\ r \in Job /\ r.snap = NoSnaps /\ r.pc = "rollback_read" /\ r.kind = "rollback"
        /\ r.todo # <<>>
    <3>1. /\ Begin("rollback") \in Job
          /\ Begin("rollback").snap = NoSnaps /\ Begin("rollback").kind = "rollback"
      BY <1>1, <2>1
    <3>2. r \in Job
      BY <2>1, <3>1 DEF Job
    <3>. QED
      BY <2>1, <3>1, <3>2 DEF Job
  <2>3. JobOK(r, tbl, pay)
    BY <2>1, <2>2, FreshOK
  <2>. QED
    BY <1>5, <2>3, RequestStep DEF Rollback
<1>6. CASE GetBreakdown(p)
  <2>1. JobOK(Breakdown(Begin("breakdown")), tbl, pay)
    BY <1>1, BreakdownOK DEF RequestKinds
  <2>. QED
    BY <1>6, <2>1, RequestStep DEF GetBreakdown
<1>. QED
  BY <1>2, <1>3, <1>4, <1>5, <1>6

\* paymentNotification looked its row up.
LEMMA NotifyStep ==
  ASSUME IInv, NEW p \in Procs, NEW i \in Ids, Notify(p, i)
  PROVE  IInv'
<1> DEFINE b == [IdleJob EXCEPT !.kind = "notify", !.on = "SADAD"]
           s == SnapOf(i)
           j == See(b, s)
           r == [j EXCEPT !.pc = "notify_settle"]
<1>1. b \in Job /\ b.snap = NoSnaps /\ b.on = "SADAD"
  <2>1. "SADAD" \in Methods
    BY DEF Methods
  <2>. QED
    BY <2>1, IdleJobType DEF Job, IdleJob
<1>2. SnapsOK(b, tbl)
  BY <1>1 DEF SnapsOK, SnapOK, NoSnaps, NoSnap, Exists
<1>3. /\ tbl[i].pm = "SADAD" /\ pay[i] \in Collected /\ tbl[i] \in Row
      /\ tbl[i].state # "ABSENT"
  BY DEF Notify, WasPaid, Collected, IInv, LedgerOK, RowOK
<1>4. s \in Snap /\ SnapOK(s, "SADAD", tbl) /\ s.id = i /\ Exists(s)
  BY <1>3 DEF SnapOf, Snap, Row, SnapOK, Exists
<1>5. j \in Job /\ SnapsOK(j, tbl) /\ Snapped(j) = s /\ j.on = "SADAD"
  <2>. HIDE DEF b, s
  <2>. QED
    BY <1>1, <1>2, <1>4, SeeOK
<1>6. NotifySwitch(tbl[i].state) \in {"notify_settle", "returned_false"}
  BY DEF NotifySwitch
<1>7. JobOK(Go(j, "returned_false"), tbl, pay)
  BY <1>5, RestOK DEF Go, RestLabels
<1>8. JobOK(Go(j, "notify_settle"), tbl, pay)
  <2>1. /\ r \in Job /\ SnapsOK(r, tbl) /\ Snapped(r) = s /\ Go(j, "notify_settle") = r
        /\ r.pc = "notify_settle" /\ r.on = "SADAD"
    <3>1. "notify_settle" \in BusyLabels
      BY DEF BusyLabels
    <3>. HIDE DEF j, s
    <3>. QED
      BY <1>5, <3>1, PcOK
  <2>2. FlowOK(r)
    BY <1>4, <2>1 DEF FlowOK, LoopLabels, CreateLabels, RollbackLabels,
           CancelLabels, HoldLabels, SettleLabels, RowLabels
  <2>3. AnswerOK(r, pay)
    BY <1>3, <1>4, <2>1 DEF AnswerOK
  <2>. QED
    BY <2>1, <2>2, <2>3 DEF JobOK
<1>. QED
  BY <1>6, <1>7, <1>8, ReadStep DEF Notify, IInv

-----------------------------------------------------------------------------
\* Everybody else

\* The replica dies, or something awaited throws.
LEMMA CrashStep ==
  ASSUME IInv, NEW p \in Procs, Crash(p)
  PROVE  IInv'
<1>1. JobOK(Go(job[p], "failed"), tbl, pay)
  BY WorkerKnows, RestOK DEF Go, RestLabels
<1>. QED
  BY <1>1, ReadStep DEF Crash, IInv

\* A step that no worker takes.
LEMMA OtherStep ==
  ASSUME IInv, UNCHANGED <<job, served>>,
         LedgerOK(tbl', pay', adjusted', late'), Later(tbl, pay, tbl', pay')
  PROVE  IInv'
<1>1. \A q \in Procs : JobOK(job'[q], tbl', pay')
  BY JobOKStable DEF IInv
<1>. QED
  BY <1>1 DEF IInv

\* A call nobody waits for is handled.
LEMMA LateCallStep ==
  ASSUME IInv, LateCall
  PROVE  IInv'
<1>1. PICK c \in late : HandleLate(c) /\ UNCHANGED <<tbl, job, served>>
  BY DEF LateCall
<1>2. c \in Calls /\ CallOK(tbl, c) /\ LedgerOK(tbl, pay, adjusted, late)
  BY DEF IInv, LedgerOK
<1>3. Handle(c) /\ tbl' = tbl /\ late' \subseteq late \cup {c}
  BY <1>1 DEF HandleLate
<1>4. LedgerOK(tbl', pay', adjusted', late') /\ Later(tbl, pay, tbl', pay')
  BY <1>2, <1>3, HandleLedger
<1>. QED
  BY <1>1, <1>4, OtherStep

\* The payer pays: from PENDING to HELD no milestone is left.
LEMMA PayerStep ==
  ASSUME IInv, Payer
  PROVE  IInv'
<1>1. PICK i \in Ids : PayBill(i) /\ UNCHANGED <<tbl, job, served>>
  BY DEF Payer
<1>2. /\ pay[i] = "PENDING" /\ pay' = [pay EXCEPT ![i] = "HELD"] /\ UNCHANGED <<adjusted, late>>
      /\ LedgerOK(tbl, pay, adjusted, late)
  BY <1>1 DEF PayBill, IInv
<1>3. \A k \in Ids : \A M \in Milestones : pay[k] \in M => pay'[k] \in M
  BY <1>2 DEF LedgerOK, Milestones, Begun, Collected, CalledOff, Taken, Undone, PayStates
<1>4. Later(tbl, pay, tbl', pay')
  BY <1>1, <1>3 DEF Later
<1>5. pay' \in [Ids -> PayStates]
  BY <1>2 DEF LedgerOK, PayStates
<1>6. \A k \in Ids : RowOK(tbl'[k], pay'[k])
  BY <1>1, <1>2, <1>3 DEF LedgerOK, RowOK, RowConfirmed, RetiredUndone, Milestones
<1>7. LedgerOK(tbl', pay', adjusted', late')
  BY <1>1, <1>2, <1>5, <1>6 DEF LedgerOK
<1>. QED
  BY <1>1, <1>4, <1>7, OtherStep

-----------------------------------------------------------------------------
\* The invariant

\* Before the first request the table is empty and nobody knows anything.
LEMMA InitIInv == TInit => IInv
<1>. SUFFICES ASSUME TInit PROVE IInv
  OBVIOUS
<1>1. /\ tbl = [i \in Ids |-> NoRow] /\ pay = [i \in Ids |-> "NONE"]
      /\ adjusted = [i \in Ids |-> 0] /\ late = {} /\ served = 0
      /\ job = [p \in Procs |-> IdleJob]
  BY DEF TInit, TblInit, PayInit
<1>2. NoRow \in Row /\ NoRow.state = "ABSENT"
  BY DEF NoRow, Row, Methods, Currencies
<1>3. RowOK(NoRow, "NONE")
  BY <1>2 DEF RowOK, RowConfirmed, RetiredUndone
<1>4. KeysUnique(tbl)
  BY <1>1, <1>2 DEF KeysUnique, IsLive
<1>5. LedgerOK(tbl, pay, adjusted, late)
  BY <1>1, <1>2, <1>3, <1>4 DEF LedgerOK, PayStates
<1>6. IdleJob \in Job /\ IdleJob.snap = NoSnaps /\ IdleJob.pc = "idle"
  BY IdleJobType DEF IdleJob
<1>7. SnapsOK(IdleJob, tbl)
  BY <1>6 DEF SnapsOK, SnapOK, NoSnaps, NoSnap, Exists
<1>8. FlowOK(IdleJob) /\ AnswerOK(IdleJob, pay)
  BY <1>6 DEF FlowOK, AnswerOK, LoopLabels, CreateLabels, RollbackLabels,
         CancelLabels, HoldLabels, SettleLabels, RowLabels
<1>9. JobOK(IdleJob, tbl, pay)
  BY <1>6, <1>7, <1>8 DEF JobOK
<1>. QED
  BY <1>1, <1>5, <1>6, <1>9 DEF IInv

\* Every step keeps the invariant.
LEMMA NextIInv == IInv /\ [TNext]_tvars => IInv'
<1>. SUFFICES ASSUME IInv, [TNext]_tvars PROVE IInv'
  OBVIOUS
<1>1. ASSUME NEW p \in Procs, Serve(p)
      PROVE  IInv'
  BY <1>1, RequestSteps, NotifyStep DEF Serve
<1>2. ASSUME NEW p \in Procs, Advance(p)
      PROVE  IInv'
  <2>1. CASE \/ ResolveWallet(p) \/ ResolveSadad(p) \/ CreateRead(p) \/ CancelRead(p)
             \/ WalletRead(p) \/ CashRead(p) \/ RollbackRead(p) \/ CancelKey(p)
             \/ Poll(p) \/ Status(p)
    BY <2>1, ResolveWalletStep, ResolveSadadStep, CreateReadStep, CancelReadStep,
       WalletReadStep, CashReadStep, RollbackReadStep, CancelKeyStep, PollStep, StatusStep
  <2>2. CASE \/ Insert(p) \/ HoldSettle(p) \/ CancelMark(p) \/ CompleteMark(p)
             \/ RollbackMark(p) \/ PollSettle(p) \/ NotifySettle(p) \/ CompleteSettle(p)
             \/ CancelRetire(p) \/ RollbackSettle(p) \/ CancelWrite(p)
    BY <2>2, InsertStep, HoldSettleStep, MarkingSteps, PaidSteps, CompleteSettleStep,
       RetireSteps, CancelWriteStep
  <2>3. CASE HoldCall(p) \/ CancelCall(p) \/ CompleteCall(p) \/ RollbackCall(p)
    BY <2>3, HoldCallStep, CancelCallStep, CompleteCallStep, RollbackCallStep
  <2>. QED
    BY <1>2, <2>1, <2>2, <2>3 DEF Advance
<1>3. ASSUME NEW p \in Procs, Crash(p)
      PROVE  IInv'
  BY <1>3, CrashStep
<1>4. CASE LateCall
  BY <1>4, LateCallStep
<1>5. CASE Payer
  BY <1>5, PayerStep
<1>6. CASE UNCHANGED tvars
  BY <1>6 DEF tvars, IInv, LedgerOK, JobOK
<1>. QED
  BY <1>1, <1>2, <1>3, <1>4, <1>5, <1>6 DEF TNext

\* IInv holds in every state of TransactionService: a worker that is about to record an answer
\* has had it, and no race, crash or late call takes it back.
THEOREM InvariantHolds == TSpec => []IInv
<1>1. TInit => IInv
  BY InitIInv
<1>2. IInv /\ [TNext]_tvars => IInv'
  BY NextIInv
<1>. QED
  BY <1>1, <1>2, PTL DEF TSpec

-----------------------------------------------------------------------------
\* What it implies

\* The table, the payments and the workers keep their types, and the payment service never hears
\* of a row of nothing.
THEOREM TypesHold == TSpec => []TTypeOK
<1>1. IInv => TTypeOK
  BY DEF IInv, LedgerOK, RowOK, TTypeOK, TblTypeOK, PayTypeOK
<1>. QED
  BY <1>1, InvariantHolds, PTL

\* Held, awaiting, cancelled, completed and rolled back are never written before the payment
\* service confirmed them, in any interleaving of any number of requests.
THEOREM ConfirmedHolds == TSpec => []ConfirmedByPayment
<1>1. IInv => ConfirmedByPayment
  <2>. SUFFICES ASSUME IInv, NEW i \in Ids, Stored(i)
                PROVE  pay[i] \in Confirming(tbl[i].pm)[tbl[i].state]
    BY DEF ConfirmedByPayment
  <2>1. /\ tbl[i] \in Row /\ pay[i] \in PayStates /\ RowConfirmed(tbl[i], pay[i])
        /\ tbl[i].state # "ABSENT"
    BY DEF IInv, LedgerOK, RowOK, Stored
  <2>2. tbl[i].state \in States
    BY <2>1 DEF Row
  <2>. QED
    BY <2>1, <2>2 DEF RowConfirmed, Confirming, Collected, Begun, CalledOff, Taken, Undone
<1>. QED
  BY <1>1, InvariantHolds, PTL

\* A row of the wallet or of cash gives up its key, and makes room for another, only with its
\* payment rolled back, in any interleaving of any number of requests.
THEOREM UndoneHolds == TSpec => []RetiredIsUndone
<1>1. IInv => RetiredIsUndone
  <2>. SUFFICES ASSUME IInv, NEW i \in Ids, Stored(i), ~tbl[i].live,
                       IsInstantPayment(tbl[i].pm)
                PROVE  pay[i] \in {"ROLLED", "ROLLED_RELEASE"}
    BY DEF RetiredIsUndone
  <2>1. RetiredUndone(tbl[i], pay[i])
    BY DEF IInv, LedgerOK, RowOK
  <2>. QED
    BY <2>1, Zenon DEF RetiredUndone, Undone, Stored
<1>. QED
  BY <1>1, InvariantHolds, PTL

\* An order is never charged twice by wallet or twice by cash, however its requests race.
THEOREM InstantChargedOnceHolds == TSpec => []InstantChargedOnce
<1>1. IInv => InstantChargedOnce
  <2>. SUFFICES ASSUME IInv, NEW i \in Ids, NEW k \in Ids,
                       pay[i] \in {"CHARGED", "RELEASED"}, IsInstantPayment(tbl[i].pm),
                       pay[k] \in {"CHARGED", "RELEASED"}, IsInstantPayment(tbl[k].pm),
                       tbl[i].pm = tbl[k].pm
                PROVE  i = k
    BY DEF InstantChargedOnce
  <2>1. \A x \in {i, k} : RowOK(tbl[x], pay[x]) /\ pay[x] \notin Undone /\ pay[x] # "NONE"
    BY DEF IInv, LedgerOK, Undone
  <2>2. \A x \in {i, k} : IsLive(tbl[x])
    BY <2>1, Zenon DEF RowOK, RetiredUndone, IsLive
  <2>. QED
    BY <2>2 DEF IInv, LedgerOK, KeysUnique
<1>. QED
  BY <1>1, InvariantHolds, PTL
=============================================================================
