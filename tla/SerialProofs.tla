---------------------------- MODULE SerialProofs ----------------------------
(***************************************************************************)
(* What TransactionService keeps when the requests of an order are served  *)
(* one after the other, for every set of ids, every fault, crash and late  *)
(* call, every amount and bound.                                           *)
(*                                                                         *)
(* The argument has two halves.  A step changes the ledger in one of three *)
(* ways (LedgerStep): not at all, by moving a row along its life cycle to  *)
(* a state its payment bears out, or by moving a payment as its row        *)
(* announces; each keeps the ledger agreed and is a step of the intent     *)
(* log.  That every step of the worker is such a step follows from SInv:   *)
(* the row is where the worker takes it to be, since nobody else wrote it. *)
(***************************************************************************)
EXTENDS TransactionServiceProofs, SerialInvariant

-----------------------------------------------------------------------------
\* The ledger moves in three ways

\* Nothing happens, except that a call its row announces may be given up by its caller.
Still ==
  /\ UNCHANGED <<tbl, pay>>
  /\ \A c \in late' : c \in late \/ Announced(c, tbl, pay)

\* A row moves along its life cycle, its payment agreeing before and after.
RowMoves(i) ==
  /\ UNCHANGED <<pay, late>>
  /\ \A k \in Ids \ {i} : tbl'[k] = tbl[k]
  /\ <<tbl[i].state, tbl'[i].state>> \in Lifecycle
  /\ tbl'[i].live <=> tbl'[i].state # "ROLLBACKED"
  /\ pay[i] \in Agreeing(tbl'[i].pm)[tbl'[i].state]
  /\ tbl[i].state # "ABSENT" => tbl'[i].pm = tbl[i].pm /\ tbl'[i].amount = tbl[i].amount
  /\ (tbl'[i].state = "ROLLBACKED" /\ tbl[i].state # "HOLD_PROCESSING") => pay[i] \in CalledOff
  /\ (tbl'[i].state = "ROLLBACKED" /\ tbl[i].state = "ROLLBACK_PROCESSING") => pay[i] \in Undone

\* What a call does to the payment of a row that announces it, and what the payer does.
Announces(from, to, state) ==
  \/ \E op \in Ops : from \in From(op) /\ to = To(op, from) /\ state \in Announcing(op)
  \/ from = "PENDING" /\ to = "HELD"

PayMoves(i) ==
  /\ tbl' = tbl
  /\ late' \subseteq late
  /\ \E to \in PayStates : /\ Announces(pay[i], to, tbl[i].state)
                           /\ pay' = [pay EXCEPT ![i] = to]

LedgerStep == Still \/ \E i \in Ids : RowMoves(i) \/ PayMoves(i)

\* The ledger as it stands.
Ledger == LedgerOK(tbl, pay, adjusted, late) /\ SLedger(tbl, pay, late)

\* A payment never leaves the states in which a call comes too late.
LEMMA TooLateStays ==
  ASSUME NEW op \in Ops, NEW from \in TooLate(op), NEW to, NEW state, Announces(from, to, state)
  PROVE  to \in TooLate(op)
  BY DEF Announces, TooLate, Ops, From, To, PayStates, Started, Undone

\* Agreement follows a payment that moves as announced, and makes its call too late.
LEMMA PayMoveAgrees ==
  ASSUME NEW pm \in Methods, NEW state \in States, NEW from \in Agreeing(pm)[state],
         NEW to, Announces(from, to, state)
  PROVE  to \in Agreeing(pm)[state]
  BY DEF Announces, Agreeing, Announcing, Ops, From, To, PayStates, States, Methods,
         IsInstantPayment

LEMMA RowMoveAnnounced ==
  ASSUME Ledger, NEW i \in Ids, RowMoves(i), NEW op \in Ops, tbl[i].state \in Announcing(op)
  PROVE  tbl'[i].state \in Announcing(op) \/ pay[i] \in TooLate(op)
<1>1. /\ tbl[i] \in Row /\ pay[i] \in PayStates
      /\ tbl[i].state # "ABSENT"
  BY DEF Ledger, LedgerOK, Announcing, Ops
<1>2. tbl[i].pm \in Methods /\ tbl'[i].pm = tbl[i].pm
  BY <1>1 DEF Row, RowMoves
<1>. QED
  BY <1>1, <1>2 DEF RowMoves, Lifecycle, Agreeing, Announcing, TooLate, Ops, PayStates, Started,
                    Undone, CalledOff, States, IsInstantPayment, Methods

LEMMA RowMoveKept ==
  ASSUME Ledger, NEW i \in Ids, RowMoves(i)
  PROVE  SLedger(tbl', pay', late')
<1>1. Agreed(tbl', pay')
  BY DEF RowMoves, Ledger, SLedger, Agreed, Lifecycle
<1>2. ASSUME NEW c \in late
      PROVE  Announced(c, tbl', pay')
  <2>1. c.op \in Ops /\ c.id \in Ids /\ Announced(c, tbl, pay)
    BY DEF Ledger, LedgerOK, SLedger, LateOK, Calls
  <2>2. CASE c.id # i
    BY <2>1, <2>2 DEF RowMoves, Announced
  <2>3. CASE c.id = i
    BY <2>1, <2>3, RowMoveAnnounced DEF RowMoves, Announced
  <2>. QED
    BY <2>2, <2>3
<1>. QED
  BY <1>1, <1>2 DEF SLedger, LateOK, RowMoves

LEMMA PayMoveKept ==
  ASSUME Ledger, NEW i \in Ids, PayMoves(i)
  PROVE  SLedger(tbl', pay', late')
<1>1. PICK to \in PayStates : /\ Announces(pay[i], to, tbl[i].state)
                              /\ pay' = [pay EXCEPT ![i] = to]
  BY DEF PayMoves
<1>2. pay'[i] = to /\ \A k \in Ids \ {i} : pay'[k] = pay[k]
  BY <1>1 DEF Ledger, LedgerOK
<1>3. tbl[i].state \in States /\ tbl[i].pm \in Methods
  <2>1. tbl[i].state # "ABSENT"
    BY <1>1 DEF Ledger, SLedger, Agreed, Announces, Announcing, Ops, From
  <2>. QED
    BY <2>1 DEF Ledger, LedgerOK, Row
<1>4. Agreed(tbl', pay')
  <2>1. to \in Agreeing(tbl[i].pm)[tbl[i].state] /\ tbl[i].state # "ABSENT"
    BY <1>1, <1>3, PayMoveAgrees DEF Ledger, SLedger, Agreed, States
  <2>. QED
    BY <1>2, <2>1 DEF PayMoves, Ledger, SLedger, Agreed
<1>5. ASSUME NEW c \in late'
      PROVE  Announced(c, tbl', pay')
  <2>1. c \in late /\ c.op \in Ops /\ c.id \in Ids /\ Announced(c, tbl, pay)
    BY DEF PayMoves, Ledger, LedgerOK, SLedger, LateOK, Calls
  <2>. QED
    BY <1>1, <1>2, <2>1, TooLateStays DEF PayMoves, Announced
<1>. QED
  BY <1>4, <1>5 DEF SLedger, LateOK

\* However the ledger moves, it stays agreed.
LEMMA LedgerKept ==
  ASSUME Ledger, LedgerStep
  PROVE  SLedger(tbl', pay', late')
<1>1. CASE Still
  BY <1>1 DEF Still, Ledger, SLedger, LateOK, Agreed, Announced
<1>. QED
  BY <1>1, RowMoveKept, PayMoveKept DEF LedgerStep

\* However the ledger moves, rows follow their life cycle.
LEMMA LedgerFollows ==
  ASSUME LedgerStep
  PROVE  \A i \in Ids : tbl'[i].state # tbl[i].state =>
                        <<tbl[i].state, tbl'[i].state>> \in Lifecycle
  BY DEF LedgerStep, Still, RowMoves, PayMoves

-----------------------------------------------------------------------------
\* The ledger is an intent log

LEMMA RowMoveLogged ==
  ASSUME Ledger, NEW i \in Ids, RowMoves(i)
  PROVE  [Log!Next]_(Log!logvars)
<1>1. \A k \in Ids : FateOf(k)' = FateOf(k)
  BY DEF RowMoves, FateOf
<1>2. \A k \in Ids \ {i} : EntryOf(k)' = EntryOf(k)
  BY DEF RowMoves, EntryOf
<1>3. \/ EntryOf(i)' = EntryOf(i)
      \/ EntryOf(i)' \in Log!Intentions(EntryOf(i))
      \/ EntryOf(i)' \in Log!Confirmations(EntryOf(i), FateOf(i))
  <2>1. /\ tbl[i].state # "ABSENT" => pay[i] \in Agreeing(tbl[i].pm)[tbl[i].state]
        /\ tbl[i].state # "ABSENT" => tbl[i].pm \in Methods /\ tbl'[i].pm = tbl[i].pm
        /\ tbl[i].state = "ABSENT" => pay[i] = "NONE"
        /\ pay[i] \in PayStates /\ pay'[i] = pay[i]
    BY DEF Ledger, LedgerOK, SLedger, Agreed, RowMoves, Row
  <2>. USE <2>1 DEF RowMoves, Lifecycle, Agreeing, States, PayStates, CalledOff, Undone, Methods,
         IsInstantPayment, EntryOf, FateOf, Log!Intentions, Log!Confirmations
  <2>2. CASE tbl[i].state \in {"ABSENT", "HOLD_PROCESSING"}
    BY <2>2
  <2>3. CASE tbl[i].state \in {"AWAITING_PAYMENT", "HOLD", "CANCEL_PROCESSING"}
    BY <2>3
  <2>4. CASE tbl[i].state \in {"COMPLETE_PROCESSING", "COMPLETED", "CANCELLED"}
    BY <2>4
  <2>5. CASE tbl[i].state \in {"ROLLBACK_PROCESSING", "ROLLBACKED"}
    BY <2>5
  <2>6. tbl[i].state \in {"ABSENT"} \cup States
    BY DEF Ledger, LedgerOK, Row
  <2>. QED
    BY <2>2, <2>3, <2>4, <2>5, <2>6
<1>. DEFINE log == [k \in Ids |-> EntryOf(k)]
            money == [k \in Ids |-> FateOf(k)]
<1>4. money' = money /\ log' = [log EXCEPT ![i] = EntryOf(i)'] /\ log[i] = EntryOf(i)
      /\ money[i] = FateOf(i)
  BY <1>1, <1>2
<1>5. EntryOf(i)' = EntryOf(i) => log' = log
  BY <1>2
<1>. QED
  BY <1>3, <1>4, <1>5 DEF Log!Next, Log!Announce, Log!Confirm, Log!logvars

LEMMA PayMoveLogged ==
  ASSUME Ledger, NEW i \in Ids, PayMoves(i)
  PROVE  [Log!Next]_(Log!logvars)
<1>1. PICK to \in PayStates : /\ Announces(pay[i], to, tbl[i].state)
                              /\ pay' = [pay EXCEPT ![i] = to]
  BY DEF PayMoves
<1>2. pay'[i] = to /\ (\A k \in Ids \ {i} : pay'[k] = pay[k]) /\ tbl' = tbl
  BY <1>1 DEF Ledger, LedgerOK, PayMoves
<1>3. \A k \in Ids \ {i} : FateOf(k)' = FateOf(k) /\ EntryOf(k)' = EntryOf(k)
  BY <1>2 DEF FateOf, EntryOf
<1>4. /\ EntryOf(i)' = EntryOf(i)
      /\ FateOf(i)' = FateOf(i) \/ FateOf(i)' \in Log!Brings(EntryOf(i), FateOf(i))
  <2>1. tbl[i].state # "ABSENT" /\ pay[i] \in PayStates
    BY <1>1 DEF Ledger, LedgerOK, SLedger, Agreed, Announces, Announcing, Ops, From
  <2>2. \/ /\ tbl[i].state \in {"HOLD_PROCESSING", "ROLLBACKED"}
           /\ pay[i] = "NONE" /\ to \in {"PENDING", "HELD"}
        \/ tbl[i].state = "COMPLETE_PROCESSING" /\ pay[i] = "HELD" /\ to \in {"CHARGED", "RELEASED"}
        \/ tbl[i].state = "CANCEL_PROCESSING" /\ pay[i] \in {"PENDING", "HELD"} /\ to = "CANCELLED"
        \/ /\ tbl[i].state = "ROLLBACK_PROCESSING"
           /\ pay[i] \in {"CHARGED", "RELEASED", "CANCELLED"} /\ to \in {"ROLLED", "ROLLED_RELEASE"}
        \/ pay[i] = "PENDING" /\ to = "HELD"
    BY <1>1 DEF Announces, Announcing, Ops, From, To
  <2>3. EntryOf(i)' = EntryOf(i)
    BY <1>2, <2>1, <2>2 DEF EntryOf
  <2>4. FateOf(i)' = FateOf(i) \/ FateOf(i)' \in Log!Brings(EntryOf(i), FateOf(i))
    BY <1>2, <2>1, <2>2 DEF EntryOf, FateOf, Log!Brings
  <2>. QED
    BY <2>3, <2>4
<1>. DEFINE log == [k \in Ids |-> EntryOf(k)]
            money == [k \in Ids |-> FateOf(k)]
<1>5. log' = log /\ money' = [money EXCEPT ![i] = FateOf(i)'] /\ log[i] = EntryOf(i)
      /\ money[i] = FateOf(i)
  BY <1>3, <1>4
<1>6. FateOf(i)' = FateOf(i) => money' = money
  BY <1>3
<1>. QED
  BY <1>4, <1>5, <1>6 DEF Log!Next, Log!Move, Log!logvars

\* However the ledger moves, it moves as an intent log does.
LEMMA LedgerLogged ==
  ASSUME Ledger, LedgerStep
  PROVE  [Log!Next]_(Log!logvars)
<1>1. CASE Still
  BY <1>1 DEF Still, EntryOf, FateOf, Log!logvars
<1>. QED
  BY <1>1, RowMoveLogged, PayMoveLogged DEF LedgerStep

-----------------------------------------------------------------------------
\* Where the worker goes next, the rows it relies on are as it takes them to be.  T and P stand
\* for the table and the payments, before a step or after it.

\* A worker with no row in hand and none to settle relies on nothing.
LEMMA Unbound ==
  ASSUME NEW j, NEW T, NEW P, j.pc \notin RowLabels \cup {"cash_read", "cash_insert"},
         (j.kind = "complete" /\ j.pc = "poll") => j.todo = <<>>
  PROVE  WorkerOK(j, T, P)
  BY DEF WorkerOK, StandingOK, KeptOK, RowLabels, HoldLabels, CancelLabels, RollbackLabels,
         CompleteLabels, PollLabels

LEMMA RestUnbound ==
  ASSUME NEW j, NEW T, NEW P, NEW outcome \in RestLabels
  PROVE  WorkerOK(Rest(j, outcome), T, P)
<1>1. Rest(j, outcome).pc = outcome
  BY IdleJobType DEF Rest, IdleJob
<1>. QED
  BY <1>1, Unbound DEF RestLabels, RowLabels, HoldLabels, CancelLabels, RollbackLabels

\* The ends of createSubtransaction, cancelSubtransaction and rollbackSubtransaction.
LEMMA LoopsUnbound ==
  ASSUME NEW j \in Job, NEW T, NEW P
  PROVE  /\ WorkerOK(Breakdown(j), T, P)
         /\ WorkerOK(NextMethod(j), T, P)
         /\ WorkerOK(Cancelled(j), T, P)
<1>1. ASSUME NEW k, k.pc = "poll", k.todo = <<>>
      PROVE  WorkerOK(k, T, P)
  BY <1>1, Unbound DEF RowLabels, HoldLabels, CancelLabels, RollbackLabels
<1>2. ASSUME NEW k, k.pc \in {"resolve", "cancel_read", "sadad_amount", "create_read"}
      PROVE  WorkerOK(k, T, P)
  BY <1>2, Unbound DEF RowLabels, HoldLabels, CancelLabels, RollbackLabels
<1>3. Breakdown(j).pc = "poll" /\ Breakdown(j).todo = <<>>
  BY DEF Breakdown, Job
<1>4. NextMethod(j) = Breakdown(j) \/ NextMethod(j).pc \in {"resolve", "cancel_read"}
  BY DEF NextMethod, Job
<1>5. \/ Cancelled(j) = Rest(j, "done")
      \/ Cancelled(j).pc \in {"sadad_amount", "create_read", "cancel_read"}
  BY DEF Cancelled, Go, RestLabels, Job
<1>. QED
  BY <1>1, <1>2, <1>3, <1>4, <1>5, RestUnbound DEF RestLabels

LEMMA CreatedUnbound ==
  ASSUME NEW j \in Job, NEW T, NEW P, j.todo # <<>>
  PROVE  WorkerOK(Created(j), T, P)
<1>1. Tail(j.todo) \in Seq(Methods)
  BY DEF Job
<1>2. [j EXCEPT !.todo = Tail(@)] \in Job
  BY <1>1 DEF Job
<1>. QED
  BY <1>2, LoopsUnbound DEF Created

LEMMA StartCreateUnbound ==
  ASSUME NEW j \in Job, NEW T, NEW P, NEW opm \in OrderMethods, NEW total \in Nat,
         NEW currency \in Currencies
  PROVE  WorkerOK(StartCreate(j, opm, total, currency), T, P)
<1> DEFINE r == [j EXCEPT !.kind = "create", !.opm = opm, !.total = total, !.currency = currency,
                          !.todo = PaymentMethodsOf(opm), !.snap = NoSnaps, !.amount = 0,
                          !.scrap = FALSE]
<1>1. PaymentMethodsOf(opm) \in Seq(Methods)
  <2>1. "CASH" \in Methods /\ "WALLET" \in Methods /\ "SADAD" \in Methods
    BY DEF Methods
  <2>. QED
    BY <2>1, TodoTypes DEF PaymentMethodsOf, OrderMethods
<1>2. "create" \in RequestKinds /\ 0 \in Int
  BY DEF RequestKinds
<1>3. NoSnaps \in [Methods -> Snap]
  BY IdleJobType DEF Job, IdleJob
<1>4. r \in Job
  BY <1>1, <1>2, <1>3 DEF Job
<1>. QED
  BY <1>4, LoopsUnbound DEF StartCreate

LEMMA RolledBackUnbound ==
  ASSUME NEW j \in Job, NEW T, NEW P
  PROVE  WorkerOK(RolledBack(j), T, P)
<1>1. WorkerOK(Recreate(j), T, P)
  <2>1. j.snap["CASH"] \in Snap /\ j.snap["WALLET"] \in Snap /\ j.snap["SADAD"] \in Snap
    BY DEF Job, Methods
  <2>2. \/ Recreate(j) = Rest(j, "done")
        \/ \E total \in Nat, currency \in Currencies :
             Recreate(j) = StartCreate(j, "COD_WALLET", total, currency)
    <3> DEFINE total == j.snap["WALLET"].amount + j.snap["SADAD"].amount
               currency == IF Exists(j.snap["CASH"]) THEN j.snap["CASH"].currency
                           ELSE IF Exists(j.snap["WALLET"]) THEN j.snap["WALLET"].currency
                           ELSE j.snap["SADAD"].currency
    <3>1. total \in Nat /\ currency \in Currencies
      BY <2>1 DEF Snap
    <3>2. Recreate(j) = IF total > 0 THEN StartCreate(j, "COD_WALLET", total, currency)
                        ELSE Rest(j, "done")
      BY DEF Recreate, Go, RestLabels
    <3>. QED
      BY <3>1, <3>2
  <2>3. "COD_WALLET" \in OrderMethods /\ "done" \in RestLabels
    BY DEF OrderMethods, RestLabels
  <2>. QED
    BY <2>2, <2>3, RestUnbound, StartCreateUnbound
<1>2. ASSUME NEW k, k.pc = "rollback_read"
      PROVE  WorkerOK(k, T, P)
  BY <1>2, Unbound DEF RowLabels, HoldLabels, CancelLabels, RollbackLabels
<1>3. RolledBack(j) = Recreate(j) \/ RolledBack(j).pc = "rollback_read"
  BY DEF RolledBack, Job
<1>. QED
  BY <1>1, <1>2, <1>3

\* A worker that settles a row in its hands knows the rows it settles next.
LEMMA Settles ==
  ASSUME NEW j \in Job, NEW T, NEW P, NEW label \in CompleteLabels,
         T[Snapped(j).id].state \in StatesAt(label),
         j.on = "SADAD" => Fresh(j.snap["WALLET"], T),
         j.on = "WALLET" => Fresh(j.snap["CASH"], T)
  PROVE  WorkerOK(Go(j, label), T, P)
<1> DEFINE r == [j EXCEPT !.pc = label]
<1>1. Go(j, label) = r
  BY DEF Go, RestLabels, CompleteLabels
<1>2. r.pc = label /\ r.on = j.on /\ r.snap = j.snap /\ Snapped(r) = Snapped(j)
  BY DEF Job, Snapped
<1>3. StandingOK(r, T, P)
  BY <1>2 DEF StandingOK, CompleteLabels
<1>4. KeptOK(r, T)
  BY <1>2 DEF KeptOK, PollLabels, HoldLabels, CompleteLabels
<1>. QED
  BY <1>1, <1>3, <1>4 DEF WorkerOK

\* A worker about to complete the subtransaction in its hands, as it last read it.
LEMMA CompletesFresh ==
  ASSUME NEW j \in Job, NEW T, NEW P, Fresh(Snapped(j), T),
         j.on = "SADAD" => Fresh(j.snap["WALLET"], T),
         j.on = "WALLET" => Fresh(j.snap["CASH"], T),
         CompleteSwitch(Snapped(j).state) # "return"
  PROVE  WorkerOK(Go(j, CompleteSwitch(Snapped(j).state)), T, P)
<1> DEFINE label == CompleteSwitch(Snapped(j).state)
<1>1. CASE label = "failed"
  BY <1>1, RestUnbound DEF Go, RestLabels
<1>2. CASE label \in {"complete_mark", "complete_call"}
  <2>1. T[Snapped(j).id].state \in StatesAt(label)
    BY <1>2 DEF CompleteSwitch, Fresh, Exists, StatesAt, HoldLabels
  <2>2. label \in CompleteLabels
    BY <1>2 DEF CompleteLabels
  <2>. HIDE DEF label
  <2>. QED
    BY <2>1, <2>2, Settles DEF label
<1>3. label \in {"return", "failed", "complete_mark", "complete_call"}
  BY DEF CompleteSwitch
<1>. QED
  BY <1>1, <1>2, <1>3

LEMMA ToCashFresh ==
  ASSUME NEW j \in Job, NEW T, NEW P, Fresh(j.snap["CASH"], T)
  PROVE  WorkerOK(ToCash(j), T, P)
<1> DEFINE k == [j EXCEPT !.on = "CASH"]
<1>1. k \in Job /\ k.on = "CASH" /\ k.snap = j.snap
  BY DEF Job, Methods
<1>2. Snapped(k) = j.snap["CASH"]
  BY <1>1 DEF Snapped
<1>. QED
  BY <1>1, <1>2, CompletesFresh, LoopsUnbound DEF ToCash

LEMMA ToWalletFresh ==
  ASSUME NEW j \in Job, NEW T, NEW P, Fresh(j.snap["CASH"], T), Fresh(j.snap["WALLET"], T)
  PROVE  WorkerOK(ToWallet(j), T, P)
<1> DEFINE k == [j EXCEPT !.on = "WALLET"]
<1>1. k \in Job /\ k.on = "WALLET" /\ k.snap = j.snap
  BY DEF Job, Methods
<1>2. Snapped(k) = j.snap["WALLET"]
  BY <1>1 DEF Snapped
<1>. QED
  BY <1>1, <1>2, CompletesFresh, ToCashFresh DEF ToWallet

LEMMA ToCashRowFresh ==
  ASSUME NEW j \in Job, NEW T, NEW P, Fresh(j.snap["WALLET"], T)
  PROVE  WorkerOK(ToCashRow(j), T, P) /\ WorkerOK(SadadSettled(j), T, P)
<1>1. ASSUME NEW k, k.pc = "cash_read", Fresh(k.snap["WALLET"], T)
      PROVE  WorkerOK(k, T, P)
  BY <1>1 DEF WorkerOK, StandingOK, KeptOK, RowLabels, HoldLabels, CancelLabels, RollbackLabels,
         CompleteLabels, PollLabels
<1>2. /\ ToCashRow(j).pc = "cash_read" /\ ToCashRow(j).snap = j.snap
      /\ SadadSettled(j).pc = "cash_read" /\ SadadSettled(j).snap = j.snap
  BY DEF ToCashRow, SadadSettled, Job
<1>. QED
  BY <1>1, <1>2

LEMMA ToSadadFresh ==
  ASSUME NEW j \in Job, NEW T, NEW P, Fresh(j.snap["SADAD"], T), Fresh(j.snap["WALLET"], T)
  PROVE  WorkerOK(ToSadad(j), T, P)
<1> DEFINE k == [j EXCEPT !.on = "SADAD", !.amount = @ - j.snap["SADAD"].amount]
<1>1. k \in Job /\ k.on = "SADAD" /\ k.snap = j.snap
  <2>1. "SADAD" \in Methods
    BY DEF Methods
  <2>2. j.amount - j.snap["SADAD"].amount \in Int
    BY <2>1 DEF Job, Snap
  <2>. QED
    BY <2>1, <2>2 DEF Job
<1>2. Snapped(k) = j.snap["SADAD"]
  BY <1>1 DEF Snapped
<1>3. CASE ~Exists(Snapped(k))
  BY <1>3, ToCashRowFresh DEF ToSadad
<1>4. CASE Exists(Snapped(k)) /\ ~AlmostZero(k.amount)
  <2>1. ToSadad(j) = Rest(k, "failed")
    BY <1>4 DEF ToSadad, Go, RestLabels
  <2>. QED
    BY <2>1, RestUnbound DEF RestLabels
<1>5. CASE Exists(Snapped(k)) /\ AlmostZero(k.amount)
  <2>1. ToSadad(j) = IF CompleteSwitch(Snapped(k).state) = "return" THEN SadadSettled(k)
                     ELSE Go(k, CompleteSwitch(Snapped(k).state))
    BY <1>5 DEF ToSadad
  <2>2. WorkerOK(SadadSettled(k), T, P)
    BY <1>1, ToCashRowFresh
  <2>. QED
    BY <1>1, <1>2, <2>1, <2>2, CompletesFresh
<1>. QED
  BY <1>3, <1>4, <1>5

LEMMA PolledFresh ==
  ASSUME NEW j \in Job, NEW T, NEW P,
         (j.kind = "complete" /\ j.todo # <<>>) => /\ Fresh(j.snap["SADAD"], T)
                                                  /\ Fresh(j.snap["WALLET"], T)
  PROVE  WorkerOK(Polled(j), T, P)
<1>1. [j EXCEPT !.todo = <<>>] \in Job /\ [j EXCEPT !.todo = <<>>].snap = j.snap
  BY TodoTypes DEF Job
<1>2. CASE j.kind = "complete" /\ j.todo # <<>>
  BY <1>1, <1>2, ToSadadFresh DEF Polled
<1>3. CASE ~(j.kind = "complete" /\ j.todo # <<>>)
  BY <1>3, RestUnbound DEF Polled, Go, RestLabels
<1>. QED
  BY <1>2, <1>3

\* A worker that takes a row in hand, of which it knows enough.
LEMMA Bound ==
  ASSUME NEW j \in Job, NEW T, NEW P, NEW label \in RowLabels \ CompleteLabels,
         T[Snapped(j).id].state \in StatesAt(label),
         (label = "cancel_retire" /\ T[Snapped(j).id].state = "CANCEL_PROCESSING")
           => P[Snapped(j).id] \in CalledOff,
         label = "cancel_write" => Snapped(j).live,
         label = "status" => Fresh(Snapped(j), T),
         (j.kind = "complete" /\ label \in HoldLabels) => j.on = "CASH",
         (j.kind = "complete" /\ label \in HoldLabels) => Fresh(j.snap["WALLET"], T),
         (j.kind = "complete" /\ label \in PollLabels /\ j.todo # <<>>)
           => Fresh(j.snap["WALLET"], T)
  PROVE  /\ WorkerOK(Go(j, label), T, P)
         /\ WorkerOK([j EXCEPT !.pc = label], T, P)
<1> DEFINE r == [j EXCEPT !.pc = label]
<1>1. /\ r.pc = label /\ r.snap = j.snap /\ r.on = j.on /\ r.kind = j.kind /\ r.todo = j.todo
      /\ Snapped(r) = Snapped(j)
  BY DEF Job, Snapped
<1>2. Go(j, label) = r
  BY DEF Go, RestLabels, RowLabels, HoldLabels, CancelLabels, RollbackLabels
<1>3. StandingOK(r, T, P)
  BY <1>1 DEF StandingOK
<1>4. KeptOK(r, T)
  <2>1. label \notin {"cash_read", "cash_insert"}
    BY DEF RowLabels, HoldLabels, CancelLabels, RollbackLabels
  <2>. QED
    BY <1>1, <2>1 DEF KeptOK
<1>. QED
  BY <1>2, <1>3, <1>4 DEF WorkerOK

\* What a lookup returns is as it is in the table.
LEMMA FindFresh ==
  ASSUME NEW pm
  PROVE  /\ \A s \in FindByIdempKey(pm) : Fresh(s, tbl)
         /\ \A s \in FindActive(pm) : Fresh(s, tbl)
  BY DEF FindByIdempKey, FindActive, Fresh, Exists, NoSnap, SnapOf

\* What follows a row found or inserted in HOLD_PROCESSING.
LEMMA ToHoldIs ==
  ASSUME NEW j \in Job
  PROVE  /\ (Snapped(j).amount <= 0 /\ j.kind = "create") => ToHold(j) = Created(j)
         /\ (Snapped(j).amount <= 0 /\ j.kind # "create") => ToHold(j) = ToWallet(j)
         /\ ~(Snapped(j).amount <= 0) => ToHold(j) = [j EXCEPT !.pc = "hold"]
<1> DEFINE k == [j EXCEPT !.snap[j.on].state = Snapped(j).state]
<1>1. k = j
  BY DEF Job, Snap, Snapped
<1>. QED
  BY <1>1 DEF ToHold, AfterHold

LEMMA ToHoldFresh ==
  ASSUME NEW j \in Job, NEW T, NEW P, Exists(Snapped(j)), Fresh(Snapped(j), T),
         Snapped(j).state = "HOLD_PROCESSING",
         \/ j.kind = "create" /\ j.todo # <<>>
         \/ j.kind = "complete" /\ j.on = "CASH" /\ Fresh(j.snap["WALLET"], T)
  PROVE  WorkerOK(ToHold(j), T, P)
<1>1. CASE Snapped(j).amount <= 0 /\ j.kind = "create"
  BY <1>1, ToHoldIs, CreatedUnbound
<1>2. CASE Snapped(j).amount <= 0 /\ j.kind = "complete"
  <2>1. Snapped(j) = j.snap["CASH"]
    BY <1>2 DEF Snapped
  <2>2. ToHold(j) = ToWallet(j)
    BY <1>2, ToHoldIs
  <2>. QED
    BY <1>2, <2>1, <2>2, ToWalletFresh
<1>3. CASE ~(Snapped(j).amount <= 0)
  <2>1. ToHold(j) = [j EXCEPT !.pc = "hold"]
    BY <1>3, ToHoldIs
  <2>2. T[Snapped(j).id].state \in StatesAt("hold")
    BY DEF Fresh, StatesAt, HoldLabels
  <2>3. "hold" \in RowLabels \ CompleteLabels /\ "hold" \notin PollLabels
    BY DEF RowLabels, HoldLabels, CompleteLabels, PollLabels
  <2>4. j.kind = "complete" => j.on = "CASH" /\ Fresh(j.snap["WALLET"], T)
    OBVIOUS
  <2>5. WorkerOK([j EXCEPT !.pc = "hold"], T, P)
    BY <2>2, <2>3, <2>4, Bound
  <2>. QED
    BY <2>1, <2>5
<1>. QED
  BY <1>1, <1>2, <1>3

-----------------------------------------------------------------------------
\* Reads

\* What is to be shown of a step of the worker.
Serves(p) == LedgerStep /\ WorkerOK(job'[p], tbl', pay')

LEMMA ReadServes ==
  ASSUME IInv, NEW p \in Procs, NEW j, Become(p, j), UNCHANGED <<tbl, pay, late>>,
         WorkerOK(j, tbl, pay)
  PROVE  Serves(p)
<1>1. job'[p] = j
  BY DEF IInv, Become
<1>. QED
  BY <1>1 DEF Serves, LedgerStep, Still

LEMMA ResolvesServe ==
  ASSUME IInv, NEW p \in Procs, ResolveWallet(p) \/ ResolveSadad(p)
  PROVE  Serves(p)
<1>1. ASSUME NEW k, k.pc = "create_read"
      PROVE  WorkerOK(k, tbl, pay)
  BY <1>1, Unbound DEF RowLabels, HoldLabels, CancelLabels, RollbackLabels
<1>2. WorkerOK(Go(job[p], "failed"), tbl, pay)
  BY RestUnbound DEF Go, RestLabels
<1>5. ASSUME NEW amount, NEW scrap,
             Become(p, [job[p] EXCEPT !.pc = "create_read", !.amount = amount, !.scrap = scrap]),
             UNCHANGED <<tbl, pay, late>>
      PROVE  Serves(p)
  <2>1. [job[p] EXCEPT !.pc = "create_read", !.amount = amount, !.scrap = scrap].pc
          = "create_read"
    BY WorkerKnows DEF Job
  <2>. QED
    BY <1>1, <1>5, <2>1, ReadServes
<1>3. CASE ResolveWallet(p)
  <2>1. \E amount, scrap :
          Become(p, [job[p] EXCEPT !.pc = "create_read", !.amount = amount, !.scrap = scrap])
    <3>1. PICK s \in FindByIdempKey("WALLET") :
            IF Exists(s)
              THEN Become(p, [job[p] EXCEPT !.pc = "create_read", !.amount = s.amount,
                                            !.scrap = FALSE])
              ELSE \E b \in Balances : LET amount == Coverable(b, job[p].total) IN
                     \E scrap \in IF b < 0 THEN {FALSE} ELSE MayBeScrap(amount) :
                       Become(p, [job[p] EXCEPT !.pc = "create_read", !.amount = amount,
                                                !.scrap = scrap])
      BY <1>3 DEF ResolveWallet
    <3>. QED
      BY <3>1
  <2>2. UNCHANGED <<tbl, pay, late>>
    BY <1>3 DEF ResolveWallet
  <2>. QED
    BY <1>5, <2>1, <2>2
<1>4. CASE ResolveSadad(p)
  <2>1. \/ Become(p, Go(job[p], "failed"))
        \/ \E amount, scrap :
             Become(p, [job[p] EXCEPT !.pc = "create_read", !.amount = amount, !.scrap = scrap])
    BY <1>4 DEF ResolveSadad
  <2>2. UNCHANGED <<tbl, pay, late>>
    BY <1>4 DEF ResolveSadad
  <2>3. CASE Become(p, Go(job[p], "failed"))
    BY <1>2, <2>2, <2>3, ReadServes
  <2>. QED
    BY <1>5, <2>1, <2>2, <2>3
<1>. QED
  BY <1>3, <1>4

LEMMA CreateReadServes ==
  ASSUME IInv, NEW p \in Procs, CreateRead(p)
  PROVE  Serves(p)
<1> DEFINE j == job[p]
<1>1. PICK s \in FindByIdempKey(j.on) :
        LET label == CreateSwitch(s.state, IsNothing(j)) IN
        Become(p, CASE label = "return" -> Created(See(j, s))
                    [] label = "hold"   -> ToHold(See(j, s))
                    [] OTHER            -> Go(See(j, s), label))
  BY DEF CreateRead
<1> DEFINE label == CreateSwitch(s.state, IsNothing(j))
           k == See(j, s)
<1>2. /\ k \in Job /\ Snapped(k) = s /\ k.kind = "create" /\ k.todo # <<>>
      /\ Fresh(s, tbl)
  <2>1. s \in Snap /\ SnapOK(s, j.on, tbl)
    BY FindByKeyOK, WorkerKnows
  <2>2. j.kind = "create" /\ j.todo # <<>>
    BY WorkerKnows DEF CreateRead, FlowOK, CreateLabels, LoopLabels
  <2>. QED
    BY <2>1, <2>2, FindFresh, SeeOK, WorkerKnows
<1>3. CASE label = "return"
  <2>1. WorkerOK(Created(k), tbl, pay)
    BY <1>2, CreatedUnbound
  <2>. QED
    BY <1>1, <1>3, <2>1, ReadServes DEF CreateRead
<1>4. CASE label = "failed"
  <2>1. WorkerOK(Go(k, "failed"), tbl, pay)
    BY RestUnbound DEF Go, RestLabels
  <2>. QED
    BY <1>1, <1>4, <2>1, ReadServes DEF CreateRead
<1>5. CASE label = "insert"
  <2>1. Go(k, "insert").pc = "insert"
    BY <1>2 DEF Go, RestLabels, Job
  <2>2. WorkerOK(Go(k, "insert"), tbl, pay)
    BY <2>1, Unbound DEF RowLabels, HoldLabels, CancelLabels, RollbackLabels
  <2>. QED
    BY <1>1, <1>5, <2>2, ReadServes DEF CreateRead
<1>6. CASE label = "hold"
  <2>1. s.state = "HOLD_PROCESSING"
    BY <1>6 DEF CreateSwitch
  <2>2. Exists(s)
    BY <2>1 DEF Exists
  <2>4. WorkerOK(ToHold(k), tbl, pay)
    <3>. HIDE DEF k
    <3>. QED
      BY <1>2, <2>1, <2>2, ToHoldFresh
  <2>. QED
    BY <1>1, <1>6, <2>4, ReadServes DEF CreateRead
<1>. QED
  BY <1>3, <1>4, <1>5, <1>6 DEF CreateSwitch

LEMMA CancelReadServes ==
  ASSUME IInv, NEW p \in Procs, CancelRead(p)
  PROVE  Serves(p)
<1> DEFINE j == job[p]
<1>1. PICK s \in FindByIdempKey(j.on) :
        Become(p, IF CancelSwitch(s.state, j.on) = "return" THEN Cancelled(See(j, s))
                  ELSE Go(See(j, s), CancelSwitch(s.state, j.on)))
  BY DEF CancelRead
<1> DEFINE label == CancelSwitch(s.state, j.on)
           k == See(j, s)
<1>2. k \in Job /\ Snapped(k) = s /\ Fresh(s, tbl)
  <2>1. s \in Snap /\ SnapOK(s, j.on, tbl)
    BY FindByKeyOK, WorkerKnows
  <2>. QED
    BY <2>1, FindFresh, SeeOK, WorkerKnows
<1>3. CASE label = "return"
  <2>1. WorkerOK(Cancelled(k), tbl, pay)
    BY <1>2, LoopsUnbound
  <2>. QED
    BY <1>1, <1>3, <2>1, ReadServes DEF CancelRead
<1>4. CASE label = "failed"
  <2>1. WorkerOK(Go(k, "failed"), tbl, pay)
    BY RestUnbound DEF Go, RestLabels
  <2>. QED
    BY <1>1, <1>4, <2>1, ReadServes DEF CancelRead
<1>5. CASE label \in {"cancel_mark", "cancel_call", "cancel_retire"}
  <2>1. /\ tbl[Snapped(k).id].state \in StatesAt(label)
        /\ label = "cancel_retire" => tbl[Snapped(k).id].state # "CANCEL_PROCESSING"
    BY <1>2, <1>5 DEF CancelSwitch, Fresh, Exists, StatesAt, HoldLabels
  <2>2. label \in RowLabels \ CompleteLabels /\ label \notin HoldLabels \cup PollLabels
        /\ label \notin {"status", "cancel_write"}
    BY <1>5 DEF RowLabels, CancelLabels, HoldLabels, CompleteLabels, PollLabels
  <2>3. WorkerOK(Go(k, label), tbl, pay)
    <3>. HIDE DEF k, label
    <3>. QED
      BY <1>2, <1>5, <2>1, <2>2, Bound
  <2>. QED
    BY <1>1, <1>5, <2>3, ReadServes DEF CancelRead
<1>. QED
  BY <1>3, <1>4, <1>5 DEF CancelSwitch

LEMMA RollbackReadServes ==
  ASSUME IInv, NEW p \in Procs, RollbackRead(p)
  PROVE  Serves(p)
<1> DEFINE j == job[p]
<1>1. PICK s \in FindByIdempKey(j.on) :
        Become(p, IF RollbackSwitch(s.state) = "return" THEN RolledBack(See(j, s))
                  ELSE Go(See(j, s), RollbackSwitch(s.state)))
  BY DEF RollbackRead
<1> DEFINE label == RollbackSwitch(s.state)
           k == See(j, s)
<1>2. k \in Job /\ Snapped(k) = s /\ Fresh(s, tbl)
  <2>1. s \in Snap /\ SnapOK(s, j.on, tbl)
    BY FindByKeyOK, WorkerKnows
  <2>. QED
    BY <2>1, FindFresh, SeeOK, WorkerKnows
<1>3. CASE label = "return"
  <2>1. WorkerOK(RolledBack(k), tbl, pay)
    BY <1>2, RolledBackUnbound
  <2>. QED
    BY <1>1, <1>3, <2>1, ReadServes DEF RollbackRead
<1>4. CASE label = "type_error"
  <2>1. WorkerOK(Go(k, "type_error"), tbl, pay)
    BY RestUnbound DEF Go, RestLabels
  <2>. QED
    BY <1>1, <1>4, <2>1, ReadServes DEF RollbackRead
<1>5. CASE label \in {"rollback_mark", "rollback_call"}
  <2>1. tbl[Snapped(k).id].state \in StatesAt(label)
    BY <1>2, <1>5 DEF RollbackSwitch, Fresh, Exists, StatesAt, HoldLabels
  <2>2. label \in RowLabels \ CompleteLabels /\ label \notin HoldLabels \cup PollLabels
        /\ label \notin {"status", "cancel_write"}
    BY <1>5 DEF RowLabels, RollbackLabels, HoldLabels, CompleteLabels, PollLabels
  <2>3. WorkerOK(Go(k, label), tbl, pay)
    <3>. HIDE DEF k, label
    <3>. QED
      BY <1>2, <1>5, <2>1, <2>2, Bound
  <2>. QED
    BY <1>1, <1>5, <2>3, ReadServes DEF RollbackRead
<1>. QED
  BY <1>3, <1>4, <1>5 DEF RollbackSwitch

\* What SInv says of the worker and of the row in its hands.
LEMMA WorkerStands ==
  ASSUME IInv, SInv, NEW p \in Procs
  PROVE  /\ Ledger /\ StandingOK(job[p], tbl, pay) /\ KeptOK(job[p], tbl)
         /\ job[p].pc \in RowLabels =>
              LET i == Snapped(job[p]).id
              IN  /\ tbl[i].state \in StatesAt(job[p].pc)
                  /\ pay[i] \in Agreeing(tbl[i].pm)[tbl[i].state]
                  /\ tbl[i].live <=> tbl[i].state # "ROLLBACKED"
<1>1. Ledger /\ StandingOK(job[p], tbl, pay) /\ KeptOK(job[p], tbl)
  BY DEF SInv, WorkerOK, IInv, Ledger
<1>2. ASSUME job[p].pc \in RowLabels
      PROVE  Snapped(job[p]).id \in Ids /\ tbl[Snapped(job[p]).id].state # "ABSENT"
  BY <1>2, WorkerKnows
<1>. QED
  BY <1>1, <1>2 DEF Ledger, SLedger, Agreed, StandingOK

\* A read puts one snapshot in place of another and leaves those of the other methods.
LEMMA SeeKeeps ==
  ASSUME NEW j \in Job, NEW s \in Snap
  PROVE  /\ See(j, s).snap[j.on] = s
         /\ \A m \in Methods : m # j.on => See(j, s).snap[m] = j.snap[m]
  BY DEF See, Job

LEMMA CancelKeyServes ==
  ASSUME IInv, SInv, NEW p \in Procs, CancelKey(p)
  PROVE  Serves(p)
<1> DEFINE j == job[p]
           i == Snapped(j).id
           s == SnapOf(i)
           k == See(j, s)
<1>1. /\ j.pc = "cancel_key" /\ j.pc \in RowLabels /\ i \in Ids
      /\ tbl[i].pm = j.on /\ tbl[i].state # "ABSENT" /\ tbl[i] \in Row
  BY WorkerKnows DEF CancelKey, RowLabels, CancelLabels, LedgerOK
<1>2. tbl[i].state = "CANCEL_PROCESSING" /\ tbl[i].live
  BY <1>1, WorkerStands DEF StatesAt, HoldLabels
<1>3. s \in Snap /\ SnapOK(s, j.on, tbl) /\ s.id = i /\ s.live
  BY <1>1, <1>2 DEF SnapOf, Snap, Row, SnapOK, Exists
<1>4. k \in Job /\ Snapped(k) = s
  BY <1>3, WorkerKnows, SeeOK
<1>5. /\ "cancel_write" \in RowLabels \ CompleteLabels
      /\ "cancel_write" \notin HoldLabels \cup PollLabels
  BY DEF RowLabels, CancelLabels, HoldLabels, CompleteLabels, PollLabels
<1>6. tbl[s.id].state \in StatesAt("cancel_write")
  BY <1>2, <1>3 DEF StatesAt, HoldLabels
<1>7. WorkerOK([k EXCEPT !.pc = "cancel_write"], tbl, pay)
  <2>. HIDE DEF k, s, i
  <2>. QED
    BY <1>3, <1>4, <1>5, <1>6, Bound
<1>. QED
  BY <1>7, ReadServes DEF CancelKey

LEMMA WalletReadServes ==
  ASSUME IInv, NEW p \in Procs, WalletRead(p)
  PROVE  Serves(p)
<1> DEFINE j == job[p]
<1>1. PICK s \in FindByIdempKey("WALLET") :
        Become(p, IF s.state = "CANCELLED" THEN Go(j, "returned_false")
                  ELSE [See(j, s) EXCEPT !.pc = "poll", !.on = "SADAD",
                                         !.amount = j.total - s.amount])
  BY DEF WalletRead
<1> DEFINE k == See(j, s)
           r == [k EXCEPT !.pc = "poll", !.on = "SADAD", !.amount = j.total - s.amount]
<1>2. WorkerOK(Go(j, "returned_false"), tbl, pay)
  BY RestUnbound DEF Go, RestLabels
<1>3. j.on = "WALLET" /\ s \in Snap /\ SnapOK(s, j.on, tbl) /\ Fresh(s, tbl)
  <2>1. j.on = "WALLET"
    BY WorkerKnows DEF WalletRead, FlowOK
  <2>. QED
    BY <2>1, FindByKeyOK, FindFresh, WorkerKnows DEF Methods
<1>4. k \in Job /\ k.snap["WALLET"] = s
  BY <1>3, WorkerKnows, SeeOK, SeeKeeps
<1>5. r.pc = "poll" /\ r.snap["WALLET"] = s
  BY <1>4 DEF Job
<1>6. WorkerOK(r, tbl, pay)
  BY <1>3, <1>5 DEF WorkerOK, StandingOK, KeptOK, RowLabels, HoldLabels, CancelLabels,
         RollbackLabels, CompleteLabels
<1>. QED
  BY <1>1, <1>2, <1>6, ReadServes DEF WalletRead

LEMMA PollServes ==
  ASSUME IInv, SInv, NEW p \in Procs, Poll(p)
  PROVE  Serves(p)
<1> DEFINE j == job[p]
<1>1. PICK s \in FindActive("SADAD") :
       Become(p, IF s.state = "AWAITING_PAYMENT" THEN [See(j, s) EXCEPT !.pc = "status"]
                 ELSE Polled(See(j, s)))
  BY DEF Poll
<1> DEFINE k == See(j, s)
<1>2. /\ j \in Job /\ j.pc = "poll" /\ j.on = "SADAD"
      /\ s \in Snap /\ SnapOK(s, j.on, tbl) /\ Fresh(s, tbl)
  <2>1. j.pc = "poll" /\ j.on = "SADAD"
    BY WorkerKnows DEF Poll, FlowOK
  <2>. QED
    BY <2>1, FindActiveOK, FindFresh, WorkerKnows DEF Methods
<1>3. /\ k \in Job /\ Snapped(k) = s /\ k.kind = j.kind /\ k.todo = j.todo
      /\ k.snap["SADAD"] = s /\ k.snap["WALLET"] = j.snap["WALLET"]
  BY <1>2, WorkerKnows, SeeOK, SeeKeeps DEF Methods
<1>4. (k.kind = "complete" /\ k.todo # <<>>) => Fresh(k.snap["WALLET"], tbl)
  BY <1>2, <1>3, WorkerStands DEF KeptOK, PollLabels
<1>5. CASE s.state = "AWAITING_PAYMENT"
  <2>1. tbl[s.id].state \in StatesAt("status")
    BY <1>2, <1>5 DEF Fresh, Exists, StatesAt, HoldLabels
  <2>2. "status" \in RowLabels \ CompleteLabels /\ "status" \notin HoldLabels
    BY DEF RowLabels, HoldLabels, CompleteLabels
  <2>3. WorkerOK([k EXCEPT !.pc = "status"], tbl, pay)
    <3>. HIDE DEF k
    <3>. QED
      BY <1>2, <1>3, <1>4, <2>1, <2>2, Bound
  <2>. QED
    BY <1>1, <1>5, <2>3, ReadServes DEF Poll
<1>6. CASE s.state # "AWAITING_PAYMENT"
  <2>1. WorkerOK(Polled(k), tbl, pay)
    <3>. HIDE DEF k
    <3>. QED
      BY <1>2, <1>3, <1>4, PolledFresh
  <2>. QED
    BY <1>1, <1>6, <2>1, ReadServes DEF Poll
<1>. QED
  BY <1>5, <1>6

LEMMA StatusServes ==
  ASSUME IInv, SInv, NEW p \in Procs, Status(p)
  PROVE  Serves(p)
<1> DEFINE j == job[p]
<1>1. /\ j \in Job /\ j.pc = "status" /\ j.pc \in RowLabels /\ j.on = "SADAD"
      /\ Become(p, IF IsPaid(Snapped(j).id) THEN Go(j, "poll_settle") ELSE Polled(j))
  BY WorkerKnows DEF Status, FlowOK, RowLabels
<1>2. (j.kind = "complete" /\ j.todo # <<>>) => Fresh(j.snap["WALLET"], tbl)
  BY <1>1, WorkerStands DEF KeptOK, PollLabels
<1>3. Fresh(j.snap["SADAD"], tbl)
  BY <1>1, WorkerStands DEF StandingOK, Snapped
<1>4. tbl[Snapped(j).id].state \in StatesAt("poll_settle")
  BY <1>1, WorkerStands DEF StatesAt, HoldLabels
<1>5. "poll_settle" \in RowLabels \ CompleteLabels /\ "poll_settle" \notin HoldLabels
  BY DEF RowLabels, HoldLabels, CompleteLabels
<1>6. WorkerOK(Go(j, "poll_settle"), tbl, pay)
  BY <1>1, <1>2, <1>4, <1>5, Bound
<1>7. WorkerOK(Polled(j), tbl, pay)
  BY <1>1, <1>2, <1>3, PolledFresh
<1>. QED
  BY <1>1, <1>6, <1>7, ReadServes DEF Status

LEMMA CashReadServes ==
  ASSUME IInv, SInv, NEW p \in Procs, CashRead(p)
  PROVE  Serves(p)
<1> DEFINE j == job[p]
<1>1. PICK s \in FindByIdempKey("CASH") :
       Become(p, IF ~Exists(s) /\ j.amount # 0 THEN [See(j, s) EXCEPT !.pc = "cash_insert"]
                 ELSE IF s.state = "HOLD_PROCESSING" THEN ToHold(See(j, s))
                 ELSE ToWallet(See(j, s)))
  BY DEF CashRead
<1> DEFINE k == See(j, s)
<1>2. /\ j \in Job /\ j.pc = "cash_read" /\ j.on = "CASH"
      /\ j.kind = "complete"
      /\ s \in Snap /\ SnapOK(s, j.on, tbl) /\ Fresh(s, tbl)
  <2>1. j.pc = "cash_read" /\ j.on = "CASH" /\ j.kind = "complete"
    BY WorkerKnows DEF CashRead, FlowOK, SettleLabels
  <2>. QED
    BY <2>1, FindByKeyOK, FindFresh, WorkerKnows DEF Methods
<1>3. /\ k \in Job /\ Snapped(k) = s /\ k.on = "CASH" /\ k.kind = "complete"
      /\ k.snap["CASH"] = s /\ k.snap["WALLET"] = j.snap["WALLET"]
  BY <1>2, WorkerKnows, SeeOK, SeeKeeps DEF Methods
<1>4. Fresh(k.snap["WALLET"], tbl)
  BY <1>2, <1>3, WorkerStands DEF KeptOK
<1>5. WorkerOK([k EXCEPT !.pc = "cash_insert"], tbl, pay)
  <2> DEFINE r == [k EXCEPT !.pc = "cash_insert"]
  <2>1. r.pc = "cash_insert" /\ r.snap = k.snap
    BY <1>3 DEF Job
  <2>. QED
    BY <1>4, <2>1 DEF WorkerOK, StandingOK, KeptOK, RowLabels, HoldLabels, CancelLabels,
         RollbackLabels, CompleteLabels
<1>6. ASSUME s.state = "HOLD_PROCESSING"
      PROVE  WorkerOK(ToHold(k), tbl, pay)
  <2>1. Exists(s)
    BY <1>6 DEF Exists
  <2>. HIDE DEF k
  <2>. QED
    BY <1>2, <1>3, <1>4, <1>6, <2>1, ToHoldFresh
<1>7. WorkerOK(ToWallet(k), tbl, pay)
  <2>. HIDE DEF k
  <2>. QED
    BY <1>2, <1>3, <1>4, ToWalletFresh
<1>. QED
  BY <1>1, <1>5, <1>6, <1>7, ReadServes DEF CashRead

-----------------------------------------------------------------------------
\* Requests, and their end

LEMMA RequestServes ==
  ASSUME IInv, NEW p \in Procs, NEW j, Request(p, j), WorkerOK(j, tbl, pay)
  PROVE  Serves(p)
  BY ReadServes DEF Request

LEMMA RequestsServe ==
  ASSUME IInv, NEW p \in Procs,
         Create(p) \/ Cancel(p) \/ Complete(p) \/ Rollback(p) \/ GetBreakdown(p)
  PROVE  Serves(p)
<1>1. \A kind \in RequestKinds : Begin(kind) \in Job
  <2>1. \A kind \in RequestKinds : kind \in RequestKinds \cup {"none", "notify"}
    OBVIOUS
  <2>. QED
    BY <2>1, IdleJobType DEF Begin, Job
<1>2. ASSUME NEW k, k.pc \in {"cancel_read", "wallet_read", "rollback_read"}
      PROVE  WorkerOK(k, tbl, pay)
  BY <1>2, Unbound DEF RowLabels, HoldLabels, CancelLabels, RollbackLabels
<1>3. CASE Create(p)
  <2>1. PICK opm \in OpenMethods, total \in Totals, currency \in OrderCurrencies :
          Request(p, StartCreate(Begin("create"), opm, total, currency))
    BY <1>3 DEF Create
  <2>2. opm \in OrderMethods /\ total \in Nat /\ currency \in Currencies
    BY KindsAreKnown, AmountsAreIntegers, CurrenciesAreKnown
  <2>3. WorkerOK(StartCreate(Begin("create"), opm, total, currency), tbl, pay)
    BY <1>1, <2>2, StartCreateUnbound DEF RequestKinds
  <2>. QED
    BY <2>1, <2>3, RequestServes
<1>4. CASE Cancel(p)
  <2> DEFINE r == [Begin("cancel") EXCEPT !.pc = "cancel_read", !.on = "SADAD",
                                          !.todo = <<"SADAD", "WALLET">>]
  <2>1. r.pc = "cancel_read"
    <3>1. Begin("cancel") \in Job
      BY <1>1 DEF RequestKinds
    <3>. QED
      BY <3>1 DEF Job
  <2>2. Request(p, r)
    BY <1>4 DEF Cancel
  <2>3. WorkerOK(r, tbl, pay)
    <3>. HIDE DEF r
    <3>. QED
      BY <1>2, <2>1
  <2>. QED
    BY <2>2, <2>3, RequestServes
<1>5. CASE Complete(p)
  <2>1. PICK total \in FinalTotals, currency \in OrderCurrencies :
          Request(p, [Begin("complete") EXCEPT !.pc = "wallet_read", !.on = "WALLET",
                        !.total = total, !.currency = currency,
                        !.todo = <<"SADAD", "WALLET", "CASH">>])
    BY <1>5 DEF Complete
  <2> DEFINE r == [Begin("complete") EXCEPT !.pc = "wallet_read", !.on = "WALLET",
                     !.total = total, !.currency = currency,
                     !.todo = <<"SADAD", "WALLET", "CASH">>]
  <2>2. r.pc = "wallet_read"
    <3>1. Begin("complete") \in Job
      BY <1>1 DEF RequestKinds
    <3>. QED
      BY <3>1 DEF Job
  <2>3. WorkerOK(r, tbl, pay)
    <3>. HIDE DEF r
    <3>. QED
      BY <1>2, <2>2
  <2>. QED
    BY <2>1, <2>3, RequestServes
<1>6. CASE Rollback(p)
  <2> DEFINE r == [Begin("rollback") EXCEPT !.pc = "rollback_read", !.on = "SADAD",
                                            !.todo = <<"SADAD", "CASH", "WALLET">>]
  <2>1. r.pc = "rollback_read"
    <3>1. Begin("rollback") \in Job
      BY <1>1 DEF RequestKinds
    <3>. QED
      BY <3>1 DEF Job
  <2>2. Request(p, r)
    BY <1>6 DEF Rollback
  <2>3. WorkerOK(r, tbl, pay)
    <3>. HIDE DEF r
    <3>. QED
      BY <1>2, <2>1
  <2>. QED
    BY <2>2, <2>3, RequestServes
<1>7. CASE GetBreakdown(p)
  <2>1. WorkerOK(Breakdown(Begin("breakdown")), tbl, pay)
    BY <1>1, LoopsUnbound DEF RequestKinds
  <2>. QED
    BY <1>7, <2>1, RequestServes DEF GetBreakdown
<1>. QED
  BY <1>3, <1>4, <1>5, <1>6, <1>7

LEMMA NotifyServes ==
  ASSUME IInv, NEW p \in Procs, NEW i \in Ids, Notify(p, i)
  PROVE  Serves(p)
<1> DEFINE b == [IdleJob EXCEPT !.kind = "notify", !.on = "SADAD"]
           s == SnapOf(i)
           j == See(b, s)
<1>1. b \in Job /\ b.on = "SADAD" /\ b.kind = "notify" /\ b.snap = NoSnaps
  <2>1. "SADAD" \in Methods
    BY DEF Methods
  <2>. QED
    BY <2>1, IdleJobType DEF Job, IdleJob
<1>2. s \in Snap /\ s.id = i
  <2>1. tbl[i] \in Row
    BY DEF IInv, LedgerOK
  <2>. QED
    BY <2>1 DEF SnapOf, Snap, Row
<1>3. j \in Job /\ Snapped(j).id = i /\ j.kind = "notify"
  BY <1>1, <1>2 DEF See, Job, Snapped
<1>4. WorkerOK(Go(j, "returned_false"), tbl, pay)
  BY RestUnbound DEF Go, RestLabels
<1>5. ASSUME NotifySwitch(tbl[i].state) = "notify_settle"
      PROVE  WorkerOK(Go(j, "notify_settle"), tbl, pay)
  <2>1. tbl[i].state \in StatesAt("notify_settle")
    BY <1>5 DEF NotifySwitch, StatesAt, HoldLabels
  <2>2. "notify_settle" \in RowLabels \ CompleteLabels
    BY DEF RowLabels, CompleteLabels
  <2>. HIDE DEF j
  <2>. QED
    BY <1>3, <2>1, <2>2, Bound
<1>. QED
  BY <1>4, <1>5, ReadServes DEF Notify, NotifySwitch

LEMMA CrashServes ==
  ASSUME IInv, NEW p \in Procs, Crash(p)
  PROVE  Serves(p)
  BY RestUnbound, ReadServes DEF Crash, Go, RestLabels

-----------------------------------------------------------------------------
\* Calls, answered, failed or late, and the payer

LEMMA HandleMoves ==
  ASSUME Ledger, NEW c \in Calls, Handle(c), tbl' = tbl, late' \subseteq late,
         Announced(c, tbl, pay)
  PROVE  LedgerStep
<1>1. c.op \in Ops /\ c.id \in Ids
  BY DEF Calls
<1>2. CASE pay[c.id] \in From(c.op)
  <2>1. pay[c.id] \notin TooLate(c.op)
    BY <1>1, <1>2 DEF From, TooLate, Ops, PayStates, Started, Undone
  <2>2. tbl[c.id].state \in Announcing(c.op)
    BY <2>1 DEF Announced
  <2>3. pay' = [pay EXCEPT ![c.id] = To(c.op, pay[c.id])]
    BY <1>2 DEF Handle
  <2>4. PayMoves(c.id)
    BY <1>1, <1>2, <2>2, <2>3, ToAdvances DEF PayMoves, Announces
  <2>. QED
    BY <1>1, <2>4 DEF LedgerStep
<1>3. CASE pay[c.id] \notin From(c.op)
  BY <1>3 DEF Handle, LedgerStep, Still
<1>. QED
  BY <1>2, <1>3

LEMMA CallServes ==
  ASSUME IInv, SInv, NEW p \in Procs, NEW op \in Ops, NEW adjust \in Nat, NEW answered,
         Call(p, op, adjust, answered), UNCHANGED <<tbl, served>>, job[p].pc \in RowLabels,
         op \in {"hold", "hold3P"} => job[p].pc \in HoldLabels,
         tbl[Snapped(job[p]).id].state \in Announcing(op),
         pay'[Snapped(job[p]).id] \in Done(op) => WorkerOK(answered, tbl, pay')
  PROVE  Serves(p)
<1> DEFINE id == Snapped(job[p]).id
           c == [op |-> op, id |-> id, adjust |-> adjust]
<1>1. c \in Calls /\ c.op = op /\ c.id = id /\ Announced(c, tbl, pay) /\ Ledger
  BY WorkerKnows, WorkerStands DEF Calls, Announced
<1>2. WorkerOK(job'[p], tbl', pay')
  <2>1. WorkerOK(Rest(job[p], "failed"), tbl, pay')
    BY RestUnbound DEF RestLabels
  <2>2. \/ Become(p, answered) /\ pay'[id] \in Done(op)
        \/ Become(p, Rest(job[p], "failed"))
    BY CallLedger
  <2>. QED
    BY <2>1, <2>2 DEF Become, IInv
<1>3. Answered(c) \/ Failed(c)
  BY DEF Call
<1>. HIDE DEF c, id
<1>4. CASE Answered(c) \/ AnswerLost(c)
  <2>1. Handle(c) /\ late' \subseteq late /\ tbl' = tbl
    BY <1>4 DEF Answered, AnswerLost
  <2>. QED
    BY <1>1, <1>2, <2>1, HandleMoves DEF Serves
<1>5. CASE Refused(c) \/ GivenUp(c)
  <2>1. UNCHANGED <<tbl, pay>> /\ late' \subseteq late \cup {c}
    BY <1>5 DEF Refused, GivenUp
  <2>2. Still
    BY <1>1, <2>1 DEF Still
  <2>. QED
    BY <1>2, <2>2 DEF Serves, LedgerStep
<1>. QED
  BY <1>3, <1>4, <1>5 DEF Failed

LEMMA HoldCallServes ==
  ASSUME IInv, SInv, NEW p \in Procs, HoldCall(p)
  PROVE  Serves(p)
<1> DEFINE j == job[p]
           i == Snapped(j).id
<1>1. /\ j \in Job /\ j.pc = "hold" /\ j.pc \in RowLabels /\ j.pc \in HoldLabels
      /\ "hold_settle" \in RowLabels \ CompleteLabels /\ "hold_settle" \notin PollLabels
      /\ "hold_settle" \in HoldLabels
  BY WorkerKnows DEF HoldCall, RowLabels, HoldLabels, CompleteLabels, PollLabels
<1>2. tbl[i].state = "HOLD_PROCESSING"
  BY <1>1, WorkerStands DEF StatesAt
<1>3. tbl[i].state \in Announcing(HoldOp(j.on)) /\ HoldOp(j.on) \in Ops
  BY <1>2 DEF Announcing, HoldOp, Ops
<1>4. WorkerOK(Go(j, "hold_settle"), tbl, pay')
  <2>1. tbl[i].state \in StatesAt("hold_settle")
    BY <1>2 DEF StatesAt, HoldLabels
  <2>2. j.kind = "complete" => j.on = "CASH" /\ Fresh(j.snap["WALLET"], tbl)
    BY <1>1, WorkerStands DEF KeptOK
  <2>. QED
    BY <1>1, <2>1, <2>2, Bound
<1>. QED
  BY <1>1, <1>3, <1>4, CallServes DEF HoldCall

LEMMA CancelCallServes ==
  ASSUME IInv, SInv, NEW p \in Procs, CancelCall(p)
  PROVE  Serves(p)
<1> DEFINE j == job[p]
           i == Snapped(j).id
           label == IF ToEndState(j) THEN "cancel_retire" ELSE "cancel_key"
<1>1. /\ j \in Job /\ j.pc = "cancel_call" /\ j.pc \in RowLabels
      /\ label \in RowLabels \ CompleteLabels /\ label \notin HoldLabels \cup PollLabels
      /\ label \notin {"status", "cancel_write"}
  BY WorkerKnows DEF CancelCall, RowLabels, CancelLabels, HoldLabels, CompleteLabels, PollLabels
<1>2. tbl[i].state = "CANCEL_PROCESSING"
  BY <1>1, WorkerStands DEF StatesAt, HoldLabels
<1>3. tbl[i].state \in Announcing("cancel") /\ "cancel" \in Ops
  BY <1>2 DEF Announcing, Ops
<1>4. ASSUME pay'[i] \in Done("cancel")
      PROVE  WorkerOK(Go(j, label), tbl, pay')
  <2>1. tbl[i].state \in StatesAt(label)
    BY <1>2 DEF StatesAt, HoldLabels
  <2>2. pay'[i] \in CalledOff
    BY <1>4 DEF Done, CalledOff
  <2>. HIDE DEF label
  <2>. QED
    BY <1>1, <2>1, <2>2, Bound
<1>. QED
  BY <1>1, <1>3, <1>4, CallServes DEF CancelCall

LEMMA CompleteCallServes ==
  ASSUME IInv, SInv, NEW p \in Procs, CompleteCall(p)
  PROVE  Serves(p)
<1> DEFINE j == job[p]
           i == Snapped(j).id
           op == IF IsTopup(j) THEN "release" ELSE "charge"
<1>1. /\ j \in Job /\ j.pc = "complete_call" /\ j.pc \in RowLabels
      /\ j.pc \in CompleteLabels /\ "complete_settle" \in CompleteLabels
  BY WorkerKnows DEF CompleteCall, RowLabels, CompleteLabels
<1>2. tbl[i].state = "COMPLETE_PROCESSING"
  BY <1>1, WorkerStands DEF StatesAt, HoldLabels
<1>3. tbl[i].state \in Announcing(op) /\ op \in Ops
  BY <1>2 DEF Announcing, Ops
<1>4. WorkerOK(Go(j, "complete_settle"), tbl, pay')
  <2>1. tbl[i].state \in StatesAt("complete_settle")
    BY <1>2 DEF StatesAt, HoldLabels
  <2>. QED
    BY <1>1, <2>1, WorkerStands, Settles DEF KeptOK
<1>. QED
  BY <1>1, <1>3, <1>4, CallServes DEF CompleteCall

LEMMA RollbackCallServes ==
  ASSUME IInv, SInv, NEW p \in Procs, RollbackCall(p)
  PROVE  Serves(p)
<1> DEFINE j == job[p]
           i == Snapped(j).id
           released == IF j.on = "CASH" /\ IsReleased(i) THEN Snapped(j).amount ELSE 0
           k == [j EXCEPT !.amount = released]
<1>1. /\ j \in Job /\ j.pc = "rollback_call" /\ j.pc \in RowLabels /\ Snapped(j) \in Snap
      /\ "rollback_settle" \in RowLabels \ CompleteLabels
      /\ "rollback_settle" \notin HoldLabels \cup PollLabels
  BY WorkerKnows DEF RollbackCall, RowLabels, RollbackLabels, HoldLabels, CompleteLabels,
                     PollLabels
<1>2. tbl[i].state = "ROLLBACK_PROCESSING"
  BY <1>1, WorkerStands DEF StatesAt, HoldLabels
<1>3. tbl[i].state \in Announcing("rollback") /\ "rollback" \in Ops
  BY <1>2 DEF Announcing, Ops
<1>4. Adjusted(j) \in Nat
  <2>1. j.snap["WALLET"] \in Snap /\ j.amount \in Int
    BY <1>1 DEF Job, Methods
  <2>. QED
    BY <2>1 DEF Adjusted, Snap
<1>5. WorkerOK([j EXCEPT !.pc = "rollback_settle", !.amount = released], tbl, pay')
  <2>1. tbl[i].state \in StatesAt("rollback_settle")
    BY <1>2 DEF StatesAt, HoldLabels
  <2>2. released \in Int
    BY <1>1 DEF Snap
  <2>3. k \in Job /\ Snapped(k) = Snapped(j)
    BY <1>1, <2>2 DEF Job, Snapped
  <2>4. WorkerOK([k EXCEPT !.pc = "rollback_settle"], tbl, pay')
    <3>. HIDE DEF k
    <3>. QED
      BY <1>1, <2>1, <2>3, Bound
  <2>5. [k EXCEPT !.pc = "rollback_settle"]
          = [j EXCEPT !.pc = "rollback_settle", !.amount = released]
    OBVIOUS
  <2>. QED
    BY <2>4, <2>5
<1>. QED
  BY <1>1, <1>3, <1>4, <1>5, CallServes DEF RollbackCall

LEMMA LateCallMoves ==
  ASSUME IInv, SInv, LateCall
  PROVE  LedgerStep
<1>1. PICK c \in late : HandleLate(c) /\ UNCHANGED <<tbl, job, served>>
  BY DEF LateCall
<1>2. c \in Calls /\ Announced(c, tbl, pay) /\ Ledger
  BY DEF IInv, LedgerOK, SInv, SLedger, LateOK, Ledger
<1>. QED
  BY <1>1, <1>2, HandleMoves DEF HandleLate

LEMMA PayerMoves ==
  ASSUME IInv, Payer
  PROVE  LedgerStep
  BY DEF Payer, PayBill, LedgerStep, PayMoves, Announces, PayStates

-----------------------------------------------------------------------------
\* Writes

\* A row the worker did not write is where its snapshots say.
LEMMA FreshStays ==
  ASSUME IInv, NEW p \in Procs, NEW i \in Ids, RowMoves(i), tbl[i].pm = job[p].on,
         NEW m \in Methods, m # job[p].on, Fresh(job[p].snap[m], tbl)
  PROVE  Fresh(job[p].snap[m], tbl')
<1> DEFINE s == job[p].snap[m]
<1>1. Exists(s) => s.id \in Ids /\ tbl[s.id].pm = m
  BY WorkerKnows DEF SnapsOK, SnapOK
<1>2. Exists(s) => tbl'[s.id] = tbl[s.id]
  BY <1>1 DEF RowMoves
<1>. QED
  BY <1>2 DEF Fresh

\* A write that moves the row in hand along its life cycle, its payment agreeing.
LEMMA SetMoves ==
  ASSUME IInv, SInv, NEW p \in Procs, job[p].pc \in RowLabels,
         NEW state \in States \ {"ROLLBACKED"}, SetState(Snapped(job[p]).id, state),
         UNCHANGED <<pay, late>>,
         <<tbl[Snapped(job[p]).id].state, state>> \in Lifecycle,
         pay[Snapped(job[p]).id] \in Agreeing(tbl[Snapped(job[p]).id].pm)[state]
  PROVE  LET i == Snapped(job[p]).id
         IN  /\ RowMoves(i) /\ LedgerStep
             /\ i \in Ids /\ tbl[i].pm = job[p].on
             /\ tbl'[i].state = state
<1> DEFINE i == Snapped(job[p]).id
<1>1. /\ i \in Ids /\ tbl[i].state # "ABSENT" /\ tbl[i].pm = job[p].on
      /\ tbl[i] \in Row /\ tbl \in [Ids -> Row]
  BY WorkerKnows DEF LedgerOK
<1>2. tbl[i].live
  <2>1. tbl[i].live <=> tbl[i].state # "ROLLBACKED"
    BY WorkerStands
  <2>. QED
    BY <2>1 DEF Lifecycle
<1>3. tbl' = [tbl EXCEPT ![i] = [tbl[i] EXCEPT !.state = state]]
  BY <1>1 DEF SetState
<1>4. /\ \A k \in Ids \ {i} : tbl'[k] = tbl[k]
      /\ tbl'[i].state = state /\ tbl'[i].pm = tbl[i].pm /\ tbl'[i].live = tbl[i].live
      /\ tbl'[i].amount = tbl[i].amount
  BY <1>1, <1>3 DEF Row
<1>5. RowMoves(i)
  BY <1>2, <1>4 DEF RowMoves
<1>. QED
  BY <1>1, <1>4, <1>5 DEF LedgerStep

LEMMA HoldSettleServes ==
  ASSUME IInv, SInv, NEW p \in Procs, HoldSettle(p)
  PROVE  Serves(p)
<1> DEFINE j == job[p]
           i == Snapped(j).id
           state == HeldState(j.on)
           k == [j EXCEPT !.snap[j.on].state = state]
<1>1. /\ j \in Job /\ j.pc = "hold_settle" /\ j.pc \in RowLabels /\ j.pc \in HoldLabels
      /\ (j.kind = "create" /\ j.todo # <<>>) \/ j.kind = "complete"
      /\ tbl[i].pm = j.on /\ j.on \in Methods
      /\ pay[i] \in Begun /\ (IsInstantPayment(j.on) => pay[i] \in Collected)
      /\ SetState(i, state) /\ UNCHANGED <<pay, late>> /\ Become(p, AfterHold(j, state))
  BY WorkerKnows DEF HoldSettle, Mark, FlowOK, AnswerOK, RowLabels, HoldLabels
<1>2. tbl[i].state = "HOLD_PROCESSING" /\ pay[i] \in Agreeing(tbl[i].pm)[tbl[i].state]
  BY <1>1, WorkerStands DEF StatesAt
<1>3. /\ state \in States \ {"ROLLBACKED"} /\ <<tbl[i].state, state>> \in Lifecycle
      /\ pay[i] \in Agreeing(tbl[i].pm)[state]
  BY <1>1, <1>2 DEF HeldState, States, Lifecycle, Agreeing, Begun, Collected
<1>4. RowMoves(i) /\ LedgerStep /\ i \in Ids /\ tbl'[i].state = state
  BY <1>1, <1>3, SetMoves
<1>5. WorkerOK(AfterHold(j, state), tbl', pay')
  <2>1. CASE j.kind = "create"
    BY <1>1, <2>1, CreatedUnbound DEF AfterHold
  <2>2. CASE j.kind = "complete"
    <3>1. j.on = "CASH" /\ Fresh(j.snap["WALLET"], tbl)
      BY <1>1, <2>2, WorkerStands DEF KeptOK
    <3>2. [Snapped(j) EXCEPT !.state = state] \in Snap
      BY <1>1, <1>3, WorkerKnows DEF Snap
    <3>3. k = [j EXCEPT !.snap = [j.snap EXCEPT ![j.on] = [Snapped(j) EXCEPT !.state = state]]]
      BY <1>1 DEF Job, Snapped
    <3>4. /\ k \in Job /\ k.snap["WALLET"] = j.snap["WALLET"]
          /\ k.snap["CASH"] = [Snapped(j) EXCEPT !.state = state]
      BY <1>1, <3>1, <3>2, <3>3 DEF Job, Methods
    <3>5. Fresh(k.snap["WALLET"], tbl')
      BY <1>1, <1>4, <3>1, <3>4, FreshStays DEF Methods
    <3>6. Fresh(k.snap["CASH"], tbl')
      <4>1. Snapped(j) \in Snap
        BY <1>1, WorkerKnows
      <4>2. k.snap["CASH"].id = i /\ k.snap["CASH"].state = state
        BY <3>4, <4>1 DEF Snap
      <4>. QED
        BY <1>4, <4>2 DEF Fresh
    <3>7. WorkerOK(ToWallet(k), tbl', pay')
      <4>. HIDE DEF k
      <4>. QED
        BY <3>4, <3>5, <3>6, ToWalletFresh
    <3>. QED
      BY <2>2, <3>7 DEF AfterHold
  <2>. QED
    BY <1>1, <2>1, <2>2
<1>. QED
  BY <1>1, <1>4, <1>5 DEF Serves, Become, IInv

LEMMA CancelMarkServes ==
  ASSUME IInv, SInv, NEW p \in Procs, CancelMark(p)
  PROVE  Serves(p)
<1> DEFINE j == job[p]
           i == Snapped(j).id
<1>1. /\ j \in Job /\ j.pc = "cancel_mark" /\ j.pc \in RowLabels
      /\ "cancel_call" \in RowLabels \ CompleteLabels
      /\ "cancel_call" \notin HoldLabels \cup PollLabels
      /\ SetState(i, "CANCEL_PROCESSING") /\ UNCHANGED <<pay, late>>
      /\ Become(p, Go(j, "cancel_call"))
  BY WorkerKnows DEF CancelMark, Mark, RowLabels, CancelLabels, HoldLabels, CompleteLabels,
                     PollLabels
<1>2. /\ tbl[i].state \in {"HOLD", "AWAITING_PAYMENT"}
      /\ pay[i] \in Agreeing(tbl[i].pm)[tbl[i].state]
  BY <1>1, WorkerStands DEF StatesAt, HoldLabels
<1>3. /\ "CANCEL_PROCESSING" \in States \ {"ROLLBACKED"}
      /\ <<tbl[i].state, "CANCEL_PROCESSING">> \in Lifecycle
      /\ pay[i] \in Agreeing(tbl[i].pm)["CANCEL_PROCESSING"]
  BY <1>2 DEF States, Lifecycle, Agreeing
<1>4. LedgerStep /\ tbl'[i].state = "CANCEL_PROCESSING"
  BY <1>1, <1>3, SetMoves
<1>5. tbl'[i].state \in StatesAt("cancel_call")
  BY <1>4 DEF StatesAt, HoldLabels
<1>6. WorkerOK(Go(j, "cancel_call"), tbl', pay')
  BY <1>1, <1>5, Bound
<1>. QED
  BY <1>1, <1>4, <1>6 DEF Serves, Become, IInv

LEMMA RollbackMarkServes ==
  ASSUME IInv, SInv, NEW p \in Procs, RollbackMark(p)
  PROVE  Serves(p)
<1> DEFINE j == job[p]
           i == Snapped(j).id
<1>1. /\ j \in Job /\ j.pc = "rollback_mark" /\ j.pc \in RowLabels
      /\ "rollback_call" \in RowLabels \ CompleteLabels
      /\ "rollback_call" \notin HoldLabels \cup PollLabels
      /\ SetState(i, "ROLLBACK_PROCESSING") /\ UNCHANGED <<pay, late>>
      /\ Become(p, Go(j, "rollback_call"))
  BY WorkerKnows DEF RollbackMark, Mark, RowLabels, RollbackLabels, HoldLabels,
                     CompleteLabels, PollLabels
<1>2. /\ tbl[i].state \in {"COMPLETED", "CANCELLED"}
      /\ pay[i] \in Agreeing(tbl[i].pm)[tbl[i].state]
  BY <1>1, WorkerStands DEF StatesAt, HoldLabels
<1>3. /\ "ROLLBACK_PROCESSING" \in States \ {"ROLLBACKED"}
      /\ <<tbl[i].state, "ROLLBACK_PROCESSING">> \in Lifecycle
      /\ pay[i] \in Agreeing(tbl[i].pm)["ROLLBACK_PROCESSING"]
  BY <1>2 DEF States, Lifecycle, Agreeing
<1>4. LedgerStep /\ tbl'[i].state = "ROLLBACK_PROCESSING"
  BY <1>1, <1>3, SetMoves
<1>5. tbl'[i].state \in StatesAt("rollback_call")
  BY <1>4 DEF StatesAt, HoldLabels
<1>6. WorkerOK(Go(j, "rollback_call"), tbl', pay')
  BY <1>1, <1>5, Bound
<1>. QED
  BY <1>1, <1>4, <1>6 DEF Serves, Become, IInv

LEMMA CompleteMarkServes ==
  ASSUME IInv, SInv, NEW p \in Procs, CompleteMark(p)
  PROVE  Serves(p)
<1> DEFINE j == job[p]
           i == Snapped(j).id
<1>1. /\ j \in Job /\ j.pc = "complete_mark" /\ j.pc \in RowLabels /\ j.pc \in CompleteLabels
      /\ "complete_call" \in CompleteLabels
      /\ SetState(i, "COMPLETE_PROCESSING") /\ UNCHANGED <<pay, late>>
      /\ Become(p, Go(j, "complete_call"))
  BY WorkerKnows DEF CompleteMark, Mark, RowLabels, CompleteLabels
<1>2. tbl[i].state = "HOLD" /\ pay[i] \in Agreeing(tbl[i].pm)[tbl[i].state]
  BY <1>1, WorkerStands DEF StatesAt, HoldLabels
<1>3. /\ "COMPLETE_PROCESSING" \in States \ {"ROLLBACKED"}
      /\ <<tbl[i].state, "COMPLETE_PROCESSING">> \in Lifecycle
      /\ pay[i] \in Agreeing(tbl[i].pm)["COMPLETE_PROCESSING"]
  BY <1>2 DEF States, Lifecycle, Agreeing
<1>4. /\ RowMoves(i) /\ LedgerStep /\ i \in Ids /\ tbl[i].pm = j.on
      /\ tbl'[i].state = "COMPLETE_PROCESSING"
  BY <1>1, <1>3, SetMoves
<1>5. tbl'[i].state \in StatesAt("complete_call")
  BY <1>4 DEF StatesAt, HoldLabels
<1>6. /\ j.on = "SADAD" => Fresh(j.snap["WALLET"], tbl')
      /\ j.on = "WALLET" => Fresh(j.snap["CASH"], tbl')
  BY <1>1, <1>4, WorkerStands, FreshStays DEF KeptOK, Methods
<1>7. WorkerOK(Go(j, "complete_call"), tbl', pay')
  BY <1>1, <1>5, <1>6, Settles
<1>. QED
  BY <1>1, <1>4, <1>7 DEF Serves, Become, IInv

LEMMA CompleteSettleServes ==
  ASSUME IInv, SInv, NEW p \in Procs, CompleteSettle(p)
  PROVE  Serves(p)
<1> DEFINE j == job[p]
           i == Snapped(j).id
<1>1. /\ j \in Job /\ j.pc = "complete_settle" /\ j.pc \in RowLabels
      /\ j.pc \in CompleteLabels /\ pay[i] \in Taken /\ j.on \in {"SADAD", "WALLET", "CASH"}
      /\ SetState(i, "COMPLETED") /\ UNCHANGED <<pay, late>> /\ Become(p, Settled(j))
  BY WorkerKnows DEF CompleteSettle, Mark, RowLabels, CompleteLabels, AnswerOK, Methods
<1>2. tbl[i].state = "COMPLETE_PROCESSING" /\ pay[i] \in Agreeing(tbl[i].pm)[tbl[i].state]
  BY <1>1, WorkerStands DEF StatesAt, HoldLabels
<1>3. /\ "COMPLETED" \in States \ {"ROLLBACKED"} /\ <<tbl[i].state, "COMPLETED">> \in Lifecycle
      /\ pay[i] \in Agreeing(tbl[i].pm)["COMPLETED"]
  BY <1>1, <1>2 DEF States, Lifecycle, Agreeing, Taken
<1>4. /\ RowMoves(i) /\ LedgerStep /\ i \in Ids /\ tbl[i].pm = j.on
  BY <1>1, <1>3, SetMoves
<1>5. /\ j.on = "SADAD" => Fresh(j.snap["WALLET"], tbl')
      /\ j.on = "WALLET" => Fresh(j.snap["CASH"], tbl')
  BY <1>1, <1>4, WorkerStands, FreshStays DEF KeptOK, Methods
<1>6. WorkerOK(Settled(j), tbl', pay')
  BY <1>1, <1>5, ToCashRowFresh, ToCashFresh, LoopsUnbound DEF Settled
<1>. QED
  BY <1>1, <1>4, <1>6 DEF Serves, Become, IInv

\* getSubtransactions and paymentNotification take the payment for held.
LEMMA PaidMoves ==
  ASSUME IInv, SInv, NEW p \in Procs, job[p].pc \in {"poll_settle", "notify_settle"},
         SetState(Snapped(job[p]).id, "HOLD"), UNCHANGED <<pay, late>>
  PROVE  LET i == Snapped(job[p]).id
         IN  /\ RowMoves(i) /\ LedgerStep
             /\ i \in Ids /\ tbl[i].pm = job[p].on /\ tbl'[i].state = "HOLD"
<1> DEFINE j == job[p]
           i == Snapped(j).id
<1>1. j.pc \in RowLabels /\ pay[i] \in Collected
  BY WorkerKnows DEF RowLabels, AnswerOK
<1>2. /\ tbl[i].state \in {"AWAITING_PAYMENT", "HOLD_PROCESSING"}
      /\ pay[i] \in Agreeing(tbl[i].pm)[tbl[i].state]
  BY <1>1, WorkerStands DEF StatesAt, HoldLabels
<1>3. /\ "HOLD" \in States \ {"ROLLBACKED"} /\ <<tbl[i].state, "HOLD">> \in Lifecycle
      /\ pay[i] \in Agreeing(tbl[i].pm)["HOLD"]
  BY <1>1, <1>2 DEF States, Lifecycle, Agreeing, Collected
<1>. QED
  BY <1>1, <1>3, SetMoves

LEMMA NotifySettleServes ==
  ASSUME IInv, SInv, NEW p \in Procs, NotifySettle(p)
  PROVE  Serves(p)
<1>1. LedgerStep
  BY PaidMoves DEF NotifySettle, Mark
<1>. QED
  BY <1>1, RestUnbound DEF NotifySettle, Mark, Serves, Become, IInv, Go, RestLabels

LEMMA PollSettleServes ==
  ASSUME IInv, SInv, NEW p \in Procs, PollSettle(p)
  PROVE  Serves(p)
<1> DEFINE j == job[p]
           i == Snapped(j).id
           k == [j EXCEPT !.snap["SADAD"].state = "HOLD"]
<1>1. /\ j \in Job /\ j.pc = "poll_settle" /\ j.pc \in RowLabels /\ j.on = "SADAD"
      /\ Snapped(j) \in Snap /\ Become(p, Polled(k))
      /\ SetState(i, "HOLD") /\ UNCHANGED <<pay, late>>
  BY WorkerKnows DEF PollSettle, Mark, FlowOK, RowLabels
<1>2. RowMoves(i) /\ LedgerStep /\ i \in Ids /\ tbl[i].pm = j.on /\ tbl'[i].state = "HOLD"
  BY <1>1, PaidMoves
<1>3. /\ k = [j EXCEPT !.snap = [j.snap EXCEPT !["SADAD"] = [Snapped(j) EXCEPT !.state = "HOLD"]]]
      /\ [Snapped(j) EXCEPT !.state = "HOLD"] \in Snap
  BY <1>1 DEF Job, Snapped, Snap, States
<1>4. /\ k \in Job /\ k.kind = j.kind /\ k.todo = j.todo
      /\ k.snap["WALLET"] = j.snap["WALLET"]
      /\ k.snap["SADAD"] = [Snapped(j) EXCEPT !.state = "HOLD"]
  BY <1>1, <1>3 DEF Job, Methods
<1>5. Fresh(k.snap["SADAD"], tbl')
  <2>1. k.snap["SADAD"].id = i /\ k.snap["SADAD"].state = "HOLD"
    BY <1>1, <1>4 DEF Snap
  <2>. QED
    BY <1>2, <2>1 DEF Fresh
<1>6. (k.kind = "complete" /\ k.todo # <<>>) => Fresh(k.snap["WALLET"], tbl')
  BY <1>1, <1>2, <1>4, WorkerStands, FreshStays DEF KeptOK, PollLabels, Methods
<1>7. WorkerOK(Polled(k), tbl', pay')
  <2>. HIDE DEF k
  <2>. QED
    BY <1>4, <1>5, <1>6, PolledFresh
<1>. QED
  BY <1>1, <1>2, <1>7 DEF Serves, Become, IInv

LEMMA CancelRetireServes ==
  ASSUME IInv, SInv, NEW p \in Procs, CancelRetire(p)
  PROVE  Serves(p)
<1> DEFINE j == job[p]
           i == Snapped(j).id
<1>1. /\ j \in Job /\ j.pc = "cancel_retire" /\ j.pc \in RowLabels /\ j.on = "SADAD"
      /\ i \in Ids /\ tbl[i].pm = "SADAD" /\ tbl[i] \in Row
      /\ tbl \in [Ids -> Row] /\ pay[i] \in PayStates
  BY WorkerKnows DEF CancelRetire, FlowOK, RowLabels, CancelLabels, LedgerOK
<1>2. /\ tbl[i].state \in {"HOLD_PROCESSING", "CANCEL_PROCESSING"}
      /\ pay[i] \in Agreeing(tbl[i].pm)[tbl[i].state]
      /\ tbl[i].state = "CANCEL_PROCESSING" => pay[i] \in CalledOff
  BY <1>1, WorkerStands DEF StatesAt, HoldLabels, StandingOK
<1>3. tbl' = [tbl EXCEPT ![i] = [tbl[i] EXCEPT !.state = "ROLLBACKED", !.live = FALSE]]
  BY <1>1 DEF CancelRetire, RetireRow
<1>4. /\ \A k \in Ids \ {i} : tbl'[k] = tbl[k]
      /\ tbl'[i].state = "ROLLBACKED" /\ tbl'[i].pm = tbl[i].pm /\ tbl'[i].live = FALSE
      /\ tbl'[i].amount = tbl[i].amount
  BY <1>1, <1>3 DEF Row
<1>5. pay[i] \in Agreeing(tbl'[i].pm)[tbl'[i].state]
  BY <1>1, <1>2, <1>4 DEF Agreeing, States, PayStates, IsInstantPayment
<1>6. RowMoves(i)
  BY <1>2, <1>4, <1>5 DEF CancelRetire, RowMoves, Lifecycle
<1>. QED
  BY <1>1, <1>6, LoopsUnbound DEF CancelRetire, Serves, LedgerStep, Become, IInv

LEMMA RollbackSettleServes ==
  ASSUME IInv, SInv, NEW p \in Procs, RollbackSettle(p)
  PROVE  Serves(p)
<1> DEFINE j == job[p]
           i == Snapped(j).id
<1>1. /\ j \in Job /\ j.pc = "rollback_settle" /\ j.pc \in RowLabels
      /\ i \in Ids /\ tbl[i] \in Row /\ tbl \in [Ids -> Row] /\ pay[i] \in Undone
  BY WorkerKnows DEF RollbackSettle, AnswerOK, RowLabels, RollbackLabels, LedgerOK
<1>2. tbl[i].state = "ROLLBACK_PROCESSING"
  BY <1>1, WorkerStands DEF StatesAt, HoldLabels
<1>3. tbl' = [tbl EXCEPT ![i] = [tbl[i] EXCEPT !.state = "ROLLBACKED", !.live = FALSE]]
  BY <1>1 DEF RollbackSettle, RetireRow
<1>4. /\ \A k \in Ids \ {i} : tbl'[k] = tbl[k]
      /\ tbl'[i].state = "ROLLBACKED" /\ tbl'[i].pm = tbl[i].pm /\ tbl'[i].live = FALSE
      /\ tbl'[i].amount = tbl[i].amount
  BY <1>1, <1>3 DEF Row
<1>5. pay[i] \in Agreeing(tbl'[i].pm)[tbl'[i].state] /\ pay[i] \in CalledOff
  BY <1>1, <1>4 DEF Agreeing, States, PayStates, Undone, CalledOff
<1>6. RowMoves(i)
  BY <1>1, <1>2, <1>4, <1>5 DEF RollbackSettle, RowMoves, Lifecycle
<1>. QED
  BY <1>1, <1>6, RolledBackUnbound DEF RollbackSettle, Serves, LedgerStep, Become, IInv

LEMMA CancelWriteServes ==
  ASSUME IInv, SInv, NEW p \in Procs, CancelWrite(p)
  PROVE  Serves(p)
<1> DEFINE j == job[p]
           i == Snapped(j).id
<1>1. /\ j \in Job /\ j.pc = "cancel_write" /\ j.pc \in RowLabels
      /\ i \in Ids /\ tbl[i] \in Row /\ tbl \in [Ids -> Row] /\ pay[i] \in CalledOff
  BY WorkerKnows DEF CancelWrite, AnswerOK, RowLabels, CancelLabels, LedgerOK
<1>2. /\ tbl[i].state = "CANCEL_PROCESSING" /\ Snapped(j).live
      /\ pay[i] \in Agreeing(tbl[i].pm)[tbl[i].state]
  BY <1>1, WorkerStands DEF StatesAt, HoldLabels, StandingOK
<1>3. CASE WriteCancelled(i, Snapped(j).live) /\ Become(p, Cancelled(j))
  <2>1. Snapped(j).live = TRUE
    <3>1. Snapped(j) \in Snap
      BY <1>1, WorkerKnows
    <3>. QED
      BY <1>2, <3>1 DEF Snap
  <2>2. tbl' = [tbl EXCEPT ![i] = [tbl[i] EXCEPT !.state = "CANCELLED", !.live = TRUE]]
    BY <1>1, <1>3, <2>1 DEF WriteCancelled
  <2>3. /\ \A k \in Ids \ {i} : tbl'[k] = tbl[k]
        /\ tbl'[i].state = "CANCELLED" /\ tbl'[i].pm = tbl[i].pm /\ tbl'[i].live = TRUE
        /\ tbl'[i].amount = tbl[i].amount
    BY <1>1, <2>2 DEF Row
  <2>4. pay[i] \in Agreeing(tbl'[i].pm)[tbl'[i].state]
    BY <1>1, <1>2, <2>3 DEF Agreeing, States, CalledOff
  <2>5. RowMoves(i)
    BY <1>2, <2>3, <2>4 DEF CancelWrite, RowMoves, Lifecycle
  <2>. QED
    BY <1>1, <1>3, <2>5, LoopsUnbound DEF Serves, LedgerStep, Become, IInv
<1>4. CASE Become(p, Go(j, "failed")) /\ UNCHANGED tbl
  BY <1>4, RestUnbound, ReadServes DEF CancelWrite, Go, RestLabels
<1>. QED
  BY <1>3, <1>4 DEF CancelWrite

LEMMA InsertServes ==
  ASSUME IInv, SInv, NEW p \in Procs, Insert(p)
  PROVE  Serves(p)
<1> DEFINE j == job[p]
           amount == IF j.amount < 0 THEN -j.amount ELSE j.amount
<1>1. /\ j \in Job /\ j.on \in Methods /\ amount \in Nat /\ j.currency \in Currencies
      /\ \/ j.kind = "create" /\ j.todo # <<>>
         \/ j.kind = "complete" /\ j.pc = "cash_insert" /\ j.on = "CASH"
  BY WorkerKnows DEF Insert, FlowOK, CreateLabels, LoopLabels, SettleLabels
<1>2. ASSUME NEW i \in Ids, CreateRow(i, j.on, amount, j.currency),
             Become(p, ToHold(See(j, [id |-> i, state |-> "HOLD_PROCESSING", amount |-> amount,
                                      currency |-> j.currency, live |-> TRUE])))
      PROVE  Serves(p)
  <2> DEFINE s == [id |-> i, state |-> "HOLD_PROCESSING", amount |-> amount,
                   currency |-> j.currency, live |-> TRUE]
             k == See(j, s)
  <2>1. /\ tbl[i].state = "ABSENT" /\ pay[i] = "NONE" /\ UNCHANGED <<pay, late>>
        /\ \A n \in Ids \ {i} : tbl'[n] = tbl[n]
        /\ tbl'[i].state = "HOLD_PROCESSING" /\ tbl'[i].pm = j.on /\ tbl'[i].live = TRUE
    BY <1>2 DEF Insert, CreateRow, Stored, IInv, LedgerOK, SInv, SLedger, Agreed
  <2>2. RowMoves(i)
    BY <1>1, <2>1 DEF RowMoves, Lifecycle, Agreeing, States
  <2>3. s \in Snap
    BY <1>1 DEF Snap, States
  <2>4. /\ k \in Job /\ Snapped(k) = s /\ k.kind = j.kind /\ k.on = j.on /\ k.todo = j.todo
        /\ j.on # "WALLET" => k.snap["WALLET"] = j.snap["WALLET"]
    <3>. HIDE DEF s
    <3>. QED
      BY <1>1, <2>3, SeeKeeps DEF See, Job, Snapped, Methods
  <2>5. Exists(s) /\ s.state = "HOLD_PROCESSING" /\ Fresh(s, tbl')
    BY <2>1 DEF Exists, Fresh
  <2>6. k.kind = "complete" => k.on = "CASH" /\ Fresh(k.snap["WALLET"], tbl')
    <3>1. ASSUME j.kind = "complete"
          PROVE  Fresh(j.snap["WALLET"], tbl')
      <4>1. Fresh(j.snap["WALLET"], tbl) /\ SnapOK(j.snap["WALLET"], "WALLET", tbl)
        BY <1>1, <3>1, WorkerStands, WorkerKnows DEF KeptOK, SnapsOK, Methods
      <4>. QED
        BY <2>1, <4>1 DEF Fresh, SnapOK
    <3>. QED
      BY <1>1, <2>4, <3>1
  <2>8. WorkerOK(ToHold(k), tbl', pay')
    <3>1. \/ k.kind = "create" /\ k.todo # <<>>
          \/ k.kind = "complete" /\ k.on = "CASH" /\ Fresh(k.snap["WALLET"], tbl')
      BY <1>1, <2>4, <2>6
    <3>. HIDE DEF k, s
    <3>. QED
      BY <2>4, <2>5, <3>1, ToHoldFresh
  <2>9. job'[p] = ToHold(k)
    BY <1>2 DEF Become, IInv
  <2>. HIDE DEF k
  <2>. QED
    BY <2>2, <2>8, <2>9 DEF Serves, LedgerStep
<1>3. ASSUME Become(p, Go(j, "failed")), UNCHANGED tbl
      PROVE  Serves(p)
  BY <1>3, RestUnbound, ReadServes DEF Insert, Go, RestLabels
<1>. QED
  BY <1>2, <1>3 DEF Insert

-----------------------------------------------------------------------------
\* Every step

\* What is called off stays called off.
LEMMA CalledOffStays ==
  ASSUME Ledger, LedgerStep, NEW i \in Ids, pay[i] \in CalledOff
  PROVE  pay'[i] \in CalledOff
<1>1. ASSUME NEW k \in Ids, NEW to \in PayStates, Announces(pay[k], to, tbl[k].state),
             pay' = [pay EXCEPT ![k] = to]
      PROVE  pay'[i] \in CalledOff
  BY <1>1 DEF Ledger, LedgerOK, Announces, Ops, From, To, CalledOff
<1>. QED
  BY <1>1 DEF LedgerStep, Still, RowMoves, PayMoves

\* The ledger moves in one of its three ways, and a single worker goes on knowing its rows.
LEMMA NextServes ==
  ASSUME Serial, IInv, SInv, [TNext]_tvars
  PROVE  LedgerStep /\ \A p \in Procs : WorkerOK(job'[p], tbl', pay')
<1>1. PICK w : Procs = {w}
  BY DEF Serial
<1>2. ASSUME NEW p \in Procs, Serve(p) \/ Advance(p) \/ Crash(p)
      PROVE  Serves(p)
  <2>1. CASE Serve(p)
    BY <2>1, RequestsServe, NotifyServes DEF Serve
  <2>2. CASE Crash(p)
    BY <2>2, CrashServes
  <2>3. CASE Advance(p)
    <3>1. CASE \/ ResolveWallet(p) \/ ResolveSadad(p) \/ CreateRead(p) \/ Insert(p)
               \/ HoldCall(p) \/ HoldSettle(p)
      BY <3>1, ResolvesServe, CreateReadServes, InsertServes, HoldCallServes, HoldSettleServes
    <3>2. CASE \/ CancelRead(p) \/ CancelMark(p) \/ CancelCall(p) \/ CancelRetire(p)
               \/ CancelKey(p) \/ CancelWrite(p)
      BY <3>2, CancelReadServes, CancelMarkServes, CancelCallServes, CancelRetireServes,
         CancelKeyServes, CancelWriteServes
    <3>3. CASE \/ WalletRead(p) \/ Poll(p) \/ Status(p) \/ PollSettle(p)
               \/ CompleteMark(p) \/ CompleteCall(p) \/ CompleteSettle(p) \/ CashRead(p)
      BY <3>3, WalletReadServes, PollServes, StatusServes, PollSettleServes,
         CompleteMarkServes, CompleteCallServes, CompleteSettleServes, CashReadServes
    <3>4. CASE \/ RollbackRead(p) \/ RollbackMark(p) \/ RollbackCall(p) \/ RollbackSettle(p)
               \/ NotifySettle(p)
      BY <3>4, RollbackReadServes, RollbackMarkServes, RollbackCallServes,
         RollbackSettleServes, NotifySettleServes
    <3>. QED
      BY <2>3, <3>1, <3>2, <3>3, <3>4 DEF Advance
  <2>. QED
    BY <1>2, <2>1, <2>2, <2>3
<1>3. ASSUME LedgerStep, UNCHANGED <<tbl, job>>, NEW p \in Procs
      PROVE  WorkerOK(job'[p], tbl', pay')
  <2>1. \A i \in Ids : pay[i] \in CalledOff => pay'[i] \in CalledOff
    BY <1>3, CalledOffStays DEF IInv, SInv, Ledger
  <2>2. job[p].pc \in RowLabels => Snapped(job[p]).id \in Ids
    BY WorkerKnows
  <2>3. "cancel_retire" \in RowLabels
    BY DEF RowLabels, CancelLabels
  <2>. QED
    BY <1>3, <2>1, <2>2, <2>3 DEF SInv, WorkerOK, StandingOK
<1>4. ASSUME LateCall \/ Payer \/ UNCHANGED tvars
      PROVE  LedgerStep /\ UNCHANGED <<tbl, job>>
  BY <1>4, LateCallMoves, PayerMoves DEF LateCall, Payer, tvars, LedgerStep, Still
<1>. QED
  BY <1>1, <1>2, <1>3, <1>4 DEF Serves, TNext

\* With one worker, SInv is kept.
LEMMA NextSInv ==
  ASSUME Serial, IInv, SInv, [TNext]_tvars
  PROVE  SInv'
<1>1. Ledger
  BY DEF IInv, SInv, Ledger
<1>2. SLedger(tbl', pay', late')
  BY <1>1, NextServes, LedgerKept
<1>. QED
  BY <1>2, NextServes DEF SInv

LEMMA InitSInv == TInit => SInv
<1>. SUFFICES ASSUME TInit PROVE SInv
  OBVIOUS
<1>1. SLedger(tbl, pay, late)
  BY DEF TInit, TblInit, NoRow, PayInit, SLedger, Agreed, LateOK
<1>2. ASSUME NEW p \in Procs
      PROVE  WorkerOK(job[p], tbl, pay)
  <2>1. job[p] = IdleJob /\ IdleJob.pc = "idle" /\ IdleJob.kind = "none"
    BY DEF TInit, IdleJob
  <2>2. IdleJob.pc \notin RowLabels \cup {"cash_read", "cash_insert"}
    BY <2>1 DEF RowLabels, HoldLabels, CancelLabels, RollbackLabels
  <2>. QED
    BY <2>1, <2>2, Unbound
<1>. QED
  BY <1>1, <1>2 DEF SInv

-----------------------------------------------------------------------------
\* What a single worker guarantees

\* SInv holds in every state of a TransactionService that serves one request at a time: a row a
\* worker works on, and a row it read and has yet to settle, is in the state the worker read,
\* and every late call is either announced by its row or too late to matter.
THEOREM SerialInvariantHolds == Serial /\ TSpec => []SInv
<1>. SUFFICES ASSUME Serial PROVE TSpec => []SInv
  OBVIOUS
<1>1. IInv /\ SInv /\ [TNext]_tvars => SInv'
  BY NextSInv
<1>. QED
  BY <1>1, InitSInv, InvariantHolds, PTL DEF TSpec

\* The table and the payment service agree up to the one call in flight, for every order, fault
\* and number of requests.
THEOREM AgreementHolds == Serial /\ TSpec => []LedgerAgreement
<1>. SUFFICES ASSUME Serial PROVE TSpec => []LedgerAgreement
  OBVIOUS
<1>1. SInv => LedgerAgreement
  BY DEF SInv, SLedger, Agreed, LedgerAgreement, Stored
<1>. QED
  BY <1>1, SerialInvariantHolds, PTL

\* A row gives up its key exactly when it reaches its end state.
THEOREM RetiredHolds == Serial /\ TSpec => []RetiredIffRollbacked
<1>. SUFFICES ASSUME Serial PROVE TSpec => []RetiredIffRollbacked
  OBVIOUS
<1>1. SInv => RetiredIffRollbacked
  BY DEF SInv, SLedger, Agreed, RetiredIffRollbacked, Stored
<1>. QED
  BY <1>1, SerialInvariantHolds, PTL

\* No method is charged twice, SADAD included: a charged payment's row has kept its key, and the
\* unique index allows one such row for a method.
THEOREM OneChargeHolds == Serial /\ TSpec => []OneChargePerMethod
<1>. SUFFICES ASSUME Serial PROVE TSpec => []OneChargePerMethod
  OBVIOUS
<1>1. IInv /\ SInv => OneChargePerMethod
  <2>. SUFFICES ASSUME IInv, SInv,
                       NEW i \in Ids, NEW j \in Ids, tbl[i].pm = tbl[j].pm,
                       pay[i] \in {"CHARGED", "RELEASED"}, pay[j] \in {"CHARGED", "RELEASED"}
                PROVE  i = j
    BY DEF OneChargePerMethod
  <2>1. ASSUME NEW k \in Ids, pay[k] \in {"CHARGED", "RELEASED"}
        PROVE  tbl[k].state # "ABSENT" /\ tbl[k].live
    <3>1. tbl[k].state # "ABSENT" /\ pay[k] \in Agreeing(tbl[k].pm)[tbl[k].state]
      BY <2>1 DEF SInv, SLedger, Agreed
    <3>2. tbl[k].state \in States
      BY <3>1 DEF IInv, LedgerOK, Row
    <3>3. tbl[k].state # "ROLLBACKED"
      BY <2>1, <3>1, <3>2 DEF Agreeing, States
    <3>. QED
      BY <3>1, <3>3 DEF SInv, SLedger, Agreed
  <2>. QED
    BY <2>1 DEF IInv, LedgerOK, KeysUnique, IsLive
<1>. QED
  BY <1>1, SerialInvariantHolds, InvariantHolds, PTL

\* No snapshot, late call or crash takes a row back along its life cycle.
THEOREM LifecycleHolds == Serial /\ TSpec => FollowsLifecycle
<1>. SUFFICES ASSUME Serial PROVE TSpec => FollowsLifecycle
  OBVIOUS
<1>1. IInv /\ SInv /\ [TNext]_tvars
        => [\A i \in Ids : tbl'[i].state # tbl[i].state =>
                             <<tbl[i].state, tbl'[i].state>> \in Lifecycle]_tvars
  BY NextServes, LedgerFollows
<1>. QED
  BY <1>1, SerialInvariantHolds, InvariantHolds, PTL DEF TSpec, FollowsLifecycle

\* The table is an intent log of the payments: TransactionService, serving the requests of an
\* order one after the other, implements IntentLog.
THEOREM IntentLogHolds == Serial /\ TSpec => IntentLogged
<1>. SUFFICES ASSUME Serial PROVE TSpec => IntentLogged
  OBVIOUS
<1>1. TInit => Log!Init
  BY DEF TInit, TblInit, NoRow, PayInit, EntryOf, FateOf, Log!Init
<1>2. IInv /\ SInv /\ [TNext]_tvars => [Log!Next]_(Log!logvars)
  BY NextServes, LedgerLogged DEF IInv, SInv, Ledger
<1>. QED
  BY <1>1, <1>2, SerialInvariantHolds, InvariantHolds, PTL DEF TSpec, IntentLogged, Log!Spec

\* The log accounts for the money: what one step announces or brings about is within what the
\* entry tells.
LEMMA LogStep ==
  ASSUME Log!LogTypeOK, Log!Accounted, [Log!Next]_(Log!logvars)
  PROVE  (Log!LogTypeOK /\ Log!Accounted)'
<1>. DEFINE log == [i \in Ids |-> EntryOf(i)]
            money == [i \in Ids |-> FateOf(i)]
<1>0. /\ log \in [Ids -> Log!Entries] /\ money \in [Ids -> Log!Fates]
      /\ \A i \in Ids : money[i] \in Log!FatesUnder[log[i]]
  BY DEF Log!LogTypeOK, Log!Accounted
<1>1. CASE log' = log /\ money' = money
  BY <1>0, <1>1 DEF Log!LogTypeOK, Log!Accounted
<1>2. ASSUME NEW i \in Ids, log' = log \/ money' = money, NEW entry, NEW fate,
             log' = [log EXCEPT ![i] = entry], money' = [money EXCEPT ![i] = fate],
             entry \in Log!Entries, fate \in Log!Fates, fate \in Log!FatesUnder[entry]
      PROVE  (Log!LogTypeOK /\ Log!Accounted)'
  <2>1. /\ log' \in [Ids -> Log!Entries] /\ money' \in [Ids -> Log!Fates]
        /\ \A k \in Ids : money'[k] \in Log!FatesUnder[log'[k]]
    <3>. HIDE DEF log, money
    <3>. QED
      BY <1>0, <1>2
  <2>. QED
    BY <2>1 DEF Log!LogTypeOK, Log!Accounted
<1>3. CASE Log!Next
  <2>1. PICK i \in Ids : Log!Announce(i) \/ Log!Move(i) \/ Log!Confirm(i)
    BY <1>3 DEF Log!Next
  <2>2. log[i] \in Log!Entries /\ money[i] \in Log!Fates /\ money[i] \in Log!FatesUnder[log[i]]
    BY <1>0
  <2>3. CASE Log!Announce(i)
    <3>1. PICK entry \in Log!Intentions(log[i]) : log' = [log EXCEPT ![i] = entry]
      BY <2>3 DEF Log!Announce
    <3>2. entry \in Log!Entries /\ money[i] \in Log!FatesUnder[entry]
      <4>. HIDE DEF log, money
      <4>. QED
        BY <2>2, <3>1 DEF Log!Intentions, Log!Entries, Log!FatesUnder
    <3>3. money' = money /\ money' = [money EXCEPT ![i] = money[i]]
      BY <2>3 DEF Log!Announce
    <3>. HIDE DEF log, money
    <3>. QED
      BY <1>2, <2>2, <3>1, <3>2, <3>3
  <2>4. CASE Log!Move(i)
    <3>1. PICK fate \in Log!Brings(log[i], money[i]) : money' = [money EXCEPT ![i] = fate]
      BY <2>4 DEF Log!Move
    <3>2. fate \in Log!Fates /\ fate \in Log!FatesUnder[log[i]]
      <4>. HIDE DEF log, money
      <4>. QED
        BY <2>2, <3>1 DEF Log!Brings, Log!Entries, Log!Fates, Log!FatesUnder
    <3>3. log' = log /\ log' = [log EXCEPT ![i] = log[i]]
      BY <2>4 DEF Log!Move
    <3>. HIDE DEF log, money
    <3>. QED
      BY <1>2, <2>2, <3>1, <3>2, <3>3
  <2>5. CASE Log!Confirm(i)
    <3>1. PICK entry \in Log!Confirmations(log[i], money[i]) : log' = [log EXCEPT ![i] = entry]
      BY <2>5 DEF Log!Confirm
    <3>2. entry \in Log!Entries /\ money[i] \in Log!FatesUnder[entry]
      <4>. HIDE DEF log, money
      <4>. QED
        BY <2>2, <3>1 DEF Log!Confirmations, Log!Entries, Log!FatesUnder
    <3>3. money' = money /\ money' = [money EXCEPT ![i] = money[i]]
      BY <2>5 DEF Log!Confirm
    <3>. HIDE DEF log, money
    <3>. QED
      BY <1>2, <2>2, <3>1, <3>2, <3>3
  <2>. QED
    BY <2>1, <2>3, <2>4, <2>5
<1>. QED
  BY <1>1, <1>3 DEF Log!logvars

\* Whoever reads a row knows the money up to the announced step: what IntentLog promises its
\* readers, TransactionService promises them.
THEOREM LogAccounts == Serial /\ TSpec => []Log!Accounted
<1>. SUFFICES ASSUME Serial PROVE TSpec => []Log!Accounted
  OBVIOUS
<1>1. Log!Init => Log!LogTypeOK /\ Log!Accounted
  BY DEF Log!Init, Log!LogTypeOK, Log!Accounted, Log!FatesUnder, Log!Entries, Log!Fates
<1>2. Log!LogTypeOK /\ Log!Accounted /\ [Log!Next]_(Log!logvars)
        => (Log!LogTypeOK /\ Log!Accounted)'
  BY LogStep
<1>. QED
  BY <1>1, <1>2, IntentLogHolds, PTL DEF IntentLogged, Log!Spec
=============================================================================
