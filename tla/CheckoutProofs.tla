---------------------------- MODULE CheckoutProofs ----------------------------
(***************************************************************************)
(* What the amounts of an order come to, for every set of ids, every       *)
(* total, balance and tolerance, when requests are served one after the    *)
(* other (CheckoutAssumption).                                             *)
(*                                                                         *)
(* As in SerialProofs the argument has two halves.  The ledger keeps what  *)
(* is said of cash whichever of its three steps it takes, if cash is       *)
(* inserted for what the wallet leaves and settled in the direction of its *)
(* sign, and the wallet does not move under it (Careful, CashKept).  That  *)
(* every step of the worker is careful, and leaves the worker where it     *)
(* knows what is settled, follows from CInv.                               *)
(*                                                                         *)
(* The last part is about rollbacks, for requests that do not fail         *)
(* (RefundAssumption): they take back from the wallet what released cash   *)
(* left there, and nothing else moves the payments they have undone        *)
(* (BInv).                                                                 *)
(***************************************************************************)
EXTENDS SerialProofs, RefundInvariant, SumLemmas

-----------------------------------------------------------------------------
\* Rows that answer to a key

\* A table and payments as IInv and SInv have them, before a step or after it.
Sound(T, P) ==
  /\ T \in [Ids -> Row] /\ P \in [Ids -> PayStates]
  /\ KeysUnique(T) /\ Agreed(T, P)
  /\ \A i \in Ids : P[i] # "NONE" => T[i].amount > 0

\* T2 has the rows of a method that T has.
SameRows(T, T2, m) ==
  /\ \A i \in Ids : LiveRow(T, i, m) <=> LiveRow(T2, i, m)
  /\ \A i \in Ids : LiveRow(T, i, m) => T2[i].amount = T[i].amount

LEMMA LiveUnique ==
  ASSUME NEW T, KeysUnique(T), NEW m, NEW i, LiveRow(T, i, m), NEW k, LiveRow(T, k, m)
  PROVE  i = k
  BY DEF KeysUnique, LiveRow

LEMMA AmountOfIs ==
  ASSUME NEW T, KeysUnique(T), NEW m, NEW i, LiveRow(T, i, m)
  PROVE  AmountOf(T, m) = T[i].amount
<1>1. ~NoLive(T, m) /\ i \in Ids
  BY DEF NoLive, LiveRow
<1>2. LiveRow(T, CHOOSE k \in Ids : LiveRow(T, k, m), m)
  BY <1>1
<1>3. i = CHOOSE k \in Ids : LiveRow(T, k, m)
  BY <1>2, LiveUnique
<1>. QED
  BY <1>1, <1>3 DEF AmountOf

LEMMA AmountOfNone ==
  ASSUME NEW T, NEW m, NoLive(T, m)
  PROVE  AmountOf(T, m) = 0
  BY DEF AmountOf

LEMMA AmountOfNat ==
  ASSUME NEW T \in [Ids -> Row], NEW m
  PROVE  AmountOf(T, m) \in Nat
<1>1. CASE NoLive(T, m)
  BY <1>1 DEF AmountOf
<1>2. CASE ~NoLive(T, m)
  <2>1. (CHOOSE k \in Ids : LiveRow(T, k, m)) \in Ids
    BY <1>2 DEF NoLive
  <2>. QED
    BY <1>2, <2>1 DEF AmountOf, Row
<1>. QED
  BY <1>1, <1>2

LEMMA SameAmount ==
  ASSUME NEW T, KeysUnique(T), NEW T2, KeysUnique(T2), NEW m, SameRows(T, T2, m)
  PROVE  /\ NoLive(T2, m) <=> NoLive(T, m)
         /\ AmountOf(T2, m) = AmountOf(T, m)
<1>1. NoLive(T2, m) <=> NoLive(T, m)
  BY DEF SameRows, NoLive
<1>2. CASE NoLive(T, m)
  BY <1>1, <1>2, AmountOfNone
<1>3. CASE ~NoLive(T, m)
  <2>1. PICK i \in Ids : LiveRow(T, i, m)
    BY <1>3 DEF NoLive
  <2>2. LiveRow(T2, i, m) /\ T2[i].amount = T[i].amount
    BY <2>1 DEF SameRows
  <2>. QED
    BY <1>1, <2>1, <2>2, AmountOfIs
<1>. QED
  BY <1>1, <1>2, <1>3

\* A step sound before it is sound after it.
LEMMA SoundBefore == IInv /\ SInv => Sound(tbl, pay)
  BY DEF IInv, SInv, SLedger, LedgerOK, RowOK, Sound

LEMMA SoundAfter ==
  ASSUME Serial, IInv, SInv, [TNext]_tvars
  PROVE  Sound(tbl', pay') /\ IInv' /\ SInv'
<1>1. IInv' /\ SInv'
  BY NextIInv, NextSInv
<1>. QED
  BY <1>1 DEF IInv, SInv, SLedger, LedgerOK, RowOK, Sound

\* A live row that got past its hold is of more than nothing.
LEMMA SoundAmount ==
  ASSUME NEW T, NEW P, Sound(T, P), NEW i \in Ids, T[i].live,
         T[i].state \notin {"ABSENT", "HOLD_PROCESSING"}
  PROVE  T[i].amount > 0
<1>1. T[i].state \in States
  BY DEF Sound, Row
<1>2. P[i] # "NONE"
  BY <1>1 DEF Sound, Agreed, Agreeing, States
<1>. QED
  BY <1>2 DEF Sound

\* The rows of a method are the same unless the row that moves is new or given up.
LEMMA RowsStay ==
  ASSUME Sound(tbl, pay), Sound(tbl', pay'), NEW i \in Ids, RowMoves(i)
  PROVE  /\ tbl'[i].state # "ABSENT"
         /\ \A m : m # tbl'[i].pm => SameRows(tbl, tbl', m)
         /\ (tbl[i].state # "ABSENT" /\ tbl'[i].state # "ROLLBACKED")
              => \A m : SameRows(tbl, tbl', m)
         /\ tbl'[i].state = "ROLLBACKED" => NoLive(tbl', tbl'[i].pm)
<1>1. /\ tbl'[i].state # "ABSENT"
      /\ tbl[i].state # "ABSENT" => tbl[i].live /\ tbl'[i].pm = tbl[i].pm
                                    /\ tbl'[i].amount = tbl[i].amount
      /\ tbl'[i].live <=> tbl'[i].state # "ROLLBACKED"
      /\ \A k \in Ids \ {i} : tbl'[k] = tbl[k]
  BY DEF RowMoves, Lifecycle, Sound, Agreed
<1>2. \A m : m # tbl'[i].pm => SameRows(tbl, tbl', m)
  BY <1>1 DEF SameRows, LiveRow, IsLive
<1>3. (tbl[i].state # "ABSENT" /\ tbl'[i].state # "ROLLBACKED")
        => \A m : SameRows(tbl, tbl', m)
  BY <1>1 DEF SameRows, LiveRow, IsLive
<1>4. ASSUME tbl'[i].state = "ROLLBACKED", NEW k \in Ids, LiveRow(tbl', k, tbl'[i].pm)
      PROVE  FALSE
  <2>1. k # i /\ tbl'[k] = tbl[k]
    BY <1>1, <1>4 DEF LiveRow, IsLive
  <2>2. tbl[i].state # "ABSENT"
    BY <1>4 DEF RowMoves, Lifecycle
  <2>3. LiveRow(tbl, k, tbl[i].pm) /\ LiveRow(tbl, i, tbl[i].pm)
    BY <1>1, <1>4, <2>1, <2>2 DEF LiveRow, IsLive
  <2>. QED
    BY <2>1, <2>3, LiveUnique DEF Sound
<1>. QED
  BY <1>1, <1>2, <1>3, <1>4 DEF NoLive

-----------------------------------------------------------------------------
\* Cash

\* What a step may do to cash and to what cash makes up for.
Careful ==
  /\ \A i \in Ids : (tbl[i].state = "ABSENT" /\ tbl'[i].state # "ABSENT") =>
       IF tbl'[i].pm = "CASH" THEN Leaves(tbl, tbl'[i].amount) /\ SadadGone(tbl, pay)
       ELSE NoLive(tbl, "CASH")
  /\ \A i \in Ids : (LiveRow(tbl, i, "WALLET") /\ tbl'[i].state = "ROLLBACKED")
                      => NoLive(tbl, "CASH")
  /\ \A i \in Ids : (pay[i] = "HELD" /\ pay'[i] = "CHARGED" /\ LiveRow(tbl, i, "CASH"))
                      => CashDue(tbl)
  /\ \A i \in Ids : (pay[i] = "HELD" /\ pay'[i] = "RELEASED")
                      => tbl[i].pm = "CASH" /\ (LiveRow(tbl, i, "CASH") => CashOwed(tbl))
  /\ \A c \in late' : c \in late \/ LateCashOK(tbl, c)

\* What is said of cash depends on what the wallet holds, and of SADAD on what is called off.
LEMMA SameCash ==
  ASSUME NEW T, KeysUnique(T), NEW T2, KeysUnique(T2), SameRows(T, T2, "WALLET")
  PROVE  /\ CashDue(T2) <=> CashDue(T)
         /\ CashOwed(T2) <=> CashOwed(T)
         /\ \A amount : Leaves(T2, amount) <=> Leaves(T, amount)
  BY SameAmount DEF CashDue, CashOwed, Leaves

LEMMA SadadGoneStays ==
  ASSUME Sound(tbl, pay), NEW i \in Ids, RowMoves(i),
         tbl[i].state = "ABSENT" => tbl'[i].pm # "SADAD", SadadGone(tbl, pay)
  PROVE  SadadGone(tbl', pay')
<1>. SUFFICES ASSUME NEW k \in Ids, LiveRow(tbl', k, "SADAD"), tbl'[k].amount > 0
              PROVE  tbl'[k].state \in {"CANCELLED", "ROLLBACK_PROCESSING"} /\ pay'[k] \in CalledOff
  BY DEF SadadGone
<1>1. CASE k # i
  BY <1>1 DEF RowMoves, SadadGone, LiveRow
<1>2. CASE k = i
  <2>1. /\ LiveRow(tbl, i, "SADAD") /\ tbl'[i].state # "ROLLBACKED"
        /\ tbl[i].amount = tbl'[i].amount
    BY <1>2 DEF RowMoves, LiveRow, IsLive, Sound, Agreed, Lifecycle
  <2>. QED
    BY <1>2, <2>1 DEF RowMoves, SadadGone, Lifecycle
<1>. QED
  BY <1>1, <1>2

LEMMA CashKeptByRow ==
  ASSUME Ledger, Sound(tbl, pay), Sound(tbl', pay'), CashOK(tbl, pay, late), Careful,
         NEW i \in Ids, RowMoves(i)
  PROVE  CashOK(tbl', pay', late')
<1>1. /\ pay' = pay /\ late' = late
      /\ KeysUnique(tbl) /\ KeysUnique(tbl')
      /\ \A k \in Ids \ {i} : tbl'[k] = tbl[k]
  BY DEF RowMoves, Sound
<1>2. \A k \in Ids : pay[k] # "NONE" => tbl[k].state # "ABSENT" /\ tbl'[k].pm = tbl[k].pm
  <2>. SUFFICES ASSUME NEW k \in Ids, pay[k] # "NONE"
                PROVE  tbl[k].state # "ABSENT" /\ tbl'[k].pm = tbl[k].pm
    OBVIOUS
  <2>1. tbl[k].state # "ABSENT"
    BY DEF Sound, Agreed
  <2>. QED
    BY <1>1, <2>1 DEF RowMoves
<1>3. \A k \in Ids : pay'[k] \in {"RELEASED", "ROLLED_RELEASE"} => tbl'[k].pm = "CASH"
  <2>. SUFFICES ASSUME NEW k \in Ids, pay[k] \in {"RELEASED", "ROLLED_RELEASE"}
                PROVE  tbl'[k].pm = "CASH"
    BY <1>1
  <2>1. pay[k] # "NONE" /\ tbl[k].pm = "CASH"
    BY DEF CashOK
  <2>. QED
    BY <1>2, <2>1
<1>4. \A c \in late : /\ c.id \in Ids /\ tbl[c.id].state # "ABSENT"
                      /\ tbl'[c.id].pm = tbl[c.id].pm
  <2>. SUFFICES ASSUME NEW c \in late
                PROVE  /\ c.id \in Ids /\ tbl[c.id].state # "ABSENT"
                       /\ tbl'[c.id].pm = tbl[c.id].pm
    OBVIOUS
  <2>1. c.id \in Ids /\ tbl[c.id].state # "ABSENT"
    BY DEF Ledger, LedgerOK, Calls, CallOK
  <2>2. tbl'[c.id].pm = tbl[c.id].pm
    BY <1>1, <2>1 DEF RowMoves
  <2>. QED
    BY <2>1, <2>2
<1>5. ASSUME NoLive(tbl, "CASH"), NoLive(tbl', "CASH")
      PROVE  CashOK(tbl', pay', late')
  BY <1>1, <1>3, <1>4, <1>5 DEF CashOK, LateCashOK, NoLive
<1>6. CASE tbl[i].state = "ABSENT" /\ tbl'[i].pm # "CASH"
  <2>1. NoLive(tbl, "CASH") /\ SameRows(tbl, tbl', "CASH")
    BY <1>6, RowsStay DEF Careful
  <2>. QED
    BY <1>1, <1>5, <2>1, SameAmount
<1>7. CASE LiveRow(tbl, i, "WALLET") /\ tbl'[i].state = "ROLLBACKED"
  <2>1. NoLive(tbl, "CASH") /\ SameRows(tbl, tbl', "CASH")
    <3>1. tbl'[i].pm = "WALLET"
      BY <1>7 DEF LiveRow, IsLive, RowMoves
    <3>. QED
      BY <1>7, <3>1, RowsStay DEF Careful
  <2>. QED
    BY <1>1, <1>5, <2>1, SameAmount
<1>8. ASSUME SameRows(tbl, tbl', "WALLET"), tbl[i].state = "ABSENT" => tbl'[i].pm # "SADAD",
             \A k \in Ids : LiveRow(tbl', k, "CASH") =>
                              \/ LiveRow(tbl, k, "CASH") /\ tbl'[k].amount = tbl[k].amount
                              \/ k = i /\ Leaves(tbl, tbl'[i].amount) /\ SadadGone(tbl, pay)
                                 /\ pay[i] = "NONE"
      PROVE  CashOK(tbl', pay', late')
  <2>1. /\ CashDue(tbl') <=> CashDue(tbl)
        /\ CashOwed(tbl') <=> CashOwed(tbl)
        /\ \A amount : Leaves(tbl', amount) <=> Leaves(tbl, amount)
    BY <1>1, <1>8, SameCash
  <2>2. SadadGone(tbl, pay) => SadadGone(tbl', pay')
    BY <1>8, SadadGoneStays
  <2>3. ASSUME NEW k \in Ids, LiveRow(tbl', k, "CASH")
        PROVE  CashRowOK(tbl', pay', k)
    BY <1>1, <1>8, <2>1, <2>2, <2>3 DEF CashOK, CashRowOK
  <2>4. \A c \in late : LiveRow(tbl', c.id, "CASH") => LiveRow(tbl, c.id, "CASH")
    <3>1. tbl[i].state # "ABSENT" => tbl[i].live
      BY DEF RowMoves, Lifecycle, Sound, Agreed
    <3>. QED
      BY <1>1, <1>4, <3>1 DEF LiveRow, IsLive
  <2>5. \A c \in late : LateCashOK(tbl', c)
    BY <1>4, <2>1, <2>4 DEF CashOK, LateCashOK
  <2>. QED
    BY <1>1, <1>3, <2>3, <2>5 DEF CashOK
<1>9. CASE tbl[i].state = "ABSENT" /\ tbl'[i].pm = "CASH"
  <2>1. /\ SameRows(tbl, tbl', "WALLET")
        /\ Leaves(tbl, tbl'[i].amount) /\ SadadGone(tbl, pay) /\ pay[i] = "NONE"
    BY <1>9, RowsStay DEF Careful, Sound, Agreed
  <2>. QED
    BY <1>1, <1>8, <1>9, <2>1 DEF LiveRow
<1>10. CASE tbl[i].state # "ABSENT" /\ ~(LiveRow(tbl, i, "WALLET") /\ tbl'[i].state = "ROLLBACKED")
  <2>1. tbl[i].live /\ tbl'[i].pm = tbl[i].pm /\ tbl'[i].amount = tbl[i].amount
    BY <1>10 DEF RowMoves, Sound, Agreed, Lifecycle
  <2>2. SameRows(tbl, tbl', "WALLET")
    BY <1>10, <2>1, RowsStay DEF LiveRow, IsLive
  <2>3. \A k \in Ids : LiveRow(tbl', k, "CASH") =>
                         LiveRow(tbl, k, "CASH") /\ tbl'[k].amount = tbl[k].amount
    BY <1>1, <1>10, <2>1 DEF LiveRow, IsLive
  <2>. QED
    BY <1>8, <1>10, <2>2, <2>3
<1>. QED
  BY <1>6, <1>7, <1>9, <1>10

LEMMA CashKeptByPay ==
  ASSUME Ledger, Sound(tbl, pay), CashOK(tbl, pay, late), Careful, NEW i \in Ids, PayMoves(i)
  PROVE  CashOK(tbl', pay', late')
<1>1. PICK to \in PayStates : /\ Announces(pay[i], to, tbl[i].state)
                              /\ pay' = [pay EXCEPT ![i] = to]
  BY DEF PayMoves
<1>2. /\ tbl' = tbl /\ late' \subseteq late
      /\ pay'[i] = to /\ \A k \in Ids \ {i} : pay'[k] = pay[k]
  BY <1>1 DEF Sound, PayMoves
<1>3. /\ to = "CHARGED" => pay[i] = "HELD"
      /\ to = "RELEASED" => pay[i] = "HELD"
      /\ to = "ROLLED_RELEASE" => pay[i] = "RELEASED"
  BY <1>1 DEF Announces, Ops, From, To
<1>4. SadadGone(tbl, pay) => SadadGone(tbl, pay')
  <2>1. \A k \in Ids : pay[k] \in CalledOff => pay'[k] \in CalledOff
    BY CalledOffStays DEF LedgerStep
  <2>. QED
    BY <2>1 DEF SadadGone
<1>5. ASSUME NEW k \in Ids, LiveRow(tbl, k, "CASH")
      PROVE  CashRowOK(tbl, pay', k)
  BY <1>2, <1>3, <1>4, <1>5 DEF CashOK, CashRowOK, Careful
<1>6. \A k \in Ids : pay'[k] \in {"RELEASED", "ROLLED_RELEASE"} => tbl[k].pm = "CASH"
  BY <1>2, <1>3 DEF CashOK, Careful
<1>. QED
  BY <1>2, <1>5, <1>6 DEF CashOK

\* However the ledger moves, if it moves with care cash makes up for what the wallet leaves.
LEMMA CashKept ==
  ASSUME Ledger, Sound(tbl, pay), Sound(tbl', pay'), CashOK(tbl, pay, late), Careful, LedgerStep
  PROVE  CashOK(tbl', pay', late')
<1>1. CASE Still
  BY <1>1 DEF Still, CashOK, Careful
<1>. QED
  BY <1>1, CashKeptByRow, CashKeptByPay DEF LedgerStep

-----------------------------------------------------------------------------
\* Where a worker stands

\* No SADAD row of more than nothing is left half done, unless something failed.
NonePending(T) ==
  Faults = {} => \A i \in Ids : ~(LiveRow(T, i, "SADAD") /\ T[i].amount > 0 /\ T[i].state \in Pending)

LEMMA PendingInHand ==
  ASSUME NEW j, NEW T
  PROVE  /\ NonePending(T) => SadadInHand(j, T)
         /\ (SadadInHand(j, T) /\ j.pc \notin RowLabels) => NonePending(T)
  BY DEF NonePending, SadadInHand

\* What CheckoutOK comes to for each kind of request.
LEMMA OtherChecks ==
  ASSUME NEW j, NEW T, NEW P, j.kind \notin {"create", "complete"}, j.pc \notin RollbackLabels,
         CancelFlow(j), Priced(j, T), SadadInHand(j, T)
  PROVE  CheckoutOK(j, T, P)
  BY DEF CheckoutOK, CompletionOK, CreationFlow, RollbackFlow, NoCashYet, CreationOK

LEMMA CompleteChecks ==
  ASSUME NEW j, NEW T, NEW P, j.kind = "complete",
         j.pc \in RestLabels \cup SettleLabels \cup HoldLabels \cup PollLabels,
         CompletionOK(j, T, P), Priced(j, T), SadadInHand(j, T)
  PROVE  CheckoutOK(j, T, P)
<1>1. j.pc \notin RollbackLabels \cup CancelLabels \cup {"notify_settle"}
  BY DEF RestLabels, SettleLabels, HoldLabels, PollLabels, RollbackLabels, CancelLabels
<1>. QED
  BY <1>1 DEF CheckoutOK, CreationFlow, CancelFlow, RollbackFlow, NoCashYet, CreationOK

LEMMA CreateChecks ==
  ASSUME NEW j, NEW T, NEW P, j.kind = "create",
         j.pc \in RestLabels \cup CreateLabels \cup CancelLabels \cup HoldLabels \cup PollLabels,
         CreationFlow(j), CreationOK(j, T), j.pc \in BusyLabels \cup {"done"} => NoLive(T, "CASH"),
         Priced(j, T), SadadInHand(j, T)
  PROVE  CheckoutOK(j, T, P)
<1>1. j.pc \notin RollbackLabels \cup {"notify_settle"}
  BY DEF RestLabels, CreateLabels, HoldLabels, PollLabels, RollbackLabels, CancelLabels
<1>. QED
  BY <1>1 DEF CheckoutOK, CompletionOK, CancelFlow, RollbackFlow, NoCashYet

LEMMA RollbackChecks ==
  ASSUME NEW j, NEW T, NEW P, j.kind = "rollback", j.pc \in RestLabels \cup RollbackLabels,
         RollbackFlow(j), NoCashYet(j, T), Priced(j, T), SadadInHand(j, T)
  PROVE  CheckoutOK(j, T, P)
<1>1. j.pc \notin CancelLabels \cup {"notify_settle"}
  BY DEF RestLabels, RollbackLabels, CancelLabels
<1>. QED
  BY <1>1 DEF CheckoutOK, CompletionOK, CreationFlow, CancelFlow, CreationOK

LEMMA UnreadPriced ==
  ASSUME NEW j, j.snap = NoSnaps, NEW T
  PROVE  Priced(j, T)
  BY DEF Priced, NoSnaps, NoSnap, Exists

\* A request that ends.
LEMMA RestChecks ==
  ASSUME NEW j \in Job, NEW T, NEW P, NEW outcome \in RestLabels, NonePending(T),
         j.kind = "complete" => j.total \in FinalTotals,
         j.kind = "create" => j.opm \in OpenMethods \cup {"COD_WALLET"},
         (j.kind = "complete" /\ outcome = "done") => SettledUp(j, T, P),
         (j.kind = "create" /\ outcome = "done") => NoLive(T, "CASH") /\ SadadCovers(T, j.total)
  PROVE  CheckoutOK(Rest(j, outcome), T, P) /\ CheckoutOK(Go(j, outcome), T, P)
<1>. DEFINE r == Rest(j, outcome)
<1>1. /\ r.pc = outcome /\ r.kind = j.kind /\ r.total = j.total /\ r.opm = j.opm
      /\ r.snap = NoSnaps
  BY IdleJobType DEF Rest, IdleJob, Job
<1>2. outcome \notin RowLabels \cup RollbackLabels \cup CancelLabels \cup SettleLabels
                     \cup HoldLabels \cup PollLabels \cup CompleteLabels \cup CreateLabels
                     \cup {"notify_settle"}
  BY DEF RestLabels, RowLabels, HoldLabels, CancelLabels, RollbackLabels, SettleLabels,
         PollLabels, CompleteLabels, CreateLabels
<1>3. Priced(r, T) /\ SadadInHand(r, T)
  BY <1>1, UnreadPriced, PendingInHand
<1>4. Remaining(r, T) = Remaining(j, T)
  BY <1>1 DEF Remaining
<1>5. SettledUp(j, T, P) => SettledUp(r, T, P)
  BY <1>4 DEF SettledUp, PaidBySadad
<1>6. CompletionOK(r, T, P)
  BY <1>1, <1>2, <1>5 DEF CompletionOK, SettleLabels
<1>7. CreationFlow(r) /\ CreationOK(r, T)
  BY <1>1, <1>2 DEF CreationFlow, CreationOK, CreateLabels
<1>8. NoCashYet(r, T)
  BY <1>1, <1>2 DEF NoCashYet, BusyLabels, RestLabels
<1>9. CancelFlow(r) /\ RollbackFlow(r)
  BY <1>1, <1>2 DEF CancelFlow, RollbackFlow
<1>10. CheckoutOK(r, T, P)
  BY <1>3, <1>6, <1>7, <1>8, <1>9 DEF CheckoutOK
<1>. QED
  BY <1>10 DEF Go

-----------------------------------------------------------------------------
\* What a worker knows of the rows it read

LEMMA KnownRow ==
  ASSUME NEW j \in Job, NEW T, KeysUnique(T), NEW m \in Methods, SnapsOK(j, T), Knows(j, m, T)
  PROVE  /\ Exists(j.snap[m]) => LiveRow(T, j.snap[m].id, m)
         /\ \A i \in Ids : LiveRow(T, i, m) => Exists(j.snap[m]) /\ i = j.snap[m].id
         /\ Exists(j.snap[m]) \/ NoLive(T, m)
<1>1. Exists(j.snap[m]) => LiveRow(T, j.snap[m].id, m)
  BY DEF Knows, SnapsOK, SnapOK, LiveRow
<1>. QED
  BY <1>1, LiveUnique DEF Knows, NoLive

LEMMA KnownAmount ==
  ASSUME NEW j \in Job, NEW T, KeysUnique(T), NEW m \in Methods, SnapsOK(j, T), Knows(j, m, T),
         Priced(j, T)
  PROVE  j.snap[m].amount = AmountOf(T, m)
  BY KnownRow, AmountOfIs, AmountOfNone DEF Priced

\* A fresh snapshot tells the state of the row its method has.
LEMMA KnownState ==
  ASSUME NEW j \in Job, NEW T, KeysUnique(T), NEW m \in Methods, SnapsOK(j, T), Knows(j, m, T),
         Fresh(j.snap[m], T)
  PROVE  Stands(T, m, {j.snap[m].state})
  BY KnownRow DEF Stands, Fresh

\* Plans and knowledge do not depend on where the worker stands.
LEMMA SamePlan ==
  ASSUME NEW j, NEW k, k.total = j.total, NEW T, NEW P
  PROVE  /\ Remaining(k, T) = Remaining(j, T)
         /\ PaidBySadad(k, T) <=> PaidBySadad(j, T)
         /\ k.amount = j.amount => (Plan(k, T, P) <=> Plan(j, T, P))
         /\ SettledUp(k, T, P) <=> SettledUp(j, T, P)
<1>1. Remaining(k, T) = Remaining(j, T)
  BY DEF Remaining
<1>2. PaidBySadad(k, T) <=> PaidBySadad(j, T)
  BY <1>1 DEF PaidBySadad
<1>. QED
  BY <1>1, <1>2 DEF Plan, SettledUp

LEMMA SameSnaps ==
  ASSUME NEW j, NEW k, k.snap = j.snap, NEW T
  PROVE  /\ Priced(k, T) <=> Priced(j, T)
         /\ SnapsOK(k, T) <=> SnapsOK(j, T)
         /\ \A m : Knows(k, m, T) <=> Knows(j, m, T)
  BY DEF Priced, SnapsOK, Knows

-----------------------------------------------------------------------------
\* Completions.  T and P stand for the table and the payments, before a step or after it.

Completing(j, T) ==
  /\ j \in Job /\ j.kind = "complete" /\ j.total \in FinalTotals
  /\ Priced(j, T) /\ SnapsOK(j, T)
  /\ NonePending(T)

\* What a completion needs to know to settle the row of a method.
MaySettle(j, T, P) ==
  /\ j.on = "SADAD" => /\ Knows(j, "WALLET", T)
                       /\ j.amount = Remaining(j, T) - Snapped(j).amount
                       /\ AlmostZero(j.amount)
  /\ j.on = "WALLET" => /\ Plan(j, T, P) /\ Knows(j, "CASH", T)
                        /\ Exists(j.snap["CASH"]) \/ j.amount = 0
  /\ j.on = "CASH" => Plan(j, T, P) /\ Stands(T, "WALLET", {"COMPLETED"})

LEMMA SettleChecks ==
  ASSUME NEW j, NEW T, NEW P, Completing(j, T), MaySettle(j, T, P), NEW label \in CompleteLabels
  PROVE  CheckoutOK(Go(j, label), T, P)
<1>. DEFINE r == [j EXCEPT !.pc = label]
<1>1. Go(j, label) = r
  BY DEF Go, RestLabels, CompleteLabels
<1>2. /\ r.pc = label /\ r.kind = "complete" /\ r.on = j.on /\ r.amount = j.amount
      /\ r.total = j.total /\ r.snap = j.snap /\ Snapped(r) = Snapped(j)
  BY DEF Completing, Job, Snapped
<1>3. label \notin PollLabels \cup HoldLabels \cup {"wallet_read", "cash_read", "cash_insert", "done"}
      /\ label \in SettleLabels
  BY DEF CompleteLabels, PollLabels, HoldLabels, SettleLabels
<1>4. Priced(r, T) /\ SadadInHand(r, T)
  BY <1>2, SameSnaps, PendingInHand DEF Completing
<1>5. /\ Remaining(r, T) = Remaining(j, T) /\ (Plan(r, T, P) <=> Plan(j, T, P))
      /\ \A m : Knows(r, m, T) <=> Knows(j, m, T)
  BY <1>2, SamePlan, SameSnaps
<1>6. CompletionOK(r, T, P)
  <2>. HIDE DEF r
  <2>. QED
    BY <1>2, <1>3, <1>5 DEF CompletionOK, MaySettle, Completing
<1>. HIDE DEF r
<1>. QED
  BY <1>1, <1>2, <1>3, <1>4, <1>6, CompleteChecks

LEMMA SwitchChecks ==
  ASSUME NEW j, NEW T, NEW P, Completing(j, T), MaySettle(j, T, P),
         CompleteSwitch(Snapped(j).state) # "return"
  PROVE  CheckoutOK(Go(j, CompleteSwitch(Snapped(j).state)), T, P)
<1>1. CheckoutOK(Go(j, "failed"), T, P)
  BY RestChecks DEF Completing, RestLabels
<1>2. CompleteSwitch(Snapped(j).state) \in CompleteLabels \cup {"return", "failed"}
  BY DEF CompleteSwitch, CompleteLabels
<1>. QED
  BY <1>1, <1>2, SettleChecks

\* A completion with everything settled tells what was paid.
LEMMA ToldChecks ==
  ASSUME NEW j, NEW T, NEW P, Completing(j, T), SettledUp(j, T, P)
  PROVE  CheckoutOK(Breakdown(j), T, P)
<1>. DEFINE r == Breakdown(j)
<1>1. /\ r.pc = "poll" /\ r.kind = "complete" /\ r.todo = <<>> /\ r.total = j.total
      /\ r.snap = j.snap
  BY DEF Breakdown, Completing, Job
<1>2. Priced(r, T) /\ SadadInHand(r, T)
  BY <1>1, SameSnaps, PendingInHand DEF Completing
<1>3. SettledUp(r, T, P)
  BY <1>1, SamePlan
<1>. HIDE DEF r
<1>4. CompletionOK(r, T, P)
  BY <1>1, <1>3 DEF CompletionOK, Completing, HoldLabels, CompleteLabels
<1>. QED
  BY <1>1, <1>2, <1>4, CompleteChecks DEF r, PollLabels

LEMMA ToCashChecks ==
  ASSUME NEW j, NEW T, NEW P, Completing(j, T), Sound(T, P), Fresh(j.snap["CASH"], T),
         Plan(j, T, P), Knows(j, "CASH", T), Exists(j.snap["CASH"]) \/ j.amount = 0,
         Stands(T, "WALLET", {"COMPLETED"})
  PROVE  CheckoutOK(ToCash(j), T, P)
<1>. DEFINE k == [j EXCEPT !.on = "CASH"]
<1>1. /\ k \in Job /\ k.on = "CASH" /\ k.snap = j.snap /\ k.kind = j.kind /\ k.amount = j.amount
      /\ k.total = j.total /\ Snapped(k) = j.snap["CASH"]
  BY DEF Completing, Job, Methods, Snapped
<1>2. Plan(k, T, P)
  BY <1>1, SamePlan
<1>3. Completing(k, T)
  BY <1>1, SameSnaps DEF Completing
<1>4. CASE CompleteSwitch(Snapped(k).state) = "return"
  <2>1. j.snap["CASH"].state \in {"COMPLETED", "ABSENT"}
    BY <1>1, <1>4 DEF CompleteSwitch
  <2>2. Stands(T, "CASH", {"COMPLETED"})
    <3>1. CASE Exists(j.snap["CASH"])
      BY <2>1, <3>1, KnownState DEF Completing, Sound, Exists, Methods
    <3>2. CASE ~Exists(j.snap["CASH"])
      BY <3>2 DEF Knows, Stands, NoLive
    <3>. QED
      BY <3>1, <3>2
  <2>3. NoLive(T, "CASH") => j.amount = 0
    <3>1. Exists(j.snap["CASH"]) => ~NoLive(T, "CASH")
      BY KnownRow DEF Completing, Sound, Methods, NoLive, LiveRow
    <3>. QED
      BY <3>1
  <2>4. SettledUp(j, T, P)
    BY <2>2, <2>3 DEF SettledUp, Plan
  <2>5. SettledUp(k, T, P)
    BY <1>1, <2>4, SamePlan
  <2>. HIDE DEF k
  <2>. QED
    BY <1>3, <1>4, <2>5, ToldChecks DEF ToCash, k
<1>5. CASE CompleteSwitch(Snapped(k).state) # "return"
  <2>1. MaySettle(k, T, P)
    BY <1>1, <1>2 DEF MaySettle
  <2>2. CheckoutOK(Go(k, CompleteSwitch(Snapped(k).state)), T, P)
    <3>. HIDE DEF k
    <3>. QED
      BY <1>3, <1>5, <2>1, SwitchChecks
  <2>. QED
    BY <1>5, <2>2 DEF ToCash
<1>. QED
  BY <1>4, <1>5

LEMMA ToWalletChecks ==
  ASSUME NEW j, NEW T, NEW P, Completing(j, T), Sound(T, P),
         Fresh(j.snap["CASH"], T), Fresh(j.snap["WALLET"], T),
         Plan(j, T, P), Knows(j, "CASH", T), Knows(j, "WALLET", T),
         Exists(j.snap["CASH"]) \/ j.amount = 0
  PROVE  CheckoutOK(ToWallet(j), T, P)
<1>. DEFINE k == [j EXCEPT !.on = "WALLET"]
<1>1. /\ k \in Job /\ k.on = "WALLET" /\ k.snap = j.snap /\ k.kind = j.kind
      /\ k.amount = j.amount /\ k.total = j.total /\ Snapped(k) = j.snap["WALLET"]
  BY DEF Completing, Job, Methods, Snapped
<1>2. Plan(k, T, P) /\ Knows(k, "CASH", T)
  BY <1>1, SamePlan, SameSnaps
<1>3. Completing(k, T)
  BY <1>1, SameSnaps DEF Completing
<1>4. CASE CompleteSwitch(Snapped(k).state) = "return"
  <2>1. j.snap["WALLET"].state \in {"COMPLETED", "ABSENT"}
    BY <1>1, <1>4 DEF CompleteSwitch
  <2>2. Stands(T, "WALLET", {"COMPLETED"})
    <3>1. CASE Exists(j.snap["WALLET"])
      BY <2>1, <3>1, KnownState DEF Completing, Sound, Exists, Methods
    <3>2. CASE ~Exists(j.snap["WALLET"])
      BY <3>2 DEF Knows, Stands, NoLive
    <3>. QED
      BY <3>1, <3>2
  <2>3. CheckoutOK(ToCash(k), T, P)
    <3>. HIDE DEF k
    <3>. QED
      BY <1>1, <1>2, <1>3, <2>2, ToCashChecks
  <2>. QED
    BY <1>4, <2>3 DEF ToWallet
<1>5. CASE CompleteSwitch(Snapped(k).state) # "return"
  <2>1. MaySettle(k, T, P)
    BY <1>1, <1>2 DEF MaySettle
  <2>2. CheckoutOK(Go(k, CompleteSwitch(Snapped(k).state)), T, P)
    <3>. HIDE DEF k
    <3>. QED
      BY <1>3, <1>5, <2>1, SwitchChecks
  <2>. QED
    BY <1>5, <2>2 DEF ToWallet
<1>. QED
  BY <1>4, <1>5

LEMMA ToCashRowChecks ==
  ASSUME NEW j, NEW T, NEW P, Completing(j, T), Plan(j, T, P), Knows(j, "WALLET", T)
  PROVE  CheckoutOK(ToCashRow(j), T, P)
<1>. DEFINE r == ToCashRow(j)
<1>1. /\ r.pc = "cash_read" /\ r.kind = "complete" /\ r.amount = j.amount
      /\ r.total = j.total /\ r.snap = j.snap
  BY DEF ToCashRow, Completing, Job
<1>2. Priced(r, T) /\ SadadInHand(r, T) /\ Knows(r, "WALLET", T) /\ Plan(r, T, P)
  BY <1>1, SameSnaps, SamePlan, PendingInHand DEF Completing
<1>. HIDE DEF r
<1>3. CompletionOK(r, T, P)
  BY <1>1, <1>2 DEF CompletionOK, Completing, HoldLabels, CompleteLabels, PollLabels
<1>. QED
  BY <1>1, <1>2, <1>3, CompleteChecks DEF r, SettleLabels

\* SADAD paid for what the wallet leaves; no cash was inserted beside it.
LEMMA SadadPaid ==
  ASSUME NEW j, NEW T, NEW P, NEW L, Completing(j, T), Sound(T, P), CashOK(T, P, L),
         NEW i, LiveRow(T, i, "SADAD"), T[i].state = "COMPLETED",
         AlmostZero(Remaining(j, T) - T[i].amount)
  PROVE  PaidBySadad(j, T)
<1>1. i \in Ids /\ T[i].amount > 0
  <2>1. i \in Ids /\ T[i].live
    BY DEF LiveRow, IsLive
  <2>. QED
    BY <2>1, SoundAmount
<1>2. NoLive(T, "CASH")
  BY <1>1 DEF CashOK, CashRowOK, SadadGone, NoLive
<1>. QED
  BY <1>1, <1>2 DEF PaidBySadad

LEMMA SadadSettledChecks ==
  ASSUME NEW j, NEW T, NEW P, Completing(j, T), PaidBySadad(j, T), Knows(j, "WALLET", T)
  PROVE  CheckoutOK(SadadSettled(j), T, P)
<1>. DEFINE k == [j EXCEPT !.amount = 0]
<1>1. /\ k \in Job /\ k.amount = 0 /\ k.kind = j.kind /\ k.total = j.total /\ k.snap = j.snap
  BY DEF Completing, Job
<1>2. Completing(k, T) /\ Knows(k, "WALLET", T) /\ PaidBySadad(k, T)
  BY <1>1, SameSnaps, SamePlan DEF Completing
<1>3. Plan(k, T, P)
  BY <1>1, <1>2 DEF Plan
<1>4. SadadSettled(j) = ToCashRow(k)
  BY DEF SadadSettled
<1>. HIDE DEF k
<1>. QED
  BY <1>2, <1>3, <1>4, ToCashRowChecks

NoneActive(T) == \A i \in Ids : LiveRow(T, i, "SADAD") => T[i].state \notin ActiveStates

\* A SADAD row that is not active and not half done is called off.
LEMMA InactiveGone ==
  ASSUME CheckoutAssumption, NEW T, NEW P, Sound(T, P), NonePending(T), CashOnly(T), NoneActive(T)
  PROVE  SadadGone(T, P)
<1>. SUFFICES ASSUME NEW i \in Ids, LiveRow(T, i, "SADAD"), T[i].amount > 0
              PROVE  T[i].state \in {"CANCELLED", "ROLLBACK_PROCESSING"} /\ P[i] \in CalledOff
  BY DEF SadadGone
<1>1. /\ T[i].state # "ABSENT" /\ T[i].pm = "SADAD" /\ T[i].live
      /\ T[i].state \in States /\ T[i].state # "ROLLBACKED"
      /\ P[i] \in Agreeing(T[i].pm)[T[i].state]
  BY DEF LiveRow, IsLive, Sound, Agreed, Row
<1>2. Faults = {}
  BY <1>1 DEF CheckoutAssumption, CashOnly
<1>3. T[i].state = "CANCELLED"
  BY <1>1, <1>2 DEF NonePending, NoneActive, ActiveStates, Pending, States
<1>. QED
  BY <1>1, <1>3 DEF Agreeing, CalledOff, States

LEMMA ToSadadChecks ==
  ASSUME CheckoutAssumption, NEW j, NEW T, NEW P, NEW L, Completing(j, T), Sound(T, P),
         CashOK(T, P, L), CashOnly(T), Fresh(j.snap["SADAD"], T), Knows(j, "WALLET", T),
         j.amount = Remaining(j, T), Exists(j.snap["SADAD"]) \/ NoneActive(T)
  PROVE  CheckoutOK(ToSadad(j), T, P)
<1>. DEFINE k == [j EXCEPT !.on = "SADAD", !.amount = @ - j.snap["SADAD"].amount]
            s == j.snap["SADAD"]
<1>1. /\ k \in Job /\ k.on = "SADAD" /\ k.snap = j.snap /\ k.kind = j.kind
      /\ k.amount = j.amount - s.amount /\ k.total = j.total /\ Snapped(k) = s
  <2>1. "SADAD" \in Methods
    BY DEF Methods
  <2>2. j.amount - s.amount \in Int
    BY <2>1 DEF Completing, Job, Snap
  <2>. QED
    BY <2>1, <2>2 DEF Completing, Job, Snapped
<1>2. Completing(k, T) /\ Knows(k, "WALLET", T) /\ Remaining(k, T) = Remaining(j, T)
  BY <1>1, SameSnaps, SamePlan DEF Completing
<1>3. CASE ~Exists(s)
  <2>1. SadadGone(T, P)
    BY <1>3, InactiveGone DEF Completing
  <2>2. Plan(j, T, P)
    BY <2>1 DEF Plan
  <2>. QED
    BY <1>1, <1>3, <2>2, ToCashRowChecks DEF ToSadad
<1>4. CASE Exists(s) /\ ~AlmostZero(k.amount)
  <2>1. CheckoutOK(Go(k, "failed"), T, P)
    <3>. HIDE DEF k
    <3>. QED
      BY <1>2, RestChecks DEF Completing, RestLabels
  <2>. QED
    BY <1>1, <1>4, <2>1 DEF ToSadad
<1>5. CASE Exists(s) /\ AlmostZero(k.amount) /\ CompleteSwitch(s.state) = "return"
  <2>1. s.state = "COMPLETED" /\ T[s.id].state = "COMPLETED"
    BY <1>5 DEF CompleteSwitch, Exists, Fresh
  <2>2. s.id \in Ids /\ T[s.id].pm = "SADAD" /\ s.amount = T[s.id].amount
    BY <1>5 DEF Completing, SnapsOK, SnapOK, Priced, Methods
  <2>3. LiveRow(T, s.id, "SADAD")
    BY <2>1, <2>2 DEF Sound, Agreed, LiveRow, IsLive
  <2>4. PaidBySadad(k, T)
    <3>. HIDE DEF k
    <3>. QED
      BY <1>1, <1>2, <1>5, <2>1, <2>2, <2>3, SadadPaid
  <2>5. CheckoutOK(SadadSettled(k), T, P)
    <3>. HIDE DEF k
    <3>. QED
      BY <1>2, <2>4, SadadSettledChecks
  <2>. QED
    BY <1>1, <1>5, <2>5 DEF ToSadad
<1>6. CASE Exists(s) /\ AlmostZero(k.amount) /\ CompleteSwitch(s.state) # "return"
  <2>1. MaySettle(k, T, P)
    BY <1>1, <1>2, <1>6 DEF MaySettle
  <2>2. CheckoutOK(Go(k, CompleteSwitch(Snapped(k).state)), T, P)
    <3>. HIDE DEF k
    <3>. QED
      BY <1>1, <1>2, <1>6, <2>1, SwitchChecks
  <2>. QED
    BY <1>1, <1>6, <2>2 DEF ToSadad
<1>. QED
  BY <1>3, <1>4, <1>5, <1>6

\* What a request that polls SADAD knows before the answer, whatever its kind.
Polling(j, T, P) ==
  /\ j \in Job /\ Priced(j, T) /\ SnapsOK(j, T) /\ NonePending(T)
  /\ (j.kind = "complete" /\ j.todo # <<>>)
       => Completing(j, T) /\ Knows(j, "WALLET", T) /\ j.amount = Remaining(j, T)
  /\ (j.kind = "complete" /\ j.todo = <<>>) => j.total \in FinalTotals /\ SettledUp(j, T, P)
  /\ j.kind = "create" => /\ j.opm \in OpenMethods \cup {"COD_WALLET"}
                          /\ j.todo = <<>>
                          /\ NoLive(T, "CASH") /\ SadadCovers(T, j.total)

LEMMA PolledChecks ==
  ASSUME CheckoutAssumption, NEW j, NEW T, NEW P, NEW L, Polling(j, T, P), Sound(T, P),
         CashOK(T, P, L), CashOnly(T), Fresh(j.snap["SADAD"], T),
         Exists(j.snap["SADAD"]) \/ NoneActive(T)
  PROVE  CheckoutOK(Polled(j), T, P)
<1>1. CASE j.kind = "complete" /\ j.todo # <<>>
  <2>. DEFINE k == [j EXCEPT !.todo = <<>>]
  <2>1. /\ k \in Job /\ k.snap = j.snap /\ k.kind = j.kind /\ k.total = j.total
        /\ k.amount = j.amount
    BY TodoTypes DEF Polling, Job
  <2>2. Completing(k, T) /\ Knows(k, "WALLET", T) /\ Remaining(k, T) = Remaining(j, T)
    BY <1>1, <2>1, SameSnaps, SamePlan DEF Completing, Polling
  <2>3. Polled(j) = ToSadad(k)
    BY <1>1 DEF Polled
  <2>. HIDE DEF k
  <2>. QED
    BY <1>1, <2>1, <2>2, <2>3, ToSadadChecks DEF Polling
<1>2. CASE ~(j.kind = "complete" /\ j.todo # <<>>)
  BY <1>2, RestChecks DEF Polled, Polling, RestLabels
<1>. QED
  BY <1>1, <1>2

\* A request that stays with the poll.
LEMMA PollingChecks ==
  ASSUME NEW j, NEW T, NEW P, Polling(j, T, P), NEW label \in PollLabels
  PROVE  CheckoutOK([j EXCEPT !.pc = label], T, P)
<1>. DEFINE r == [j EXCEPT !.pc = label]
<1>1. /\ r.pc = label /\ r.kind = j.kind /\ r.todo = j.todo /\ r.total = j.total
      /\ r.opm = j.opm /\ r.snap = j.snap /\ r.amount = j.amount
  BY DEF Polling, Job
<1>2. /\ label \notin RollbackLabels \cup CancelLabels \cup HoldLabels \cup CreateLabels
                        \cup CompleteLabels \cup RestLabels
                        \cup {"notify_settle", "wallet_read", "cash_read", "cash_insert"}
  BY DEF PollLabels, RollbackLabels, CancelLabels, HoldLabels, CreateLabels, CompleteLabels,
         RestLabels
<1>3. Priced(r, T) /\ SadadInHand(r, T)
  BY <1>1, SameSnaps, PendingInHand DEF Polling
<1>4. /\ \A m : Knows(r, m, T) <=> Knows(j, m, T)
      /\ Remaining(r, T) = Remaining(j, T) /\ (SettledUp(r, T, P) <=> SettledUp(j, T, P))
  BY <1>1, SameSnaps, SamePlan
<1>. HIDE DEF r
<1>5. CompletionOK(r, T, P)
  BY <1>1, <1>2, <1>4 DEF CompletionOK, Polling, Completing, RestLabels
<1>6. CreationFlow(r) /\ CreationOK(r, T) /\ NoCashYet(r, T)
  BY <1>1, <1>2 DEF CreationFlow, CreationOK, NoCashYet, Polling, CreateLabels
<1>7. CancelFlow(r) /\ RollbackFlow(r)
  BY <1>1, <1>2 DEF CancelFlow, RollbackFlow
<1>8. CheckoutOK(r, T, P)
  BY <1>3, <1>5, <1>6, <1>7 DEF CheckoutOK
<1>. QED
  BY <1>8 DEF r

-----------------------------------------------------------------------------
\* Creations

Creating(j, T) ==
  /\ j \in Job /\ j.kind = "create" /\ j.opm \in OpenMethods \cup {"COD_WALLET"}
  /\ Priced(j, T) /\ SnapsOK(j, T)
  /\ NoLive(T, "CASH")

\* The wallet comes before SADAD.
WalletFirst(j, T) ==
  j.opm = "SADAD_WALLET" => Knows(j, "WALLET", T) /\ WalletShown(T)

LEMMA CancelsChecks ==
  ASSUME NEW j, NEW T, NEW P, Creating(j, T), WalletFirst(j, T), j.todo = <<LastOf(j.opm)>>,
         NEW label \in CancelLabels, SadadInHand([j EXCEPT !.pc = label], T)
  PROVE  CheckoutOK([j EXCEPT !.pc = label], T, P)
<1>. DEFINE r == [j EXCEPT !.pc = label]
<1>1. /\ r.pc = label /\ r.kind = j.kind /\ r.todo = j.todo /\ r.opm = j.opm /\ r.snap = j.snap
  BY DEF Creating, Job
<1>2. label \notin HoldLabels \cup PollLabels
                   \cup {"resolve", "sadad_amount", "create_read", "insert", "done"}
  BY DEF CancelLabels, HoldLabels, PollLabels
<1>3. Priced(r, T) /\ (Knows(r, "WALLET", T) <=> Knows(j, "WALLET", T))
  BY <1>1, SameSnaps DEF Creating
<1>. HIDE DEF r
<1>4. CreationFlow(r) /\ CreationOK(r, T)
  BY <1>1, <1>2, <1>3 DEF CreationFlow, CreationOK, Creating, WalletFirst
<1>. QED
  BY <1>1, <1>3, <1>4, CreateChecks DEF r, Creating

\* A creation about to read or insert the row of a method.
LEMMA InsertsChecks ==
  ASSUME NEW j, NEW T, NEW P, Creating(j, T), NonePending(T), OnWallet(j) \/ OnLast(j),
         NEW label \in {"create_read", "insert"},
         j.on = "CASH" => IsNothing(j) /\ label = "create_read",
         j.on # "WALLET" => Stands(T, "SADAD", {"CANCELLED"}),
         j.on = "SADAD" => SadadRest(T, j.total, j.amount)
  PROVE  CheckoutOK([j EXCEPT !.pc = label], T, P)
<1>. DEFINE r == [j EXCEPT !.pc = label]
<1>1. /\ r.pc = label /\ r.kind = j.kind /\ r.todo = j.todo /\ r.opm = j.opm /\ r.snap = j.snap
      /\ r.on = j.on /\ r.amount = j.amount /\ r.total = j.total /\ r.scrap = j.scrap
  BY DEF Creating, Job
<1>2. /\ Priced(r, T) /\ SadadInHand(r, T) /\ (OnWallet(r) \/ OnLast(r))
      /\ IsNothing(r) <=> IsNothing(j)
  BY <1>1, SameSnaps, PendingInHand DEF Creating, OnWallet, OnLast, IsNothing
<1>. HIDE DEF r
<1>3. CreationFlow(r) /\ CreationOK(r, T)
  BY <1>1, <1>2 DEF CreationFlow, CreationOK, Creating, CancelLabels, HoldLabels, PollLabels
<1>. QED
  BY <1>1, <1>2, <1>3, CreateChecks DEF r, Creating, CreateLabels

LEMMA HoldsChecks ==
  ASSUME NEW j, NEW T, NEW P, Creating(j, T), OnWallet(j) \/ OnLast(j),
         j.on = "SADAD" => SadadCovers(T, j.total), NEW label \in HoldLabels,
         SadadInHand([j EXCEPT !.pc = label], T)
  PROVE  CheckoutOK([j EXCEPT !.pc = label], T, P)
<1>. DEFINE r == [j EXCEPT !.pc = label]
<1>1. /\ r.pc = label /\ r.kind = j.kind /\ r.todo = j.todo /\ r.opm = j.opm /\ r.snap = j.snap
      /\ r.on = j.on /\ r.total = j.total
  BY DEF Creating, Job
<1>2. Priced(r, T) /\ (OnWallet(r) \/ OnLast(r))
  BY <1>1, SameSnaps DEF Creating, OnWallet, OnLast
<1>3. label \notin CancelLabels \cup PollLabels \cup CreateLabels \cup {"done"}
  BY DEF HoldLabels, CancelLabels, PollLabels, CreateLabels
<1>. HIDE DEF r
<1>4. CreationFlow(r) /\ CreationOK(r, T)
  BY <1>1, <1>2, <1>3 DEF CreationFlow, CreationOK, Creating, CreateLabels
<1>. QED
  BY <1>1, <1>2, <1>4, CreateChecks DEF r, Creating

LEMMA LastOfIs == \A opm : LastOf(opm) \in {"SADAD", "CASH"}
  BY DEF LastOf

LEMMA NextMethodChecks ==
  ASSUME NEW j, NEW T, NEW P, Creating(j, T), NonePending(T),
         \/ j.todo = <<>> /\ SadadCovers(T, j.total)
         \/ j.todo = <<LastOf(j.opm)>> /\ WalletFirst(j, T)
         \/ j.opm \in {"COD_WALLET", "SADAD_WALLET"} /\ j.todo = <<"WALLET", LastOf(j.opm)>>
  PROVE  CheckoutOK(NextMethod(j), T, P)
<1>1. CASE j.todo = <<>>
  <2>. DEFINE q == [j EXCEPT !.on = "SADAD"]
  <2>1. /\ q \in Job /\ q.kind = j.kind /\ q.todo = j.todo /\ q.opm = j.opm /\ q.snap = j.snap
        /\ q.total = j.total
    BY DEF Creating, Job, Methods
  <2>2. Polling(q, T, P)
    <3>. HIDE DEF q
    <3>. QED
      BY <1>1, <2>1, SameSnaps DEF Polling, Creating
  <2>3. NextMethod(j) = [q EXCEPT !.pc = "poll"]
    BY <1>1 DEF NextMethod, Breakdown, Creating, Job
  <2>. HIDE DEF q
  <2>4. "poll" \in PollLabels
    BY DEF PollLabels
  <2>5. CheckoutOK([q EXCEPT !.pc = "poll"], T, P)
    BY <2>2, <2>4, PollingChecks
  <2>. QED
    BY <2>3, <2>5
<1>2. CASE j.todo = <<LastOf(j.opm)>> /\ WalletFirst(j, T)
  <2>. DEFINE q == [j EXCEPT !.on = "SADAD"]
  <2>1. /\ q \in Job /\ q.kind = j.kind /\ q.todo = j.todo /\ q.opm = j.opm /\ q.snap = j.snap
    BY DEF Creating, Job, Methods
  <2>2. Creating(q, T) /\ WalletFirst(q, T)
    BY <1>2, <2>1, SameSnaps DEF Creating, WalletFirst
  <2>3. NextMethod(j) = [q EXCEPT !.pc = "cancel_read"]
    <3>1. j.todo # <<>> /\ Head(j.todo) # "WALLET"
      <4>1. LastOf(j.opm) # "WALLET"
        BY LastOfIs
      <4>. QED
        BY <1>2, <4>1
    <3>. QED
      BY <3>1 DEF NextMethod, Creating, Job
  <2>4. SadadInHand([q EXCEPT !.pc = "cancel_read"], T)
    BY PendingInHand
  <2>. HIDE DEF q
  <2>5. "cancel_read" \in CancelLabels /\ q.todo = <<LastOf(q.opm)>>
    BY <1>2, <2>1 DEF CancelLabels
  <2>6. CheckoutOK([q EXCEPT !.pc = "cancel_read"], T, P)
    BY <2>2, <2>4, <2>5, CancelsChecks
  <2>. QED
    BY <2>3, <2>6
<1>3. CASE j.opm \in {"COD_WALLET", "SADAD_WALLET"} /\ j.todo = <<"WALLET", LastOf(j.opm)>>
  <2>. DEFINE r == [j EXCEPT !.pc = "resolve", !.on = "WALLET"]
  <2>1. /\ r.pc = "resolve" /\ r.on = "WALLET" /\ r.kind = j.kind /\ r.todo = j.todo
        /\ r.opm = j.opm /\ r.snap = j.snap
    BY DEF Creating, Job, Methods
  <2>2. NextMethod(j) = r
    BY <1>3 DEF NextMethod
  <2>3. Priced(r, T) /\ SadadInHand(r, T) /\ OnWallet(r)
    BY <1>3, <2>1, SameSnaps, PendingInHand DEF Creating, OnWallet
  <2>. HIDE DEF r
  <2>4. CreationFlow(r) /\ CreationOK(r, T)
    BY <2>1, <2>3 DEF CreationFlow, CreationOK, Creating, CancelLabels, HoldLabels, PollLabels
  <2>. QED
    BY <2>1, <2>2, <2>3, <2>4, CreateChecks DEF Creating, CreateLabels
<1>. QED
  BY <1>1, <1>2, <1>3

\* createSubtransaction returned.
LEMMA CreatedChecks ==
  ASSUME NEW j, NEW T, NEW P, Creating(j, T), NonePending(T),
         \/ OnWallet(j) /\ WalletFirst(j, T)
         \/ OnLast(j) /\ SadadCovers(T, j.total)
  PROVE  CheckoutOK(Created(j), T, P)
<1>. DEFINE k == [j EXCEPT !.todo = Tail(@)]
<1>1. Tail(j.todo) \in {<<>>, <<LastOf(j.opm)>>}
  <2>1. OnWallet(j) => Tail(j.todo) = <<LastOf(j.opm)>>
    BY DEF OnWallet
  <2>2. OnLast(j) => Tail(j.todo) = <<>>
    BY DEF OnLast
  <2>. QED
    BY <2>1, <2>2
<1>2. Tail(j.todo) \in Seq(Methods)
  <2>1. LastOf(j.opm) \in Methods
    BY LastOfIs DEF Methods
  <2>2. <<>> \in Seq(Methods) /\ <<LastOf(j.opm)>> \in Seq(Methods)
    BY <2>1
  <2>. QED
    BY <1>1, <2>2
<1>3. /\ k \in Job /\ k.kind = j.kind /\ k.todo = Tail(j.todo) /\ k.opm = j.opm
      /\ k.snap = j.snap /\ k.total = j.total
  BY <1>2 DEF Creating, Job
<1>4. Creating(k, T) /\ (WalletFirst(j, T) => WalletFirst(k, T))
  BY <1>3, SameSnaps DEF Creating, WalletFirst
<1>5. \/ k.todo = <<>> /\ SadadCovers(T, k.total)
      \/ k.todo = <<LastOf(k.opm)>> /\ WalletFirst(k, T)
  <2>1. OnWallet(j) => k.todo = <<LastOf(k.opm)>>
    BY <1>3 DEF OnWallet
  <2>2. OnLast(j) => k.todo = <<>>
    BY <1>3 DEF OnLast
  <2>. QED
    BY <1>3, <1>4, <2>1, <2>2
<1>. HIDE DEF k
<1>. QED
  BY <1>4, <1>5, NextMethodChecks DEF Created, k

\* A creation with its row in HOLD_PROCESSING: to be held, or of nothing.
LEMMA ToHoldChecks ==
  ASSUME NEW j, NEW T, NEW P, Creating(j, T), KeysUnique(T), OnWallet(j) \/ OnLast(j),
         Exists(Snapped(j)), j.on \in {"WALLET", "SADAD"}, Knows(j, j.on, T),
         j.on = "SADAD" => SadadCovers(T, j.total),
         SadadInHand([j EXCEPT !.pc = "hold"], T),
         Snapped(j).amount <= 0 => NonePending(T)
  PROVE  CheckoutOK(ToHold(j), T, P)
<1>1. CASE Snapped(j).amount <= 0
  <2>1. ToHold(j) = Created(j)
    BY <1>1, ToHoldIs DEF Creating
  <2>2. OnWallet(j) => WalletFirst(j, T)
    <3>. SUFFICES ASSUME OnWallet(j)
                  PROVE  Knows(j, "WALLET", T) /\ WalletShown(T)
      BY DEF WalletFirst
    <3>1. j.on = "WALLET" /\ "WALLET" \in Methods /\ Snapped(j) = j.snap["WALLET"]
      BY DEF OnWallet, Methods, Snapped
    <3>2. LiveRow(T, Snapped(j).id, "WALLET") /\ ~(T[Snapped(j).id].amount > 0)
      <4>1. SnapOK(j.snap["WALLET"], "WALLET", T) /\ Snapped(j) \in Snap
        BY <3>1 DEF Creating, SnapsOK, Job
      <4>2. T[Snapped(j).id].amount = Snapped(j).amount /\ Snapped(j).amount \in Int
        BY <3>1, <4>1 DEF SnapOK, Snap
      <4>3. LiveRow(T, Snapped(j).id, "WALLET")
        BY <3>1, <4>1 DEF SnapOK, Knows, LiveRow, IsLive
      <4>. QED
        BY <1>1, <4>2, <4>3
    <3>. QED
      BY <3>1, <3>2, LiveUnique DEF WalletShown
  <2>3. OnLast(j) => j.on = "SADAD"
    BY LastOfIs DEF OnLast
  <2>. QED
    BY <1>1, <2>1, <2>2, <2>3, CreatedChecks
<1>2. CASE ~(Snapped(j).amount <= 0)
  <2>1. ToHold(j) = [j EXCEPT !.pc = "hold"] /\ "hold" \in HoldLabels
    BY <1>2, ToHoldIs DEF Creating, HoldLabels
  <2>. QED
    BY <2>1, HoldsChecks
<1>. QED
  BY <1>1, <1>2

LEMMA StartCreateChecks ==
  ASSUME NEW j \in Job, NEW T, NEW P, NonePending(T), NoLive(T, "CASH"), NEW total \in Nat,
         NEW currency \in Currencies, NEW opm \in OpenMethods \cup {"COD_WALLET"}
  PROVE  CheckoutOK(StartCreate(j, opm, total, currency), T, P)
<1>. DEFINE r == [j EXCEPT !.kind = "create", !.opm = opm, !.total = total,
                           !.currency = currency, !.todo = PaymentMethodsOf(opm),
                           !.snap = NoSnaps, !.amount = 0, !.scrap = FALSE]
<1>1. opm \in OrderMethods
  BY KindsAreKnown DEF OrderMethods
<1>2. PaymentMethodsOf(opm) \in Seq(Methods)
  <2>1. "CASH" \in Methods /\ "WALLET" \in Methods /\ "SADAD" \in Methods
    BY DEF Methods
  <2>2. /\ <<"CASH">> \in Seq(Methods) /\ <<"SADAD">> \in Seq(Methods)
        /\ <<"WALLET", "CASH">> \in Seq(Methods) /\ <<"WALLET", "SADAD">> \in Seq(Methods)
    BY <2>1
  <2>3. PaymentMethodsOf(opm) \in {<<"CASH">>, <<"SADAD">>, <<"WALLET", "CASH">>, <<"WALLET", "SADAD">>}
    BY <1>1 DEF PaymentMethodsOf, OrderMethods
  <2>. QED
    BY <2>2, <2>3
<1>3. "create" \in RequestKinds /\ 0 \in Int
  BY DEF RequestKinds
<1>4. /\ r \in Job /\ r.kind = "create" /\ r.opm = opm /\ r.todo = PaymentMethodsOf(opm)
      /\ r.snap = NoSnaps
  BY <1>1, <1>2, <1>3, IdleJobType DEF Job
<1>. HIDE DEF r
<1>5. SnapsOK(r, T) /\ Priced(r, T)
  <2>1. Priced(r, T)
    BY <1>4, UnreadPriced
  <2>. QED
    BY <1>4, <2>1 DEF SnapsOK, SnapOK, NoSnaps, NoSnap, Exists
<1>6. Creating(r, T)
  BY <1>4, <1>5 DEF Creating
<1>7. \/ r.todo = <<LastOf(r.opm)>> /\ WalletFirst(r, T)
      \/ r.opm \in {"COD_WALLET", "SADAD_WALLET"} /\ r.todo = <<"WALLET", LastOf(r.opm)>>
  <2>1. CASE opm \in {"COD", "SADAD"}
    BY <1>4, <2>1 DEF PaymentMethodsOf, LastOf, WalletFirst
  <2>2. CASE opm \in {"COD_WALLET", "SADAD_WALLET"}
    BY <1>4, <2>2 DEF PaymentMethodsOf, LastOf
  <2>. QED
    BY <1>1, <2>1, <2>2 DEF OrderMethods
<1>. QED
  BY <1>6, <1>7, NextMethodChecks DEF StartCreate, r

\* A cancellation done with a method.
LEMMA CancelledChecks ==
  ASSUME NEW j \in Job, NEW T, NEW P, NonePending(T),
         \/ /\ Creating(j, T) /\ WalletFirst(j, T) /\ j.todo = <<LastOf(j.opm)>>
            /\ Stands(T, "SADAD", {"CANCELLED"}) /\ j.on = "SADAD"
         \/ j.kind = "cancel" /\ Priced(j, T)
  PROVE  CheckoutOK(Cancelled(j), T, P)
<1>1. CASE j.kind = "create" /\ Head(j.todo) = "SADAD"
  <2>. DEFINE r == [j EXCEPT !.pc = "sadad_amount"]
  <2>1. /\ r.pc = "sadad_amount" /\ r.kind = j.kind /\ r.todo = j.todo /\ r.opm = j.opm
        /\ r.snap = j.snap /\ r.on = j.on
    BY <1>1 DEF Creating, Job
  <2>2. Creating(j, T) /\ WalletFirst(j, T) /\ j.todo = <<LastOf(j.opm)>>
        /\ Stands(T, "SADAD", {"CANCELLED"})
    BY <1>1
  <2>3. Priced(r, T) /\ SadadInHand(r, T) /\ (Knows(r, "WALLET", T) <=> Knows(j, "WALLET", T))
    BY <2>1, <2>2, SameSnaps, PendingInHand DEF Creating
  <2>4. LastOf(j.opm) = "SADAD"
    BY <1>1, <2>2
  <2>5. Cancelled(j) = r
    BY <1>1 DEF Cancelled
  <2>. HIDE DEF r
  <2>6. CreationFlow(r) /\ CreationOK(r, T)
    BY <2>1, <2>2, <2>3, <2>4 DEF CreationFlow, CreationOK, Creating, WalletFirst, HoldLabels,
       PollLabels
  <2>. QED
    BY <2>1, <2>2, <2>3, <2>5, <2>6, CreateChecks DEF Creating, CreateLabels
<1>2. CASE j.kind = "create" /\ Head(j.todo) # "SADAD"
  <2>. DEFINE q == [j EXCEPT !.on = "CASH", !.amount = 0, !.scrap = FALSE]
  <2>1. Creating(j, T) /\ j.todo = <<LastOf(j.opm)>> /\ Stands(T, "SADAD", {"CANCELLED"})
    BY <1>2
  <2>2. LastOf(j.opm) = "CASH"
    <3>1. Head(j.todo) = LastOf(j.opm)
      BY <2>1
    <3>. QED
      BY <1>2, <3>1, LastOfIs
  <2>3. /\ q \in Job /\ q.kind = j.kind /\ q.todo = j.todo /\ q.opm = j.opm /\ q.snap = j.snap
        /\ q.on = "CASH" /\ IsNothing(q)
    <3>1. 0 \in Int /\ FALSE \in BOOLEAN /\ "CASH" \in Methods
      BY DEF Methods
    <3>2. j \in Job
      BY <2>1 DEF Creating
    <3>3. /\ q \in Job /\ q.kind = j.kind /\ q.todo = j.todo /\ q.opm = j.opm /\ q.snap = j.snap
          /\ q.on = "CASH" /\ q.amount = 0 /\ q.scrap = FALSE
      BY <3>1, <3>2 DEF Job
    <3>. QED
      BY <3>3 DEF IsNothing
  <2>4. Cancelled(j) = [q EXCEPT !.pc = "create_read"]
    BY <1>2, <2>1 DEF Cancelled, Creating, Job
  <2>. HIDE DEF q
  <2>5. Creating(q, T) /\ OnLast(q)
    BY <2>1, <2>2, <2>3, SameSnaps DEF Creating, OnLast
  <2>6. CheckoutOK([q EXCEPT !.pc = "create_read"], T, P)
    BY <2>1, <2>3, <2>5, InsertsChecks
  <2>. QED
    BY <2>4, <2>6
<1>3. CASE j.kind = "cancel" /\ Tail(j.todo) = <<>>
  <2>1. Cancelled(j) = Go(j, "done") /\ j \in Job
    BY <1>3 DEF Cancelled, Creating
  <2>. QED
    BY <1>3, <2>1, RestChecks DEF RestLabels
<1>4. CASE j.kind = "cancel" /\ Tail(j.todo) # <<>>
  <2>. DEFINE r == [j EXCEPT !.pc = "cancel_read", !.todo = Tail(@), !.on = Head(Tail(j.todo))]
  <2>1. Cancelled(j) = r /\ j \in Job /\ Priced(j, T)
    BY <1>4 DEF Cancelled, Creating
  <2>2. r.pc = "cancel_read" /\ r.kind = "cancel" /\ r.snap = j.snap
    BY <1>4, <2>1 DEF Job
  <2>3. Priced(r, T) /\ SadadInHand(r, T)
    BY <2>1, <2>2, SameSnaps, PendingInHand
  <2>. HIDE DEF r
  <2>4. CancelFlow(r) /\ r.pc \notin RollbackLabels
    BY <2>2 DEF CancelFlow, RollbackLabels
  <2>. QED
    BY <2>1, <2>2, <2>3, <2>4, OtherChecks
<1>. QED
  BY <1>1, <1>2, <1>3, <1>4 DEF Creating

\* A rollback done with a method.
LEMMA RolledBackChecks ==
  ASSUME NEW j \in Job, NEW T, NEW P, j.kind = "rollback", Priced(j, T), NonePending(T),
         <<j.on, j.todo>> \in {<<"SADAD", <<"SADAD", "CASH", "WALLET">>>>,
                               <<"CASH", <<"CASH", "WALLET">>>>, <<"WALLET", <<"WALLET">>>>},
         j.on \in {"CASH", "WALLET"} => NoLive(T, "CASH")
  PROVE  CheckoutOK(RolledBack(j), T, P)
<1>0. /\ Tail(<<"SADAD", "CASH", "WALLET">>) = <<"CASH", "WALLET">>
      /\ Tail(<<"CASH", "WALLET">>) = <<"WALLET">> /\ Tail(<<"WALLET">>) = <<>>
  OBVIOUS
<1>1. CASE j.on = "WALLET"
  <2>1. RolledBack(j) = Recreate(j)
    <3>1. j.todo = <<"WALLET">>
      BY <1>1
    <3>. QED
      BY <1>0, <3>1 DEF RolledBack
  <2>2. CASE j.snap["WALLET"].amount + j.snap["SADAD"].amount > 0
    <3>. DEFINE total == j.snap["WALLET"].amount + j.snap["SADAD"].amount
                currency == IF Exists(j.snap["CASH"]) THEN j.snap["CASH"].currency
                            ELSE IF Exists(j.snap["WALLET"]) THEN j.snap["WALLET"].currency
                                 ELSE j.snap["SADAD"].currency
    <3>1. /\ j.snap["WALLET"] \in Snap /\ j.snap["SADAD"] \in Snap /\ j.snap["CASH"] \in Snap
      BY DEF Job, Methods
    <3>2. total \in Nat /\ currency \in Currencies
      BY <3>1 DEF Snap
    <3>3. Recreate(j) = StartCreate(j, "COD_WALLET", total, currency)
      BY <2>2 DEF Recreate
    <3>. HIDE DEF total, currency
    <3>. QED
      BY <1>1, <2>1, <3>2, <3>3, StartCreateChecks
  <2>3. CASE ~(j.snap["WALLET"].amount + j.snap["SADAD"].amount > 0)
    <3>1. Recreate(j) = Go(j, "done")
      BY <2>3 DEF Recreate
    <3>. QED
      BY <2>1, <3>1, RestChecks DEF RestLabels
  <2>. QED
    BY <2>2, <2>3
<1>2. CASE j.on \in {"SADAD", "CASH"}
  <2>. DEFINE r == [j EXCEPT !.pc = "rollback_read", !.todo = Tail(@), !.on = Head(Tail(j.todo))]
  <2>1. \/ j.on = "SADAD" /\ Tail(j.todo) = <<"CASH", "WALLET">>
        \/ j.on = "CASH" /\ Tail(j.todo) = <<"WALLET">>
    <3>1. \/ j.on = "SADAD" /\ j.todo = <<"SADAD", "CASH", "WALLET">>
          \/ j.on = "CASH" /\ j.todo = <<"CASH", "WALLET">>
      BY <1>2
    <3>. QED
      BY <1>0, <3>1
  <2>2. RolledBack(j) = r
    <3>1. Tail(j.todo) # <<>>
      BY <2>1
    <3>. QED
      BY <3>1 DEF RolledBack
  <2>3. /\ r.pc = "rollback_read" /\ r.kind = "rollback" /\ r.snap = j.snap
        /\ r.todo = Tail(j.todo) /\ r.on = Head(Tail(j.todo))
    BY DEF Job
  <2>4. Priced(r, T) /\ SadadInHand(r, T)
    BY <2>3, SameSnaps, PendingInHand
  <2>. HIDE DEF r
  <2>5. RollbackFlow(r)
    BY <2>1, <2>3 DEF RollbackFlow
  <2>6. NoCashYet(r, T)
    BY <2>1, <2>3 DEF NoCashYet
  <2>. QED
    BY <2>2, <2>3, <2>4, <2>5, <2>6, RollbackChecks DEF RollbackLabels
<1>. QED
  BY <1>1, <1>2

-----------------------------------------------------------------------------
\* Reads

\* What is known before a step.
Ready == CheckoutAssumption /\ IInv /\ SInv /\ CInv

LEMMA ReadyIs ==
  ASSUME Ready, NEW p \in Procs
  PROVE  /\ CheckoutAssumption /\ Sound(tbl, pay) /\ Ledger
         /\ CashOK(tbl, pay, late) /\ CashOnly(tbl)
         /\ job[p] \in Job /\ SnapsOK(job[p], tbl) /\ FlowOK(job[p])
         /\ KeptOK(job[p], tbl) /\ StandingOK(job[p], tbl, pay)
         /\ Priced(job[p], tbl) /\ CompletionOK(job[p], tbl, pay)
         /\ CreationFlow(job[p]) /\ CancelFlow(job[p]) /\ RollbackFlow(job[p])
         /\ NoCashYet(job[p], tbl) /\ CreationOK(job[p], tbl) /\ SadadInHand(job[p], tbl)
  BY SoundBefore, WorkerKnows, WorkerStands DEF Ready, CInv, CheckoutOK

\* What is to be shown of a step of the worker.
Keeps(p) == Careful /\ CashOnly(tbl') /\ CheckoutOK(job'[p], tbl', pay')

LEMMA ReadKeeps ==
  ASSUME Ready, NEW p \in Procs, NEW j, Become(p, j), UNCHANGED <<tbl, pay, late>>,
         CheckoutOK(j, tbl, pay)
  PROVE  Keeps(p)
<1>1. job'[p] = j
  BY DEF Become, IInv, Ready
<1>2. \A i \in Ids : ~(LiveRow(tbl, i, "WALLET") /\ tbl[i].state = "ROLLBACKED")
  BY ReadyIs DEF Sound, Agreed, LiveRow, IsLive
<1>. QED
  BY <1>1, <1>2, ReadyIs DEF Keeps, Careful

\* A request that a worker abandons.
LEMMA FailedChecks ==
  ASSUME Ready, NEW p \in Procs, NonePending(tbl), NEW outcome \in RestLabels \ {"done"}, NEW P
  PROVE  CheckoutOK(Go(job[p], outcome), tbl, P)
  BY ReadyIs, RestChecks DEF CompletionOK, CreationFlow

\* What a lookup by key returns.
LEMMA FoundRow ==
  ASSUME NEW pm, NEW s \in FindByIdempKey(pm)
  PROVE  /\ Exists(s) => /\ LiveRow(tbl, s.id, pm)
                         /\ s.amount = tbl[s.id].amount /\ s.state = tbl[s.id].state
         /\ ~Exists(s) => NoLive(tbl, pm) /\ s.amount = 0
<1>1. CASE LiveIds(pm) = {}
  BY <1>1 DEF FindByIdempKey, NoSnap, Exists, LiveIds, Stored, NoLive, LiveRow, IsLive
<1>2. CASE LiveIds(pm) # {}
  <2>1. PICK i \in LiveIds(pm) : s = SnapOf(i)
    BY <1>2 DEF FindByIdempKey
  <2>. QED
    BY <2>1 DEF SnapOf, Exists, LiveIds, Stored, LiveRow, IsLive
<1>. QED
  BY <1>1, <1>2

\* What a worker knows once it has read the row of its method.
LEMMA SeenRow ==
  ASSUME Ready, NEW p \in Procs, NEW s \in FindByIdempKey(job[p].on)
  PROVE  LET j == job[p]  k == See(j, s)
         IN  /\ k \in Job /\ Snapped(k) = s /\ k.snap[j.on] = s
             /\ k.pc = j.pc /\ k.kind = j.kind /\ k.on = j.on /\ k.todo = j.todo
             /\ k.amount = j.amount /\ k.total = j.total /\ k.opm = j.opm
             /\ k.currency = j.currency
             /\ SnapsOK(k, tbl) /\ Priced(k, tbl) /\ Fresh(s, tbl)
             /\ Knows(k, j.on, tbl) /\ Stands(tbl, j.on, {s.state})
             /\ \A m \in Methods : m # j.on => /\ k.snap[m] = j.snap[m]
                                               /\ Knows(k, m, tbl) <=> Knows(j, m, tbl)
<1>. DEFINE j == job[p]
            k == See(j, s)
<1>1. j \in Job /\ j.on \in Methods /\ SnapsOK(j, tbl) /\ Priced(j, tbl) /\ Sound(tbl, pay)
  BY ReadyIs, WorkerKnows DEF Ready
<1>2. s \in Snap /\ SnapOK(s, j.on, tbl) /\ Fresh(s, tbl)
  BY <1>1, FindByKeyOK, FindFresh, WorkerKnows DEF Ready
<1>3. /\ k \in Job /\ Snapped(k) = s /\ k.snap[j.on] = s
      /\ k.pc = j.pc /\ k.kind = j.kind /\ k.on = j.on /\ k.todo = j.todo
      /\ k.amount = j.amount /\ k.total = j.total /\ k.opm = j.opm /\ k.currency = j.currency
      /\ SnapsOK(k, tbl)
      /\ \A m \in Methods : m # j.on => k.snap[m] = j.snap[m]
  BY <1>1, <1>2, SeeOK, SeeKeeps
<1>. HIDE DEF k
<1>4. Knows(k, j.on, tbl)
  BY <1>3, FoundRow DEF Knows, LiveRow
<1>5. Priced(k, tbl)
  BY <1>1, <1>3, FoundRow DEF Priced
<1>6. \A m \in Methods : m # j.on => (Knows(k, m, tbl) <=> Knows(j, m, tbl))
  BY <1>3 DEF Knows
<1>7. Stands(tbl, j.on, {s.state})
  BY <1>1, <1>2, <1>3, <1>4, KnownState DEF Sound
<1>. QED
  BY <1>2, <1>3, <1>4, <1>5, <1>6, <1>7 DEF k

\* A worker that has no row in hand has left none half done; nor has one whose row is not.
LEMMA HasNonePending ==
  ASSUME Ready, NEW p \in Procs,
         job[p].pc \notin RowLabels \/ tbl[Snapped(job[p]).id].state \notin Pending
  PROVE  NonePending(tbl)
  BY ReadyIs DEF NonePending, SadadInHand

\* A creation under way.
LEMMA IsCreating ==
  ASSUME Ready, NEW p \in Procs, job[p].kind = "create", job[p].pc \in BusyLabels
  PROVE  Creating(job[p], tbl)
  BY ReadyIs DEF Creating, CreationFlow, NoCashYet

LEMMA ResolveWalletKeeps ==
  ASSUME Ready, NEW p \in Procs, ResolveWallet(p)
  PROVE  Keeps(p)
<1>. DEFINE j == job[p]
<1>1. /\ j.pc = "resolve" /\ j.pc \in CreateLabels /\ j.pc \in BusyLabels /\ j.pc \notin RowLabels
  BY DEF ResolveWallet, CreateLabels, BusyLabels, RowLabels, HoldLabels, CancelLabels, RollbackLabels
<1>2. Creating(j, tbl) /\ NonePending(tbl) /\ OnWallet(j)
  BY <1>1, ReadyIs, IsCreating, HasNonePending DEF FlowOK, CreationFlow
<1>3. PICK s \in FindByIdempKey("WALLET") :
        IF Exists(s)
          THEN Become(p, [j EXCEPT !.pc = "create_read", !.amount = s.amount, !.scrap = FALSE])
          ELSE \E b \in Balances : LET amount == Coverable(b, j.total) IN
                 \E scrap \in IF b < 0 THEN {FALSE} ELSE MayBeScrap(amount) :
                   Become(p, [j EXCEPT !.pc = "create_read", !.amount = amount,
                                       !.scrap = scrap])
  BY DEF ResolveWallet
<1>4. PICK amount \in Int, scrap \in BOOLEAN :
        Become(p, [j EXCEPT !.pc = "create_read", !.amount = amount, !.scrap = scrap])
  <2>1. s \in Snap /\ j.total \in Nat /\ Balances \subseteq Int
    BY AmountsAreIntegers, FindByKeyOK, WorkerKnows DEF Ready, Methods
  <2>2. CASE Exists(s)
    <3>1. s.amount \in Int
      BY <2>1 DEF Snap
    <3>. QED
      BY <1>3, <2>2, <3>1
  <2>3. CASE ~Exists(s)
    <3>1. PICK b \in Balances : LET amount == Coverable(b, j.total) IN
                 \E scrap \in IF b < 0 THEN {FALSE} ELSE MayBeScrap(amount) :
                   Become(p, [j EXCEPT !.pc = "create_read", !.amount = amount,
                                       !.scrap = scrap])
      BY <1>3, <2>3
    <3>2. Coverable(b, j.total) \in Int
      BY <2>1 DEF Coverable
    <3>3. PICK scrap \in IF b < 0 THEN {FALSE} ELSE MayBeScrap(Coverable(b, j.total)) :
                   Become(p, [j EXCEPT !.pc = "create_read", !.amount = Coverable(b, j.total),
                                       !.scrap = scrap])
      BY <3>1
    <3>4. scrap \in BOOLEAN
      BY <3>3 DEF MayBeScrap
    <3>. QED
      BY <3>2, <3>3, <3>4
  <2>. QED
    BY <2>2, <2>3
<1>. DEFINE q == [j EXCEPT !.amount = amount, !.scrap = scrap]
<1>5. /\ q \in Job /\ q.kind = j.kind /\ q.todo = j.todo /\ q.opm = j.opm /\ q.snap = j.snap
      /\ q.on = j.on
  BY <1>2, <1>4 DEF Creating, Job
<1>6. [j EXCEPT !.pc = "create_read", !.amount = amount, !.scrap = scrap]
        = [q EXCEPT !.pc = "create_read"]
  BY <1>2 DEF Creating, Job
<1>. HIDE DEF q
<1>7. Creating(q, tbl) /\ OnWallet(q)
  BY <1>2, <1>5, SameSnaps DEF Creating, OnWallet
<1>8. CheckoutOK([q EXCEPT !.pc = "create_read"], tbl, pay)
  BY <1>2, <1>7, InsertsChecks DEF OnWallet
<1>. QED
  BY <1>4, <1>6, <1>8, ReadKeeps DEF ResolveWallet

LEMMA ResolveSadadKeeps ==
  ASSUME Ready, NEW p \in Procs, ResolveSadad(p)
  PROVE  Keeps(p)
<1>. DEFINE j == job[p]
<1>1. /\ j.pc = "sadad_amount" /\ j.pc \in CreateLabels /\ j.pc \in BusyLabels
      /\ j.pc \notin RowLabels
  BY DEF ResolveSadad, CreateLabels, BusyLabels, RowLabels, HoldLabels, CancelLabels,
         RollbackLabels
<1>2. /\ Creating(j, tbl) /\ NonePending(tbl) /\ Sound(tbl, pay)
      /\ j.todo = <<LastOf(j.opm)>> /\ j.on = "SADAD" /\ LastOf(j.opm) = "SADAD"
      /\ Stands(tbl, "SADAD", {"CANCELLED"})
      /\ j.opm = "SADAD_WALLET"
           => Knows(j, "WALLET", tbl) /\ WalletShown(tbl)
  BY <1>1, ReadyIs, IsCreating, HasNonePending DEF FlowOK, CreationFlow, CreationOK
<1>3. PICK w \in IF Exists(j.snap["WALLET"]) THEN {j.snap["WALLET"]} ELSE FindByIdempKey("WALLET") :
        IF j.currency # "SAR" \/ (Exists(w) /\ (j.opm = "SADAD" \/ w.currency # "SAR"))
          THEN Become(p, Go(j, "failed"))
          ELSE \E scrap \in IF Exists(w) THEN {FALSE} ELSE MayBeScrap(j.total) :
                 Become(p, [j EXCEPT !.pc = "create_read", !.amount = j.total - w.amount,
                                     !.scrap = scrap])
  BY DEF ResolveSadad
<1>4. CASE Become(p, Go(j, "failed"))
  BY <1>2, <1>4, FailedChecks, ReadKeeps DEF ResolveSadad, RestLabels
<1>5. CASE /\ ~(Exists(w) /\ j.opm = "SADAD")
           /\ \E scrap \in IF Exists(w) THEN {FALSE} ELSE MayBeScrap(j.total) :
                Become(p, [j EXCEPT !.pc = "create_read", !.amount = j.total - w.amount,
                                    !.scrap = scrap])
  <2>1. j.opm \in {"SADAD", "SADAD_WALLET"}
    BY <1>2 DEF LastOf
  <2>2. /\ w.amount = AmountOf(tbl, "WALLET") /\ w.amount \in Nat /\ j.total \in Nat
        /\ WalletShown(tbl)
    <3>1. j \in Job /\ SnapsOK(j, tbl) /\ Priced(j, tbl) /\ KeysUnique(tbl) /\ "WALLET" \in Methods
      BY <1>2 DEF Creating, Sound, Methods
    <3>2. AmountOf(tbl, "WALLET") \in Nat /\ j.total \in Nat
      BY <1>2, <3>1, AmountOfNat DEF Sound, Job
    <3>3. CASE Exists(j.snap["WALLET"])
      <4>1. w = j.snap["WALLET"] /\ j.opm = "SADAD_WALLET"
        BY <1>3, <1>5, <2>1, <3>3
      <4>. QED
        BY <1>2, <3>1, <3>2, <4>1, KnownAmount
    <3>4. CASE ~Exists(j.snap["WALLET"])
      <4>1. w \in FindByIdempKey("WALLET")
        BY <1>3, <3>4
      <4>2. CASE j.opm = "SADAD_WALLET"
        <5>1. NoLive(tbl, "WALLET")
          BY <1>2, <3>4, <4>2 DEF Knows
        <5>2. w.amount = 0
          BY <4>1, <5>1, FoundRow DEF NoLive, LiveRow
        <5>. QED
          BY <1>2, <3>2, <4>2, <5>1, <5>2, AmountOfNone
      <4>3. CASE j.opm = "SADAD"
        <5>1. NoLive(tbl, "WALLET") /\ w.amount = 0
          BY <1>5, <4>1, <4>3, FoundRow
        <5>. QED
          BY <3>2, <5>1, AmountOfNone DEF WalletShown, NoLive
      <4>. QED
        BY <2>1, <4>2, <4>3
    <3>. QED
      BY <3>3, <3>4
  <2>8. PICK scrap \in IF Exists(w) THEN {FALSE} ELSE MayBeScrap(j.total) :
          Become(p, [j EXCEPT !.pc = "create_read", !.amount = j.total - w.amount,
                              !.scrap = scrap])
    BY <1>5
  <2>9. scrap \in BOOLEAN
    BY <2>8 DEF MayBeScrap
  <2>. DEFINE amount == j.total - w.amount
              q == [j EXCEPT !.amount = amount, !.scrap = scrap]
  <2>3. amount \in Int /\ SadadRest(tbl, j.total, amount)
    BY <2>2 DEF SadadRest
  <2>. HIDE DEF amount
  <2>4. /\ q \in Job /\ q.kind = j.kind /\ q.todo = j.todo /\ q.opm = j.opm /\ q.snap = j.snap
        /\ q.on = j.on /\ q.amount = amount /\ q.total = j.total
    BY <1>2, <2>3, <2>9 DEF Creating, Job
  <2>5. [j EXCEPT !.pc = "create_read", !.amount = amount, !.scrap = scrap]
          = [q EXCEPT !.pc = "create_read"]
    BY <1>2 DEF Creating, Job
  <2>. HIDE DEF q
  <2>6. Creating(q, tbl) /\ OnLast(q)
    BY <1>2, <2>4, SameSnaps DEF Creating, OnLast
  <2>7. CheckoutOK([q EXCEPT !.pc = "create_read"], tbl, pay)
    BY <1>2, <2>3, <2>4, <2>6, InsertsChecks
  <2>. QED
    BY <2>8, <2>5, <2>7, ReadKeeps DEF ResolveSadad, amount
<1>. QED
  BY <1>3, <1>4, <1>5

LEMMA CreateReadKeeps ==
  ASSUME Ready, NEW p \in Procs, CreateRead(p)
  PROVE  Keeps(p)
<1>. DEFINE j == job[p]
<1>1. /\ j.pc = "create_read" /\ j.pc \in CreateLabels /\ j.pc \in BusyLabels
      /\ j.pc \notin RowLabels
  BY DEF CreateRead, CreateLabels, BusyLabels, RowLabels, HoldLabels, CancelLabels,
         RollbackLabels
<1>2. /\ Creating(j, tbl) /\ NonePending(tbl) /\ (OnWallet(j) \/ OnLast(j))
      /\ j.on = "CASH" => IsNothing(j)
      /\ j.on # "WALLET" => Stands(tbl, "SADAD", {"CANCELLED"})
      /\ j.on = "SADAD" => SadadRest(tbl, j.total, j.amount)
  BY <1>1, ReadyIs, IsCreating, HasNonePending DEF FlowOK, CreationFlow, CreationOK
<1>3. PICK s \in FindByIdempKey(j.on) :
        LET label == CreateSwitch(s.state, IsNothing(j)) IN
        Become(p, CASE label = "return" -> Created(See(j, s))
                    [] label = "hold"   -> ToHold(See(j, s))
                    [] OTHER            -> Go(See(j, s), label))
  BY DEF CreateRead
<1>. DEFINE label == CreateSwitch(s.state, IsNothing(j))
            k == See(j, s)
<1>4. /\ k \in Job /\ k.on = j.on /\ k.todo = j.todo /\ k.opm = j.opm /\ k.kind = j.kind
      /\ k.amount = j.amount /\ k.total = j.total
      /\ SnapsOK(k, tbl) /\ Priced(k, tbl)
      /\ Knows(k, j.on, tbl) /\ Stands(tbl, j.on, {s.state}) /\ Snapped(k) = s
  BY SeenRow
<1>. HIDE DEF k
<1>5. Creating(k, tbl) /\ (OnWallet(k) \/ OnLast(k))
  BY <1>2, <1>4 DEF Creating, OnWallet, OnLast
<1>6. k.on # "WALLET" => SadadCovers(tbl, k.total)
  BY <1>2, <1>4 DEF SadadCovers, Stands
<1>7. OnLast(k) => k.on # "WALLET"
  BY LastOfIs DEF OnLast
<1>8. CASE label = "return"
  <2>1. s.state \in {"ABSENT", "HOLD", "AWAITING_PAYMENT"}
    BY <1>8 DEF CreateSwitch
  <2>2. OnWallet(k) => WalletFirst(k, tbl)
    BY <1>4, <2>1 DEF OnWallet, WalletFirst, WalletShown, Stands, ShownHeld, LiveRow, IsLive
  <2>3. CheckoutOK(Created(k), tbl, pay)
    BY <1>2, <1>5, <1>6, <1>7, <2>2, CreatedChecks
  <2>. QED
    BY <1>3, <1>8, <2>3, ReadKeeps DEF CreateRead, k
<1>9. CASE label = "failed"
  <2>1. CheckoutOK(Go(k, "failed"), tbl, pay)
    BY <1>2, <1>5, RestChecks DEF Creating, RestLabels
  <2>. QED
    BY <1>3, <1>9, <2>1, ReadKeeps DEF CreateRead, k
<1>10. CASE label = "insert"
  <2>3. j.on # "CASH"
    BY <1>2, <1>10 DEF CreateSwitch
  <2>1. CheckoutOK([k EXCEPT !.pc = "insert"], tbl, pay)
    BY <1>2, <1>4, <1>5, <2>3, InsertsChecks
  <2>2. Go(k, "insert") = [k EXCEPT !.pc = "insert"]
    BY DEF Go, RestLabels
  <2>. QED
    BY <1>3, <1>10, <2>1, <2>2, ReadKeeps DEF CreateRead, k
<1>11. CASE label = "hold"
  <2>1. s.state = "HOLD_PROCESSING" /\ Exists(s)
    BY <1>11 DEF CreateSwitch, Exists
  <2>2. k.on \in {"WALLET", "SADAD"}
    <3>1. k.on # "CASH"
      BY <1>2, <1>4, <2>1 DEF Creating, Knows, Snapped, NoLive, SnapsOK, SnapOK, LiveRow, IsLive,
         Methods
    <3>. QED
      BY <1>5, <3>1, LastOfIs DEF OnWallet, OnLast
  <2>3. CheckoutOK(ToHold(k), tbl, pay)
    BY <1>2, <1>4, <1>5, <1>6, <2>1, <2>2, PendingInHand, ReadyIs, ToHoldChecks DEF Sound
  <2>. QED
    BY <1>3, <1>11, <2>3, ReadKeeps DEF CreateRead, k
<1>. QED
  BY <1>8, <1>9, <1>10, <1>11 DEF CreateSwitch

\* A creation that cancels what was asked of SADAD before.
LEMMA IsCancelling ==
  ASSUME Ready, NEW p \in Procs, job[p].kind = "create", job[p].pc \in CancelLabels
  PROVE  /\ Creating(job[p], tbl) /\ WalletFirst(job[p], tbl)
         /\ job[p].on = "SADAD" /\ job[p].todo = <<LastOf(job[p].opm)>>
<1>1. job[p].pc \in BusyLabels
  BY DEF CancelLabels, BusyLabels
<1>. QED
  BY <1>1, IsCreating, ReadyIs DEF CreationFlow, CreationOK, FlowOK, WalletFirst

\* A request that is not a creation goes on with a cancellation.
LEMMA CancelStageChecks ==
  ASSUME NEW j \in Job, NEW T, NEW P, Priced(j, T), NEW label \in CancelLabels,
         SadadInHand([j EXCEPT !.pc = label], T),
         \/ j.kind = "cancel"
         \/ /\ Creating(j, T) /\ WalletFirst(j, T) /\ j.on = "SADAD"
            /\ j.todo = <<LastOf(j.opm)>>
  PROVE  CheckoutOK([j EXCEPT !.pc = label], T, P)
<1>1. CASE j.kind = "cancel"
  <2>. DEFINE r == [j EXCEPT !.pc = label]
  <2>1. r.pc = label /\ r.kind = "cancel" /\ r.snap = j.snap
    BY <1>1 DEF Job
  <2>2. Priced(r, T) /\ SadadInHand(r, T)
    BY <2>1, SameSnaps
  <2>. HIDE DEF r
  <2>3. r.pc \notin RollbackLabels /\ CancelFlow(r)
    BY <2>1 DEF CancelLabels, RollbackLabels, CancelFlow
  <2>4. CheckoutOK(r, T, P)
    BY <2>1, <2>2, <2>3, OtherChecks
  <2>. QED
    BY <2>4 DEF r
<1>2. CASE j.kind # "cancel"
  BY <1>2, CancelsChecks
<1>. QED
  BY <1>1, <1>2

LEMMA CancelReadKeeps ==
  ASSUME Ready, NEW p \in Procs, CancelRead(p)
  PROVE  Keeps(p)
<1>. DEFINE j == job[p]
<1>1. /\ j.pc = "cancel_read" /\ j.pc \in CancelLabels /\ j.pc \notin RowLabels
  BY DEF CancelRead, RowLabels, HoldLabels, CancelLabels, RollbackLabels
<1>2. NonePending(tbl) /\ j.kind \in {"create", "cancel"}
  BY <1>1, ReadyIs, HasNonePending DEF CancelFlow
<1>3. PICK s \in FindByIdempKey(j.on) :
        Become(p, IF CancelSwitch(s.state, j.on) = "return" THEN Cancelled(See(j, s))
                  ELSE Go(See(j, s), CancelSwitch(s.state, j.on)))
  BY DEF CancelRead
<1>. DEFINE label == CancelSwitch(s.state, j.on)
            k == See(j, s)
<1>4. /\ k \in Job /\ k.on = j.on /\ k.todo = j.todo /\ k.opm = j.opm /\ k.kind = j.kind
      /\ SnapsOK(k, tbl) /\ Priced(k, tbl) /\ Stands(tbl, j.on, {s.state})
      /\ j.on # "WALLET" => (Knows(k, "WALLET", tbl) <=> Knows(j, "WALLET", tbl))
  BY SeenRow DEF Methods
<1>. HIDE DEF k
<1>5. j.kind = "create" => /\ Creating(k, tbl) /\ WalletFirst(k, tbl)
                           /\ k.on = "SADAD" /\ k.todo = <<LastOf(k.opm)>>
  BY <1>1, <1>4, IsCancelling DEF Creating, WalletFirst
<1>6. CASE label = "return"
  <2>1. s.state \in {"ABSENT", "CANCELLED"}
    BY <1>6 DEF CancelSwitch
  <2>2. Stands(tbl, j.on, {"CANCELLED"})
    BY <1>4, <2>1 DEF Stands, LiveRow, IsLive
  <2>3. CheckoutOK(Cancelled(k), tbl, pay)
    BY <1>2, <1>4, <1>5, <2>2, CancelledChecks
  <2>. QED
    BY <1>3, <1>6, <2>3, ReadKeeps DEF CancelRead, k
<1>7. CASE label = "failed"
  <2>1. "failed" \in RestLabels
    BY DEF RestLabels
  <2>2. CheckoutOK(Go(k, "failed"), tbl, pay)
    BY <1>2, <1>4, <1>5, <2>1, RestChecks DEF Creating
  <2>. QED
    BY <1>3, <1>7, <2>2, ReadKeeps DEF CancelRead, k
<1>8. CASE label \in CancelLabels
  <2>1. SadadInHand([k EXCEPT !.pc = label], tbl)
    BY <1>2, PendingInHand
  <2>2. Go(k, label) = [k EXCEPT !.pc = label]
    BY <1>8 DEF Go, RestLabels, CancelLabels
  <2>. HIDE DEF label
  <2>3. CheckoutOK([k EXCEPT !.pc = label], tbl, pay)
    BY <1>2, <1>4, <1>5, <1>8, <2>1, CancelStageChecks
  <2>. QED
    BY <1>3, <1>8, <2>2, <2>3, ReadKeeps DEF CancelRead, k, label, CancelLabels
<1>9. label \in {"return", "failed"} \cup CancelLabels
  BY DEF CancelSwitch, CancelLabels
<1>. QED
  BY <1>6, <1>7, <1>8, <1>9

LEMMA CancelKeyKeeps ==
  ASSUME Ready, NEW p \in Procs, CancelKey(p)
  PROVE  Keeps(p)
<1>. DEFINE j == job[p]
            i == Snapped(j).id
            s == SnapOf(i)
            k == See(j, s)
<1>1. /\ j.pc = "cancel_key" /\ j.pc \in CancelLabels /\ j.pc \in RowLabels
      /\ "cancel_write" \in CancelLabels
  BY DEF CancelKey, CancelLabels, RowLabels
<1>2. /\ j \in Job /\ j.on \in Methods /\ SnapsOK(j, tbl) /\ Priced(j, tbl)
      /\ j.kind \in {"create", "cancel"}
      /\ i \in Ids /\ tbl[i].pm = j.on /\ tbl[i].state # "ABSENT" /\ tbl[i] \in Row
  BY <1>1, ReadyIs, WorkerKnows DEF Ready, CancelFlow, LedgerOK
<1>3. s \in Snap /\ SnapOK(s, j.on, tbl) /\ s.id = i /\ s.amount = tbl[i].amount /\ Exists(s)
  BY <1>2 DEF SnapOf, Snap, Row, SnapOK, Exists
<1>4. /\ k \in Job /\ Snapped(k) = s /\ k.kind = j.kind /\ k.on = j.on /\ k.todo = j.todo
      /\ k.opm = j.opm /\ SnapsOK(k, tbl) /\ k.snap[j.on] = s
      /\ \A m \in Methods : m # j.on => k.snap[m] = j.snap[m]
  BY <1>2, <1>3, SeeOK, SeeKeeps
<1>. HIDE DEF k
<1>5. Priced(k, tbl) /\ (j.on # "WALLET" => (Knows(k, "WALLET", tbl) <=> Knows(j, "WALLET", tbl)))
  BY <1>2, <1>3, <1>4 DEF Priced, Knows, Methods
<1>6. SadadInHand([k EXCEPT !.pc = "cancel_write"], tbl)
  <2>. DEFINE r == [k EXCEPT !.pc = "cancel_write"]
  <2>1. r.pc = "cancel_write" /\ Snapped(r) = s
    BY <1>4 DEF Job, Snapped
  <2>. HIDE DEF r, s
  <2>2. SadadInHand(r, tbl)
    BY <1>1, <1>3, <2>1, ReadyIs DEF SadadInHand, RowLabels, CancelLabels
  <2>. QED
    BY <2>2 DEF r
<1>7. j.kind = "create" => /\ Creating(k, tbl) /\ WalletFirst(k, tbl)
                           /\ k.on = "SADAD" /\ k.todo = <<LastOf(k.opm)>>
  BY <1>1, <1>4, <1>5, IsCancelling DEF Creating, WalletFirst
<1>8. CheckoutOK([k EXCEPT !.pc = "cancel_write"], tbl, pay)
  BY <1>1, <1>2, <1>4, <1>5, <1>6, <1>7, CancelStageChecks
<1>. QED
  BY <1>8, ReadKeeps DEF CancelKey, k

LEMMA WalletReadKeeps ==
  ASSUME Ready, NEW p \in Procs, WalletRead(p)
  PROVE  Keeps(p)
<1>. DEFINE j == job[p]
<1>1. /\ j.pc = "wallet_read" /\ j.pc \in SettleLabels /\ j.pc \notin RowLabels
  BY DEF WalletRead, SettleLabels, RowLabels, HoldLabels, CancelLabels, RollbackLabels
<1>2. /\ NonePending(tbl) /\ j.kind = "complete" /\ j.on = "WALLET" /\ j \in Job
      /\ j.total \in FinalTotals /\ j.total \in Nat /\ j.todo # <<>>
  BY <1>1, ReadyIs, WorkerKnows, HasNonePending DEF Ready, FlowOK, CompletionOK
<1>3. PICK s \in FindByIdempKey("WALLET") :
        Become(p, IF s.state = "CANCELLED" THEN Go(j, "returned_false")
                  ELSE [See(j, s) EXCEPT !.pc = "poll", !.on = "SADAD",
                                         !.amount = j.total - s.amount])
  BY DEF WalletRead
<1>4. CASE Become(p, Go(j, "returned_false"))
  BY <1>2, <1>4, FailedChecks, ReadKeeps DEF WalletRead, RestLabels
<1>5. CASE Become(p, [See(j, s) EXCEPT !.pc = "poll", !.on = "SADAD",
                                       !.amount = j.total - s.amount])
  <2>. DEFINE k == See(j, s)
              amount == j.total - s.amount
              q == [k EXCEPT !.on = "SADAD", !.amount = amount]
  <2>1. /\ k \in Job /\ k.todo = j.todo /\ k.kind = j.kind /\ k.total = j.total
        /\ SnapsOK(k, tbl) /\ Priced(k, tbl) /\ Knows(k, "WALLET", tbl)
        /\ k.snap["WALLET"] = s
    <3>1. s \in FindByIdempKey(j.on)
      BY <1>2
    <3>. QED
      BY <1>2, <3>1, SeenRow
  <2>2. s.amount = AmountOf(tbl, "WALLET") /\ amount \in Int
    <3>1. "WALLET" \in Methods /\ KeysUnique(tbl) /\ AmountOf(tbl, "WALLET") \in Nat
      BY ReadyIs, AmountOfNat DEF Methods, Sound
    <3>2. s.amount = AmountOf(tbl, "WALLET")
      <4>. HIDE DEF k
      <4>. QED
        BY <2>1, <3>1, KnownAmount
    <3>. QED
      BY <1>2, <3>1, <3>2
  <2>. HIDE DEF k
  <2>3. /\ q \in Job /\ q.todo = j.todo /\ q.kind = j.kind /\ q.total = j.total
        /\ q.snap = k.snap /\ q.amount = amount
    <3>. HIDE DEF amount
    <3>1. "SADAD" \in Methods
      BY DEF Methods
    <3>. QED
      BY <2>1, <2>2, <3>1 DEF Job
  <2>4. [k EXCEPT !.pc = "poll", !.on = "SADAD", !.amount = amount] = [q EXCEPT !.pc = "poll"]
    BY <2>1 DEF Job
  <2>5. amount = Remaining(q, tbl)
    BY <2>2, <2>3 DEF Remaining
  <2>. HIDE DEF q, amount
  <2>6. Completing(q, tbl) /\ Knows(q, "WALLET", tbl)
    BY <1>2, <2>1, <2>3, SameSnaps DEF Completing
  <2>7. Polling(q, tbl, pay)
    BY <1>2, <2>3, <2>5, <2>6 DEF Polling, Completing
  <2>8. "poll" \in PollLabels
    BY DEF PollLabels
  <2>9. CheckoutOK([q EXCEPT !.pc = "poll"], tbl, pay)
    BY <2>7, <2>8, PollingChecks
  <2>. QED
    BY <1>5, <2>4, <2>9, ReadKeeps DEF WalletRead, k, amount
<1>. QED
  BY <1>3, <1>4, <1>5

\* A request about to poll SADAD, or waiting for the answer.
LEMMA IsPolling ==
  ASSUME Ready, NEW p \in Procs, job[p].pc \in PollLabels, NonePending(tbl)
  PROVE  Polling(job[p], tbl, pay)
<1>1. job[p].pc \in BusyLabels
  BY DEF PollLabels, BusyLabels
<1>. QED
  BY <1>1, ReadyIs DEF Polling, Completing, CompletionOK, CreationFlow, CreationOK, NoCashYet

\* A snapshot of the order's active SADAD row.
LEMMA SeenActive ==
  ASSUME Ready, NEW p \in Procs, job[p].on = "SADAD", NEW s \in FindActive("SADAD"),
         Polling(job[p], tbl, pay)
  PROVE  LET k == See(job[p], s)
         IN  /\ Polling(k, tbl, pay) /\ k.snap["SADAD"] = s /\ Fresh(s, tbl)
             /\ Exists(s) \/ NoneActive(tbl)
<1>. DEFINE j == job[p]
            k == See(j, s)
<1>1. j \in Job /\ "SADAD" \in Methods /\ SnapsOK(j, tbl) /\ Priced(j, tbl)
  BY ReadyIs DEF Methods
<1>2. s \in Snap /\ SnapOK(s, "SADAD", tbl) /\ Fresh(s, tbl)
  BY <1>1, FindActiveOK, FindFresh, WorkerKnows DEF Ready
<1>3. /\ k \in Job /\ k.snap["SADAD"] = s
      /\ k.kind = j.kind /\ k.todo = j.todo
      /\ k.amount = j.amount /\ k.total = j.total /\ k.opm = j.opm
      /\ SnapsOK(k, tbl)
      /\ \A m \in Methods : m # "SADAD" => k.snap[m] = j.snap[m]
  BY <1>1, <1>2, SeeOK, SeeKeeps
<1>4. s.amount = IF Exists(s) THEN tbl[s.id].amount ELSE 0
  BY DEF FindActive, SnapOf, NoSnap, Exists, ActiveStates
<1>5. Exists(s) \/ NoneActive(tbl)
  BY DEF FindActive, SnapOf, Exists, ActiveStates, NoneActive, LiveRow
<1>. HIDE DEF k
<1>6. Priced(k, tbl) /\ (Knows(k, "WALLET", tbl) <=> Knows(j, "WALLET", tbl))
  BY <1>1, <1>3, <1>4 DEF Priced, Knows, Methods
<1>7. Remaining(k, tbl) = Remaining(j, tbl) /\ (SettledUp(k, tbl, pay) <=> SettledUp(j, tbl, pay))
  BY <1>3, SamePlan
<1>8. Polling(k, tbl, pay)
  BY <1>3, <1>6, <1>7 DEF Polling, Completing
<1>. QED
  BY <1>2, <1>3, <1>5, <1>8 DEF k

LEMMA PollKeeps ==
  ASSUME Ready, NEW p \in Procs, Poll(p)
  PROVE  Keeps(p)
<1>. DEFINE j == job[p]
<1>1. /\ j.pc = "poll" /\ j.pc \in PollLabels /\ j.pc \notin RowLabels /\ "status" \in PollLabels
  BY DEF Poll, PollLabels, RowLabels, HoldLabels, CancelLabels, RollbackLabels
<1>2. j.on = "SADAD" /\ Polling(j, tbl, pay)
  BY <1>1, ReadyIs, IsPolling, HasNonePending DEF FlowOK
<1>3. PICK s \in FindActive("SADAD") :
       Become(p, IF s.state = "AWAITING_PAYMENT" THEN [See(j, s) EXCEPT !.pc = "status"]
                 ELSE Polled(See(j, s)))
  BY DEF Poll
<1>. DEFINE k == See(j, s)
<1>4. /\ Polling(k, tbl, pay) /\ k.snap["SADAD"] = s /\ Fresh(s, tbl)
      /\ Exists(s) \/ NoneActive(tbl)
  BY <1>2, SeenActive
<1>. HIDE DEF k
<1>5. CheckoutOK([k EXCEPT !.pc = "status"], tbl, pay)
  BY <1>1, <1>4, PollingChecks
<1>6. CheckoutOK(Polled(k), tbl, pay)
  BY <1>4, ReadyIs, PolledChecks
<1>. QED
  BY <1>3, <1>5, <1>6, ReadKeeps DEF Poll, k

LEMMA StatusKeeps ==
  ASSUME Ready, NEW p \in Procs, Status(p)
  PROVE  Keeps(p)
<1>. DEFINE j == job[p]
<1>1. /\ j.pc = "status" /\ j.pc \in PollLabels /\ j.pc \in RowLabels
      /\ "poll_settle" \in PollLabels
  BY DEF Status, PollLabels, RowLabels
<1>2. NonePending(tbl)
  <2>1. tbl[Snapped(j).id].state \in {"AWAITING_PAYMENT"}
    BY <1>1, ReadyIs DEF StandingOK, StatesAt, HoldLabels
  <2>. QED
    BY <2>1, HasNonePending DEF Pending
<1>3. Polling(j, tbl, pay) /\ Exists(j.snap["SADAD"]) /\ Fresh(j.snap["SADAD"], tbl)
  BY <1>1, <1>2, IsPolling, ReadyIs DEF FlowOK, StandingOK, Snapped
<1>4. CheckoutOK([j EXCEPT !.pc = "poll_settle"], tbl, pay)
  BY <1>1, <1>3, PollingChecks
<1>5. CheckoutOK(Polled(j), tbl, pay)
  BY <1>3, ReadyIs, PolledChecks
<1>6. Go(j, "poll_settle") = [j EXCEPT !.pc = "poll_settle"]
  BY DEF Go, RestLabels
<1>. QED
  BY <1>4, <1>5, <1>6, ReadKeeps DEF Status

LEMMA CashReadKeeps ==
  ASSUME Ready, NEW p \in Procs, CashRead(p)
  PROVE  Keeps(p)
<1>. DEFINE j == job[p]
<1>1. /\ j.pc = "cash_read" /\ j.pc \in SettleLabels /\ j.pc \notin RowLabels
  BY DEF CashRead, SettleLabels, RowLabels, HoldLabels, CancelLabels, RollbackLabels
<1>2. /\ NonePending(tbl) /\ j.kind = "complete" /\ j.on = "CASH" /\ j.total \in FinalTotals
      /\ Knows(j, "WALLET", tbl) /\ Plan(j, tbl, pay) /\ Fresh(j.snap["WALLET"], tbl)
  BY <1>1, ReadyIs, HasNonePending DEF FlowOK, CompletionOK, KeptOK
<1>3. PICK s \in FindByIdempKey("CASH") :
       Become(p, IF ~Exists(s) /\ j.amount # 0 THEN [See(j, s) EXCEPT !.pc = "cash_insert"]
                 ELSE IF s.state = "HOLD_PROCESSING" THEN ToHold(See(j, s))
                 ELSE ToWallet(See(j, s)))
  BY DEF CashRead
<1>. DEFINE k == See(j, s)
<1>4. /\ k \in Job /\ k.on = "CASH" /\ k.kind = "complete" /\ k.total = j.total
      /\ k.amount = j.amount /\ SnapsOK(k, tbl) /\ Priced(k, tbl) /\ Fresh(s, tbl)
      /\ k.snap["CASH"] = s /\ Knows(k, "CASH", tbl)
      /\ k.snap["WALLET"] = j.snap["WALLET"] /\ Knows(k, "WALLET", tbl)
  <2>1. s \in FindByIdempKey(j.on) /\ "WALLET" \in Methods
    BY <1>2 DEF Methods
  <2>. QED
    BY <1>2, <2>1, SeenRow
<1>. HIDE DEF k
<1>5. Completing(k, tbl) /\ Plan(k, tbl, pay)
  BY <1>2, <1>4, SamePlan DEF Completing
<1>6. ASSUME NEW label \in {"cash_insert", "hold"}, label = "cash_insert" => ~Exists(s)
      PROVE  CheckoutOK([k EXCEPT !.pc = label], tbl, pay)
  <2>. DEFINE r == [k EXCEPT !.pc = label]
  <2>1. /\ r.pc = label /\ r.kind = "complete" /\ r.total = k.total /\ r.amount = k.amount
        /\ r.snap = k.snap
    BY <1>4 DEF Job
  <2>2. /\ Priced(r, tbl) /\ SadadInHand(r, tbl) /\ Plan(r, tbl, pay) /\ Knows(r, "WALLET", tbl)
    BY <1>2, <1>4, <1>5, <2>1, SameSnaps, SamePlan, PendingInHand
  <2>3. label = "cash_insert" => NoLive(tbl, "CASH")
    BY <1>4, <1>6 DEF Knows
  <2>4. /\ label \notin PollLabels \cup CompleteLabels \cup {"wallet_read", "done"}
        /\ label \in SettleLabels \cup HoldLabels
    BY <1>6 DEF PollLabels, CompleteLabels, SettleLabels, HoldLabels
  <2>. HIDE DEF r
  <2>5. CompletionOK(r, tbl, pay)
    BY <1>2, <1>4, <2>1, <2>2, <2>3, <2>4 DEF CompletionOK
  <2>6. CheckoutOK(r, tbl, pay)
    BY <2>1, <2>2, <2>4, <2>5, CompleteChecks
  <2>. QED
    BY <2>6 DEF r
<1>7. CASE ~Exists(s) /\ j.amount # 0
  BY <1>3, <1>6, <1>7, ReadKeeps DEF CashRead, k
<1>8. ASSUME Exists(s) \/ j.amount = 0
      PROVE  CheckoutOK(ToWallet(k), tbl, pay)
  BY <1>2, <1>4, <1>5, <1>8, ReadyIs, ToWalletChecks
<1>9. CASE ~(~Exists(s) /\ j.amount # 0) /\ s.state = "HOLD_PROCESSING"
  <2>1. Exists(s) /\ Snapped(k) = s
    BY <1>4, <1>9 DEF Exists, Snapped
  <2>2. \/ ToHold(k) = ToWallet(k)
        \/ ToHold(k) = [k EXCEPT !.pc = "hold"]
    BY <1>4, ToHoldIs
  <2>3. CheckoutOK(ToHold(k), tbl, pay)
    BY <1>6, <1>8, <2>1, <2>2
  <2>. QED
    BY <1>3, <1>9, <2>3, ReadKeeps DEF CashRead, k
<1>10. CASE ~(~Exists(s) /\ j.amount # 0) /\ s.state # "HOLD_PROCESSING"
  BY <1>3, <1>8, <1>10, ReadKeeps DEF CashRead, k
<1>. QED
  BY <1>7, <1>9, <1>10

\* A rollback that goes on with the row of its method.
LEMMA RollbackStageChecks ==
  ASSUME NEW j \in Job, NEW T, NEW P, j.kind = "rollback", Priced(j, T),
         NEW label \in RollbackLabels, NEW amount, SadadInHand([j EXCEPT !.pc = label, !.amount = amount], T),
         <<j.on, j.todo>> \in {<<"SADAD", <<"SADAD", "CASH", "WALLET">>>>,
                               <<"CASH", <<"CASH", "WALLET">>>>, <<"WALLET", <<"WALLET">>>>},
         j.on = "WALLET" => NoLive(T, "CASH")
  PROVE  CheckoutOK([j EXCEPT !.pc = label, !.amount = amount], T, P)
<1>. DEFINE r == [j EXCEPT !.pc = label, !.amount = amount]
<1>1. /\ r.pc = label /\ r.kind = "rollback" /\ r.snap = j.snap /\ r.on = j.on /\ r.todo = j.todo
  BY DEF Job
<1>2. Priced(r, T) /\ SadadInHand(r, T)
  BY <1>1, SameSnaps
<1>. HIDE DEF r
<1>3. RollbackFlow(r) /\ NoCashYet(r, T)
  BY <1>1 DEF RollbackFlow, NoCashYet
<1>4. CheckoutOK(r, T, P)
  BY <1>1, <1>2, <1>3, RollbackChecks
<1>. QED
  BY <1>4 DEF r

\* A rollback under way.
LEMMA IsRollingBack ==
  ASSUME Ready, NEW p \in Procs, job[p].pc \in RollbackLabels
  PROVE  LET j == job[p]
         IN  /\ j.kind = "rollback"
             /\ <<j.on, j.todo>> \in {<<"SADAD", <<"SADAD", "CASH", "WALLET">>>>,
                                      <<"CASH", <<"CASH", "WALLET">>>>, <<"WALLET", <<"WALLET">>>>}
             /\ j.on = "WALLET" => NoLive(tbl, "CASH")
  BY ReadyIs DEF RollbackFlow, NoCashYet

LEMMA RollbackReadKeeps ==
  ASSUME Ready, NEW p \in Procs, RollbackRead(p)
  PROVE  Keeps(p)
<1>. DEFINE j == job[p]
<1>1. /\ j.pc = "rollback_read" /\ j.pc \in RollbackLabels /\ j.pc \notin RowLabels
  BY DEF RollbackRead, RowLabels, HoldLabels, CancelLabels, RollbackLabels
<1>2. /\ NonePending(tbl) /\ j.kind = "rollback" /\ j.on = "WALLET" => NoLive(tbl, "CASH")
  BY <1>1, HasNonePending, IsRollingBack
<1>3. PICK s \in FindByIdempKey(j.on) :
        Become(p, IF RollbackSwitch(s.state) = "return" THEN RolledBack(See(j, s))
                  ELSE Go(See(j, s), RollbackSwitch(s.state)))
  BY DEF RollbackRead
<1>. DEFINE label == RollbackSwitch(s.state)
            k == See(j, s)
<1>4. /\ k \in Job /\ k.on = j.on /\ k.todo = j.todo /\ k.kind = j.kind /\ k.amount = j.amount
      /\ Priced(k, tbl) /\ Stands(tbl, j.on, {s.state})
  BY SeenRow
<1>. HIDE DEF k
<1>5. <<k.on, k.todo>> \in {<<"SADAD", <<"SADAD", "CASH", "WALLET">>>>,
                            <<"CASH", <<"CASH", "WALLET">>>>, <<"WALLET", <<"WALLET">>>>}
  BY <1>1, <1>4, IsRollingBack
<1>6. NonePending(tbl) /\ k.kind = "rollback" /\ (k.on = "WALLET" => NoLive(tbl, "CASH"))
  BY <1>1, <1>4, HasNonePending, IsRollingBack
<1>7. CASE label = "return"
  <2>1. s.state = "ABSENT"
    BY <1>7 DEF RollbackSwitch
  <2>2. k.on = "CASH" => NoLive(tbl, "CASH")
    BY <1>4, <2>1 DEF Stands, LiveRow, IsLive, NoLive
  <2>3. CheckoutOK(RolledBack(k), tbl, pay)
    BY <1>4, <1>5, <1>6, <2>2, RolledBackChecks
  <2>. QED
    BY <1>3, <1>7, <2>3, ReadKeeps DEF RollbackRead, k
<1>8. CASE label = "type_error"
  <2>1. "type_error" \in RestLabels
    BY DEF RestLabels
  <2>2. CheckoutOK(Go(k, "type_error"), tbl, pay)
    BY <1>4, <1>6, <2>1, RestChecks
  <2>. QED
    BY <1>3, <1>8, <2>2, ReadKeeps DEF RollbackRead, k
<1>9. CASE label \in RollbackLabels
  <2>1. Go(k, label) = [k EXCEPT !.pc = label] /\ [k EXCEPT !.pc = label] = [k EXCEPT !.pc = label, !.amount = k.amount]
    BY <1>4, <1>9 DEF Go, RestLabels, RollbackLabels, Job
  <2>. HIDE DEF label
  <2>2. SadadInHand([k EXCEPT !.pc = label, !.amount = k.amount], tbl)
    BY <1>6, PendingInHand
  <2>3. CheckoutOK([k EXCEPT !.pc = label, !.amount = k.amount], tbl, pay)
    BY <1>4, <1>5, <1>6, <1>9, <2>2, RollbackStageChecks
  <2>. QED
    BY <1>3, <1>9, <2>1, <2>3, ReadKeeps DEF RollbackRead, k, label, RollbackLabels
<1>. QED
  BY <1>7, <1>8, <1>9 DEF RollbackSwitch, RollbackLabels

-----------------------------------------------------------------------------
\* Requests, and their end

\* A worker at rest has no row in hand.
LEMMA RestsHave ==
  ASSUME Ready, NEW p \in Procs, AtRest(p)
  PROVE  NonePending(tbl)
<1>1. job[p].pc \notin RowLabels
  BY DEF AtRest, RestLabels, RowLabels, HoldLabels, CancelLabels, RollbackLabels
<1>. QED
  BY <1>1, HasNonePending

LEMMA RequestKeeps ==
  ASSUME Ready, NEW p \in Procs, NEW j, Request(p, j),
         NonePending(tbl) => CheckoutOK(j, tbl, pay)
  PROVE  Keeps(p)
  BY RestsHave, ReadKeeps DEF Request

LEMMA BeginIs ==
  ASSUME NEW kind \in RequestKinds
  PROVE  LET j == Begin(kind)
         IN  j \in Job /\ j.kind = kind /\ j.snap = NoSnaps
  BY IdleJobType DEF Begin, IdleJob, Job

LEMMA CreateKeeps ==
  ASSUME Ready, NEW p \in Procs, Create(p)
  PROVE  Keeps(p)
<1>1. PICK opm \in OpenMethods, total \in Totals, currency \in OrderCurrencies :
        Request(p, StartCreate(Begin("create"), opm, total, currency))
  BY DEF Create
<1>2. NoLive(tbl, "CASH")
  BY DEF Create, Ready, CheckoutAssumption, CheckoutBegun, NoLive, LiveRow, IsLive
<1>3. total \in Nat /\ currency \in Currencies /\ "create" \in RequestKinds
  BY AmountsAreIntegers, CurrenciesAreKnown DEF RequestKinds
<1>4. Begin("create") \in Job
  BY <1>3, BeginIs
<1>5. NonePending(tbl)
        => CheckoutOK(StartCreate(Begin("create"), opm, total, currency), tbl, pay)
  BY <1>2, <1>3, <1>4, StartCreateChecks
<1>. QED
  BY <1>1, <1>5, RequestKeeps

LEMMA CompleteKeeps ==
  ASSUME Ready, NEW p \in Procs, Complete(p)
  PROVE  Keeps(p)
<1>1. PICK total \in FinalTotals, currency \in OrderCurrencies :
        Request(p, [Begin("complete") EXCEPT !.pc = "wallet_read", !.on = "WALLET",
                      !.total = total, !.currency = currency,
                      !.todo = <<"SADAD", "WALLET", "CASH">>])
  BY DEF Complete
<1>. DEFINE r == [Begin("complete") EXCEPT !.pc = "wallet_read", !.on = "WALLET",
                    !.total = total, !.currency = currency,
                    !.todo = <<"SADAD", "WALLET", "CASH">>]
<1>2. /\ r.pc = "wallet_read" /\ r.kind = "complete" /\ r.total = total /\ r.snap = NoSnaps
      /\ r.todo # <<>>
  BY DEF Begin, IdleJob
<1>. HIDE DEF r
<1>3. CompletionOK(r, tbl, pay)
  BY <1>2 DEF CompletionOK, PollLabels, CompleteLabels, HoldLabels
<1>4. NonePending(tbl) => CheckoutOK(r, tbl, pay)
  BY <1>2, <1>3, CompleteChecks, UnreadPriced, PendingInHand DEF SettleLabels
<1>. QED
  BY <1>1, <1>4, RequestKeeps DEF r

LEMMA OtherRequestsKeep ==
  ASSUME Ready, NEW p \in Procs, Cancel(p) \/ Rollback(p) \/ GetBreakdown(p)
  PROVE  Keeps(p)
<1>1. CASE Cancel(p)
  <2>. DEFINE r == [Begin("cancel") EXCEPT !.pc = "cancel_read", !.on = "SADAD",
                                           !.todo = <<"SADAD", "WALLET">>]
  <2>1. r.pc = "cancel_read" /\ r.kind = "cancel" /\ r.snap = NoSnaps
    BY DEF Begin, IdleJob
  <2>. HIDE DEF r
  <2>2. CancelFlow(r) /\ r.pc \notin RollbackLabels
    BY <2>1 DEF CancelFlow, RollbackLabels
  <2>3. NonePending(tbl) => CheckoutOK(r, tbl, pay)
    BY <2>1, <2>2, OtherChecks, UnreadPriced, PendingInHand
  <2>. QED
    BY <1>1, <2>3, RequestKeeps DEF Cancel, r
<1>2. CASE Rollback(p)
  <2>. DEFINE r == [Begin("rollback") EXCEPT !.pc = "rollback_read", !.on = "SADAD",
                                             !.todo = <<"SADAD", "CASH", "WALLET">>]
  <2>1. /\ r.pc = "rollback_read" /\ r.kind = "rollback" /\ r.snap = NoSnaps /\ r.on = "SADAD"
        /\ r.todo = <<"SADAD", "CASH", "WALLET">>
    BY DEF Begin, IdleJob
  <2>. HIDE DEF r
  <2>2. RollbackFlow(r) /\ NoCashYet(r, tbl) /\ r.pc \in RollbackLabels
    BY <2>1 DEF RollbackFlow, NoCashYet, RollbackLabels
  <2>3. NonePending(tbl) => CheckoutOK(r, tbl, pay)
    BY <2>1, <2>2, RollbackChecks, UnreadPriced, PendingInHand
  <2>. QED
    BY <1>2, <2>3, RequestKeeps DEF Rollback, r
<1>3. CASE GetBreakdown(p)
  <2>. DEFINE r == Breakdown(Begin("breakdown"))
  <2>1. r.pc = "poll" /\ r.kind = "breakdown" /\ r.snap = NoSnaps
    BY DEF Begin, IdleJob, Breakdown
  <2>. HIDE DEF r
  <2>2. CancelFlow(r) /\ r.pc \notin RollbackLabels
    BY <2>1 DEF CancelFlow, CancelLabels, RollbackLabels
  <2>3. NonePending(tbl) => CheckoutOK(r, tbl, pay)
    BY <2>1, <2>2, OtherChecks, UnreadPriced, PendingInHand
  <2>. QED
    BY <1>3, <2>3, RequestKeeps DEF GetBreakdown, r
<1>. QED
  BY <1>1, <1>2, <1>3

LEMMA NotifyKeeps ==
  ASSUME Ready, NEW p \in Procs, NEW i \in Ids, Notify(p, i)
  PROVE  Keeps(p)
<1>. DEFINE b == [IdleJob EXCEPT !.kind = "notify", !.on = "SADAD"]
            j == See(b, SnapOf(i))
            label == NotifySwitch(tbl[i].state)
<1>1. NonePending(tbl)
  BY RestsHave DEF Notify
<1>2. /\ b \in Job /\ b.kind = "notify" /\ b.on = "SADAD" /\ b.snap = NoSnaps
  BY IdleJobType DEF IdleJob, Job, Methods
<1>3. tbl[i] \in Row /\ SnapOf(i) \in Snap
  BY ReadyIs DEF Sound, SnapOf, Snap, Row
<1>. HIDE DEF b
<1>4. /\ j \in Job /\ j.kind = "notify" /\ j.snap["SADAD"] = SnapOf(i)
      /\ \A m \in Methods : m # "SADAD" => j.snap[m] = NoSnap
  <2>1. j \in Job /\ j.kind = "notify" /\ j.snap = [NoSnaps EXCEPT !["SADAD"] = SnapOf(i)]
    BY <1>2, <1>3 DEF See, Job
  <2>. QED
    BY <2>1 DEF NoSnaps, Methods
<1>. HIDE DEF j
<1>5. Priced(j, tbl)
  <2>1. tbl[i].state # "ABSENT"
    <3>1. tbl[i].state = "ABSENT" => pay[i] = "NONE"
      BY ReadyIs DEF Sound, Agreed
    <3>. QED
      BY <3>1 DEF Notify, WasPaid
  <2>. QED
    BY <1>4, <2>1 DEF Priced, SnapOf, NoSnap, Exists
<1>6. CheckoutOK(Go(j, "returned_false"), tbl, pay)
  <2>1. "returned_false" \in RestLabels
    BY DEF RestLabels
  <2>. QED
    BY <1>1, <1>4, <2>1, RestChecks
<1>7. CheckoutOK(Go(j, "notify_settle"), tbl, pay)
  <2>. DEFINE r == [j EXCEPT !.pc = "notify_settle"]
  <2>1. r.pc = "notify_settle" /\ r.kind = "notify" /\ r.snap = j.snap
    BY <1>4 DEF Job
  <2>2. Go(j, "notify_settle") = r
    BY DEF Go, RestLabels
  <2>3. Priced(r, tbl) /\ SadadInHand(r, tbl)
    BY <1>1, <1>5, <2>1, SameSnaps, PendingInHand
  <2>. HIDE DEF r
  <2>4. CancelFlow(r) /\ r.pc \notin RollbackLabels
    BY <2>1 DEF CancelFlow, CancelLabels, RollbackLabels
  <2>. QED
    BY <2>1, <2>2, <2>3, <2>4, OtherChecks
<1>8. label \in {"notify_settle", "returned_false"}
  BY DEF NotifySwitch
<1>9. Become(p, Go(j, label)) /\ UNCHANGED <<tbl, pay, late>>
  BY DEF Notify, j, b
<1>. QED
  BY <1>6, <1>7, <1>8, <1>9, ReadKeeps

LEMMA CrashKeeps ==
  ASSUME Ready, NEW p \in Procs, Crash(p)
  PROVE  Keeps(p)
<1>1. NonePending(tbl)
  BY DEF Crash, NonePending
<1>2. "failed" \in RestLabels \ {"done"}
  BY DEF RestLabels
<1>. QED
  BY <1>1, <1>2, FailedChecks, ReadKeeps DEF Crash

-----------------------------------------------------------------------------
\* Calls, answered, failed or late, and the payer

\* What a worker knows survives a move of the payments: what is called off stays so.
LEMMA ChecksStay ==
  ASSUME Ledger, LedgerStep, NEW j, NEW T, CheckoutOK(j, T, pay)
  PROVE  CheckoutOK(j, T, pay')
<1>1. SadadGone(T, pay) => SadadGone(T, pay')
  BY CalledOffStays DEF SadadGone
<1>2. /\ Plan(j, T, pay) => Plan(j, T, pay')
      /\ SettledUp(j, T, pay) => SettledUp(j, T, pay')
  BY <1>1 DEF Plan, SettledUp
<1>3. CompletionOK(j, T, pay')
  BY <1>2 DEF CheckoutOK, CompletionOK
<1>. QED
  BY <1>3 DEF CheckoutOK

\* A call moves cash in the direction it may, when it is handled at once, later or not at all.
LEMMA HandledWithCare ==
  ASSUME Ready, NEW p \in Procs, NEW c \in Calls, LateCashOK(tbl, c), tbl' = tbl,
         Handle(c) \/ UNCHANGED pay, late' \subseteq late \cup {c}
  PROVE  Careful /\ CashOnly(tbl')
<1>1. \A i \in Ids : ~(LiveRow(tbl, i, "WALLET") /\ tbl[i].state = "ROLLBACKED")
  BY ReadyIs DEF Sound, Agreed, LiveRow, IsLive
<1>2. pay \in [Ids -> PayStates] /\ c.op \in Ops /\ c.id \in Ids
  BY ReadyIs DEF Sound, Calls
<1>3. ASSUME NEW i \in Ids, pay[i] = "HELD", pay'[i] # "HELD"
      PROVE  /\ c.id = i
             /\ pay'[i] = "CHARGED" => c.op = "charge"
             /\ pay'[i] = "RELEASED" => c.op = "release"
  <2>1. Handle(c) /\ pay[c.id] \in From(c.op) /\ pay' = [pay EXCEPT ![c.id] = To(c.op, pay[c.id])]
    BY <1>2, <1>3 DEF Handle
  <2>2. c.id = i /\ pay'[i] = To(c.op, "HELD")
    BY <1>2, <1>3, <2>1
  <2>. QED
    BY <1>2, <2>2 DEF To, Ops
<1>. QED
  BY <1>1, <1>3, ReadyIs DEF Careful, LateCashOK

\* A call that fails leaves a SADAD row half done only by a fault.
LEMMA CallEnds ==
  ASSUME Ready, NEW p \in Procs, NEW c \in Calls, Failed(c), c.id = Snapped(job[p]).id,
         job[p].pc \in RowLabels, tbl[c.id].state \in Announcing(c.op),
         c.op = "hold" => tbl[c.id].pm # "SADAD"
  PROVE  NonePending(tbl)
<1>. SUFFICES ASSUME Faults = {}, NEW i \in Ids, LiveRow(tbl, i, "SADAD"), tbl[i].amount > 0,
                     tbl[i].state \in Pending
              PROVE  FALSE
  BY DEF NonePending
<1>1. c.id = i /\ c.op \in Ops
  BY ReadyIs DEF SadadInHand, Calls
<1>2. pay[i] \notin From(c.op) \cup Done(c.op)
  BY <1>1 DEF Failed, Refused, AnswerLost, GivenUp, Accepts
<1>3. pay[i] \in Agreeing("SADAD")[tbl[i].state] /\ tbl[i].pm = "SADAD"
  BY ReadyIs DEF Sound, Agreed, LiveRow, IsLive
<1>4. c.op # "hold" /\ tbl[i].state \in Announcing(c.op) /\ tbl[i].state \in Pending
  BY <1>1, <1>3
<1>. QED
  BY <1>1, <1>2, <1>3, <1>4 DEF Pending, Announcing, Ops, Agreeing, From, Done, States

\* What is to be shown of a call.
LEMMA CallKeeps ==
  ASSUME Ready, NEW p \in Procs, NEW op \in Ops, NEW adjust \in Nat, NEW answered,
         Call(p, op, adjust, answered), UNCHANGED <<tbl, served>>, job[p].pc \in RowLabels,
         tbl[Snapped(job[p]).id].state \in Announcing(op), LedgerStep,
         op = "hold" => IsInstantPayment(job[p].on),
         LateCashOK(tbl, [op |-> op, id |-> Snapped(job[p]).id, adjust |-> adjust]),
         CheckoutOK(answered, tbl, pay)
  PROVE  Keeps(p)
<1>. DEFINE id == Snapped(job[p]).id
            c == [op |-> op, id |-> id, adjust |-> adjust]
<1>1. c \in Calls /\ c.op = op /\ c.id = id /\ tbl[id].pm = job[p].on
  BY WorkerKnows DEF Calls, Ready
<1>2. \/ Answered(c) /\ Become(p, answered)
      \/ Failed(c) /\ Become(p, Go(job[p], "failed"))
  BY DEF Call
<1>. HIDE DEF c, id
<1>3. Careful /\ CashOnly(tbl')
  <2>1. (Handle(c) \/ UNCHANGED pay) /\ late' \subseteq late \cup {c}
    BY <1>2 DEF Answered, Failed, Refused, AnswerLost, GivenUp
  <2>. QED
    BY <1>1, <2>1, HandledWithCare DEF c, id
<1>4. CASE Become(p, answered)
  <2>1. CheckoutOK(answered, tbl, pay')
    BY ReadyIs, ChecksStay
  <2>. QED
    BY <1>3, <1>4, <2>1 DEF Keeps, Become, Ready, IInv
<1>5. CASE Failed(c) /\ Become(p, Go(job[p], "failed"))
  <2>1. NonePending(tbl)
    BY <1>1, <1>5, CallEnds DEF IsInstantPayment, id
  <2>2. "failed" \in RestLabels \ {"done"}
    BY DEF RestLabels
  <2>3. CheckoutOK(Go(job[p], "failed"), tbl, pay')
    BY <2>1, <2>2, FailedChecks
  <2>. QED
    BY <1>3, <1>5, <2>3 DEF Keeps, Become, Ready, IInv
<1>. QED
  BY <1>2, <1>4, <1>5

\* A worker that goes on with the row in hand knows what it knew.
LEMMA SameStage ==
  ASSUME NEW j \in Job, NEW T, NEW P, CheckoutOK(j, T, P),
         NEW G \in {HoldLabels, CancelLabels, CompleteLabels},
         j.pc \in G \cap RowLabels, NEW label \in G \cap RowLabels
  PROVE  CheckoutOK(Go(j, label), T, P)
<1>. DEFINE r == [j EXCEPT !.pc = label]
<1>0. Go(j, label) = r
  BY DEF Go, RestLabels, RowLabels, HoldLabels, CancelLabels, RollbackLabels
<1>1. /\ r.pc = label /\ r.kind = j.kind /\ r.todo = j.todo /\ r.opm = j.opm /\ r.snap = j.snap
      /\ r.on = j.on /\ r.amount = j.amount /\ r.total = j.total /\ Snapped(r) = Snapped(j)
  BY DEF Job, Snapped
<1>2. /\ Priced(r, T) <=> Priced(j, T)
      /\ \A m : Knows(r, m, T) <=> Knows(j, m, T)
      /\ Remaining(r, T) = Remaining(j, T) /\ (Plan(r, T, P) <=> Plan(j, T, P))
  BY <1>1, SameSnaps, SamePlan
<1>3. /\ j.pc \in HoldLabels <=> label \in HoldLabels
      /\ j.pc \in CancelLabels <=> label \in CancelLabels
      /\ j.pc \in CompleteLabels <=> label \in CompleteLabels
      /\ j.pc \in BusyLabels /\ j.pc \in RowLabels
      /\ label \notin PollLabels \cup RollbackLabels \cup CreateLabels
           \cup {"wallet_read", "cash_read", "cash_insert", "done", "notify_settle"}
  BY DEF HoldLabels, CancelLabels, CompleteLabels, RowLabels, RollbackLabels, PollLabels,
         BusyLabels, CreateLabels
<1>. HIDE DEF r
<1>4. CompletionOK(r, T, P)
  BY <1>1, <1>2, <1>3 DEF CheckoutOK, CompletionOK
<1>5. CreationFlow(r) /\ CancelFlow(r) /\ RollbackFlow(r)
  BY <1>1, <1>3 DEF CheckoutOK, CreationFlow, CancelFlow, RollbackFlow, OnWallet, OnLast, CreateLabels
<1>6. NoCashYet(r, T) /\ CreationOK(r, T)
  BY <1>1, <1>2, <1>3 DEF CheckoutOK, NoCashYet, CreationOK, CreateLabels
<1>7. SadadInHand(r, T)
  BY <1>1, <1>3 DEF CheckoutOK, SadadInHand
<1>8. CheckoutOK(r, T, P)
  BY <1>2, <1>4, <1>5, <1>6, <1>7 DEF CheckoutOK
<1>. QED
  BY <1>0, <1>8

LEMMA HoldCallKeeps ==
  ASSUME Ready, NEW p \in Procs, HoldCall(p)
  PROVE  Keeps(p)
<1>. DEFINE j == job[p]
            i == Snapped(j).id
<1>1. /\ j \in Job /\ j.pc = "hold" /\ j.pc \in RowLabels /\ j.pc \in HoldLabels
      /\ "hold_settle" \in RowLabels /\ "hold_settle" \in HoldLabels
      /\ CheckoutOK(j, tbl, pay) /\ LedgerStep
  BY WorkerKnows, HoldCallServes DEF HoldCall, RowLabels, HoldLabels, Ready, CInv, Serves
<1>2. tbl[i].state = "HOLD_PROCESSING"
  BY <1>1, ReadyIs DEF StandingOK, StatesAt
<1>3. /\ tbl[i].state \in Announcing(HoldOp(j.on)) /\ HoldOp(j.on) \in Ops
      /\ HoldOp(j.on) = "hold" => IsInstantPayment(j.on)
      /\ HoldOp(j.on) \notin {"charge", "release"}
  BY <1>2 DEF Announcing, HoldOp, Ops
<1>4. CheckoutOK(Go(j, "hold_settle"), tbl, pay)
  BY <1>1, SameStage
<1>5. LateCashOK(tbl, [op |-> HoldOp(j.on), id |-> i, adjust |-> 0])
  BY <1>3 DEF LateCashOK
<1>. QED
  BY <1>1, <1>3, <1>4, <1>5, CallKeeps DEF HoldCall

LEMMA CancelCallKeeps ==
  ASSUME Ready, NEW p \in Procs, CancelCall(p)
  PROVE  Keeps(p)
<1>. DEFINE j == job[p]
            i == Snapped(j).id
            label == IF ToEndState(j) THEN "cancel_retire" ELSE "cancel_key"
<1>1. /\ j \in Job /\ j.pc = "cancel_call" /\ j.pc \in RowLabels /\ j.pc \in CancelLabels
      /\ label \in RowLabels /\ label \in CancelLabels
      /\ CheckoutOK(j, tbl, pay) /\ LedgerStep
  BY WorkerKnows, CancelCallServes DEF CancelCall, RowLabels, CancelLabels, Ready, CInv, Serves
<1>2. tbl[i].state = "CANCEL_PROCESSING"
  BY <1>1, ReadyIs DEF StandingOK, StatesAt, HoldLabels
<1>3. tbl[i].state \in Announcing("cancel") /\ "cancel" \in Ops
  BY <1>2 DEF Announcing, Ops
<1>4. CheckoutOK(Go(j, label), tbl, pay)
  <2>. HIDE DEF label
  <2>. QED
    BY <1>1, SameStage
<1>5. LateCashOK(tbl, [op |-> "cancel", id |-> i, adjust |-> 0])
  BY DEF LateCashOK
<1>. QED
  BY <1>1, <1>3, <1>4, <1>5, CallKeeps DEF CancelCall

LEMMA RollbackCallKeeps ==
  ASSUME Ready, NEW p \in Procs, RollbackCall(p)
  PROVE  Keeps(p)
<1>. DEFINE j == job[p]
            i == Snapped(j).id
            released == IF j.on = "CASH" /\ IsReleased(i) THEN Snapped(j).amount ELSE 0
            r == [j EXCEPT !.pc = "rollback_settle", !.amount = released]
<1>1. /\ j \in Job /\ j.pc = "rollback_call" /\ j.pc \in RowLabels /\ j.pc \in RollbackLabels
      /\ "rollback_settle" \in RowLabels /\ "rollback_settle" \in RollbackLabels
      /\ Priced(j, tbl) /\ SadadInHand(j, tbl) /\ LedgerStep
  BY ReadyIs, RollbackCallServes DEF RollbackCall, RowLabels, RollbackLabels, Ready, Serves
<1>2. tbl[i].state = "ROLLBACK_PROCESSING"
  BY <1>1, ReadyIs DEF StandingOK, StatesAt, HoldLabels
<1>3. tbl[i].state \in Announcing("rollback") /\ "rollback" \in Ops
  BY <1>2 DEF Announcing, Ops
<1>4. Adjusted(j) \in Nat
  <2>1. j.snap["WALLET"] \in Snap /\ j.amount \in Int
    BY <1>1 DEF Job, Methods
  <2>. QED
    BY <2>1 DEF Adjusted, Snap
<1>5. CheckoutOK(r, tbl, pay)
  <2>1. SadadInHand(r, tbl)
    <3>1. r.pc \in RowLabels /\ Snapped(r) = Snapped(j)
      BY <1>1 DEF Job, Snapped
    <3>. QED
      BY <1>1, <3>1 DEF SadadInHand
  <2>. HIDE DEF released
  <2>. QED
    BY <1>1, <2>1, IsRollingBack, RollbackStageChecks
<1>6. LateCashOK(tbl, [op |-> "rollback", id |-> i, adjust |-> Adjusted(j)])
  BY DEF LateCashOK
<1>. QED
  BY <1>1, <1>3, <1>4, <1>5, <1>6, CallKeeps DEF RollbackCall

\* A completion settles cash in the direction of what remains.
LEMMA CompleteCallKeeps ==
  ASSUME Ready, NEW p \in Procs, CompleteCall(p)
  PROVE  Keeps(p)
<1>. DEFINE j == job[p]
            i == Snapped(j).id
            op == IF IsTopup(j) THEN "release" ELSE "charge"
            c == [op |-> op, id |-> i, adjust |-> 0]
<1>1. /\ j \in Job /\ j.pc = "complete_call" /\ j.pc \in RowLabels /\ j.pc \in CompleteLabels
      /\ j.pc \in SettleLabels
      /\ "complete_settle" \in RowLabels /\ "complete_settle" \in CompleteLabels
      /\ CheckoutOK(j, tbl, pay) /\ LedgerStep
  BY WorkerKnows, CompleteCallServes
     DEF CompleteCall, RowLabels, CompleteLabels, SettleLabels, Ready, CInv, Serves
<1>2. /\ tbl[i].state = "COMPLETE_PROCESSING" /\ i \in Ids /\ tbl[i].pm = j.on
      /\ j.kind = "complete"
  BY <1>1, ReadyIs, WorkerKnows DEF StandingOK, StatesAt, HoldLabels, Ready, FlowOK
<1>3. tbl[i].state \in Announcing(op) /\ op \in Ops
  BY <1>2 DEF Announcing, Ops
<1>4. CheckoutOK(Go(j, "complete_settle"), tbl, pay)
  BY <1>1, SameStage
<1>5. ASSUME LiveRow(tbl, i, "CASH")
      PROVE  IF IsTopup(j) THEN CashOwed(tbl) ELSE CashDue(tbl)
  <2>1. j.on = "CASH" /\ Plan(j, tbl, pay) /\ j.total \in FinalTotals
    BY <1>1, <1>2, <1>5, ReadyIs DEF LiveRow, CompletionOK
  <2>2. j.amount = Remaining(j, tbl)
    BY <1>2, <1>5, <2>1 DEF Plan, PaidBySadad, NoLive
  <2>3. Leaves(tbl, tbl[i].amount) /\ tbl[i].amount > 0
    <3>1. Leaves(tbl, tbl[i].amount) /\ tbl[i].live
      BY <1>2, <1>5, ReadyIs DEF CashOK, CashRowOK, LiveRow, IsLive
    <3>. QED
      BY <1>2, <3>1, ReadyIs, SoundAmount
  <2>4. \A total \in FinalTotals : total = j.total
    BY <2>1 DEF Ready, CheckoutAssumption, OneFinalTotal
  <2>5. j.amount # 0
    <3>1. AmountOf(tbl, "WALLET") \in Nat /\ j.total \in Nat
      BY <1>1, AmountOfNat, ReadyIs DEF Sound, Job
    <3>. QED
      BY <2>1, <2>2, <2>3, <3>1 DEF Remaining, Leaves
  <2>6. AmountOf(tbl, "WALLET") \in Nat /\ j.total \in Nat
    BY <1>1, AmountOfNat, ReadyIs DEF Sound, Job
  <2>. QED
    BY <2>1, <2>2, <2>4, <2>5, <2>6 DEF IsTopup, Remaining, CashDue, CashOwed
<1>6. LateCashOK(tbl, c)
  BY <1>2, <1>5 DEF LateCashOK, IsTopup
<1>. HIDE DEF op
<1>. QED
  BY <1>1, <1>3, <1>4, <1>6, CallKeeps DEF CompleteCall, op

\* Calls given up, and what the payer pays: the worker is not told.
LEMMA OutsideKeeps ==
  ASSUME Ready, LateCall \/ Payer, NEW p \in Procs
  PROVE  Keeps(p)
<1>1. LedgerStep /\ UNCHANGED <<tbl, job>>
  BY LateCallMoves, PayerMoves DEF LateCall, Payer, Ready
<1>2. CheckoutOK(job'[p], tbl', pay')
  BY <1>1, ReadyIs, ChecksStay DEF Ready, CInv
<1>3. CASE LateCall
  <2>1. PICK c \in late : HandleLate(c)
    BY <1>3 DEF LateCall
  <2>2. c \in Calls /\ LateCashOK(tbl, c) /\ Handle(c) /\ late' \subseteq late \cup {c}
    BY <2>1, ReadyIs DEF CashOK, HandleLate, Ready, IInv, LedgerOK
  <2>. QED
    BY <1>1, <1>2, <2>2, HandledWithCare DEF Keeps
<1>4. CASE Payer
  <2>1. PICK i \in Ids : PayBill(i)
    BY <1>4 DEF Payer
  <2>2. \A k \in Ids : pay'[k] \in {"CHARGED", "RELEASED"} => pay[k] = pay'[k]
    BY <2>1, ReadyIs DEF PayBill, Sound
  <2>3. \A k \in Ids : ~(LiveRow(tbl, k, "WALLET") /\ tbl[k].state = "ROLLBACKED")
    BY ReadyIs DEF Sound, Agreed, LiveRow, IsLive
  <2>4. Careful
    BY <1>1, <2>1, <2>2, <2>3 DEF Careful, PayBill
  <2>. QED
    BY <1>1, <1>2, <2>4, ReadyIs DEF Keeps
<1>. QED
  BY <1>3, <1>4

-----------------------------------------------------------------------------
\* Writes

\* A row whose state changes is the row the ledger moves.
LEMMA MovesRow ==
  ASSUME LedgerStep, NEW i \in Ids, tbl'[i].state # tbl[i].state
  PROVE  RowMoves(i)
  BY DEF LedgerStep, Still, RowMoves, PayMoves

\* The worker writes the row in hand.
Writes(p) ==
  LET i == Snapped(job[p]).id
  IN  job[p].pc \in RowLabels /\ tbl'[i].state # tbl[i].state

LEMMA WriteMoves ==
  ASSUME Ready, [TNext]_tvars, NEW p \in Procs, Writes(p)
  PROVE  LET i == Snapped(job[p]).id
         IN  /\ RowMoves(i) /\ LedgerStep /\ Sound(tbl', pay')
             /\ i \in Ids /\ tbl[i].state # "ABSENT" /\ tbl[i].pm = job[p].on
             /\ tbl'[i].state # "ABSENT" /\ tbl'[i].pm = job[p].on
             /\ LiveRow(tbl, i, job[p].on)
             /\ UNCHANGED <<pay, late>>
             /\ \A k \in Ids : tbl[k].state # "ABSENT"
                                 => /\ tbl'[k].state # "ABSENT" /\ tbl'[k].pm = tbl[k].pm
                                    /\ tbl'[k].amount = tbl[k].amount
             /\ \A k \in Ids \ {i} : tbl'[k] = tbl[k]
<1>. DEFINE i == Snapped(job[p]).id
<1>1. i \in Ids /\ tbl[i].state # "ABSENT" /\ tbl[i].pm = job[p].on
  BY WorkerKnows DEF Writes, Ready
<1>2. LedgerStep /\ Sound(tbl', pay')
  BY NextServes, SoundAfter DEF Ready, CheckoutAssumption
<1>3. RowMoves(i)
  BY <1>1, <1>2, MovesRow DEF Writes
<1>4. tbl'[i].state # "ABSENT" /\ tbl'[i].pm = job[p].on
  BY <1>1, <1>3 DEF RowMoves, Lifecycle
<1>5. LiveRow(tbl, i, job[p].on)
  <2>1. tbl[i].live <=> tbl[i].state # "ROLLBACKED"
    BY <1>1, ReadyIs DEF Sound, Agreed
  <2>. QED
    BY <1>1, <1>3, <2>1 DEF RowMoves, Lifecycle, LiveRow, IsLive
<1>. QED
  BY <1>1, <1>2, <1>3, <1>4, <1>5 DEF RowMoves

\* What a worker knows of the rows it did not write.
LEMMA WriteLeaves ==
  ASSUME Ready, [TNext]_tvars, NEW p \in Procs, Writes(p), NEW m \in Methods, m # job[p].on
  PROVE  /\ Knows(job[p], m, tbl') <=> Knows(job[p], m, tbl)
         /\ NoLive(tbl', m) <=> NoLive(tbl, m)
         /\ AmountOf(tbl', m) = AmountOf(tbl, m)
         /\ \A states : Stands(tbl', m, states) <=> Stands(tbl, m, states)
         /\ m = "WALLET" => (WalletShown(tbl') <=> WalletShown(tbl))
<1>. DEFINE j == job[p]
            i == Snapped(j).id
<1>1. \A k \in Ids : LiveRow(tbl', k, m) <=> LiveRow(tbl, k, m) /\ tbl'[k] = tbl[k]
  BY WriteMoves DEF LiveRow
<1>2. SameRows(tbl, tbl', m) /\ KeysUnique(tbl) /\ KeysUnique(tbl')
  BY <1>1, WriteMoves, ReadyIs DEF SameRows, Sound, LiveRow
<1>3. NoLive(tbl', m) <=> NoLive(tbl, m)
  BY <1>2, SameAmount
<1>4. \A states : Stands(tbl', m, states) <=> Stands(tbl, m, states)
  <2>1. \A k \in Ids : LiveRow(tbl, k, m) => tbl'[k] = tbl[k]
    BY WriteMoves DEF LiveRow
  <2>. QED
    BY <1>1, <2>1 DEF Stands
<1>6. m = "WALLET" => (WalletShown(tbl') <=> WalletShown(tbl))
  <2>1. \A k \in Ids : LiveRow(tbl, k, m) => tbl'[k] = tbl[k]
    BY WriteMoves DEF LiveRow
  <2>. QED
    BY <1>1, <2>1 DEF WalletShown
<1>5. Exists(j.snap[m]) => tbl'[j.snap[m].id] = tbl[j.snap[m].id]
  <2>1. Exists(j.snap[m]) => j.snap[m].id \in Ids \ {i}
    BY WriteMoves, ReadyIs DEF SnapsOK, SnapOK
  <2>. QED
    BY <2>1, WriteMoves
<1>. QED
  BY <1>2, <1>3, <1>4, <1>5, <1>6, SameAmount DEF Knows

\* What is known of the row that was written, and of SADAD.
LEMMA WriteGives ==
  ASSUME Ready, [TNext]_tvars, NEW p \in Procs, Writes(p)
  PROVE  LET j == job[p]
             i == Snapped(j).id
         IN  /\ Priced(j, tbl') /\ SnapsOK(j, tbl') /\ SadadInHand(j, tbl') /\ CashOnly(tbl')
             /\ tbl'[i].state \notin Pending => NonePending(tbl')
             /\ SadadGone(tbl, pay) => SadadGone(tbl', pay')
             /\ tbl'[i].state = "ROLLBACKED" => NoLive(tbl', j.on)
             /\ ((tbl'[i].state = "ROLLBACKED" /\ j.on = "WALLET") => NoLive(tbl, "CASH"))
                  => Careful
             /\ tbl'[i].state # "ROLLBACKED" =>
                  /\ LiveRow(tbl', i, j.on) /\ Stands(tbl', j.on, {tbl'[i].state})
                  /\ Knows(j, j.on, tbl') /\ AmountOf(tbl', j.on) = AmountOf(tbl, j.on)
<1>. DEFINE j == job[p]
            i == Snapped(j).id
<1>1. j \in Job /\ SnapsOK(j, tbl) /\ Priced(j, tbl) /\ SadadInHand(j, tbl) /\ j.on \in Methods
  BY ReadyIs, WorkerKnows DEF Ready
<1>2. Priced(j, tbl') /\ SnapsOK(j, tbl')
  <2>1. \A m \in Methods : Exists(j.snap[m]) =>
          /\ j.snap[m].id \in Ids /\ tbl'[j.snap[m].id].state # "ABSENT"
          /\ tbl'[j.snap[m].id].pm = m
          /\ tbl'[j.snap[m].id].amount = tbl[j.snap[m].id].amount
    BY <1>1, WriteMoves DEF SnapsOK, SnapOK
  <2>. QED
    BY <1>1, <2>1 DEF Priced, SnapsOK, SnapOK
<1>3. ASSUME Faults = {}, NEW k \in Ids, LiveRow(tbl', k, "SADAD"), tbl'[k].amount > 0,
             tbl'[k].state \in Pending
      PROVE  k = i
  <2>1. k # i => tbl'[k] = tbl[k]
    BY WriteMoves
  <2>. QED
    BY <1>1, <1>3, <2>1 DEF SadadInHand, LiveRow
<1>4. SadadInHand(j, tbl')
  BY <1>3 DEF SadadInHand, Writes
<1>5. tbl'[i].state \notin Pending => NonePending(tbl')
  BY <1>3 DEF NonePending
<1>6. CashOnly(tbl')
  <2>1. \A k \in Ids : tbl'[k].state # "ABSENT" => tbl[k].state # "ABSENT"
    BY WriteMoves
  <2>. QED
    BY <2>1, WriteMoves, ReadyIs DEF CashOnly
<1>7. SadadGone(tbl, pay) => SadadGone(tbl', pay')
  BY WriteMoves, SadadGoneStays, ReadyIs
<1>8. tbl'[i].state = "ROLLBACKED" => NoLive(tbl', j.on)
  BY WriteMoves, RowsStay, ReadyIs
<1>9. ASSUME (tbl'[i].state = "ROLLBACKED" /\ j.on = "WALLET") => NoLive(tbl, "CASH")
      PROVE  Careful
  <2>1. \A k \in Ids : LiveRow(tbl, k, "WALLET") /\ tbl'[k].state = "ROLLBACKED" => k = i
    <3>1. \A k \in Ids : LiveRow(tbl, k, "WALLET") => tbl[k].state # "ROLLBACKED"
      BY ReadyIs DEF Sound, Agreed, LiveRow, IsLive
    <3>. QED
      BY <3>1, WriteMoves
  <2>2. \A k \in Ids : LiveRow(tbl, k, "WALLET") /\ tbl'[k].state = "ROLLBACKED"
                         => NoLive(tbl, "CASH")
    BY <1>9, <2>1, WriteMoves DEF LiveRow
  <2>. QED
    BY <2>2, WriteMoves DEF Careful
<1>10. ASSUME tbl'[i].state # "ROLLBACKED"
       PROVE  /\ LiveRow(tbl', i, j.on) /\ Stands(tbl', j.on, {tbl'[i].state})
              /\ Knows(j, j.on, tbl') /\ AmountOf(tbl', j.on) = AmountOf(tbl, j.on)
  <2>1. LiveRow(tbl', i, j.on)
    BY <1>10, WriteMoves DEF LiveRow, IsLive, Sound, Agreed
  <2>2. Stands(tbl', j.on, {tbl'[i].state})
    BY <2>1, WriteMoves, LiveUnique DEF Stands, Sound
  <2>3. Knows(j, j.on, tbl')
    BY <2>1, WorkerKnows DEF Knows, Snapped, LiveRow, Writes, Ready, FlowOK
  <2>4. AmountOf(tbl', j.on) = tbl'[i].amount /\ AmountOf(tbl, j.on) = tbl[i].amount
    BY <2>1, WriteMoves, AmountOfIs, ReadyIs DEF Sound
  <2>. QED
    BY <2>1, <2>2, <2>3, <2>4, WriteMoves
<1>. QED
  BY <1>2, <1>4, <1>5, <1>6, <1>7, <1>8, <1>9, <1>10

\* The ends of a write: what follows for the worker is shown in the table it leaves.
LEMMA WriteKeeps ==
  ASSUME Ready, [TNext]_tvars, NEW p \in Procs, Writes(p), NEW j, Become(p, j),
         (tbl'[Snapped(job[p]).id].state = "ROLLBACKED" /\ job[p].on = "WALLET")
           => NoLive(tbl, "CASH"),
         CheckoutOK(j, tbl', pay')
  PROVE  Keeps(p)
<1>1. job'[p] = j
  BY DEF Become, IInv, Ready
<1>. QED
  BY <1>1, WriteGives DEF Keeps

\* A write of a state.
LEMMA SetWrites ==
  ASSUME Ready, NEW p \in Procs, job[p].pc \in RowLabels, NEW state,
         SetState(Snapped(job[p]).id, state), tbl[Snapped(job[p]).id].state # state
  PROVE  Writes(p) /\ tbl'[Snapped(job[p]).id].state = state
<1>1. Snapped(job[p]).id \in Ids /\ tbl \in [Ids -> Row]
  BY WorkerKnows, ReadyIs DEF Ready, Sound
<1>. QED
  BY <1>1 DEF SetState, Writes, Row

\* A creation goes on creating.
LEMMA StillCreating ==
  ASSUME Ready, [TNext]_tvars, NEW p \in Procs, Writes(p), Creating(job[p], tbl),
         job[p].on \in {"WALLET", "SADAD"}
  PROVE  Creating(job[p], tbl')
<1>1. NoLive(tbl', "CASH")
  BY WriteLeaves DEF Methods, Creating
<1>. QED
  BY <1>1, WriteGives DEF Creating

LEMMA CancelMarkKeeps ==
  ASSUME Ready, [TNext]_tvars, NEW p \in Procs, CancelMark(p)
  PROVE  Keeps(p)
<1>. DEFINE j == job[p]
            i == Snapped(j).id
<1>1. /\ j \in Job /\ j.pc = "cancel_mark" /\ j.pc \in RowLabels /\ j.pc \in CancelLabels
      /\ "cancel_call" \in CancelLabels /\ "cancel_call" \in RowLabels
      /\ SetState(i, "CANCEL_PROCESSING") /\ Become(p, Go(j, "cancel_call"))
  BY ReadyIs DEF CancelMark, Mark, RowLabels, CancelLabels
<1>2. tbl[i].state \in {"HOLD", "AWAITING_PAYMENT"}
  BY <1>1, ReadyIs DEF StandingOK, StatesAt, HoldLabels
<1>3. Writes(p) /\ tbl'[i].state = "CANCEL_PROCESSING"
  BY <1>1, <1>2, SetWrites
<1>4. Priced(j, tbl') /\ SadadInHand(j, tbl') /\ j.kind \in {"create", "cancel"}
  BY <1>1, <1>3, WriteGives, ReadyIs DEF CancelFlow
<1>5. j.kind = "create" => /\ Creating(j, tbl') /\ WalletFirst(j, tbl')
                           /\ j.on = "SADAD" /\ j.todo = <<LastOf(j.opm)>>
  <2>1. "WALLET" \in Methods
    BY DEF Methods
  <2>. QED
    BY <1>1, <1>3, <2>1, IsCancelling, StillCreating, WriteLeaves DEF WalletFirst
<1>6. SadadInHand([j EXCEPT !.pc = "cancel_call"], tbl')
  <2>1. LET r == [j EXCEPT !.pc = "cancel_call"] IN r.pc \in RowLabels /\ Snapped(r) = Snapped(j)
    BY <1>1 DEF Job, Snapped
  <2>. QED
    BY <1>1, <1>4, <2>1 DEF SadadInHand
<1>7. CheckoutOK([j EXCEPT !.pc = "cancel_call"], tbl', pay')
  BY <1>1, <1>4, <1>5, <1>6, CancelStageChecks
<1>8. Go(j, "cancel_call") = [j EXCEPT !.pc = "cancel_call"]
  BY DEF Go, RestLabels
<1>. QED
  BY <1>1, <1>3, <1>7, <1>8, WriteKeeps

\* A cancellation that retires the row, or records it as cancelled.
LEMMA CancelEndKeeps ==
  ASSUME Ready, [TNext]_tvars, NEW p \in Procs, Writes(p), job[p].pc \in CancelLabels,
         tbl'[Snapped(job[p]).id].state \in {"CANCELLED", "ROLLBACKED"},
         tbl'[Snapped(job[p]).id].state = "ROLLBACKED" => job[p].on = "SADAD",
         Become(p, Cancelled(job[p]))
  PROVE  Keeps(p)
<1>. DEFINE j == job[p]
            i == Snapped(j).id
<1>1. NonePending(tbl') /\ Priced(j, tbl') /\ j \in Job /\ j.kind \in {"create", "cancel"}
  BY WriteGives, ReadyIs DEF Pending, CancelFlow
<1>2. Stands(tbl', j.on, {"CANCELLED"})
  <2>1. CASE tbl'[i].state = "CANCELLED"
    BY <2>1, WriteGives
  <2>2. CASE tbl'[i].state = "ROLLBACKED"
    BY <2>2, WriteGives DEF Stands, NoLive
  <2>. QED
    BY <2>1, <2>2
<1>3. j.kind = "create" => /\ Creating(j, tbl') /\ WalletFirst(j, tbl')
                           /\ j.on = "SADAD" /\ j.todo = <<LastOf(j.opm)>>
  <2>1. "WALLET" \in Methods
    BY DEF Methods
  <2>. QED
    BY <2>1, IsCancelling, StillCreating, WriteLeaves DEF WalletFirst
<1>4. CheckoutOK(Cancelled(j), tbl', pay')
  BY <1>1, <1>2, <1>3, CancelledChecks
<1>. QED
  BY <1>4, WriteKeeps

\* A row that is retired.
LEMMA RetireWrites ==
  ASSUME Ready, NEW p \in Procs, job[p].pc \in RowLabels, RetireRow(Snapped(job[p]).id),
         tbl[Snapped(job[p]).id].state # "ROLLBACKED"
  PROVE  Writes(p) /\ tbl'[Snapped(job[p]).id].state = "ROLLBACKED"
<1>. DEFINE i == Snapped(job[p]).id
<1>1. i \in Ids /\ tbl \in [Ids -> Row] /\ tbl[i] \in Row
  BY WorkerKnows, ReadyIs DEF Ready, Sound
<1>2. tbl' = [tbl EXCEPT ![i] = [tbl[i] EXCEPT !.state = "ROLLBACKED", !.live = FALSE]]
  BY <1>1 DEF RetireRow
<1>3. tbl'[i].state = "ROLLBACKED"
  BY <1>1, <1>2 DEF Row
<1>. QED
  BY <1>3 DEF Writes

LEMMA CancelRetireKeeps ==
  ASSUME Ready, [TNext]_tvars, NEW p \in Procs, CancelRetire(p)
  PROVE  Keeps(p)
<1>. DEFINE j == job[p]
            i == Snapped(j).id
<1>1. /\ j.pc = "cancel_retire" /\ j.pc \in RowLabels /\ j.pc \in CancelLabels
      /\ RetireRow(i) /\ Become(p, Cancelled(j))
  BY DEF CancelRetire, RowLabels, CancelLabels
<1>2. j.on = "SADAD" /\ tbl[i].state # "ROLLBACKED"
  BY <1>1, ReadyIs DEF FlowOK, StandingOK, StatesAt, HoldLabels
<1>. QED
  BY <1>1, <1>2, RetireWrites, CancelEndKeeps

LEMMA CancelWriteKeeps ==
  ASSUME Ready, [TNext]_tvars, NEW p \in Procs, CancelWrite(p)
  PROVE  Keeps(p)
<1>. DEFINE j == job[p]
            i == Snapped(j).id
<1>1. j.pc = "cancel_write" /\ j.pc \in RowLabels /\ j.pc \in CancelLabels
  BY DEF CancelWrite, RowLabels, CancelLabels
<1>2. /\ tbl[i].state = "CANCEL_PROCESSING" /\ i \in Ids /\ tbl[i] \in Row /\ tbl \in [Ids -> Row]
  BY <1>1, ReadyIs, WorkerKnows DEF StandingOK, StatesAt, HoldLabels, Ready, Sound
<1>3. CanWriteBack(i, Snapped(j).live)
  <2>1. IsLive(tbl[i]) /\ KeysUnique(tbl)
    BY <1>2, ReadyIs DEF Sound, Agreed, IsLive
  <2>. QED
    BY <1>2, <2>1 DEF CanWriteBack, LiveIds, Stored, KeysUnique, IsLive
<1>4. WriteCancelled(i, Snapped(j).live) /\ Become(p, Cancelled(j))
  BY <1>3 DEF CancelWrite
<1>5. tbl'[i].state = "CANCELLED"
  <2>1. tbl' = [tbl EXCEPT ![i] = [tbl[i] EXCEPT !.state = "CANCELLED", !.live = Snapped(j).live]]
    BY <1>2, <1>4 DEF WriteCancelled
  <2>. QED
    BY <1>2, <2>1 DEF Row
<1>6. Writes(p)
  BY <1>1, <1>2, <1>5 DEF Writes
<1>. QED
  BY <1>1, <1>4, <1>5, <1>6, CancelEndKeeps

LEMMA RollbackMarkKeeps ==
  ASSUME Ready, [TNext]_tvars, NEW p \in Procs, RollbackMark(p)
  PROVE  Keeps(p)
<1>. DEFINE j == job[p]
            i == Snapped(j).id
            r == [j EXCEPT !.pc = "rollback_call", !.amount = j.amount]
<1>1. /\ j \in Job /\ j.pc = "rollback_mark" /\ j.pc \in RowLabels /\ j.pc \in RollbackLabels
      /\ "rollback_call" \in RollbackLabels /\ "rollback_call" \in RowLabels
      /\ SetState(i, "ROLLBACK_PROCESSING") /\ Become(p, Go(j, "rollback_call"))
  BY ReadyIs DEF RollbackMark, Mark, RowLabels, RollbackLabels
<1>2. tbl[i].state \in {"COMPLETED", "CANCELLED"}
  BY <1>1, ReadyIs DEF StandingOK, StatesAt, HoldLabels
<1>3. Writes(p) /\ tbl'[i].state = "ROLLBACK_PROCESSING"
  BY <1>1, <1>2, SetWrites
<1>4. Priced(j, tbl') /\ SadadInHand(j, tbl')
  BY <1>3, WriteGives
<1>5. SadadInHand(r, tbl')
  <2>1. r.pc \in RowLabels /\ Snapped(r) = Snapped(j)
    BY <1>1 DEF Job, Snapped
  <2>. QED
    BY <1>1, <1>4, <2>1 DEF SadadInHand
<1>6. j.on = "WALLET" => NoLive(tbl', "CASH")
  BY <1>1, <1>3, IsRollingBack, WriteLeaves DEF Methods
<1>7. CheckoutOK(r, tbl', pay')
  BY <1>1, <1>4, <1>5, <1>6, IsRollingBack, RollbackStageChecks
<1>8. Go(j, "rollback_call") = r
  BY <1>1 DEF Go, RestLabels, Job
<1>. QED
  BY <1>1, <1>3, <1>7, <1>8, WriteKeeps

LEMMA RollbackSettleKeeps ==
  ASSUME Ready, [TNext]_tvars, NEW p \in Procs, RollbackSettle(p)
  PROVE  Keeps(p)
<1>. DEFINE j == job[p]
            i == Snapped(j).id
<1>1. /\ j \in Job /\ j.pc = "rollback_settle" /\ j.pc \in RowLabels /\ j.pc \in RollbackLabels
      /\ RetireRow(i) /\ Become(p, RolledBack(j))
  BY ReadyIs DEF RollbackSettle, RowLabels, RollbackLabels
<1>2. tbl[i].state # "ROLLBACKED"
  BY <1>1, ReadyIs DEF StandingOK, StatesAt, HoldLabels
<1>3. Writes(p) /\ tbl'[i].state = "ROLLBACKED"
  BY <1>1, <1>2, RetireWrites
<1>4. Priced(j, tbl') /\ NonePending(tbl')
  BY <1>3, WriteGives DEF Pending
<1>5. j.on = "WALLET" => NoLive(tbl, "CASH")
  BY <1>1, IsRollingBack
<1>6. j.on \in {"CASH", "WALLET"} => NoLive(tbl', "CASH")
  BY <1>3, <1>5, WriteGives, WriteLeaves DEF Methods
<1>7. CheckoutOK(RolledBack(j), tbl', pay')
  BY <1>1, <1>4, <1>6, IsRollingBack, RolledBackChecks
<1>. QED
  BY <1>1, <1>3, <1>5, <1>7, WriteKeeps

\* A completion about to settle the row of a method.
LEMMA IsSettling ==
  ASSUME Ready, NEW p \in Procs, job[p].pc \in CompleteLabels
  PROVE  /\ job[p] \in Job /\ job[p].kind = "complete" /\ job[p].total \in FinalTotals
         /\ MaySettle(job[p], tbl, pay)
<1>1. job[p].pc \in SettleLabels
  BY DEF CompleteLabels, SettleLabels
<1>. QED
  BY <1>1, ReadyIs DEF FlowOK, CompletionOK, MaySettle

\* Plans survive the write of a row that is neither a settled SADAD row nor given up.
LEMMA PlanStays ==
  ASSUME Ready, [TNext]_tvars, NEW p \in Procs, Writes(p),
         job[p].on = "SADAD" => tbl[Snapped(job[p]).id].state # "COMPLETED",
         tbl'[Snapped(job[p]).id].state # "ROLLBACKED"
  PROVE  /\ Remaining(job[p], tbl') = Remaining(job[p], tbl)
         /\ \A m \in Methods : NoLive(tbl', m) <=> NoLive(tbl, m)
         /\ PaidBySadad(job[p], tbl) => PaidBySadad(job[p], tbl')
         /\ Plan(job[p], tbl, pay) => Plan(job[p], tbl', pay')
<1>. DEFINE j == job[p]
            i == Snapped(j).id
<1>1. j \in Job /\ j.on \in Methods /\ "CASH" \in Methods /\ "WALLET" \in Methods
  BY ReadyIs, WorkerKnows DEF Ready, Methods
<1>2. \A m \in Methods : NoLive(tbl', m) <=> NoLive(tbl, m)
  <2>1. ~NoLive(tbl, j.on) /\ ~NoLive(tbl', j.on)
    BY WriteGives, WriteMoves DEF NoLive, LiveRow
  <2>. QED
    BY <2>1, WriteLeaves
<1>3. Remaining(j, tbl') = Remaining(j, tbl)
  BY <1>1, WriteGives, WriteLeaves DEF Remaining
<1>4. ASSUME PaidBySadad(j, tbl)
      PROVE  PaidBySadad(j, tbl')
  <2>1. PICK k \in Ids : /\ LiveRow(tbl, k, "SADAD") /\ tbl[k].state = "COMPLETED"
                         /\ AlmostZero(Remaining(j, tbl) - tbl[k].amount)
    BY <1>4 DEF PaidBySadad
  <2>2. k # i
    BY <2>1, WriteMoves DEF LiveRow
  <2>3. tbl'[k] = tbl[k]
    BY <2>2, WriteMoves
  <2>. QED
    BY <1>1, <1>2, <1>3, <1>4, <2>1, <2>3 DEF PaidBySadad, LiveRow
<1>5. Plan(j, tbl, pay) => Plan(j, tbl', pay')
  BY <1>3, <1>4, WriteGives DEF Plan
<1>. QED
  BY <1>2, <1>3, <1>4, <1>5

LEMMA CompleteMarkKeeps ==
  ASSUME Ready, [TNext]_tvars, NEW p \in Procs, CompleteMark(p)
  PROVE  Keeps(p)
<1>. DEFINE j == job[p]
            i == Snapped(j).id
<1>1. /\ j.pc = "complete_mark" /\ j.pc \in RowLabels /\ j.pc \in CompleteLabels
      /\ "complete_call" \in CompleteLabels
      /\ SetState(i, "COMPLETE_PROCESSING") /\ Become(p, Go(j, "complete_call"))
  BY DEF CompleteMark, Mark, RowLabels, CompleteLabels
<1>2. tbl[i].state = "HOLD"
  BY <1>1, ReadyIs DEF StandingOK, StatesAt, HoldLabels
<1>3. Writes(p) /\ tbl'[i].state = "COMPLETE_PROCESSING"
  BY <1>1, <1>2, SetWrites
<1>4. Completing(j, tbl')
  BY <1>1, <1>3, IsSettling, WriteGives DEF Completing, Pending
<1>5. /\ Remaining(j, tbl') = Remaining(j, tbl)
      /\ Plan(j, tbl, pay) => Plan(j, tbl', pay')
  BY <1>2, <1>3, PlanStays
<1>6. MaySettle(j, tbl', pay')
  <2>1. "WALLET" \in Methods /\ "CASH" \in Methods
    BY DEF Methods
  <2>2. /\ j.on = "SADAD" => (Knows(j, "WALLET", tbl') <=> Knows(j, "WALLET", tbl))
        /\ j.on = "WALLET" => (Knows(j, "CASH", tbl') <=> Knows(j, "CASH", tbl))
        /\ j.on = "CASH" => (Stands(tbl, "WALLET", {"COMPLETED"})
                               => Stands(tbl', "WALLET", {"COMPLETED"}))
    BY <1>3, <2>1, WriteLeaves
  <2>. QED
    BY <1>1, <1>5, <2>2, IsSettling DEF MaySettle
<1>7. CheckoutOK(Go(j, "complete_call"), tbl', pay')
  BY <1>1, <1>4, <1>6, SettleChecks
<1>. QED
  BY <1>1, <1>3, <1>7, WriteKeeps

LEMMA CompleteSettleKeeps ==
  ASSUME Ready, [TNext]_tvars, NEW p \in Procs, CompleteSettle(p)
  PROVE  Keeps(p)
<1>. DEFINE j == job[p]
            i == Snapped(j).id
<1>1. /\ j.pc = "complete_settle" /\ j.pc \in RowLabels /\ j.pc \in CompleteLabels
      /\ SetState(i, "COMPLETED") /\ Become(p, Settled(j))
      /\ j.on \in Methods
  BY WorkerKnows DEF CompleteSettle, Mark, RowLabels, CompleteLabels, Ready
<1>2. tbl[i].state = "COMPLETE_PROCESSING"
  BY <1>1, ReadyIs DEF StandingOK, StatesAt, HoldLabels
<1>3. Writes(p) /\ tbl'[i].state = "COMPLETED"
  BY <1>1, <1>2, SetWrites
<1>4. Completing(j, tbl') /\ MaySettle(j, tbl, pay) /\ j.kind = "complete"
  BY <1>1, <1>3, IsSettling, WriteGives DEF Completing, Pending
<1>5. /\ Remaining(j, tbl') = Remaining(j, tbl)
      /\ Plan(j, tbl, pay) => Plan(j, tbl', pay')
  BY <1>2, <1>3, PlanStays
<1>6. /\ LiveRow(tbl', i, j.on) /\ Stands(tbl', j.on, {"COMPLETED"}) /\ Knows(j, j.on, tbl')
      /\ Sound(tbl', pay') /\ RowMoves(i) /\ tbl[i].pm = j.on /\ i \in Ids
  BY <1>3, WriteGives, WriteMoves
<1>7. "WALLET" \in Methods /\ "CASH" \in Methods
  BY DEF Methods
<1>8. CASE j.on = "SADAD"
  <2>1. CashOK(tbl', pay', late')
    <3>1. Careful
      BY <1>3, WriteGives
    <3>. QED
      BY <1>3, <3>1, WriteMoves, CashKept, ReadyIs
  <2>2. tbl'[i].amount = Snapped(j).amount
    <3>1. Exists(Snapped(j))
      BY <1>1, ReadyIs DEF FlowOK
    <3>. QED
      BY <1>1, <1>4, <3>1 DEF Completing, Priced, Snapped
  <2>3. AlmostZero(Remaining(j, tbl') - tbl'[i].amount)
    BY <1>4, <1>5, <1>8, <2>2 DEF MaySettle
  <2>4. PaidBySadad(j, tbl')
    BY <1>3, <1>4, <1>6, <1>8, <2>1, <2>3, SadadPaid
  <2>5. Knows(j, "WALLET", tbl')
    BY <1>3, <1>4, <1>7, <1>8, WriteLeaves DEF MaySettle
  <2>6. CheckoutOK(Settled(j), tbl', pay')
    BY <1>4, <1>8, <2>4, <2>5, SadadSettledChecks DEF Settled
  <2>. QED
    BY <1>1, <1>3, <2>6, WriteKeeps
<1>9. CASE j.on = "WALLET"
  <2>1. Fresh(j.snap["CASH"], tbl')
    BY <1>1, <1>6, <1>7, <1>9, FreshStays, ReadyIs DEF KeptOK, Ready
  <2>2. Plan(j, tbl', pay') /\ Knows(j, "CASH", tbl') /\ (Exists(j.snap["CASH"]) \/ j.amount = 0)
    BY <1>3, <1>4, <1>5, <1>7, <1>9, WriteLeaves DEF MaySettle
  <2>3. CheckoutOK(Settled(j), tbl', pay')
    BY <1>4, <1>6, <1>9, <2>1, <2>2, ToCashChecks DEF Settled
  <2>. QED
    BY <1>1, <1>3, <2>3, WriteKeeps
<1>10. CASE j.on = "CASH"
  <2>1. Plan(j, tbl', pay') /\ Stands(tbl', "WALLET", {"COMPLETED"})
    BY <1>3, <1>4, <1>5, <1>7, <1>10, WriteLeaves DEF MaySettle
  <2>2. ~NoLive(tbl', "CASH")
    BY <1>6, <1>10 DEF NoLive
  <2>3. SettledUp(j, tbl', pay')
    BY <1>6, <1>10, <2>1, <2>2 DEF SettledUp, Plan
  <2>4. CheckoutOK(Settled(j), tbl', pay')
    BY <1>4, <1>10, <2>3, ToldChecks DEF Settled
  <2>. QED
    BY <1>1, <1>3, <2>4, WriteKeeps
<1>. QED
  BY <1>1, <1>8, <1>9, <1>10 DEF Methods

\* Holding or collecting SADAD leaves what SADAD covers.
LEMMA CoversStay ==
  ASSUME Ready, [TNext]_tvars, NEW p \in Procs, Writes(p), job[p].on = "SADAD",
         tbl[Snapped(job[p]).id].state # "CANCELLED", NEW total, SadadCovers(tbl, total)
  PROVE  SadadCovers(tbl', total)
<1>. DEFINE i == Snapped(job[p]).id
<1>1. /\ AmountOf(tbl', "WALLET") = AmountOf(tbl, "WALLET")
      /\ WalletShown(tbl') <=> WalletShown(tbl)
  <2>1. "WALLET" \in Methods
    BY DEF Methods
  <2>. QED
    BY <2>1, WriteLeaves
<1>2. ASSUME NEW k \in Ids, LiveRow(tbl', k, "SADAD"), tbl'[k].state # "CANCELLED"
      PROVE  SadadRest(tbl', total, tbl'[k].amount)
  <2>1. LiveRow(tbl, k, "SADAD") /\ tbl[k].state # "CANCELLED" /\ tbl'[k].amount = tbl[k].amount
    <3>1. CASE k = i
      BY <3>1, WriteMoves
    <3>2. CASE k # i
      BY <1>2, <3>2, WriteMoves DEF LiveRow
    <3>. QED
      BY <3>1, <3>2
  <2>. QED
    BY <1>1, <2>1 DEF SadadCovers, SadadRest
<1>. QED
  BY <1>2 DEF SadadCovers

\* A snapshot whose state alone changes tells the amounts and the rows that it told.
Restated(j, k, h) ==
  /\ Exists(j.snap[h]) /\ Exists(k.snap[h])
  /\ k.snap[h].id = j.snap[h].id /\ k.snap[h].amount = j.snap[h].amount
  /\ \A m \in Methods : m # h => k.snap[m] = j.snap[m]

LEMMA RestatedTells ==
  ASSUME NEW j, NEW k, NEW T, NEW h, Restated(j, k, h), Priced(j, T), SnapsOK(j, T)
  PROVE  Priced(k, T) /\ SnapsOK(k, T)
<1>1. ASSUME NEW m \in Methods
      PROVE  /\ k.snap[m].amount = IF Exists(k.snap[m]) THEN T[k.snap[m].id].amount ELSE 0
             /\ SnapOK(k.snap[m], m, T)
  <2>1. /\ j.snap[m].amount = IF Exists(j.snap[m]) THEN T[j.snap[m].id].amount ELSE 0
        /\ SnapOK(j.snap[m], m, T)
    BY DEF Priced, SnapsOK
  <2>2. CASE m = h
    BY <2>1, <2>2 DEF SnapOK, Restated
  <2>3. CASE m # h
    BY <2>1, <2>3 DEF Restated
  <2>. QED
    BY <2>2, <2>3
<1>. QED
  BY <1>1 DEF Priced, SnapsOK

LEMMA HoldSettleKeeps ==
  ASSUME Ready, [TNext]_tvars, NEW p \in Procs, HoldSettle(p)
  PROVE  Keeps(p)
<1>. DEFINE j == job[p]
            i == Snapped(j).id
            state == HeldState(j.on)
<1>1. /\ j \in Job /\ j.pc = "hold_settle" /\ j.pc \in RowLabels /\ j.pc \in HoldLabels
      /\ j.pc \in BusyLabels /\ j.on \in Methods
      /\ SetState(i, state) /\ Become(p, AfterHold(j, state))
      /\ j.kind \in {"create", "complete"}
  BY WorkerKnows DEF HoldSettle, Mark, RowLabels, HoldLabels, BusyLabels, FlowOK, Ready
<1>2. /\ tbl[i].state = "HOLD_PROCESSING"
      /\ state \in {"HOLD", "AWAITING_PAYMENT"} /\ (j.on # "SADAD" => state = "HOLD")
  BY <1>1, ReadyIs DEF StandingOK, StatesAt, HeldState, IsInstantPayment, Methods
<1>3. Writes(p) /\ tbl'[i].state = state
  BY <1>1, <1>2, SetWrites
<1>4. NonePending(tbl')
  BY <1>2, <1>3, WriteGives DEF Pending
<1>5. /\ LiveRow(tbl, i, j.on) /\ Stands(tbl', j.on, {state}) /\ Knows(j, j.on, tbl')
      /\ LiveRow(tbl', i, j.on)
      /\ Sound(tbl', pay') /\ RowMoves(i) /\ tbl[i].pm = j.on /\ i \in Ids
      /\ Priced(j, tbl') /\ SnapsOK(j, tbl')
  BY <1>2, <1>3, WriteGives, WriteMoves
<1>6. CASE j.kind = "create"
  <2>1. Creating(j, tbl) /\ (OnWallet(j) \/ OnLast(j))
        /\ (j.on = "SADAD" => SadadCovers(tbl, j.total))
    BY <1>1, <1>6, IsCreating, ReadyIs DEF CreationFlow, CreationOK
  <2>2. j.on \in {"WALLET", "SADAD"}
    BY <1>1, <1>5, <2>1 DEF Creating, NoLive, Methods
  <2>3. Creating(j, tbl')
    BY <1>3, <2>1, <2>2, StillCreating
  <2>4. OnWallet(j) => WalletFirst(j, tbl')
    BY <1>2, <1>5 DEF OnWallet, WalletFirst, WalletShown, Stands, ShownHeld
  <2>5. OnLast(j) => SadadCovers(tbl', j.total)
    <3>1. OnLast(j) => j.on = "SADAD"
      BY <2>2, LastOfIs DEF OnLast
    <3>. QED
      BY <1>2, <1>3, <2>1, <3>1, CoversStay
  <2>6. CheckoutOK(Created(j), tbl', pay')
    BY <1>4, <2>1, <2>3, <2>4, <2>5, CreatedChecks
  <2>. QED
    BY <1>1, <1>2, <1>3, <1>6, <2>6, WriteKeeps DEF AfterHold
<1>7. CASE j.kind = "complete"
  <2>. DEFINE k == [j EXCEPT !.snap[j.on].state = state]
  <2>1. /\ j.on = "CASH" /\ Fresh(j.snap["WALLET"], tbl) /\ Plan(j, tbl, pay)
        /\ Knows(j, "WALLET", tbl) /\ j.total \in FinalTotals
    BY <1>1, <1>7, ReadyIs DEF KeptOK, CompletionOK
  <2>2. "WALLET" \in Methods /\ "CASH" \in Methods
    BY DEF Methods
  <2>3. Snapped(j) \in Snap /\ Exists(Snapped(j)) /\ Snapped(j) = j.snap["CASH"]
        /\ state \in States
    BY <1>1, <1>2, <2>1, WorkerKnows DEF Ready, FlowOK, Snapped, States
  <2>4. [Snapped(j) EXCEPT !.state = state] \in Snap
    BY <2>3 DEF Snap
  <2>5. k = [j EXCEPT !.snap = [j.snap EXCEPT ![j.on] = [Snapped(j) EXCEPT !.state = state]]]
    BY <1>1 DEF Job, Snapped
  <2>6. /\ k \in Job /\ k.kind = j.kind /\ k.total = j.total /\ k.amount = j.amount
        /\ \A m \in Methods : m # "CASH" => k.snap[m] = j.snap[m]
        /\ k.snap["CASH"] = [Snapped(j) EXCEPT !.state = state]
    <3>. HIDE DEF state
    <3>. QED
      BY <1>1, <2>1, <2>2, <2>4, <2>5 DEF Job
  <2>7. /\ k.snap["CASH"].id = i /\ k.snap["CASH"].state = state
        /\ k.snap["CASH"].amount = Snapped(j).amount /\ Exists(k.snap["CASH"])
    BY <1>2, <2>3, <2>6 DEF Snap, Exists
  <2>. HIDE DEF k, state
  <2>8. Fresh(k.snap["WALLET"], tbl') /\ Fresh(k.snap["CASH"], tbl')
    <3>1. Fresh(j.snap["WALLET"], tbl')
      BY <1>1, <1>5, <2>1, <2>2, FreshStays DEF Ready
    <3>. QED
      BY <1>3, <2>2, <2>6, <2>7, <3>1 DEF Fresh
  <2>9. Priced(k, tbl') /\ SnapsOK(k, tbl')
    <3>1. k.snap["CASH"].id = j.snap["CASH"].id /\ k.snap["CASH"].amount = j.snap["CASH"].amount
      BY <2>3, <2>7
    <3>2. Exists(j.snap["CASH"])
      BY <2>3
    <3>3. Restated(j, k, "CASH")
      BY <2>6, <2>7, <3>1, <3>2 DEF Restated
    <3>. QED
      BY <1>5, <3>3, RestatedTells
  <2>10. Completing(k, tbl')
    BY <1>4, <1>7, <2>1, <2>6, <2>9 DEF Completing
  <2>11. Knows(k, "WALLET", tbl') /\ Knows(k, "CASH", tbl')
    <3>1. Knows(j, "WALLET", tbl')
      BY <1>3, <2>1, <2>2, WriteLeaves
    <3>. QED
      BY <1>5, <2>2, <2>6, <2>7, <3>1 DEF Knows, LiveRow
  <2>12. Plan(k, tbl', pay')
    <3>1. tbl'[i].state # "ROLLBACKED"
      BY <1>2, <1>3 DEF state
    <3>2. Plan(j, tbl', pay')
      BY <1>3, <2>1, <3>1, PlanStays
    <3>. QED
      BY <2>6, <3>2, SamePlan
  <2>13. CheckoutOK(ToWallet(k), tbl', pay')
    BY <1>5, <2>7, <2>8, <2>10, <2>11, <2>12, ToWalletChecks
  <2>14. Become(p, ToWallet(k)) /\ j.on # "WALLET"
    BY <1>1, <1>7, <2>1 DEF AfterHold, k
  <2>. QED
    BY <1>3, <2>13, <2>14, WriteKeeps
<1>. QED
  BY <1>1, <1>6, <1>7

LEMMA NotifySettleKeeps ==
  ASSUME Ready, [TNext]_tvars, NEW p \in Procs, NotifySettle(p)
  PROVE  Keeps(p)
<1>. DEFINE j == job[p]
            i == Snapped(j).id
<1>1. /\ j \in Job /\ j.pc = "notify_settle" /\ j.pc \in RowLabels
      /\ SetState(i, "HOLD") /\ Become(p, Go(j, "done")) /\ j.kind = "notify"
  BY ReadyIs DEF NotifySettle, Mark, RowLabels, CancelFlow
<1>2. tbl[i].state # "HOLD"
  BY <1>1, ReadyIs DEF StandingOK, StatesAt, HoldLabels
<1>3. Writes(p) /\ tbl'[i].state = "HOLD"
  BY <1>1, <1>2, SetWrites
<1>4. NonePending(tbl') /\ "done" \in RestLabels
  BY <1>3, WriteGives DEF Pending, RestLabels
<1>5. CheckoutOK(Go(j, "done"), tbl', pay')
  BY <1>1, <1>4, RestChecks
<1>. QED
  BY <1>1, <1>3, <1>5, WriteKeeps

\* SADAD found paid while a request polls it.
LEMMA PollSettleKeeps ==
  ASSUME Ready, [TNext]_tvars, NEW p \in Procs, PollSettle(p)
  PROVE  Keeps(p)
<1>. DEFINE j == job[p]
            i == Snapped(j).id
            k == [j EXCEPT !.snap["SADAD"].state = "HOLD"]
<1>1. /\ j \in Job /\ j.pc = "poll_settle" /\ j.pc \in RowLabels /\ j.pc \in PollLabels
      /\ j.on = "SADAD" /\ SetState(i, "HOLD") /\ Become(p, Polled(k))
      /\ Snapped(j) = j.snap["SADAD"] /\ Exists(Snapped(j)) /\ Snapped(j) \in Snap
  BY WorkerKnows DEF PollSettle, Mark, RowLabels, PollLabels, FlowOK, Ready, Snapped
<1>2. tbl[i].state = "AWAITING_PAYMENT"
  BY <1>1, ReadyIs DEF StandingOK, StatesAt, HoldLabels
<1>3. Writes(p) /\ tbl'[i].state = "HOLD"
  BY <1>1, <1>2, SetWrites
<1>4. NonePending(tbl') /\ NonePending(tbl)
  BY <1>2, <1>3, WriteGives, HasNonePending DEF Pending
<1>5. Polling(j, tbl, pay)
  BY <1>1, <1>4, IsPolling
<1>6. /\ LiveRow(tbl', i, "SADAD") /\ Sound(tbl', pay') /\ i \in Ids
      /\ Priced(j, tbl') /\ SnapsOK(j, tbl')
  BY <1>1, <1>3, WriteGives, WriteMoves
<1>7. /\ Remaining(j, tbl') = Remaining(j, tbl)
      /\ PaidBySadad(j, tbl) => PaidBySadad(j, tbl')
      /\ \A m \in Methods : NoLive(tbl', m) <=> NoLive(tbl, m)
  BY <1>2, <1>3, PlanStays
<1>8. "WALLET" \in Methods /\ "CASH" \in Methods /\ "SADAD" \in Methods
  BY DEF Methods
<1>9. /\ Knows(j, "WALLET", tbl') <=> Knows(j, "WALLET", tbl)
      /\ \A m \in {"WALLET", "CASH"} :
           Stands(tbl, m, {"COMPLETED"}) => Stands(tbl', m, {"COMPLETED"})
  BY <1>1, <1>3, <1>8, WriteLeaves
<1>10. SettledUp(j, tbl, pay) => SettledUp(j, tbl', pay')
  BY <1>3, <1>7, <1>8, <1>9, WriteGives DEF SettledUp
<1>11. SadadCovers(tbl, j.total) => SadadCovers(tbl', j.total)
  BY <1>1, <1>2, <1>3, CoversStay
<1>12. Polling(j, tbl', pay')
  BY <1>4, <1>5, <1>6, <1>7, <1>8, <1>9, <1>10, <1>11 DEF Polling, Completing
<1>13. [Snapped(j) EXCEPT !.state = "HOLD"] \in Snap
  BY <1>1 DEF Snap, States
<1>14. k = [j EXCEPT !.snap = [j.snap EXCEPT !["SADAD"] = [Snapped(j) EXCEPT !.state = "HOLD"]]]
  BY <1>1 DEF Job, Snapped
<1>15. /\ k \in Job /\ k.kind = j.kind /\ k.total = j.total /\ k.amount = j.amount
       /\ k.todo = j.todo /\ k.opm = j.opm
       /\ \A m \in Methods : m # "SADAD" => k.snap[m] = j.snap[m]
       /\ k.snap["SADAD"] = [Snapped(j) EXCEPT !.state = "HOLD"]
  BY <1>1, <1>8, <1>13, <1>14 DEF Job
<1>16. /\ k.snap["SADAD"].id = i /\ k.snap["SADAD"].state = "HOLD"
       /\ k.snap["SADAD"].amount = Snapped(j).amount /\ Exists(k.snap["SADAD"])
  BY <1>1, <1>15 DEF Snap, Exists
<1>. HIDE DEF k
<1>17. Priced(k, tbl') /\ SnapsOK(k, tbl') /\ Fresh(k.snap["SADAD"], tbl')
  <2>1. /\ k.snap["SADAD"].id = j.snap["SADAD"].id
        /\ k.snap["SADAD"].amount = j.snap["SADAD"].amount
        /\ Exists(j.snap["SADAD"])
    BY <1>1, <1>16
  <2>2. Priced(k, tbl') /\ SnapsOK(k, tbl')
    <3>1. Restated(j, k, "SADAD")
      BY <1>15, <1>16, <2>1 DEF Restated
    <3>. QED
      BY <1>6, <3>1, RestatedTells
  <2>. QED
    BY <1>3, <1>16, <2>2 DEF Fresh
<1>18. /\ Knows(k, "WALLET", tbl') <=> Knows(j, "WALLET", tbl')
       /\ Remaining(k, tbl') = Remaining(j, tbl')
       /\ SettledUp(k, tbl', pay') <=> SettledUp(j, tbl', pay')
  BY <1>8, <1>15, SamePlan DEF Knows
<1>19. Polling(k, tbl', pay')
  BY <1>12, <1>15, <1>17, <1>18 DEF Polling, Completing
<1>20. CashOK(tbl', pay', late') /\ CashOnly(tbl')
  BY <1>1, <1>3, WriteGives, WriteMoves, CashKept, ReadyIs
<1>21. CheckoutOK(Polled(k), tbl', pay')
  BY <1>6, <1>16, <1>17, <1>19, <1>20, PolledChecks, ReadyIs
<1>. QED
  BY <1>1, <1>3, <1>21, WriteKeeps


\* A row inserted by a worker, and the snapshot of it that the worker goes on with.
Inserts(p, i, s) ==
  LET j == job[p] IN
  /\ j.pc \in {"insert", "cash_insert"}
  /\ s = [id |-> i, state |-> "HOLD_PROCESSING",
          amount |-> IF j.amount < 0 THEN -j.amount ELSE j.amount,
          currency |-> j.currency, live |-> TRUE]
  /\ CreateRow(i, j.on, s.amount, j.currency)
  /\ UNCHANGED <<pay, late>>

LEMMA InsertMoves ==
  ASSUME Ready, [TNext]_tvars, NEW p \in Procs, NEW i \in Ids, NEW s, Inserts(p, i, s)
  PROVE  /\ RowMoves(i) /\ LedgerStep /\ Sound(tbl', pay')
         /\ s \in Snap /\ s.id = i /\ Exists(s)
         /\ tbl[i].state = "ABSENT" /\ tbl'[i].state = "HOLD_PROCESSING"
         /\ tbl'[i].pm = job[p].on /\ tbl'[i].amount = s.amount
         /\ LiveRow(tbl', i, job[p].on) /\ NoLive(tbl, job[p].on)
         /\ UNCHANGED <<pay, late>>
         /\ \A k \in Ids \ {i} : tbl'[k] = tbl[k]
<1>. DEFINE j == job[p]
<1>1. j \in Job /\ j.on \in Methods /\ j.amount \in Int /\ j.currency \in Currencies
  BY WorkerKnows DEF Ready
<1>2. s \in Snap /\ s.id = i /\ Exists(s)
  BY <1>1 DEF Inserts, Snap, States, Exists
<1>3. /\ tbl[i].state = "ABSENT" /\ tbl'[i].state = "HOLD_PROCESSING"
      /\ tbl'[i].pm = j.on /\ tbl'[i].amount = s.amount /\ tbl'[i].live
      /\ UNCHANGED <<pay, late>>
      /\ \A k \in Ids \ {i} : tbl'[k] = tbl[k]
  BY ReadyIs DEF Inserts, CreateRow, Stored, Sound
<1>4. NoLive(tbl, j.on)
  BY DEF Inserts, CreateRow, KeyFree, LiveIds, Stored, NoLive, LiveRow, IsLive
<1>5. LedgerStep /\ Sound(tbl', pay')
  BY NextServes, SoundAfter DEF Ready, CheckoutAssumption
<1>6. RowMoves(i)
  BY <1>3, <1>5, MovesRow
<1>. QED
  BY <1>2, <1>3, <1>4, <1>5, <1>6 DEF LiveRow, IsLive

\* What is known of the other methods stays known.
LEMMA InsertLeaves ==
  ASSUME Ready, [TNext]_tvars, NEW p \in Procs, NEW i \in Ids, NEW s, Inserts(p, i, s),
         NEW m \in Methods, m # job[p].on
  PROVE  /\ Knows(job[p], m, tbl') <=> Knows(job[p], m, tbl)
         /\ NoLive(tbl', m) <=> NoLive(tbl, m)
         /\ AmountOf(tbl', m) = AmountOf(tbl, m)
         /\ \A states : Stands(tbl', m, states) <=> Stands(tbl, m, states)
         /\ m = "WALLET" => (WalletShown(tbl') <=> WalletShown(tbl))
<1>. DEFINE j == job[p]
<1>1. \A k \in Ids : /\ LiveRow(tbl', k, m) <=> LiveRow(tbl, k, m)
                     /\ LiveRow(tbl, k, m) => tbl'[k] = tbl[k]
  BY InsertMoves DEF LiveRow, IsLive
<1>2. SameRows(tbl, tbl', m) /\ KeysUnique(tbl) /\ KeysUnique(tbl')
  BY <1>1, InsertMoves, ReadyIs DEF SameRows, Sound
<1>3. NoLive(tbl', m) <=> NoLive(tbl, m)
  BY <1>2, SameAmount
<1>4. \A states : Stands(tbl', m, states) <=> Stands(tbl, m, states)
  BY <1>1 DEF Stands
<1>6. m = "WALLET" => (WalletShown(tbl') <=> WalletShown(tbl))
  BY <1>1 DEF WalletShown
<1>5. Exists(j.snap[m]) => tbl'[j.snap[m].id] = tbl[j.snap[m].id]
  <2>1. Exists(j.snap[m]) => j.snap[m].id \in Ids \ {i}
    BY InsertMoves, ReadyIs DEF SnapsOK, SnapOK
  <2>. QED
    BY <2>1, InsertMoves
<1>. QED
  BY <1>2, <1>3, <1>4, <1>5, <1>6, SameAmount DEF Knows

\* An entity that was read takes its method's place; the rest of the job stays.
LEMMA SeeTyped ==
  ASSUME NEW j \in Job, NEW s \in Snap
  PROVE  LET k == See(j, s)
         IN  /\ k \in Job /\ Snapped(k) = s /\ k.kind = j.kind /\ k.on = j.on /\ k.todo = j.todo
             /\ k.amount = j.amount /\ k.total = j.total /\ k.opm = j.opm
<1>. DEFINE snaps == [j.snap EXCEPT ![j.on] = s]
            k == [j EXCEPT !.snap = snaps]
<1>1. j.snap \in [Methods -> Snap] /\ j.on \in Methods
  BY DEF Job
<1>2. snaps \in [Methods -> Snap] /\ snaps[j.on] = s
  BY <1>1
<1>3. See(j, s) = k
  BY DEF See
<1>. HIDE DEF snaps
<1>4. k \in Job
  BY <1>2 DEF Job
<1>5. /\ k.snap = snaps /\ k.kind = j.kind /\ k.on = j.on /\ k.todo = j.todo
      /\ k.amount = j.amount /\ k.total = j.total /\ k.opm = j.opm
  BY DEF Job
<1>. QED
  BY <1>2, <1>3, <1>4, <1>5 DEF Snapped

LEMMA InsertGives ==
  ASSUME Ready, [TNext]_tvars, NEW p \in Procs, NEW i \in Ids, NEW s, Inserts(p, i, s)
  PROVE  LET j == job[p]  k == See(j, s)
         IN  /\ k \in Job /\ Snapped(k) = s /\ k.kind = j.kind /\ k.on = j.on /\ k.todo = j.todo
             /\ k.amount = j.amount /\ k.total = j.total /\ k.opm = j.opm
             /\ SnapsOK(k, tbl') /\ Priced(k, tbl')
             /\ \A m \in Methods : m # j.on => /\ k.snap[m] = j.snap[m]
                                               /\ Knows(k, m, tbl') <=> Knows(j, m, tbl)
             /\ \A label \in RowLabels : SadadInHand([k EXCEPT !.pc = label], tbl')
             /\ s.amount <= 0 => NonePending(tbl')
             /\ Knows(k, j.on, tbl')
<1>. DEFINE j == job[p]
            k == See(j, s)
<1>1. /\ j \in Job /\ j.on \in Methods /\ SnapsOK(j, tbl) /\ Priced(j, tbl)
      /\ j.pc \in {"insert", "cash_insert"}
  BY ReadyIs, WorkerKnows DEF Ready, Inserts
<1>2. /\ k \in Job /\ Snapped(k) = s /\ k.snap[j.on] = s
      /\ k.kind = j.kind /\ k.on = j.on /\ k.todo = j.todo
      /\ k.amount = j.amount /\ k.total = j.total /\ k.opm = j.opm
      /\ \A m \in Methods : m # j.on => k.snap[m] = j.snap[m]
  <2>1. s \in Snap
    BY InsertMoves
  <2>. QED
    BY <1>1, <2>1, SeeKeeps, SeeTyped
<1>. HIDE DEF k
<1>3. ASSUME NEW m \in Methods
      PROVE  /\ SnapOK(k.snap[m], m, tbl')
             /\ k.snap[m].amount = IF Exists(k.snap[m]) THEN tbl'[k.snap[m].id].amount ELSE 0
  <2>1. CASE m = j.on
    BY <1>2, <2>1, InsertMoves DEF SnapOK
  <2>2. CASE m # j.on
    <3>1. /\ SnapOK(j.snap[m], m, tbl)
          /\ j.snap[m].amount = IF Exists(j.snap[m]) THEN tbl[j.snap[m].id].amount ELSE 0
      BY <1>1 DEF SnapsOK, Priced
    <3>2. Exists(j.snap[m]) => tbl'[j.snap[m].id] = tbl[j.snap[m].id] /\ j.snap[m].id \in Ids
      BY <3>1, InsertMoves DEF SnapOK
    <3>. QED
      BY <1>2, <2>2, <3>1, <3>2 DEF SnapOK
  <2>. QED
    BY <2>1, <2>2
<1>4. SnapsOK(k, tbl') /\ Priced(k, tbl')
  BY <1>3 DEF SnapsOK, Priced
<1>5. \A m \in Methods : m # j.on => (Knows(k, m, tbl') <=> Knows(j, m, tbl))
  <2>. SUFFICES ASSUME NEW m \in Methods, m # j.on PROVE Knows(k, m, tbl') <=> Knows(j, m, tbl)
    OBVIOUS
  <2>1. Knows(k, m, tbl') <=> Knows(j, m, tbl')
    BY <1>2 DEF Knows
  <2>. QED
    BY <2>1, InsertLeaves
<1>7. NonePending(tbl)
  <2>1. j.pc \notin RowLabels
    BY <1>1 DEF RowLabels, HoldLabels, CancelLabels, RollbackLabels
  <2>. QED
    BY <2>1, HasNonePending
<1>8. ASSUME Faults = {}, NEW n \in Ids, LiveRow(tbl', n, "SADAD"), tbl'[n].amount > 0,
             tbl'[n].state \in Pending
      PROVE  n = i
  BY <1>7, <1>8, InsertMoves DEF NonePending, LiveRow
<1>6. ASSUME NEW label \in RowLabels
      PROVE  SadadInHand([k EXCEPT !.pc = label], tbl')
  <2>1. [k EXCEPT !.pc = label].pc = label /\ Snapped([k EXCEPT !.pc = label]).id = i
    BY <1>2, InsertMoves DEF Job, Snapped
  <2>. QED
    BY <1>8, <2>1 DEF SadadInHand
<1>9. ASSUME s.amount <= 0 PROVE NonePending(tbl')
  <2>1. ~(tbl'[i].amount > 0)
    BY <1>9, InsertMoves DEF Snap
  <2>. QED
    BY <1>8, <2>1 DEF NonePending
<1>10. Knows(k, j.on, tbl')
  BY <1>2, InsertMoves DEF Knows, LiveRow
<1>. QED
  BY <1>2, <1>4, <1>5, <1>6, <1>9, <1>10 DEF k

\* The ends of an insert.
LEMMA InsertEnds ==
  ASSUME Ready, [TNext]_tvars, NEW p \in Procs, NEW i \in Ids, NEW s, Inserts(p, i, s),
         IF job[p].on = "CASH" THEN Leaves(tbl, s.amount) /\ SadadGone(tbl, pay)
         ELSE NoLive(tbl, "CASH"),
         NoSadadAsked => job[p].on # "SADAD",
         NEW j, Become(p, j), CheckoutOK(j, tbl', pay')
  PROVE  Keeps(p)
<1>1. job'[p] = j
  BY DEF Become, IInv, Ready
<1>2. \A k \in Ids : (tbl[k].state = "ABSENT" /\ tbl'[k].state # "ABSENT") => k = i
  BY InsertMoves
<1>3. \A k \in Ids : ~(LiveRow(tbl, k, "WALLET") /\ tbl'[k].state = "ROLLBACKED")
  <2>1. \A k \in Ids : LiveRow(tbl, k, "WALLET") => tbl[k].state # "ROLLBACKED"
    BY ReadyIs DEF Sound, Agreed, LiveRow, IsLive
  <2>. QED
    BY <2>1, InsertMoves
<1>4. Careful
  BY <1>2, <1>3, InsertMoves DEF Careful
<1>5. CashOnly(tbl')
  <2>. SUFFICES ASSUME NoSadadAsked, NEW k \in Ids, tbl'[k].state # "ABSENT"
                PROVE  tbl'[k].pm # "SADAD"
    BY DEF CashOnly
  <2>1. CASE k = i
    BY <2>1, InsertMoves
  <2>2. CASE k # i
    BY <2>2, InsertMoves, ReadyIs DEF CashOnly
  <2>. QED
    BY <2>1, <2>2
<1>. QED
  BY <1>1, <1>4, <1>5 DEF Keeps

LEMMA CreateInsertKeeps ==
  ASSUME Ready, [TNext]_tvars, NEW p \in Procs, NEW i \in Ids, NEW s, Inserts(p, i, s),
         job[p].pc = "insert", Become(p, ToHold(See(job[p], s)))
  PROVE  Keeps(p)
<1>. DEFINE j == job[p]
            k == See(j, s)
<1>1. /\ j.pc \in CreateLabels /\ j.pc \in BusyLabels /\ "WALLET" \in Methods /\ "CASH" \in Methods
      /\ "hold" \in RowLabels /\ "hold" \in HoldLabels
  BY DEF CreateLabels, BusyLabels, Methods, RowLabels, HoldLabels
<1>2. /\ j.kind = "create" /\ Creating(j, tbl) /\ (OnWallet(j) \/ OnLast(j)) /\ j.amount >= 0
      /\ j.on # "CASH" /\ j.on \in Methods
      /\ j.on # "WALLET" => Stands(tbl, "SADAD", {"CANCELLED"})
      /\ j.on = "SADAD" => SadadRest(tbl, j.total, j.amount)
  BY <1>1, ReadyIs, IsCreating, WorkerKnows DEF FlowOK, CreationFlow, CreationOK, Ready
<1>3. /\ k \in Job /\ k.kind = j.kind /\ k.on = j.on /\ k.todo = j.todo
      /\ k.total = j.total /\ k.opm = j.opm /\ Snapped(k) = s
      /\ s.amount <= 0 => NonePending(tbl')
      /\ Knows(k, k.on, tbl')
      /\ SnapsOK(k, tbl') /\ Priced(k, tbl') /\ SadadInHand([k EXCEPT !.pc = "hold"], tbl')
  BY <1>1, InsertGives
<1>. HIDE DEF k
<1>4. Creating(k, tbl')
  BY <1>1, <1>2, <1>3, InsertLeaves DEF Creating
<1>5. OnWallet(k) \/ OnLast(k)
  BY <1>2, <1>3 DEF OnWallet, OnLast
<1>6. ASSUME j.on = "SADAD" PROVE SadadCovers(tbl', j.total)
  <2>1. ASSUME NEW n \in Ids, LiveRow(tbl', n, "SADAD") PROVE n = i
    BY <1>6, <2>1, InsertMoves, LiveUnique DEF Sound
  <2>2. tbl'[i].amount = j.amount
    BY <1>2, InsertMoves, WorkerKnows DEF Inserts, Ready
  <2>3. SadadRest(tbl', j.total, j.amount)
    <3>1. AmountOf(tbl', "WALLET") = AmountOf(tbl, "WALLET")
          /\ (WalletShown(tbl') <=> WalletShown(tbl))
      BY <1>1, <1>6, InsertLeaves
    <3>. QED
      BY <1>2, <1>6, <3>1 DEF SadadRest
  <2>. QED
    BY <2>1, <2>2, <2>3 DEF SadadCovers
<1>7. CheckoutOK(ToHold(k), tbl', pay')
  <2>1. k.on \in {"WALLET", "SADAD"}
    BY <1>2, <1>3, <1>5, LastOfIs DEF OnWallet, OnLast
  <2>2. Exists(s) /\ KeysUnique(tbl')
    BY InsertMoves DEF Sound
  <2>. QED
    BY <1>3, <1>4, <1>5, <1>6, <2>1, <2>2, ToHoldChecks
<1>8. NoSadadAsked => j.on # "SADAD"
  <2>1. NoSadadAsked => LastOf(j.opm) = "CASH"
    BY <1>2 DEF Creating, NoSadadAsked, LastOf
  <2>. QED
    BY <1>2, <2>1 DEF OnWallet, OnLast
<1>9. NoLive(tbl, "CASH")
  BY <1>2 DEF Creating
<1>. QED
  BY <1>2, <1>7, <1>8, <1>9, InsertEnds DEF k

LEMMA CashInsertKeeps ==
  ASSUME Ready, [TNext]_tvars, NEW p \in Procs, NEW i \in Ids, NEW s, Inserts(p, i, s),
         job[p].pc = "cash_insert", Become(p, ToHold(See(job[p], s)))
  PROVE  Keeps(p)
<1>. DEFINE j == job[p]
            k == See(j, s)
            r == [k EXCEPT !.pc = "hold"]
<1>1. /\ j.pc \in SettleLabels /\ "WALLET" \in Methods /\ "CASH" \in Methods
      /\ "hold" \in RowLabels /\ "hold" \in HoldLabels
      /\ "hold" \notin PollLabels \cup CompleteLabels \cup {"wallet_read", "cash_insert", "done"}
  BY DEF SettleLabels, Methods, RowLabels, HoldLabels, PollLabels, CompleteLabels
<1>2. /\ j.kind = "complete" /\ j.on = "CASH" /\ j.amount # 0 /\ j.amount \in Int
      /\ j.total \in FinalTotals /\ Knows(j, "WALLET", tbl) /\ Plan(j, tbl, pay)
  BY <1>1, ReadyIs, WorkerKnows DEF FlowOK, CompletionOK, Ready
<1>3. /\ k \in Job /\ k.kind = "complete" /\ k.total = j.total /\ k.amount = j.amount
      /\ SnapsOK(k, tbl') /\ Priced(k, tbl') /\ SadadInHand(r, tbl')
      /\ Knows(k, "WALLET", tbl') /\ Snapped(k) = s
  BY <1>1, <1>2, InsertGives
<1>13. ToHold(k) = r
  <2>1. s.amount = IF j.amount < 0 THEN -j.amount ELSE j.amount
    BY DEF Inserts
  <2>2. ~(s.amount <= 0)
    BY <1>2, <2>1
  <2>. HIDE DEF k
  <2>. QED
    BY <1>3, <2>2, ToHoldIs
<1>. HIDE DEF k
<1>4. /\ r.pc = "hold" /\ r.kind = "complete" /\ r.total = j.total /\ r.amount = j.amount
      /\ r.snap = k.snap
  BY <1>3 DEF Job
<1>. HIDE DEF r
<1>5. j.amount = Remaining(j, tbl) /\ SadadGone(tbl, pay)
  BY <1>2 DEF Plan
<1>6. Leaves(tbl, s.amount)
  <2>1. s.amount = IF j.amount < 0 THEN -j.amount ELSE j.amount
    BY DEF Inserts
  <2>2. \A total \in FinalTotals : total = j.total
    BY <1>2, ReadyIs DEF CheckoutAssumption, OneFinalTotal
  <2>. QED
    BY <1>5, <2>1, <2>2 DEF Leaves, Remaining
<1>7. SadadGone(tbl', pay')
  BY <1>2, <1>5, InsertMoves, SadadGoneStays, ReadyIs
<1>8. Remaining(r, tbl') = Remaining(j, tbl)
  BY <1>1, <1>2, <1>4, InsertLeaves DEF Remaining
<1>9. Plan(r, tbl', pay')
  BY <1>4, <1>5, <1>7, <1>8 DEF Plan
<1>10. Knows(r, "WALLET", tbl') /\ Priced(r, tbl')
  BY <1>3, <1>4, SameSnaps
<1>11. CompletionOK(r, tbl', pay')
  BY <1>1, <1>2, <1>4, <1>9, <1>10 DEF CompletionOK
<1>12. CheckoutOK(r, tbl', pay')
  BY <1>1, <1>3, <1>4, <1>10, <1>11, CompleteChecks
<1>. QED
  BY <1>2, <1>5, <1>6, <1>12, <1>13, InsertEnds DEF k

LEMMA InsertKeeps ==
  ASSUME Ready, [TNext]_tvars, NEW p \in Procs, Insert(p)
  PROVE  Keeps(p)
<1>. DEFINE j == job[p]
            amount == IF j.amount < 0 THEN -j.amount ELSE j.amount
<1>1. j.pc \in {"insert", "cash_insert"} /\ UNCHANGED <<pay, late>>
  BY DEF Insert
<1>2. ASSUME NEW i \in Ids, CreateRow(i, j.on, amount, j.currency),
             Become(p, ToHold(See(j, [id |-> i, state |-> "HOLD_PROCESSING", amount |-> amount,
                                      currency |-> j.currency, live |-> TRUE])))
      PROVE  Keeps(p)
  <2>. DEFINE s == [id |-> i, state |-> "HOLD_PROCESSING", amount |-> amount,
                    currency |-> j.currency, live |-> TRUE]
  <2>1. Inserts(p, i, s)
    BY <1>1, <1>2 DEF Inserts
  <2>2. Become(p, ToHold(See(j, s)))
    BY <1>2
  <2>. HIDE DEF s
  <2>. QED
    BY <1>1, <2>1, <2>2, CreateInsertKeeps, CashInsertKeeps
<1>3. ASSUME Become(p, Go(j, "failed")), UNCHANGED tbl
      PROVE  Keeps(p)
  <2>1. NonePending(tbl) /\ "failed" \in RestLabels \ {"done"}
    <3>1. j.pc \notin RowLabels
      BY <1>1 DEF RowLabels, HoldLabels, CancelLabels, RollbackLabels
    <3>. QED
      BY <3>1, HasNonePending DEF RestLabels
  <2>2. CheckoutOK(Go(j, "failed"), tbl, pay)
    BY <2>1, FailedChecks
  <2>. QED
    BY <1>1, <1>3, <2>2, ReadKeeps
<1>. QED
  BY <1>2, <1>3 DEF Insert


-----------------------------------------------------------------------------
\* Every step

\* Whatever a worker does, it does with care and knows where it stands.
LEMMA WorkerKeeps ==
  ASSUME Ready, [TNext]_tvars, NEW p \in Procs, Serve(p) \/ Advance(p) \/ Crash(p)
  PROVE  Keeps(p)
<1>1. CASE Serve(p)
  BY <1>1, CreateKeeps, CompleteKeeps, OtherRequestsKeep, NotifyKeeps DEF Serve
<1>2. CASE Crash(p)
  BY <1>2, CrashKeeps
<1>3. CASE Advance(p)
  <2>1. CASE \/ ResolveWallet(p) \/ ResolveSadad(p) \/ CreateRead(p) \/ Insert(p)
             \/ HoldCall(p) \/ HoldSettle(p)
    BY <2>1, ResolveWalletKeeps, ResolveSadadKeeps, CreateReadKeeps, InsertKeeps,
       HoldCallKeeps, HoldSettleKeeps
  <2>2. CASE \/ CancelRead(p) \/ CancelMark(p) \/ CancelCall(p) \/ CancelRetire(p)
             \/ CancelKey(p) \/ CancelWrite(p)
    BY <2>2, CancelReadKeeps, CancelMarkKeeps, CancelCallKeeps, CancelRetireKeeps,
       CancelKeyKeeps, CancelWriteKeeps
  <2>3. CASE \/ WalletRead(p) \/ Poll(p) \/ Status(p) \/ PollSettle(p)
             \/ CompleteMark(p) \/ CompleteCall(p) \/ CompleteSettle(p) \/ CashRead(p)
    BY <2>3, WalletReadKeeps, PollKeeps, StatusKeeps, PollSettleKeeps,
       CompleteMarkKeeps, CompleteCallKeeps, CompleteSettleKeeps, CashReadKeeps
  <2>4. CASE \/ RollbackRead(p) \/ RollbackMark(p) \/ RollbackCall(p) \/ RollbackSettle(p)
             \/ NotifySettle(p)
    BY <2>4, RollbackReadKeeps, RollbackMarkKeeps, RollbackCallKeeps, RollbackSettleKeeps,
       NotifySettleKeeps
  <2>. QED
    BY <1>3, <2>1, <2>2, <2>3, <2>4 DEF Advance
<1>. QED
  BY <1>1, <1>2, <1>3

LEMMA NextCInv ==
  ASSUME CheckoutAssumption, IInv, SInv, CInv, [TNext]_tvars
  PROVE  CInv'
<1>1. Ready /\ Serial
  BY DEF Ready, CheckoutAssumption
<1>2. PICK w : Procs = {w}
  BY <1>1 DEF Serial
<1>3. CASE UNCHANGED tvars
  BY <1>3 DEF tvars, CInv
<1>4. CASE TNext
  <2>1. Keeps(w)
    <3>1. \/ Serve(w) \/ Advance(w) \/ Crash(w)
          \/ LateCall \/ Payer
      BY <1>2, <1>4 DEF TNext
    <3>. QED
      BY <1>1, <1>2, <3>1, WorkerKeeps, OutsideKeeps
  <2>2. CashOK(tbl', pay', late')
    <3>1. LedgerStep /\ Sound(tbl', pay')
      BY <1>1, NextServes, SoundAfter
    <3>2. Ledger /\ Sound(tbl, pay) /\ CashOK(tbl, pay, late)
      BY <1>1, <1>2, ReadyIs
    <3>. QED
      BY <2>1, <3>1, <3>2, CashKept DEF Keeps
  <2>. QED
    BY <1>2, <2>1, <2>2 DEF Keeps, CInv
<1>. QED
  BY <1>3, <1>4

LEMMA InitCInv == TInit => CInv
<1>. SUFFICES ASSUME TInit PROVE CInv
  OBVIOUS
<1>1. /\ \A i \in Ids : tbl[i].state = "ABSENT" /\ pay[i] = "NONE"
      /\ late = {}
  BY DEF TInit, TblInit, NoRow, PayInit
<1>2. CashOK(tbl, pay, late) /\ CashOnly(tbl)
  BY <1>1 DEF CashOK, CashOnly, LiveRow, IsLive
<1>3. ASSUME NEW p \in Procs
      PROVE  CheckoutOK(job[p], tbl, pay)
  <2>1. job[p] = IdleJob /\ IdleJob.pc = "idle" /\ IdleJob.kind = "none" /\ IdleJob.snap = NoSnaps
    BY <1>3 DEF TInit, IdleJob
  <2>2. IdleJob.pc \notin RollbackLabels \cup CancelLabels \cup {"notify_settle"}
    BY <2>1 DEF RollbackLabels, CancelLabels
  <2>3. SadadInHand(IdleJob, tbl) /\ CancelFlow(IdleJob)
    BY <1>1, <2>2 DEF SadadInHand, CancelFlow, LiveRow, IsLive
  <2>. QED
    BY <2>1, <2>2, <2>3, UnreadPriced, OtherChecks
<1>. QED
  BY <1>2, <1>3 DEF CInv

\* CInv holds in every state of a TransactionService whose requests are served one after the
\* other, by clients that create nothing anew once a completion has begun: what is there as cash
\* is what the wallet leaves of the final total, and a worker's snapshots and running amount tell
\* what is left to settle, whatever crashes and whichever calls come late.
THEOREM CheckoutInvariantHolds == CheckoutAssumption /\ TSpec => []CInv
<1>. SUFFICES ASSUME CheckoutAssumption PROVE TSpec => []CInv
  OBVIOUS
<1>1. Serial
  BY DEF CheckoutAssumption
<1>2. IInv /\ SInv /\ CInv /\ [TNext]_tvars => CInv'
  BY NextCInv
<1>. QED
  BY <1>1, <1>2, InitCInv, InvariantHolds, SerialInvariantHolds, PTL DEF TSpec


-----------------------------------------------------------------------------
\* What was charged, method by method

\* A method whose row keeps its key has that row's payment and no other.
LEMMA ChargedIsLive ==
  ASSUME Ready, NEW p \in Procs, NEW i \in Ids, pay[i] \in {"CHARGED", "RELEASED"}
  PROVE  LiveRow(tbl, i, tbl[i].pm) /\ (pay[i] = "RELEASED" => tbl[i].pm = "CASH")
<1>1. tbl[i].state # "ABSENT" /\ pay[i] \in Agreeing(tbl[i].pm)[tbl[i].state]
  BY ReadyIs DEF Sound, Agreed
<1>2. tbl[i].state \in States
  BY <1>1, ReadyIs DEF Sound, Row
<1>3. tbl[i].state # "ROLLBACKED"
  BY <1>1, <1>2 DEF Agreeing, States
<1>. QED
  BY <1>1, <1>3, ReadyIs DEF Sound, Agreed, LiveRow, IsLive, CashOK

LEMMA AmountInIs ==
  ASSUME Ready, NEW p \in Procs, NEW m, NEW state \in {"CHARGED", "RELEASED"}
  PROVE  /\ \A i \in Ids : (LiveRow(tbl, i, m) /\ pay[i] = state)
                             => AmountIn(state, m) = tbl[i].amount
         /\ (\A i \in Ids : LiveRow(tbl, i, m) => pay[i] # state) => AmountIn(state, m) = 0
         /\ AmountIn(state, m) \in Int
<1>. DEFINE f == [i \in Ids |-> IF pay[i] = state /\ tbl[i].pm = m THEN tbl[i].amount ELSE 0]
<1>1. AmountIn(state, m) = SumFunctionOnSet(f, Ids)
  BY DEF AmountIn, SumFunction
<1>2. \A i \in Ids : f[i] \in Int
  BY ReadyIs DEF Sound, Row
<1>3. \A i \in Ids : (pay[i] = state /\ tbl[i].pm = m) => LiveRow(tbl, i, m)
  BY ChargedIsLive
<1>4. ASSUME NEW i \in Ids, LiveRow(tbl, i, m), pay[i] = state
      PROVE  AmountIn(state, m) = tbl[i].amount
  <2>1. \A k \in Ids \ {i} : f[k] = 0
    BY <1>3, <1>4, LiveUnique, ReadyIs DEF Sound
  <2>2. f[i] = tbl[i].amount
    BY <1>4 DEF LiveRow
  <2>. HIDE DEF f
  <2>. QED
    BY <1>1, <1>2, <2>1, <2>2, SumOne, IdsAreFinite
<1>5. ASSUME \A i \in Ids : LiveRow(tbl, i, m) => pay[i] # state
      PROVE  AmountIn(state, m) = 0
  <2>1. \A k \in Ids : f[k] = 0
    BY <1>3, <1>5
  <2>. HIDE DEF f
  <2>. QED
    BY <1>1, <2>1, SumZero, IdsAreFinite
<1>6. AmountIn(state, m) \in Int
  <2>. HIDE DEF f
  <2>. QED
    BY <1>1, <1>2, SumInt, IdsAreFinite
<1>. QED
  BY <1>4, <1>5, <1>6

\* What is paid is what the methods were charged, less the cash released.
LEMMA PaidSplits ==
  ASSUME Ready, NEW p \in Procs
  PROVE  Paid = AmountIn("CHARGED", "WALLET") + AmountIn("CHARGED", "CASH")
                  + AmountIn("CHARGED", "SADAD") - AmountIn("RELEASED", "CASH")
<1>. DEFINE charged(m) == [i \in Ids |-> IF pay[i] = "CHARGED" /\ tbl[i].pm = m
                                           THEN tbl[i].amount ELSE 0]
            released == [i \in Ids |-> IF pay[i] = "RELEASED" /\ tbl[i].pm = "CASH"
                                         THEN tbl[i].amount ELSE 0]
            paid == [i \in Ids |-> CASE pay[i] = "CHARGED"  -> tbl[i].amount
                                     [] pay[i] = "RELEASED" -> -tbl[i].amount
                                     [] OTHER               -> 0]
            instant == [i \in Ids |-> charged("WALLET")[i] + charged("CASH")[i]]
            all == [i \in Ids |-> instant[i] + charged("SADAD")[i]]
            Sum(f) == SumFunctionOnSet(f, Ids)
<1>1. \A i \in Ids : tbl[i].amount \in Int /\ tbl[i].pm \in Methods
  BY ReadyIs DEF Sound, Row
<1>2. \A i \in Ids : /\ charged("WALLET")[i] \in Int /\ charged("CASH")[i] \in Int
                     /\ charged("SADAD")[i] \in Int /\ released[i] \in Int
                     /\ instant[i] \in Int /\ all[i] \in Int /\ paid[i] \in Int
  BY <1>1
<1>3. \A i \in Ids : all[i] = paid[i] + released[i]
  <2>1. \A i \in Ids : pay[i] = "RELEASED" => tbl[i].pm = "CASH"
    BY ChargedIsLive
  <2>. QED
    BY <1>1, <2>1 DEF Methods
<1>4. \A i \in Ids : instant[i] = charged("WALLET")[i] + charged("CASH")[i]
  OBVIOUS
<1>5. \A i \in Ids : all[i] = instant[i] + charged("SADAD")[i]
  OBVIOUS
<1>6. /\ Paid = Sum(paid) /\ AmountIn("RELEASED", "CASH") = Sum(released)
      /\ AmountIn("CHARGED", "WALLET") = Sum(charged("WALLET"))
      /\ AmountIn("CHARGED", "CASH") = Sum(charged("CASH"))
      /\ AmountIn("CHARGED", "SADAD") = Sum(charged("SADAD"))
  BY DEF Paid, AmountIn, SumFunction
<1>. HIDE DEF charged, released, paid, instant, all
<1>7. Sum(all) = Sum(paid) + Sum(released)
  BY <1>2, <1>3, SumPlus, IdsAreFinite
<1>8. Sum(instant) = Sum(charged("WALLET")) + Sum(charged("CASH"))
  BY <1>2, <1>4, SumPlus, IdsAreFinite
<1>9. Sum(all) = Sum(instant) + Sum(charged("SADAD"))
  BY <1>2, <1>5, SumPlus, IdsAreFinite
<1>10. /\ Sum(paid) \in Int /\ Sum(released) \in Int /\ Sum(charged("WALLET")) \in Int
       /\ Sum(charged("CASH")) \in Int /\ Sum(charged("SADAD")) \in Int
  BY <1>2, SumInt, IdsAreFinite
<1>. QED
  BY <1>6, <1>7, <1>8, <1>9, <1>10

\* What a completion that succeeded has left behind it.
CompletedAmounts(j) ==
  LET rest == Remaining(j, tbl) IN
  /\ AmountIn("CHARGED", "WALLET") = AmountOf(tbl, "WALLET")
  /\ \/ /\ PaidBySadad(j, tbl)
        /\ AlmostZero(rest - AmountIn("CHARGED", "SADAD"))
        /\ AmountIn("CHARGED", "CASH") = 0 /\ AmountIn("RELEASED", "CASH") = 0
     \/ /\ SadadGone(tbl, pay)
        /\ AmountIn("CHARGED", "SADAD") = 0
        /\ AmountIn("CHARGED", "CASH") = Shown(rest) /\ AmountIn("RELEASED", "CASH") = Shown(-rest)

LEMMA CompletedPays ==
  ASSUME Ready, NEW p \in Procs, Succeeded(p, "complete")
  PROVE  /\ CompletedAmounts(job[p]) /\ SettledUp(job[p], tbl, pay)
         /\ Remaining(job[p], tbl) \in Int
<1>. DEFINE j == job[p]
            rest == Remaining(j, tbl)
<1>1. SettledUp(j, tbl, pay) /\ j.total \in FinalTotals /\ j.total \in Nat
      /\ AmountOf(tbl, "WALLET") \in Nat /\ rest \in Int
  BY ReadyIs, WorkerKnows, AmountOfNat DEF Succeeded, CompletionOK, Ready, Sound, Remaining
<1>2. ASSUME NEW i \in Ids, NEW m, LiveRow(tbl, i, m), tbl[i].state = "COMPLETED"
      PROVE  pay[i] = "CHARGED" \/ (pay[i] = "RELEASED" /\ m = "CASH")
  <2>1. pay[i] \in Agreeing(tbl[i].pm)[tbl[i].state]
    BY <1>2, ReadyIs DEF Sound, Agreed
  <2>2. pay[i] \in {"CHARGED", "RELEASED"}
    BY <1>2, <2>1 DEF Agreeing, States
  <2>. QED
    BY <1>2, <2>2, ChargedIsLive DEF LiveRow
<1>3. AmountIn("CHARGED", "WALLET") = AmountOf(tbl, "WALLET")
  <2>1. CASE NoLive(tbl, "WALLET")
    BY <2>1, AmountInIs, AmountOfNone DEF NoLive
  <2>2. CASE ~NoLive(tbl, "WALLET")
    <3>1. PICK i \in Ids : LiveRow(tbl, i, "WALLET")
      BY <2>2 DEF NoLive
    <3>2. tbl[i].state = "COMPLETED"
      BY <1>1, <3>1 DEF SettledUp, Stands
    <3>3. pay[i] = "CHARGED"
      BY <1>2, <3>1, <3>2
    <3>. QED
      BY <3>1, <3>3, AmountInIs, AmountOfIs, ReadyIs DEF Sound
  <2>. QED
    BY <2>1, <2>2
<1>4. CASE PaidBySadad(j, tbl)
  <2>1. AmountIn("CHARGED", "CASH") = 0 /\ AmountIn("RELEASED", "CASH") = 0
    BY <1>4, AmountInIs DEF PaidBySadad, NoLive
  <2>2. PICK i \in Ids : /\ LiveRow(tbl, i, "SADAD") /\ tbl[i].state = "COMPLETED"
                         /\ AlmostZero(rest - tbl[i].amount)
    BY <1>4 DEF PaidBySadad
  <2>3. pay[i] = "CHARGED"
    BY <1>2, <2>2
  <2>4. AmountIn("CHARGED", "SADAD") = tbl[i].amount
    BY <2>2, <2>3, AmountInIs
  <2>. QED
    BY <1>1, <1>3, <1>4, <2>1, <2>2, <2>4 DEF CompletedAmounts
<1>5. CASE SadadGone(tbl, pay) /\ (NoLive(tbl, "CASH") => rest = 0)
  <2>1. AmountIn("CHARGED", "SADAD") = 0
    <3>1. \A i \in Ids : pay[i] = "CHARGED" => tbl[i].amount > 0
      BY ReadyIs DEF Sound
    <3>2. \A i \in Ids : LiveRow(tbl, i, "SADAD") => pay[i] # "CHARGED"
      BY <1>5, <3>1 DEF SadadGone, CalledOff, LiveRow
    <3>. QED
      BY <3>2, AmountInIs
  <2>2. AmountIn("CHARGED", "CASH") = Shown(rest) /\ AmountIn("RELEASED", "CASH") = Shown(-rest)
    <3>1. CASE NoLive(tbl, "CASH")
      BY <1>5, <3>1, AmountInIs DEF NoLive, Shown
    <3>2. CASE ~NoLive(tbl, "CASH")
      <4>1. PICK i \in Ids : LiveRow(tbl, i, "CASH")
        BY <3>2 DEF NoLive
      <4>2. tbl[i].state = "COMPLETED"
        BY <1>1, <4>1 DEF SettledUp, Stands
      <4>3. pay[i] = "CHARGED" \/ pay[i] = "RELEASED"
        BY <1>2, <4>1, <4>2
      <4>4. CashRowOK(tbl, pay, i)
        BY <4>1, ReadyIs DEF CashOK
      <4>5. tbl[i].amount = IF rest < 0 THEN -rest ELSE rest
        BY <1>1, <4>4 DEF CashRowOK, Leaves, Remaining
      <4>6. (pay[i] = "CHARGED" => rest > 0) /\ (pay[i] = "RELEASED" => rest < 0)
        BY <1>1, <4>4 DEF CashRowOK, CashDue, CashOwed, Remaining
      <4>7. \A k \in Ids : LiveRow(tbl, k, "CASH") => k = i
        BY <4>1, LiveUnique, ReadyIs DEF Sound
      <4>8. CASE pay[i] = "CHARGED"
        <5>1. AmountIn("CHARGED", "CASH") = tbl[i].amount /\ AmountIn("RELEASED", "CASH") = 0
          BY <4>1, <4>7, <4>8, AmountInIs
        <5>. QED
          BY <1>1, <4>5, <4>6, <4>8, <5>1 DEF Shown
      <4>9. CASE pay[i] = "RELEASED"
        <5>1. AmountIn("RELEASED", "CASH") = tbl[i].amount /\ AmountIn("CHARGED", "CASH") = 0
          BY <4>1, <4>7, <4>9, AmountInIs
        <5>. QED
          BY <1>1, <4>5, <4>6, <4>9, <5>1 DEF Shown
      <4>. QED
        BY <4>3, <4>8, <4>9
    <3>. QED
      BY <3>1, <3>2
  <2>. QED
    BY <1>1, <1>3, <1>5, <2>1, <2>2 DEF CompletedAmounts
<1>. QED
  BY <1>1, <1>4, <1>5 DEF SettledUp

\* A completion that succeeded has made the payer pay the final total, up to what isAlmostZero
\* lets pass, for every amount the client, the wallet and SADAD may have.
THEOREM SettledHolds == CheckoutAssumption /\ TSpec => []SettledAmount
<1>. SUFFICES ASSUME CheckoutAssumption PROVE TSpec => []SettledAmount
  OBVIOUS
<1>0. Serial
  BY DEF CheckoutAssumption
<1>1. IInv /\ SInv /\ CInv => SettledAmount
  <2>. SUFFICES ASSUME Ready, NEW p \in Procs, Succeeded(p, "complete")
                PROVE  AlmostZero(Paid - job[p].total)
    BY DEF SettledAmount, Succeeded, Ready
  <2>. DEFINE j == job[p]
              rest == Remaining(j, tbl)
              w == AmountOf(tbl, "WALLET")
  <2>1. CompletedAmounts(j) /\ w \in Nat /\ j.total \in Nat /\ rest = j.total - w /\ Tolerance \in Nat
        /\ Tolerance > 0
    BY CompletedPays, AmountOfNat, ReadyIs, WorkerKnows, BoundsAreNatural DEF Ready, Sound, Remaining
  <2>2. Paid = w + AmountIn("CHARGED", "CASH") + AmountIn("CHARGED", "SADAD")
                 - AmountIn("RELEASED", "CASH")
    BY <2>1, PaidSplits DEF CompletedAmounts
  <2>3. AmountIn("CHARGED", "SADAD") \in Int
    BY AmountInIs
  <2>4. CASE AmountIn("CHARGED", "SADAD") = 0 /\ AmountIn("CHARGED", "CASH") = Shown(rest)
             /\ AmountIn("RELEASED", "CASH") = Shown(-rest)
    <3>1. Shown(rest) - Shown(-rest) = rest /\ Shown(rest) \in Int /\ Shown(-rest) \in Int
      BY <2>1 DEF Shown
    <3>2. Paid - j.total = 0
      BY <2>1, <2>2, <2>4, <3>1
    <3>. QED
      BY <2>1, <3>2 DEF AlmostZero
  <2>5. CASE AlmostZero(rest - AmountIn("CHARGED", "SADAD")) /\ AmountIn("CHARGED", "CASH") = 0
             /\ AmountIn("RELEASED", "CASH") = 0
    <3>1. Paid - j.total = -(rest - AmountIn("CHARGED", "SADAD"))
      BY <2>1, <2>2, <2>3, <2>5
    <3>. QED
      BY <2>1, <2>3, <2>5, <3>1 DEF AlmostZero
  <2>. QED
    BY <2>1, <2>4, <2>5 DEF CompletedAmounts
<1>. QED
  BY <1>0, <1>1, CheckoutInvariantHolds, InvariantHolds, SerialInvariantHolds, PTL


-----------------------------------------------------------------------------
\* What clients are told

\* An active row is the row of its key.
LEMMA ActiveIs ==
  ASSUME Ready, NEW p \in Procs, NEW m, NEW s \in FindActive(m)
  PROVE  /\ Exists(s) => \E i \in Ids : /\ LiveRow(tbl, i, m) /\ tbl[i].state \in ActiveStates
                                        /\ s.amount = tbl[i].amount
         /\ ~Exists(s) => /\ s.amount = 0
                          /\ \A i \in Ids : LiveRow(tbl, i, m) => tbl[i].state \notin ActiveStates
<1>. DEFINE active == {i \in Ids : tbl[i].pm = m /\ tbl[i].state \in ActiveStates}
<1>1. CASE active = {}
  BY <1>1 DEF FindActive, NoSnap, Exists, LiveRow
<1>2. CASE active # {}
  <2>1. PICK i \in active : s = SnapOf(i)
    BY <1>2 DEF FindActive
  <2>2. tbl[i].state \notin {"ABSENT", "ROLLBACKED"}
    BY <2>1 DEF ActiveStates
  <2>3. LiveRow(tbl, i, m)
    BY <2>1, <2>2, ReadyIs DEF LiveRow, IsLive, Sound, Agreed
  <2>. QED
    BY <2>1, <2>2, <2>3 DEF SnapOf, Exists
<1>. QED
  BY <1>1, <1>2

\* The amount of an active row, when the row of the key is active whenever there is one.
LEMMA ActiveAmount ==
  ASSUME Ready, NEW p \in Procs, NEW m, NEW s \in FindActive(m), Stands(tbl, m, ActiveStates)
  PROVE  s.amount = AmountOf(tbl, m) /\ (~Exists(s) => NoLive(tbl, m))
<1>1. CASE Exists(s)
  BY <1>1, ActiveIs, AmountOfIs, ReadyIs DEF Sound
<1>2. CASE ~Exists(s)
  <2>1. NoLive(tbl, m) /\ s.amount = 0
    BY <1>2, ActiveIs DEF NoLive, Stands
  <2>. QED
    BY <1>2, <2>1, AmountOfNone
<1>. QED
  BY <1>1, <1>2

\* The rows a breakdown is made of.
LEMMA RowsShown ==
  ASSUME NEW rows \in ActiveRows, NEW total
  PROVE  LET shown == OrderSubtransactions(rows, total)
         IN  /\ \A m \in Methods : rows[m] \in FindActive(m)
             /\ shown["WALLET"] = rows["WALLET"] /\ shown["SADAD"] = rows["SADAD"]
             /\ shown["CASH"] = CashShown(rows, total)
  BY DEF ActiveRows, OrderSubtransactions, Methods

\* The cash of a completed order.
LEMMA CompletedCash ==
  ASSUME Ready, NEW p \in Procs, Succeeded(p, "complete"), NEW i \in Ids, LiveRow(tbl, i, "CASH")
  PROVE  LET rest == Remaining(job[p], tbl) IN tbl[i].amount = IF rest < 0 THEN -rest ELSE rest
<1>1. CashRowOK(tbl, pay, i) /\ job[p].total \in FinalTotals
  BY ReadyIs DEF CashOK, Succeeded, CompletionOK
<1>. QED
  BY <1>1 DEF CashRowOK, Leaves, Remaining

\* The breakdown a completion answers with shows of each method what the payer was charged, for
\* every order, total, balance and fault.
THEOREM BreakdownTellsHolds == CheckoutAssumption /\ TSpec => []BreakdownTellsCharges
<1>. SUFFICES ASSUME CheckoutAssumption PROVE TSpec => []BreakdownTellsCharges
  OBVIOUS
<1>0. Serial
  BY DEF CheckoutAssumption
<1>1. IInv /\ SInv /\ CInv => BreakdownTellsCharges
  <2>. SUFFICES ASSUME Ready, NEW p \in Procs, Succeeded(p, "complete"),
                       NEW rows \in ActiveRows, NEW m \in Methods
                PROVE  AmountShown(OrderSubtransactions(rows, job[p].total), m)
                         = AmountIn("CHARGED", m)
    BY DEF BreakdownTellsCharges, Ready
  <2>. DEFINE j == job[p]
              rest == Remaining(j, tbl)
              shown == OrderSubtransactions(rows, j.total)
  <2>1. /\ rows["WALLET"] \in FindActive("WALLET") /\ rows["CASH"] \in FindActive("CASH")
        /\ rows["SADAD"] \in FindActive("SADAD")
        /\ shown["WALLET"] = rows["WALLET"] /\ shown["SADAD"] = rows["SADAD"]
        /\ shown["CASH"] = CashShown(rows, j.total)
    BY RowsShown DEF Methods
  <2>2. CompletedAmounts(j) /\ SettledUp(j, tbl, pay) /\ rest \in Int
    BY CompletedPays
  <2>3. /\ rows["WALLET"].amount = AmountOf(tbl, "WALLET")
        /\ rows["CASH"].amount = AmountOf(tbl, "CASH")
        /\ ~Exists(rows["CASH"]) => NoLive(tbl, "CASH")
    <3>1. Stands(tbl, "WALLET", ActiveStates) /\ Stands(tbl, "CASH", ActiveStates)
      BY <2>2 DEF SettledUp, Stands, ActiveStates
    <3>. QED
      BY <2>1, <3>1, ActiveAmount
  <2>4. /\ AmountOf(tbl, "WALLET") \in Nat /\ AmountOf(tbl, "CASH") \in Nat
        /\ rest = j.total - rows["WALLET"].amount
    BY <2>3, AmountOfNat, ReadyIs DEF Sound, Remaining
  <2>5. AmountShown(shown, "WALLET") = AmountIn("CHARGED", "WALLET")
    BY <2>1, <2>2, <2>3, <2>4 DEF AmountShown, Shown, CompletedAmounts
  <2>6. CASE PaidBySadad(j, tbl) /\ AmountIn("CHARGED", "CASH") = 0
    <3>1. PICK i \in Ids : LiveRow(tbl, i, "SADAD") /\ tbl[i].state = "COMPLETED"
      BY <2>6 DEF PaidBySadad
    <3>2. Exists(rows["SADAD"]) /\ rows["SADAD"].amount = tbl[i].amount
      <4>1. Exists(rows["SADAD"])
        BY <2>1, <3>1, ActiveIs DEF ActiveStates
      <4>. QED
        BY <2>1, <3>1, <4>1, ActiveIs, LiveUnique, ReadyIs DEF Sound
    <3>3. pay[i] = "CHARGED"
      <4>1. pay[i] \in Agreeing(tbl[i].pm)[tbl[i].state] /\ tbl[i].pm = "SADAD"
        BY <3>1, ReadyIs DEF Sound, Agreed, LiveRow
      <4>2. pay[i] \in {"CHARGED", "RELEASED"}
        BY <3>1, <4>1 DEF Agreeing, States
      <4>. QED
        BY <4>1, <4>2, ChargedIsLive
    <3>4. tbl[i].amount \in Nat
      BY ReadyIs DEF Sound, Row
    <3>5. AmountShown(shown, "SADAD") = AmountIn("CHARGED", "SADAD")
      BY <2>1, <3>1, <3>2, <3>3, <3>4, AmountInIs DEF AmountShown, Shown
    <3>6. AmountShown(shown, "CASH") = AmountIn("CHARGED", "CASH")
      BY <2>1, <2>3, <2>6, <3>2, AmountOfNone DEF AmountShown, Shown, CashShown, PaidBySadad
    <3>. QED
      BY <2>5, <3>5, <3>6 DEF Methods
  <2>7. CASE SadadGone(tbl, pay) /\ AmountIn("CHARGED", "SADAD") = 0
             /\ AmountIn("CHARGED", "CASH") = Shown(rest)
    <3>1. ~Exists(rows["SADAD"]) /\ rows["SADAD"].amount = 0
      <4>1. ASSUME NEW i \in Ids, LiveRow(tbl, i, "SADAD"), tbl[i].state \in ActiveStates
            PROVE  FALSE
        <5>1. tbl[i].live /\ tbl[i].state \notin {"ABSENT", "HOLD_PROCESSING"}
          BY <4>1, ReadyIs DEF LiveRow, IsLive, ActiveStates, Sound
        <5>2. tbl[i].amount > 0
          BY <5>1, ReadyIs, SoundAmount
        <5>. QED
          BY <2>7, <4>1, <5>2 DEF SadadGone, ActiveStates
      <4>. QED
        BY <2>1, <4>1, ActiveIs DEF LiveRow
    <3>2. AmountShown(shown, "SADAD") = AmountIn("CHARGED", "SADAD")
      BY <2>1, <2>7, <3>1 DEF AmountShown, Shown
    <3>3. AmountShown(shown, "CASH") = Shown(rest)
      <4>1. CASE rest < 0
        BY <2>1, <2>4, <3>1, <4>1 DEF AmountShown, CashShown, NoSnap, Shown
      <4>2. CASE ~(rest < 0) /\ Exists(rows["CASH"])
        <5>1. PICK i \in Ids : LiveRow(tbl, i, "CASH") /\ rows["CASH"].amount = tbl[i].amount
          BY <2>1, <4>2, ActiveIs
        <5>2. tbl[i].amount = rest
          BY <2>2, <4>2, <5>1, CompletedCash
        <5>. QED
          BY <2>1, <2>4, <3>1, <4>2, <5>1, <5>2 DEF AmountShown, CashShown
      <4>3. CASE ~(rest < 0) /\ ~Exists(rows["CASH"])
        BY <2>1, <2>4, <3>1, <4>3 DEF AmountShown, CashShown, CashToCome, NoSnap
      <4>. QED
        BY <4>1, <4>2, <4>3
    <3>. QED
      BY <2>5, <2>7, <3>2, <3>3 DEF Methods
  <2>. QED
    BY <2>2, <2>6, <2>7 DEF CompletedAmounts
<1>. QED
  BY <1>0, <1>1, CheckoutInvariantHolds, InvariantHolds, SerialInvariantHolds, PTL

\* The cash the rider is told to collect is the cash that a completion with the same total
\* charges, of whatever the wallet held.
THEOREM CashPreviewIsKept == CheckoutAssumption /\ TSpec => []CashPreviewHolds
<1>. SUFFICES ASSUME CheckoutAssumption PROVE TSpec => []CashPreviewHolds
  OBVIOUS
<1>0. Serial
  BY DEF CheckoutAssumption
<1>1. IInv /\ SInv /\ CInv => CashPreviewHolds
  <2>. SUFFICES ASSUME Ready, NEW p \in Procs, Succeeded(p, "complete"),
                       FindActive("SADAD") = {NoSnap}, NEW wallet \in FindByIdempKey("WALLET")
                PROVE  CashAmount(wallet, job[p].total) =
                         [cash   |-> AmountIn("CHARGED", "CASH"),
                          wallet |-> AmountIn("CHARGED", "WALLET") - AmountIn("RELEASED", "CASH")]
    BY DEF CashPreviewHolds, Ready
  <2>. DEFINE j == job[p]
              rest == Remaining(j, tbl)
              w == AmountOf(tbl, "WALLET")
  <2>1. CompletedAmounts(j) /\ rest \in Int
    BY CompletedPays
  <2>2. ~PaidBySadad(j, tbl)
    <3>1. NoSnap \in FindActive("SADAD") /\ ~Exists(NoSnap)
      BY DEF NoSnap, Exists
    <3>2. \A i \in Ids : LiveRow(tbl, i, "SADAD") => tbl[i].state \notin ActiveStates
      BY <3>1, ActiveIs
    <3>. QED
      BY <3>2 DEF PaidBySadad, ActiveStates
  <2>3. /\ AmountIn("CHARGED", "WALLET") = w
        /\ AmountIn("CHARGED", "CASH") = Shown(rest) /\ AmountIn("RELEASED", "CASH") = Shown(-rest)
    BY <2>1, <2>2 DEF CompletedAmounts
  <2>4. wallet.amount = w
    BY FoundRow, AmountOfIs, AmountOfNone, ReadyIs DEF Sound
  <2>5. w \in Nat /\ j.total \in Nat /\ rest = j.total - w
    BY AmountOfNat, ReadyIs, WorkerKnows DEF Sound, Remaining, Ready
  <2>6. (IF j.total <= w THEN j.total ELSE w) = w - Shown(-rest)
    BY <2>5 DEF Shown
  <2>. HIDE DEF w, rest
  <2>. QED
    BY <2>3, <2>4, <2>5, <2>6 DEF CashAmount
<1>. QED
  BY <1>0, <1>1, CheckoutInvariantHolds, InvariantHolds, SerialInvariantHolds, PTL

LEMMA SumOfMethods ==
  ASSUME NEW f, \A m \in Methods : f[m] \in Int
  PROVE  SumFunctionOnSet(f, Methods) = f["CASH"] + f["WALLET"] + f["SADAD"]
<1>1. /\ Methods \ {"CASH"} = {"WALLET", "SADAD"}
      /\ {"WALLET", "SADAD"} \ {"WALLET"} = {"SADAD"}
      /\ {"SADAD"} \ {"SADAD"} = {}
  BY DEF Methods
<1>2. IsFiniteSet(Methods) /\ IsFiniteSet({"WALLET", "SADAD"}) /\ IsFiniteSet({"SADAD"})
      /\ IsFiniteSet({})
  <2>1. IsFiniteSet({"SADAD"}) /\ IsFiniteSet({})
    BY FS_EmptySet, FS_Singleton
  <2>2. IsFiniteSet({"SADAD"} \cup {"WALLET"})
    BY <2>1, FS_AddElement
  <2>3. IsFiniteSet({"SADAD"} \cup {"WALLET"} \cup {"CASH"})
    BY <2>2, FS_AddElement
  <2>4. {"SADAD"} \cup {"WALLET"} = {"WALLET", "SADAD"}
        /\ {"SADAD"} \cup {"WALLET"} \cup {"CASH"} = Methods
    BY DEF Methods
  <2>. QED
    BY <2>1, <2>2, <2>3, <2>4
<1>3. f["CASH"] \in Int /\ f["WALLET"] \in Int /\ f["SADAD"] \in Int
  BY DEF Methods
<1>4. SumFunctionOnSet(f, Methods) = f["CASH"] + SumFunctionOnSet(f, {"WALLET", "SADAD"})
  <2>1. "CASH" \in Methods
    BY DEF Methods
  <2>. QED
    BY <1>1, <1>2, <2>1, SumRemove
<1>5. SumFunctionOnSet(f, {"WALLET", "SADAD"}) = f["WALLET"] + SumFunctionOnSet(f, {"SADAD"})
  <2>1. "WALLET" \in {"WALLET", "SADAD"} /\ \A m \in {"WALLET", "SADAD"} : f[m] \in Int
    BY <1>3
  <2>. QED
    BY <1>1, <1>2, <2>1, SumRemove
<1>6. SumFunctionOnSet(f, {"SADAD"}) = f["SADAD"]
  <2>1. "SADAD" \in {"SADAD"} /\ \A m \in {"SADAD"} : f[m] \in Int
    BY <1>3
  <2>2. SumFunctionOnSet(f, {"SADAD"}) = f["SADAD"] + SumFunctionOnSet(f, {})
    BY <1>1, <1>2, <2>1, SumRemove
  <2>3. SumFunctionOnSet(f, {}) = 0
    BY <1>2, SumUnfolds
  <2>. QED
    BY <1>3, <2>2, <2>3
<1>. QED
  BY <1>3, <1>4, <1>5, <1>6

\* The breakdown that a created transaction is answered with adds up, whatever was on the order
\* before: to the total, or to what the wallet holds when that is more.
THEOREM BreakdownSums == CheckoutAssumption /\ TSpec => []BreakdownAddsUp
<1>. SUFFICES ASSUME CheckoutAssumption PROVE TSpec => []BreakdownAddsUp
  OBVIOUS
<1>0. Serial
  BY DEF CheckoutAssumption
<1>1. IInv /\ SInv /\ CInv => BreakdownAddsUp
  <2>. SUFFICES ASSUME Ready, NEW p \in Procs, Succeeded(p, "create"), NEW rows \in ActiveRows
                PROVE  LET shown == OrderSubtransactions(rows, job[p].total)
                           wallet == AmountShown(shown, "WALLET")
                       IN  SumFunction([m \in Methods |-> AmountShown(shown, m)])
                             = IF job[p].total < wallet THEN wallet ELSE job[p].total
    BY DEF BreakdownAddsUp, Ready
  <2>. DEFINE total == job[p].total
              shown == OrderSubtransactions(rows, total)
              f == [m \in Methods |-> AmountShown(shown, m)]
              w == rows["WALLET"].amount
  <2>1. /\ rows["WALLET"] \in FindActive("WALLET") /\ rows["CASH"] \in FindActive("CASH")
        /\ rows["SADAD"] \in FindActive("SADAD")
        /\ shown["WALLET"] = rows["WALLET"] /\ shown["SADAD"] = rows["SADAD"]
        /\ shown["CASH"] = CashShown(rows, total)
    BY RowsShown DEF Methods
  <2>2. NoLive(tbl, "CASH") /\ SadadCovers(tbl, total) /\ total \in Nat
    BY ReadyIs, WorkerKnows DEF Succeeded, NoCashYet, CreationOK, Ready
  <2>3. ASSUME NEW m, NEW s \in FindActive(m)
        PROVE  s.amount \in Nat
    BY <2>3, ActiveIs, ReadyIs DEF Sound, Row
  <2>4. w \in Nat /\ rows["SADAD"].amount \in Nat
    BY <2>1, <2>3
  <2>5. ~Exists(rows["CASH"]) /\ rows["CASH"].amount = 0
    BY <2>1, <2>2, ActiveIs DEF NoLive
  <2>6. f["WALLET"] = w /\ f["SADAD"] = rows["SADAD"].amount
        /\ f["CASH"] = Shown(CashShown(rows, total).amount)
    BY <2>1, <2>4 DEF AmountShown, Shown, Methods
  <2>7. SumFunction(f) = SumFunctionOnSet(f, Methods) /\ AmountShown(shown, "WALLET") = f["WALLET"]
    BY DEF SumFunction, Methods
  <2>8. CASE Exists(rows["SADAD"])
    <3>1. PICK i \in Ids : LiveRow(tbl, i, "SADAD") /\ tbl[i].state \in ActiveStates
                           /\ rows["SADAD"].amount = tbl[i].amount
      BY <2>1, <2>8, ActiveIs
    <3>2. SadadRest(tbl, total, tbl[i].amount)
      BY <2>2, <3>1 DEF SadadCovers, ActiveStates
    <3>3. w = AmountOf(tbl, "WALLET")
      <4>1. ASSUME NEW k \in Ids, LiveRow(tbl, k, "WALLET")
            PROVE  w = tbl[k].amount
        <5>1. CASE Exists(rows["WALLET"])
          BY <2>1, <4>1, <5>1, ActiveIs, LiveUnique, ReadyIs DEF Sound
        <5>2. CASE ~Exists(rows["WALLET"])
          <6>1. w = 0 /\ tbl[k].state \notin ActiveStates
            BY <2>1, <4>1, <5>2, ActiveIs
          <6>2. ~(tbl[k].amount > 0)
            BY <3>2, <4>1, <6>1 DEF SadadRest, WalletShown, ShownHeld, ActiveStates
          <6>3. tbl[k].amount \in Nat
            BY ReadyIs DEF Sound, Row
          <6>. QED
            BY <6>1, <6>2, <6>3
        <5>. QED
          BY <5>1, <5>2
      <4>2. CASE NoLive(tbl, "WALLET")
        <5>1. ~Exists(rows["WALLET"])
          BY <2>1, <4>2, ActiveIs DEF NoLive
        <5>. QED
          BY <2>1, <4>2, <5>1, ActiveIs, AmountOfNone
      <4>3. CASE ~NoLive(tbl, "WALLET")
        <5>1. PICK k \in Ids : LiveRow(tbl, k, "WALLET")
          BY <4>3 DEF NoLive
        <5>. QED
          BY <4>1, <5>1, AmountOfIs, ReadyIs DEF Sound
      <4>. QED
        BY <4>2, <4>3
    <3>4. f["SADAD"] = total - w /\ f["CASH"] = 0
      BY <2>5, <2>6, <2>8, <3>1, <3>2, <3>3 DEF SadadRest, CashShown, Shown
    <3>5. f["SADAD"] \in Nat
      BY <2>4, <2>6
    <3>. HIDE DEF f, w, shown, total
    <3>6. SumFunctionOnSet(f, Methods) = total
      <4>1. \A m \in Methods : f[m] \in Int
        BY <2>4, <2>6, <3>4, <3>5 DEF Methods
      <4>2. SumFunctionOnSet(f, Methods) = f["CASH"] + f["WALLET"] + f["SADAD"]
        BY <4>1, SumOfMethods
      <4>. QED
        BY <2>2, <2>4, <2>6, <3>4, <4>2
    <3>7. ~(total < w)
      BY <2>2, <2>4, <3>4, <3>5
    <3>. QED
      BY <2>6, <2>7, <3>6, <3>7 DEF f, w, shown, total
  <2>9. CASE ~Exists(rows["SADAD"])
    <3>1. rows["SADAD"].amount = 0
      BY <2>1, <2>9, ActiveIs
    <3>2. f["CASH"] = IF total < w THEN 0 ELSE total - w
      BY <2>2, <2>4, <2>5, <2>6, <2>9 DEF CashShown, CashToCome, NoSnap, Shown
    <3>. HIDE DEF f, w, shown, total
    <3>3. SumFunctionOnSet(f, Methods) = IF total < w THEN w ELSE total
      <4>1. \A m \in Methods : f[m] \in Int
        BY <2>2, <2>4, <2>6, <3>1, <3>2 DEF Methods
      <4>2. SumFunctionOnSet(f, Methods) = f["CASH"] + f["WALLET"] + f["SADAD"]
        BY <4>1, SumOfMethods
      <4>. QED
        BY <2>2, <2>4, <2>6, <3>1, <3>2, <4>2
    <3>. QED
      BY <2>6, <2>7, <3>3 DEF f, w, shown, total
  <2>. QED
    BY <2>8, <2>9
<1>. QED
  BY <1>0, <1>1, CheckoutInvariantHolds, InvariantHolds, SerialInvariantHolds, PTL

-----------------------------------------------------------------------------
\* Facts about the views, whatever the table

\* The rider's cash and the wallet's part add up to the total (calculateCashAmount).
THEOREM CashAmountAddsUp ==
  ASSUME NEW wallet \in Snap, NEW total \in Nat
  PROVE  LET c == CashAmount(wallet, total) IN c.wallet + c.cash = total
  BY DEF CashAmount, Shown, Snap

\* The checkout page promises what createTransaction then does: with a wallet that is not
\* overdrawn, calculateBreakdown and resolvePMAmount take the same amount from it.
THEOREM PreviewIsKept ==
  ASSUME NEW total \in Nat, NEW balance \in Nat
  PROVE  Preview("COD_WALLET", total, balance) =
           [wallet |-> Coverable(balance, total), final |-> total - Coverable(balance, total)]
  BY DEF Preview, Coverable

\* Of an overdrawn wallet the page adds the debt to the amount to pay, where createTransaction
\* takes nothing from it.
THEOREM OverdrawnPreview ==
  ASSUME NEW total \in Nat, NEW balance \in Int, balance < 0
  PROVE  /\ Preview("COD_WALLET", total, balance).final = total - balance
         /\ Coverable(balance, total) = 0
  BY DEF Preview, Coverable

\* A breakdown always reads as a payment method: something is shown whatever rows there are.
THEOREM BreakdownHasMethod ==
  ASSUME NEW rows \in [Methods -> Snap], NEW total \in Nat,
         \A m \in Methods : ~Exists(rows[m]) => rows[m].amount = 0
  PROVE  OrderPaymentMethod(OrderSubtransactions(rows, total)) \in OrderMethods
<1> DEFINE shown == OrderSubtransactions(rows, total)
<1>1. /\ rows["WALLET"] \in Snap
      /\ {"CASH", "WALLET", "SADAD"} = Methods
  BY DEF Methods
<1>2. shown["WALLET"] = rows["WALLET"] /\ shown["SADAD"] = rows["SADAD"]
  BY <1>1 DEF OrderSubtransactions
<1>3. shown["CASH"] = CashShown(rows, total)
  BY <1>1 DEF OrderSubtransactions
<1>4. CASE Exists(rows["WALLET"]) \/ Exists(rows["SADAD"])
  BY <1>2, <1>4 DEF OrderPaymentMethod, OrderMethods
<1>5. CASE ~Exists(rows["WALLET"]) /\ ~Exists(rows["SADAD"])
  <2>1. rows["WALLET"].amount = 0
    BY <1>1, <1>5
  <2>2. ~(total - rows["WALLET"].amount < 0)
    BY <2>1
  <2>3. Exists(CashToCome(total - rows["WALLET"].amount))
    BY DEF Exists, CashToCome, NoSnap
  <2>4. Exists(shown["CASH"])
    BY <1>3, <1>5, <2>2, <2>3 DEF CashShown
  <2> QED
    BY <1>2, <1>5, <2>4 DEF OrderPaymentMethod, OrderMethods
<1> QED
  BY <1>4, <1>5
-----------------------------------------------------------------------------
\* Rollbacks are what a rollback does

\* A job of a kind, wherever it stands.
OfKind(j, kind) == "kind" \in DOMAIN j /\ j.kind = kind

LEMMA GoesOfKind ==
  ASSUME NEW j, NEW kind, OfKind(j, kind)
  PROVE  /\ \A label : OfKind(Go(j, label), kind)
         /\ \A s : OfKind(See(j, s), kind)
         /\ OfKind(Breakdown(j), kind) /\ OfKind(ToCashRow(j), kind)
         /\ \A outcome : OfKind(Rest(j, outcome), kind)
<1>1. \A outcome : OfKind(Rest(j, outcome), kind)
  BY DEF OfKind, Rest, IdleJob
<1>2. \A label : OfKind([j EXCEPT !.pc = label], kind)
  BY DEF OfKind
<1>3. OfKind(Breakdown(j), kind) /\ OfKind(ToCashRow(j), kind)
  BY DEF OfKind, Breakdown, ToCashRow
<1>4. \A s : OfKind(See(j, s), kind)
  BY DEF OfKind, See
<1>. QED
  BY <1>1, <1>2, <1>3, <1>4 DEF Go

LEMMA CreatesOfKind ==
  ASSUME NEW j, NEW kind, OfKind(j, kind)
  PROVE  OfKind(NextMethod(j), kind) /\ OfKind(Created(j), kind)
<1>1. ASSUME NEW k, OfKind(k, kind)
      PROVE  OfKind(NextMethod(k), kind)
  <2>1. OfKind([k EXCEPT !.pc = "resolve", !.on = "WALLET"], kind)
    BY <1>1 DEF OfKind
  <2>2. OfKind([k EXCEPT !.pc = "cancel_read", !.on = "SADAD"], kind)
    BY <1>1 DEF OfKind
  <2>. QED
    BY <1>1, <2>1, <2>2, GoesOfKind DEF NextMethod
<1>2. OfKind([j EXCEPT !.todo = Tail(@)], kind)
  BY DEF OfKind
<1>. QED
  BY <1>1, <1>2 DEF Created

LEMMA SettlesOfKind ==
  ASSUME NEW j, NEW kind, OfKind(j, kind)
  PROVE  /\ OfKind(ToCash(j), kind) /\ OfKind(ToWallet(j), kind)
         /\ OfKind(SadadSettled(j), kind) /\ OfKind(ToSadad(j), kind)
<1>1. ASSUME NEW k, OfKind(k, kind)
      PROVE  OfKind(ToCash(k), kind)
  <2>1. OfKind([k EXCEPT !.on = "CASH"], kind)
    BY <1>1 DEF OfKind
  <2>. QED
    BY <2>1, GoesOfKind DEF ToCash
<1>2. OfKind(ToWallet(j), kind)
  <2>1. OfKind([j EXCEPT !.on = "WALLET"], kind)
    BY DEF OfKind
  <2>. QED
    BY <1>1, <2>1, GoesOfKind DEF ToWallet
<1>3. ASSUME NEW k, OfKind(k, kind)
      PROVE  OfKind(SadadSettled(k), kind)
  <2>1. OfKind([k EXCEPT !.amount = 0], kind)
    BY <1>3 DEF OfKind
  <2>. QED
    BY <2>1, GoesOfKind DEF SadadSettled
<1>4. OfKind(ToSadad(j), kind)
  <2>1. OfKind([j EXCEPT !.on = "SADAD", !.amount = @ - j.snap["SADAD"].amount], kind)
    BY DEF OfKind
  <2>. QED
    BY <1>3, <2>1, GoesOfKind DEF ToSadad
<1>. QED
  BY <1>1, <1>2, <1>3, <1>4

LEMMA EndsOfKind ==
  ASSUME NEW j, NEW kind, OfKind(j, kind)
  PROVE  /\ OfKind(Polled(j), kind) /\ OfKind(Cancelled(j), kind)
         /\ j.on \in Methods => OfKind(Settled(j), kind)
         /\ \A state : OfKind(AfterHold(j, state), kind)
         /\ OfKind(ToHold(j), kind)
<1>1. OfKind(Polled(j), kind)
  <2>1. OfKind([j EXCEPT !.todo = <<>>], kind)
    BY DEF OfKind
  <2>. QED
    BY <2>1, GoesOfKind, SettlesOfKind DEF Polled
<1>2. OfKind(Cancelled(j), kind)
  <2>1. /\ OfKind([j EXCEPT !.pc = "sadad_amount"], kind)
        /\ OfKind([j EXCEPT !.pc = "create_read", !.on = "CASH", !.amount = 0, !.scrap = FALSE],
                  kind)
    BY DEF OfKind
  <2>2. OfKind([j EXCEPT !.pc = "cancel_read", !.todo = Tail(@), !.on = Head(Tail(j.todo))], kind)
    BY DEF OfKind
  <2>. QED
    BY <2>1, <2>2, GoesOfKind DEF Cancelled
<1>3. j.on \in Methods => OfKind(Settled(j), kind)
  BY GoesOfKind, SettlesOfKind DEF Settled, Methods
<1>4. ASSUME NEW state
      PROVE  OfKind(AfterHold(j, state), kind)
  <2>1. OfKind([j EXCEPT !.snap[j.on].state = state], kind)
    BY DEF OfKind
  <2>. QED
    BY <2>1, CreatesOfKind, SettlesOfKind DEF AfterHold
<1>5. OfKind(ToHold(j), kind)
  <2>1. OfKind([j EXCEPT !.pc = "hold"], kind)
    BY DEF OfKind
  <2>. QED
    BY <1>4, <2>1 DEF ToHold
<1>. QED
  BY <1>1, <1>2, <1>3, <1>4, <1>5

-----------------------------------------------------------------------------
\* Steps that no rollback takes

\* What is known before a step.
BReady == RefundAssumption /\ IInv /\ SInv /\ CInv /\ BInv

LEMMA BReadyIs ==
  ASSUME BReady
  PROVE  /\ Ready /\ Faults = {} /\ late = {} /\ 0 \notin FinalTotals
         /\ ReleasedOK(tbl, pay)
         /\ \A p \in Procs : RefundOK(job[p], tbl, pay, adjusted)
  BY DEF BReady, Ready, RefundAssumption, BInv

\* A worker that is not rolling back, unless about to begin.
Aside(j) ==
  j.kind = "rollback" => j.pc \in RestLabels \/ (j.pc = "rollback_read" /\ j.amount = 0)

\* A step that rolls nothing back, nor says so, and pays cash out once the wallet is charged.
Quiet(p) ==
  /\ late' = {} /\ adjusted' = adjusted
  /\ \A i \in Ids : pay'[i] \in Undone => pay[i] \in Undone
  /\ \A i \in Ids : pay'[i] = "RELEASED" =>
       pay[i] = "RELEASED" \/ (Stands(tbl, "WALLET", {"COMPLETED"}) /\ FinalTotals # {})
  /\ \A i \in Ids : tbl'[i].state = "ROLLBACK_PROCESSING" => tbl[i].state = "ROLLBACK_PROCESSING"
  /\ Aside(job'[p])

\* A busy worker that is not at a label of a rollback serves no rollback.
LEMMA ServesOther ==
  ASSUME BReady, NEW p \in Procs, job[p].pc \in BusyLabels \ RollbackLabels
  PROVE  OfKind(job[p], job[p].kind) /\ job[p].kind # "rollback"
<1>1. job[p] \in Job /\ job[p].pc \notin RestLabels
  BY WorkerKnows DEF BReady, BusyLabels, RestLabels
<1>. QED
  BY <1>1, BReadyIs DEF OfKind, Job, RefundOK, RollbackKind

LEMMA BecomesAside ==
  ASSUME BReady, NEW p \in Procs, NEW j, Become(p, j), NEW kind, OfKind(j, kind), kind # "rollback"
  PROVE  Aside(job'[p])
  BY DEF BReady, Become, IInv, OfKind, Aside

LEMMA ReadsQuietly ==
  ASSUME BReady, NEW p \in Procs, UNCHANGED <<tbl, pay, adjusted, late>>, Aside(job'[p])
  PROVE  Quiet(p)
  BY BReadyIs DEF Quiet

LEMMA ReadsAreQuiet ==
  ASSUME BReady, NEW p \in Procs,
         \/ ResolveWallet(p) \/ ResolveSadad(p) \/ CreateRead(p) \/ CancelRead(p) \/ CancelKey(p)
         \/ WalletRead(p) \/ CashRead(p) \/ Poll(p) \/ Status(p)
  PROVE  Quiet(p)
<1>. DEFINE j == job[p]
            kind == j.kind
<1>1. /\ j.pc \in BusyLabels \ RollbackLabels /\ UNCHANGED <<tbl, pay, adjusted, late>>
  BY DEF ResolveWallet, ResolveSadad, CreateRead, CancelRead, CancelKey, WalletRead, CashRead, Poll,
         Status, BusyLabels, RollbackLabels
<1>2. OfKind(j, kind) /\ kind # "rollback"
  BY <1>1, ServesOther
<1>. HIDE DEF kind
<1>3. \E k : Become(p, k) /\ OfKind(k, kind)
  <2>1. CASE ResolveWallet(p)
    <3>1. PICK s \in FindByIdempKey("WALLET") :
            IF Exists(s)
              THEN Become(p, [job[p] EXCEPT !.pc = "create_read", !.amount = s.amount,
                                            !.scrap = FALSE])
              ELSE \E b \in Balances : LET amount == Coverable(b, job[p].total) IN
                     \E scrap \in IF b < 0 THEN {FALSE} ELSE MayBeScrap(amount) :
                       Become(p, [job[p] EXCEPT !.pc = "create_read", !.amount = amount,
                                                !.scrap = scrap])
      BY <2>1 DEF ResolveWallet
    <3>2. \E x, y : Become(p, [job[p] EXCEPT !.pc = "create_read", !.amount = x, !.scrap = y])
      BY <3>1
    <3>3. \A x, y : OfKind([j EXCEPT !.pc = "create_read", !.amount = x, !.scrap = y], kind)
      BY <1>2 DEF OfKind
    <3>. QED
      BY <3>2, <3>3
  <2>2. CASE ResolveSadad(p)
    <3>1. \/ Become(p, Go(j, "failed"))
          \/ \E x, y : Become(p, [job[p] EXCEPT !.pc = "create_read", !.amount = x, !.scrap = y])
      BY <2>2 DEF ResolveSadad
    <3>2. /\ \A x, y : OfKind([j EXCEPT !.pc = "create_read", !.amount = x, !.scrap = y], kind)
          /\ OfKind(Go(j, "failed"), kind)
      BY <1>2, GoesOfKind DEF OfKind
    <3>. QED
      BY <3>1, <3>2
  <2>3. CASE CreateRead(p)
    <3>1. \A s : /\ OfKind(Created(See(j, s)), kind)
                 /\ \A label : OfKind(Go(See(j, s), label), kind)
                 /\ OfKind(ToHold(See(j, s)), kind)
      BY <1>2, GoesOfKind, CreatesOfKind, EndsOfKind
    <3>. QED
      BY <2>3, <3>1 DEF CreateRead
  <2>4. CASE CancelRead(p)
    BY <1>2, <2>4, GoesOfKind, EndsOfKind DEF CancelRead
  <2>5. CASE CancelKey(p)
    <3>1. \A s : OfKind([See(j, s) EXCEPT !.pc = "cancel_write"], kind)
      BY <1>2, GoesOfKind DEF OfKind
    <3>. QED
      BY <2>5, <3>1 DEF CancelKey
  <2>6. CASE WalletRead(p)
    <3>1. \A s, x : OfKind([See(j, s) EXCEPT !.pc = "poll", !.on = "SADAD", !.amount = x], kind)
      BY <1>2, GoesOfKind DEF OfKind
    <3>. QED
      BY <1>2, <2>6, <3>1, GoesOfKind DEF WalletRead
  <2>7. CASE CashRead(p)
    <3>1. \A s : OfKind([See(j, s) EXCEPT !.pc = "cash_insert"], kind)
      BY <1>2, GoesOfKind DEF OfKind
    <3>2. \A s : OfKind(ToHold(See(j, s)), kind)
      BY <1>2, GoesOfKind, EndsOfKind
    <3>. QED
      BY <1>2, <2>7, <3>1, <3>2, GoesOfKind, SettlesOfKind DEF CashRead
  <2>8. CASE Poll(p)
    <3>1. \A s : OfKind([See(j, s) EXCEPT !.pc = "status"], kind)
      BY <1>2, GoesOfKind DEF OfKind
    <3>. QED
      BY <1>2, <2>8, <3>1, GoesOfKind, EndsOfKind DEF Poll
  <2>9. CASE Status(p)
    BY <1>2, <2>9, GoesOfKind, EndsOfKind DEF Status
  <2>. QED
    BY <2>1, <2>2, <2>3, <2>4, <2>5, <2>6, <2>7, <2>8, <2>9
<1>. QED
  BY <1>1, <1>2, <1>3, BecomesAside, ReadsQuietly

\* A write of a state other than ROLLBACK_PROCESSING.
LEMMA WritesQuietly ==
  ASSUME BReady, NEW p \in Procs, UNCHANGED <<pay, adjusted, late>>, Aside(job'[p]),
         NEW i, \A k \in Ids \ {i} : tbl'[k] = tbl[k],
         i \in Ids => tbl'[i].state # "ROLLBACK_PROCESSING"
  PROVE  Quiet(p)
  BY BReadyIs DEF Quiet

LEMMA WritesAreQuiet ==
  ASSUME BReady, NEW p \in Procs,
         \/ HoldSettle(p) \/ PollSettle(p) \/ NotifySettle(p)
         \/ CompleteMark(p) \/ CompleteSettle(p)
         \/ CancelMark(p) \/ CancelRetire(p) \/ CancelWrite(p) \/ Insert(p)
  PROVE  Quiet(p)
<1>. DEFINE j == job[p]
            kind == j.kind
<1>1. j.pc \in BusyLabels \ RollbackLabels /\ UNCHANGED <<pay, adjusted, late>>
  BY DEF HoldSettle, PollSettle, NotifySettle, CompleteMark, CompleteSettle, CancelMark,
         CancelRetire, CancelWrite, Insert, Mark, BusyLabels, RollbackLabels
<1>2. OfKind(j, kind) /\ kind # "rollback"
  BY <1>1, ServesOther
<1>3. tbl \in [Ids -> Row] /\ j.on \in Methods
  BY WorkerKnows DEF BReady, LedgerOK
<1>. HIDE DEF kind
<1>4. ASSUME NEW i, NEW state, SetState(i, state), state # "ROLLBACK_PROCESSING"
      PROVE  /\ \A k \in Ids \ {i} : tbl'[k] = tbl[k]
             /\ i \in Ids => tbl'[i].state # "ROLLBACK_PROCESSING"
  BY <1>3, <1>4 DEF SetState, Row
<1>5. \E k : Become(p, k) /\ OfKind(k, kind)
  <2>1. CASE HoldSettle(p)
    <3>1. OfKind(AfterHold(j, HeldState(j.on)), kind)
      BY <1>2, EndsOfKind
    <3>. QED
      BY <2>1, <3>1 DEF HoldSettle, Mark
  <2>2. CASE PollSettle(p)
    <3>1. OfKind([j EXCEPT !.snap["SADAD"].state = "HOLD"], kind)
      BY <1>2 DEF OfKind
    <3>. QED
      BY <2>2, <3>1, EndsOfKind DEF PollSettle, Mark
  <2>3. CASE NotifySettle(p) \/ CompleteMark(p) \/ CancelMark(p)
    BY <1>2, <2>3, GoesOfKind DEF NotifySettle, CompleteMark, CancelMark, Mark
  <2>4. CASE CompleteSettle(p)
    BY <1>2, <1>3, <2>4, EndsOfKind DEF CompleteSettle, Mark
  <2>5. CASE CancelRetire(p) \/ CancelWrite(p)
    BY <1>2, <2>5, GoesOfKind, EndsOfKind DEF CancelRetire, CancelWrite
  <2>6. CASE Insert(p)
    <3>1. \A s : OfKind(ToHold(See(j, s)), kind)
      BY <1>2, GoesOfKind, EndsOfKind
    <3>. QED
      BY <1>2, <2>6, <3>1, GoesOfKind DEF Insert
  <2>. QED
    BY <2>1, <2>2, <2>3, <2>4, <2>5, <2>6
<1>6. \E i : /\ \A k \in Ids \ {i} : tbl'[k] = tbl[k]
             /\ i \in Ids => tbl'[i].state # "ROLLBACK_PROCESSING" \/ tbl' = tbl
  <2>1. CASE HoldSettle(p)
    <3>1. SetState(Snapped(j).id, HeldState(j.on)) /\ HeldState(j.on) # "ROLLBACK_PROCESSING"
      BY <2>1 DEF HoldSettle, Mark, HeldState
    <3>. QED
      BY <1>4, <3>1
  <2>2. CASE PollSettle(p) \/ NotifySettle(p) \/ CompleteMark(p) \/ CompleteSettle(p) \/ CancelMark(p)
    <3>1. \E state : SetState(Snapped(j).id, state) /\ state # "ROLLBACK_PROCESSING"
      BY <2>2 DEF PollSettle, NotifySettle, CompleteMark, CompleteSettle, CancelMark, Mark
    <3>. QED
      BY <1>4, <3>1
  <2>3. CASE CancelRetire(p)
    BY <1>3, <2>3 DEF CancelRetire, RetireRow, Row
  <2>4. CASE CancelWrite(p)
    BY <1>3, <2>4 DEF CancelWrite, WriteCancelled, Row
  <2>5. CASE Insert(p)
    <3>1. \/ tbl' = tbl
          \/ \E i \in Ids : \E amount : CreateRow(i, j.on, amount, j.currency)
      BY <2>5 DEF Insert
    <3>2. ASSUME NEW i \in Ids, NEW amount, CreateRow(i, j.on, amount, j.currency)
          PROVE  /\ \A k \in Ids \ {i} : tbl'[k] = tbl[k]
                 /\ tbl'[i].state # "ROLLBACK_PROCESSING"
      BY <1>3, <3>2 DEF CreateRow
    <3>. QED
      BY <3>1, <3>2
  <2>. QED
    BY <2>1, <2>2, <2>3, <2>4, <2>5
<1>7. Aside(job'[p])
  BY <1>2, <1>5, BecomesAside
<1>. QED
  BY <1>1, <1>6, <1>7, WritesQuietly, ReadsQuietly

\* Without faults a call is answered or refused, and refused without a trace.
LEMMA CallAnswered ==
  ASSUME BReady, NEW p \in Procs, NEW op, NEW adjust, NEW answered, Call(p, op, adjust, answered)
  PROVE  LET c == [op |-> op, id |-> Snapped(job[p]).id, adjust |-> adjust]
         IN  \/ Accepts(op, c.id) /\ Handle(c) /\ UNCHANGED late /\ Become(p, answered)
             \/ /\ ~Accepts(op, c.id) /\ UNCHANGED <<pay, adjusted, late>>
                /\ Become(p, Go(job[p], "failed"))
  BY BReadyIs DEF Call, Answered, Failed, Refused, AnswerLost, GivenUp

LEMMA CallsQuietly ==
  ASSUME BReady, NEW p \in Procs, NEW op \in Ops \ {"rollback"}, NEW answered,
         Call(p, op, 0, answered), tbl' = tbl,
         job[p].pc \in BusyLabels \ RollbackLabels, OfKind(answered, job[p].kind),
         op = "release" => Stands(tbl, "WALLET", {"COMPLETED"}) /\ FinalTotals # {}
  PROVE  Quiet(p)
<1>. DEFINE c == [op |-> op, id |-> Snapped(job[p]).id, adjust |-> 0]
<1>1. c.op = op /\ pay \in [Ids -> PayStates] /\ adjusted \in [Ids -> Nat]
  BY DEF BReady, IInv, LedgerOK
<1>2. /\ \/ Handle(c) /\ UNCHANGED late
         \/ UNCHANGED <<pay, adjusted, late>>
      /\ Become(p, answered) \/ Become(p, Go(job[p], "failed"))
  BY CallAnswered
<1>3. Aside(job'[p])
  <2>1. OfKind(Go(job[p], "failed"), job[p].kind) /\ job[p].kind # "rollback"
    BY ServesOther, GoesOfKind
  <2>. QED
    BY <1>2, <2>1, BecomesAside
<1>. HIDE DEF c
<1>4. CASE UNCHANGED <<pay, adjusted, late>>
  BY <1>3, <1>4, ReadsQuietly
<1>5. CASE Handle(c) /\ pay[c.id] \in From(op) /\ UNCHANGED late
  <2>1. pay' = [pay EXCEPT ![c.id] = To(op, pay[c.id])]
    BY <1>1, <1>5 DEF Handle
  <2>2. adjusted' = adjusted
    BY <1>1, <1>5 DEF Handle
  <2>3. \A i \in Ids : pay'[i] = pay[i] \/ pay'[i] = To(op, pay[c.id])
    BY <1>1, <2>1
  <2>4. \A state : /\ To(op, state) \notin Undone
                   /\ To(op, state) = "RELEASED" => op = "release"
    BY DEF To, Ops, Undone
  <2>. QED
    BY <1>3, <1>5, <2>2, <2>3, <2>4, BReadyIs DEF Quiet
<1>. QED
  BY <1>1, <1>2, <1>3, <1>4, <1>5, ReadsQuietly DEF Handle

LEMMA CallsAreQuiet ==
  ASSUME BReady, NEW p \in Procs, HoldCall(p) \/ CancelCall(p) \/ CompleteCall(p)
  PROVE  Quiet(p)
<1>. DEFINE j == job[p]
            kind == j.kind
<1>1. j.pc \in BusyLabels \ RollbackLabels /\ tbl' = tbl
  BY DEF HoldCall, CancelCall, CompleteCall, BusyLabels, RollbackLabels
<1>2. \A label : OfKind(Go(j, label), kind)
  BY <1>1, ServesOther, GoesOfKind
<1>3. CASE HoldCall(p)
  <2>1. HoldOp(j.on) \in Ops \ {"rollback"} /\ HoldOp(j.on) # "release"
    BY DEF HoldOp, Ops
  <2>. QED
    BY <1>1, <1>2, <1>3, <2>1, CallsQuietly DEF HoldCall
<1>4. CASE CancelCall(p)
  <2>1. "cancel" \in Ops \ {"rollback"}
    BY DEF Ops
  <2>. QED
    BY <1>1, <1>2, <1>4, <2>1, CallsQuietly DEF CancelCall
<1>5. CASE CompleteCall(p)
  <2>1. j.pc = "complete_call" /\ j.pc \in CompleteLabels /\ j.pc \in SettleLabels
    BY <1>5 DEF CompleteCall, CompleteLabels, SettleLabels
  <2>2. CompletionOK(j, tbl, pay) /\ j.kind = "complete"
    BY <2>1, ReadyIs, BReadyIs DEF FlowOK
  <2>3. IsTopup(j) => Stands(tbl, "WALLET", {"COMPLETED"}) /\ FinalTotals # {}
    BY <2>1, <2>2 DEF IsTopup, CompletionOK
  <2>. DEFINE op == IF IsTopup(j) THEN "release" ELSE "charge"
  <2>4. op \in Ops \ {"rollback"} /\ (op = "release" => IsTopup(j))
    BY DEF Ops
  <2>5. Call(p, op, 0, Go(j, "complete_settle"))
    BY <1>5 DEF CompleteCall
  <2>. HIDE DEF op
  <2>. QED
    BY <1>1, <1>2, <2>3, <2>4, <2>5, CallsQuietly
<1>. QED
  BY <1>3, <1>4, <1>5

\* Requests and notifications as they come.
LEMMA RequestsAreQuiet ==
  ASSUME BReady, NEW p \in Procs, Serve(p)
  PROVE  Quiet(p)
<1>1. ASSUME NEW k, Request(p, k), NEW kind, OfKind(k, kind), kind # "rollback"
      PROVE  Quiet(p)
  BY <1>1, BecomesAside, ReadsQuietly DEF Request
<1>2. \A kind : OfKind(Begin(kind), kind)
  BY DEF OfKind, Begin, IdleJob
<1>3. CASE Create(p)
  <2>1. PICK opm \in OpenMethods, total \in Totals, currency \in OrderCurrencies :
          Request(p, StartCreate(Begin("create"), opm, total, currency))
    BY <1>3 DEF Create
  <2>2. OfKind([Begin("create") EXCEPT !.kind = "create", !.opm = opm, !.total = total,
                  !.currency = currency, !.todo = PaymentMethodsOf(opm), !.snap = NoSnaps,
                  !.amount = 0, !.scrap = FALSE], "create")
    BY <1>2 DEF OfKind
  <2>3. OfKind(StartCreate(Begin("create"), opm, total, currency), "create")
    BY <2>2, CreatesOfKind DEF StartCreate
  <2>. QED
    BY <1>1, <2>1, <2>3
<1>4. CASE Cancel(p)
  <2>1. OfKind([Begin("cancel") EXCEPT !.pc = "cancel_read", !.on = "SADAD",
                                       !.todo = <<"SADAD", "WALLET">>], "cancel")
    BY <1>2 DEF OfKind
  <2>. QED
    BY <1>1, <1>4, <2>1 DEF Cancel
<1>5. CASE Complete(p)
  <2>1. PICK total \in FinalTotals, currency \in OrderCurrencies :
          Request(p, [Begin("complete") EXCEPT !.pc = "wallet_read", !.on = "WALLET",
                        !.total = total, !.currency = currency,
                        !.todo = <<"SADAD", "WALLET", "CASH">>])
    BY <1>5 DEF Complete
  <2>2. OfKind([Begin("complete") EXCEPT !.pc = "wallet_read", !.on = "WALLET",
                  !.total = total, !.currency = currency,
                  !.todo = <<"SADAD", "WALLET", "CASH">>], "complete")
    BY <1>2 DEF OfKind
  <2>. QED
    BY <1>1, <2>1, <2>2
<1>6. CASE GetBreakdown(p)
  BY <1>1, <1>2, <1>6, GoesOfKind DEF GetBreakdown
<1>7. CASE Rollback(p)
  <2>. DEFINE r == [Begin("rollback") EXCEPT !.pc = "rollback_read", !.on = "SADAD",
                                             !.todo = <<"SADAD", "CASH", "WALLET">>]
  <2>1. r.pc = "rollback_read" /\ r.amount = 0
    BY DEF Begin, IdleJob
  <2>2. Become(p, r) /\ UNCHANGED <<tbl, pay, adjusted, late>>
    BY <1>7 DEF Rollback, Request
  <2>. HIDE DEF r
  <2>3. Aside(job'[p])
    BY <2>1, <2>2 DEF Aside, Become, BReady, IInv
  <2>. QED
    BY <2>2, <2>3, ReadsQuietly
<1>8. ASSUME NEW i \in Ids, Notify(p, i)
      PROVE  Quiet(p)
  <2>. DEFINE j == See([IdleJob EXCEPT !.kind = "notify", !.on = "SADAD"], SnapOf(i))
  <2>1. OfKind([IdleJob EXCEPT !.kind = "notify", !.on = "SADAD"], "notify")
    BY DEF OfKind, IdleJob
  <2>2. \A label : OfKind(Go(j, label), "notify")
    BY <2>1, GoesOfKind
  <2>3. Become(p, Go(j, NotifySwitch(tbl[i].state))) /\ UNCHANGED <<tbl, pay, adjusted, late>>
    BY <1>8 DEF Notify
  <2>. HIDE DEF j
  <2>. QED
    BY <2>2, <2>3, BecomesAside, ReadsQuietly
<1>. QED
  BY <1>3, <1>4, <1>5, <1>6, <1>7, <1>8 DEF Serve

\* What rolled back payments gained the wallet: their rows keep method and amount.
LEMMA GainsStay ==
  ASSUME BReady, LedgerStep, adjusted' = adjusted,
         \A i \in Ids : pay'[i] \in Undone => pay[i] \in Undone
  PROVE  PastGains(tbl', pay', adjusted') = PastGains(tbl, pay, adjusted)
<1>. DEFINE f == [i \in Ids |-> PastGain(tbl[i], pay[i], adjusted[i])]
            g == [i \in Ids |-> PastGain(tbl'[i], pay'[i], adjusted'[i])]
<1>1. pay \in [Ids -> PayStates] /\ Agreed(tbl, pay)
  BY DEF BReady, IInv, LedgerOK, SInv, SLedger
<1>2. ASSUME NEW i \in Ids
      PROVE  PastGain(tbl'[i], pay'[i], adjusted'[i]) = PastGain(tbl[i], pay[i], adjusted[i])
  <2>1. CASE pay[i] \notin Undone
    BY <2>1 DEF PastGain, Undone
  <2>2. CASE pay[i] \in Undone
    <3>1. tbl[i].state # "ABSENT"
      BY <1>1, <2>2 DEF Agreed, Undone
    <3>2. pay'[i] = pay[i]
      <4>1. ASSUME NEW k \in Ids, PayMoves(k)
            PROVE  pay'[i] = pay[i]
        <5>1. PICK to \in PayStates : /\ Announces(pay[k], to, tbl[k].state)
                                      /\ pay' = [pay EXCEPT ![k] = to]
          BY <4>1 DEF PayMoves
        <5>2. pay[k] \notin Undone
          BY <5>1 DEF Announces, Ops, From, Undone
        <5>. QED
          BY <1>1, <2>2, <5>1, <5>2
      <4>. QED
        BY <4>1 DEF LedgerStep, Still, RowMoves
    <3>3. tbl'[i].pm = tbl[i].pm /\ tbl'[i].amount = tbl[i].amount
      BY <3>1 DEF LedgerStep, Still, RowMoves, PayMoves
    <3>. QED
      BY <3>2, <3>3 DEF PastGain
  <2>. QED
    BY <2>1, <2>2
<1>3. \A i \in Ids : f[i] = g[i]
  BY <1>2
<1>4. PastGains(tbl, pay, adjusted) = SumFunctionOnSet(f, Ids)
      /\ PastGains(tbl', pay', adjusted') = SumFunctionOnSet(g, Ids)
  BY DEF PastGains, SumFunction
<1>. HIDE DEF f, g
<1>. QED
  BY <1>3, <1>4, SumSame, IdsAreFinite

\* A row that answers to a key and is not new did so before.
LEMMA WasLive ==
  ASSUME Ready, [TNext]_tvars, NEW p \in Procs, NEW i \in Ids, NEW m, LiveRow(tbl', i, m),
         tbl[i].state # "ABSENT"
  PROVE  LiveRow(tbl, i, m)
<1>1. LedgerStep /\ Sound(tbl', pay') /\ Sound(tbl, pay)
  BY NextServes, SoundAfter, ReadyIs DEF Ready, CheckoutAssumption
<1>2. tbl'[i].state # "ROLLBACKED"
  BY <1>1 DEF LiveRow, IsLive, Sound, Agreed
<1>3. tbl'[i].pm = tbl[i].pm
  BY <1>1 DEF LedgerStep, Still, RowMoves, PayMoves
<1>4. tbl[i].state # "ROLLBACKED"
  BY <1>1, <1>2, LedgerFollows DEF Lifecycle
<1>. QED
  BY <1>1, <1>3, <1>4 DEF LiveRow, IsLive, Sound, Agreed

\* While cash is released the wallet stays charged.
LEMMA ReleasedStays ==
  ASSUME BReady, [TNext]_tvars, NEW p \in Procs, Careful,
         \A i \in Ids : pay'[i] = "RELEASED" =>
           pay[i] = "RELEASED" \/ (Stands(tbl, "WALLET", {"COMPLETED"}) /\ FinalTotals # {}),
         \A i \in Ids : (LiveRow(tbl, i, "WALLET") /\ tbl'[i].state = "ROLLBACK_PROCESSING")
                          => tbl[i].state = "ROLLBACK_PROCESSING" \/ NoLive(tbl, "CASH")
  PROVE  ReleasedOK(tbl', pay')
<1>. SUFFICES ASSUME NEW i \in Ids, LiveRow(tbl', i, "CASH"), pay'[i] = "RELEASED"
              PROVE  Stands(tbl', "WALLET", {"COMPLETED"}) /\ FinalTotals # {}
  BY DEF ReleasedOK
<1>1. /\ Ready /\ LedgerStep /\ Sound(tbl, pay) /\ Sound(tbl', pay')
      /\ ReleasedOK(tbl, pay)
  BY BReadyIs, NextServes, SoundAfter, ReadyIs DEF Ready, CheckoutAssumption
<1>2. CASE pay[i] = "RELEASED"
  <2>1. LiveRow(tbl, i, "CASH")
    <3>1. tbl[i].state # "ABSENT"
      BY <1>1, <1>2 DEF Sound, Agreed
    <3>. QED
      BY <1>1, <3>1, WasLive
  <2>2. Stands(tbl, "WALLET", {"COMPLETED"}) /\ FinalTotals # {}
    BY <1>1, <1>2, <2>1 DEF ReleasedOK
  <2>3. ASSUME NEW k \in Ids, LiveRow(tbl', k, "WALLET")
        PROVE  tbl'[k].state = "COMPLETED"
    <3>1. ~NoLive(tbl, "CASH")
      BY <2>1 DEF NoLive
    <3>2. tbl[k].state # "ABSENT"
      BY <2>3, <3>1 DEF Careful, LiveRow, IsLive
    <3>3. LiveRow(tbl, k, "WALLET") /\ tbl[k].state = "COMPLETED"
      BY <1>1, <2>2, <2>3, <3>2, WasLive DEF Stands
    <3>4. tbl'[k].state # "ROLLBACK_PROCESSING"
      BY <3>1, <3>3
    <3>. QED
      BY <1>1, <3>3, <3>4, LedgerFollows DEF Lifecycle
  <2>. QED
    BY <2>2, <2>3 DEF Stands
<1>3. CASE pay[i] # "RELEASED"
  <2>1. Stands(tbl, "WALLET", {"COMPLETED"}) /\ FinalTotals # {}
    BY <1>3
  <2>2. tbl' = tbl
    BY <1>1, <1>3 DEF LedgerStep, Still, RowMoves, PayMoves
  <2>. QED
    BY <2>1, <2>2 DEF Stands
<1>. QED
  BY <1>2, <1>3

\* A worker that rolls nothing back keeps what is said of refunds.
LEMMA QuietKeeps ==
  ASSUME BReady, [TNext]_tvars, NEW p \in Procs, Quiet(p), Careful, job[p].pc \notin RollbackLabels
  PROVE  ReleasedOK(tbl', pay') /\ RefundOK(job'[p], tbl', pay', adjusted')
<1>. DEFINE k == job'[p]
<1>1. LedgerStep /\ RefundOK(job[p], tbl, pay, adjusted)
  BY BReadyIs, NextServes DEF Ready, CheckoutAssumption
<1>2. ReleasedOK(tbl', pay')
  BY ReleasedStays DEF Quiet
<1>3. PastGains(tbl', pay', adjusted') = 0
  BY <1>1, GainsStay DEF Quiet, RefundOK, Balanced, Returned
<1>4. \A i \in Ids : tbl'[i].state # "ROLLBACK_PROCESSING"
  <2>1. job[p].pc \notin {"rollback_call", "rollback_settle"}
    BY DEF RollbackLabels
  <2>. QED
    BY <1>1, <2>1 DEF Quiet, RefundOK, RollbackInHand
<1>5. RollbackFlow(k)
  BY NextCInv, BReadyIs DEF Ready, CInv, CheckoutOK
<1>6. k.pc \in RollbackLabels => k.pc = "rollback_read" /\ k.amount = 0
  <2>1. k.pc \in RollbackLabels => k.pc \notin RestLabels
    BY DEF RollbackLabels, RestLabels
  <2>. QED
    BY <1>5, <2>1 DEF Quiet, Aside, RollbackFlow
<1>7. RollbackKind(k)
  BY DEF Quiet, Aside, RollbackKind, RollbackLabels
<1>8. Balanced(k, tbl', pay', adjusted')
  BY <1>3, <1>6 DEF Balanced, Returned
<1>9. ReturnOK(k, tbl')
  BY <1>6 DEF ReturnOK
<1>10. RollbackInHand(k, tbl', pay')
  <2>1. k.pc # "rollback_call"
    BY <1>6 DEF RollbackLabels
  <2>. QED
    BY <1>4, <2>1 DEF RollbackInHand
<1>. QED
  BY <1>2, <1>7, <1>8, <1>9, <1>10 DEF RefundOK

\* What the payer pays changes nothing of it.
LEMMA PayerKeeps ==
  ASSUME BReady, [TNext]_tvars, Payer, NEW p \in Procs
  PROVE  ReleasedOK(tbl', pay') /\ RefundOK(job'[p], tbl', pay', adjusted')
<1>1. PICK i \in Ids : PayBill(i) /\ UNCHANGED <<tbl, job, adjusted>>
  BY DEF Payer, PayBill
<1>2. /\ LedgerStep /\ pay \in [Ids -> PayStates] /\ RefundOK(job[p], tbl, pay, adjusted)
      /\ ReleasedOK(tbl, pay)
  BY BReadyIs, NextServes DEF BReady, RefundAssumption, CheckoutAssumption, IInv, LedgerOK
<1>3. \A k : /\ pay'[k] \in Undone => pay[k] \in Undone
             /\ k \in Ids /\ pay'[k] = "RELEASED" => pay[k] = "RELEASED"
  BY <1>1, <1>2 DEF PayBill, Undone
<1>4. PastGains(tbl', pay', adjusted') = PastGains(tbl, pay, adjusted)
  BY <1>1, <1>2, <1>3, GainsStay
<1>5. ReleasedOK(tbl', pay')
  BY <1>1, <1>2, <1>3 DEF ReleasedOK
<1>. QED
  BY <1>1, <1>2, <1>3, <1>4, <1>5
     DEF RefundOK, RollbackKind, Balanced, ReturnOK, RollbackInHand

-----------------------------------------------------------------------------
\* Steps of a rollback

\* What is to be shown of a step.
Refunds(p) == ReleasedOK(tbl', pay') /\ RefundOK(job'[p], tbl', pay', adjusted')

\* A worker that rolls back is about to say so of a row or has it said, of no other.
LEMMA RollingBack ==
  ASSUME BReady, NEW p \in Procs, job[p].pc \in RollbackLabels
  PROVE  LET j == job[p] IN
         /\ j \in Job /\ j.kind = "rollback" /\ PastGains(tbl, pay, adjusted) = j.amount
         /\ ReturnOK(j, tbl) /\ RollbackInHand(j, tbl, pay)
         /\ j.pc \in {"rollback_read", "rollback_mark"}
              => \A i \in Ids : tbl[i].state # "ROLLBACK_PROCESSING"
  BY BReadyIs, IsRollingBack, WorkerKnows
     DEF Ready, RefundOK, Balanced, Returned, RollbackInHand

\* The next method, or the order created anew, or the end.
LEMMA RolledBackIs ==
  ASSUME NEW j \in Job, j.kind = "rollback",
         <<j.on, j.todo>> \in {<<"SADAD", <<"SADAD", "CASH", "WALLET">>>>,
                               <<"CASH", <<"CASH", "WALLET">>>>, <<"WALLET", <<"WALLET">>>>}
  PROVE  LET r == RolledBack(j) IN
         /\ j.on # "WALLET" => /\ r.pc = "rollback_read" /\ r.amount = j.amount
                               /\ r.on = IF j.on = "SADAD" THEN "CASH" ELSE "WALLET"
         /\ j.on = "WALLET" => r.kind = "create" \/ r.pc = "done"
<1>1. Tail(<<"SADAD", "CASH", "WALLET">>) = <<"CASH", "WALLET">>
      /\ Tail(<<"CASH", "WALLET">>) = <<"WALLET">> /\ Tail(<<"WALLET">>) = <<>>
  OBVIOUS
<1>2. CASE j.on # "WALLET"
  <2>. DEFINE r == [j EXCEPT !.pc = "rollback_read", !.todo = Tail(@), !.on = Head(Tail(j.todo))]
  <2>1. /\ Tail(j.todo) # <<>>
        /\ Head(Tail(j.todo)) = IF j.on = "SADAD" THEN "CASH" ELSE "WALLET"
    BY <1>1, <1>2
  <2>2. RolledBack(j) = r
    BY <2>1 DEF RolledBack
  <2>3. r.pc = "rollback_read" /\ r.amount = j.amount /\ r.on = Head(Tail(j.todo))
    BY DEF Job
  <2>. HIDE DEF r
  <2>. QED
    BY <1>2, <2>1, <2>2, <2>3
<1>3. CASE j.on = "WALLET"
  <2>1. RolledBack(j) = Recreate(j)
    <3>1. j.todo = <<"WALLET">>
      BY <1>3
    <3>. QED
      BY <1>1, <3>1 DEF RolledBack
  <2>2. \A opm, total, currency : OfKind(StartCreate(j, opm, total, currency), "create")
    <3>1. \A opm, total, currency :
            OfKind([j EXCEPT !.kind = "create", !.opm = opm, !.total = total, !.currency = currency,
                             !.todo = PaymentMethodsOf(opm), !.snap = NoSnaps, !.amount = 0,
                             !.scrap = FALSE], "create")
      BY DEF OfKind, Job
    <3>. QED
      BY <3>1, CreatesOfKind DEF StartCreate
  <2>3. Go(j, "done").pc = "done"
    BY DEF Go, Rest, RestLabels, IdleJob
  <2>4. RolledBack(j).kind = "create" \/ RolledBack(j).pc = "done"
    BY <2>1, <2>2, <2>3 DEF Recreate, OfKind
  <2>. QED
    BY <1>3, <2>4
<1>. QED
  BY <1>2, <1>3

\* A worker whose request is at an end, or goes on to create.
LEMMA Rested ==
  ASSUME NEW j, NEW T, NEW P, NEW A, j.pc \in RestLabels \/ j.kind # "rollback",
         j.pc \notin RollbackLabels, PastGains(T, P, A) = 0,
         \A i \in Ids : T[i].state # "ROLLBACK_PROCESSING"
  PROVE  RefundOK(j, T, P, A)
<1>1. RollbackKind(j) /\ ReturnOK(j, T)
  BY DEF RollbackKind, ReturnOK
<1>2. Balanced(j, T, P, A)
  BY DEF Balanced, Returned
<1>3. RollbackInHand(j, T, P)
  BY DEF RollbackInHand, RollbackLabels
<1>. QED
  BY <1>1, <1>2, <1>3 DEF RefundOK

\* A worker that goes on rolling back.
LEMMA RollsOn ==
  ASSUME NEW j, NEW T, NEW P, NEW A, j.pc \in {"rollback_read", "rollback_mark"},
         PastGains(T, P, A) = j.amount, ReturnOK(j, T),
         \A i \in Ids : T[i].state # "ROLLBACK_PROCESSING"
  PROVE  RefundOK(j, T, P, A)
<1>1. j.pc \in RollbackLabels /\ j.pc # "rollback_call"
  BY DEF RollbackLabels
<1>. QED
  BY <1>1 DEF RefundOK, RollbackKind, Balanced, Returned, RollbackInHand

LEMMA RollbackReadRefunds ==
  ASSUME BReady, [TNext]_tvars, NEW p \in Procs, RollbackRead(p)
  PROVE  Refunds(p)
<1>. DEFINE j == job[p]
<1>1. /\ j.pc = "rollback_read" /\ j.pc \in RollbackLabels /\ UNCHANGED <<tbl, pay, adjusted>>
  BY DEF RollbackRead, RollbackLabels
<1>2. /\ Ready /\ j \in Job /\ PastGains(tbl, pay, adjusted) = j.amount
      /\ ReturnOK(j, tbl) /\ ReleasedOK(tbl, pay)
      /\ \A i \in Ids : tbl[i].state # "ROLLBACK_PROCESSING"
  BY <1>1, RollingBack, BReadyIs
<1>3. PICK s \in FindByIdempKey(j.on) :
        Become(p, IF RollbackSwitch(s.state) = "return" THEN RolledBack(See(j, s))
                  ELSE Go(See(j, s), RollbackSwitch(s.state)))
  BY DEF RollbackRead
<1>. DEFINE label == RollbackSwitch(s.state)
            k == See(j, s)
<1>4. k \in Job /\ k.on = j.on /\ k.todo = j.todo /\ k.kind = "rollback" /\ k.amount = j.amount
  <2>1. j.kind = "rollback"
    BY <1>1, <1>2, IsRollingBack
  <2>2. k \in Job /\ k.on = j.on /\ k.todo = j.todo /\ k.kind = j.kind /\ k.amount = j.amount
    BY <1>2, SeenRow
  <2>. QED
    BY <2>1, <2>2
<1>. HIDE DEF k
<1>5. job'[p] = IF label = "return" THEN RolledBack(k) ELSE Go(k, label)
  BY <1>3 DEF Become, BReady, IInv, k
<1>6. Exists(s) => LiveRow(tbl, s.id, j.on) /\ s.state = tbl[s.id].state
  BY FoundRow
<1>7. label \in {"return", "rollback_mark", "type_error"}
  BY <1>2, <1>6 DEF RollbackSwitch, Exists, LiveRow
<1>8. j.amount # 0 => label = "rollback_mark"
  <2>. SUFFICES ASSUME j.amount # 0 PROVE label = "rollback_mark"
    OBVIOUS
  <2>1. /\ j.on = "WALLET" /\ j.amount > 0 /\ j.amount < AmountOf(tbl, "WALLET")
        /\ Stands(tbl, "WALLET", {"COMPLETED"})
    BY <1>1, <1>2 DEF ReturnOK
  <2>2. Exists(s)
    <3>1. ~Exists(s) => AmountOf(tbl, "WALLET") = 0
      BY <2>1, FoundRow, AmountOfNone
    <3>. QED
      BY <1>2, <2>1, <3>1 DEF Job
  <2>3. s.state = "COMPLETED"
    BY <1>6, <2>1, <2>2 DEF Stands, LiveRow
  <2>. QED
    BY <2>3 DEF RollbackSwitch
<1>9. ReleasedOK(tbl', pay') /\ PastGains(tbl', pay', adjusted') = j.amount
      /\ \A i \in Ids : tbl'[i].state # "ROLLBACK_PROCESSING"
  BY <1>1, <1>2
<1>10. CASE label = "rollback_mark"
  <2>. DEFINE r == [k EXCEPT !.pc = "rollback_mark"]
  <2>1. job'[p] = r
    BY <1>5, <1>10 DEF Go, RestLabels
  <2>2. r.pc = "rollback_mark" /\ r.amount = j.amount /\ r.on = j.on
    BY <1>4 DEF Job
  <2>. HIDE DEF r
  <2>3. ReturnOK(r, tbl')
    BY <1>1, <1>2, <2>2 DEF ReturnOK
  <2>. QED
    BY <1>9, <2>1, <2>2, <2>3, RollsOn DEF Refunds
<1>11. CASE label = "type_error"
  <2>1. job'[p].pc = "type_error"
    BY <1>5, <1>11 DEF Go, Rest, RestLabels, IdleJob
  <2>2. job'[p].pc \in RestLabels /\ job'[p].pc \notin RollbackLabels
    BY <2>1 DEF RestLabels, RollbackLabels
  <2>. QED
    BY <1>8, <1>9, <1>11, <2>2, Rested DEF Refunds
<1>12. CASE label = "return"
  <2>. DEFINE r == RolledBack(k)
  <2>1. job'[p] = r /\ j.amount = 0
    BY <1>5, <1>8, <1>12
  <2>2. /\ j.on # "WALLET" => r.pc = "rollback_read" /\ r.amount = 0
        /\ j.on = "WALLET" => r.kind = "create" \/ r.pc = "done"
    BY <1>1, <1>2, <1>4, <2>1, RolledBackIs, IsRollingBack
  <2>3. RollbackFlow(r)
    BY <2>1, NextCInv, BReadyIs DEF Ready, CInv, CheckoutOK
  <2>. HIDE DEF r
  <2>4. CASE j.on # "WALLET"
    BY <1>9, <2>1, <2>2, <2>4, RollsOn DEF Refunds, ReturnOK
  <2>5. CASE j.on = "WALLET"
    <3>1. r.pc \notin RollbackLabels /\ (r.pc \in RestLabels \/ r.kind # "rollback")
      BY <2>2, <2>3, <2>5 DEF RollbackFlow, RestLabels, RollbackLabels
    <3>. QED
      BY <1>9, <2>1, <3>1, Rested DEF Refunds
  <2>. QED
    BY <2>4, <2>5
<1>. QED
  BY <1>7, <1>10, <1>11, <1>12

LEMMA RollbackMarkRefunds ==
  ASSUME BReady, [TNext]_tvars, NEW p \in Procs, RollbackMark(p), Careful
  PROVE  Refunds(p)
<1>. DEFINE j == job[p]
            i == Snapped(j).id
            r == [j EXCEPT !.pc = "rollback_call"]
<1>1. /\ j.pc = "rollback_mark" /\ j.pc \in RowLabels /\ j.pc \in RollbackLabels
      /\ SetState(i, "ROLLBACK_PROCESSING") /\ Become(p, Go(j, "rollback_call"))
      /\ UNCHANGED <<pay, adjusted, late>>
  BY DEF RollbackMark, Mark, RowLabels, RollbackLabels
<1>2. /\ Ready /\ j \in Job /\ PastGains(tbl, pay, adjusted) = j.amount
      /\ ReturnOK(j, tbl) /\ ReleasedOK(tbl, pay)
      /\ \A k \in Ids : tbl[k].state # "ROLLBACK_PROCESSING"
  BY <1>1, RollingBack, BReadyIs
<1>3. tbl[i].state \in {"COMPLETED", "CANCELLED"}
  BY <1>1, <1>2, ReadyIs DEF StandingOK, StatesAt, HoldLabels
<1>4. Writes(p) /\ tbl'[i].state = "ROLLBACK_PROCESSING"
  BY <1>1, <1>2, <1>3, SetWrites
<1>5. /\ LedgerStep /\ i \in Ids /\ tbl[i].pm = j.on /\ LiveRow(tbl, i, j.on)
      /\ \A k \in Ids \ {i} : tbl'[k] = tbl[k]
  BY <1>2, <1>4, WriteMoves
<1>6. pay[i] \notin Undone
  <2>1. pay[i] \in Agreeing(tbl[i].pm)[tbl[i].state]
    BY <1>2, <1>5, ReadyIs DEF Sound, Agreed, LiveRow, IsLive
  <2>. QED
    BY <1>3, <2>1 DEF Agreeing, States, Undone
<1>7. ReleasedOK(tbl', pay')
  <2>1. j.on = "WALLET" => NoLive(tbl, "CASH")
    BY <1>1, <1>2, IsRollingBack
  <2>2. ASSUME NEW k \in Ids, LiveRow(tbl, k, "WALLET"), tbl'[k].state = "ROLLBACK_PROCESSING"
        PROVE  NoLive(tbl, "CASH")
    <3>1. k = i
      BY <1>2, <1>5, <2>2
    <3>. QED
      BY <1>5, <2>1, <2>2, <3>1 DEF LiveRow
  <2>. QED
    BY <1>1, <2>2, ReleasedStays
<1>8. PastGains(tbl', pay', adjusted') = j.amount
  BY <1>1, <1>2, <1>5, GainsStay
<1>9. job'[p] = r
  <2>1. job'[p] = Go(j, "rollback_call")
    BY <1>1 DEF Become, BReady, IInv
  <2>. QED
    BY <2>1 DEF Go, RestLabels
<1>10. /\ r.pc = "rollback_call" /\ r.amount = j.amount /\ r.on = j.on /\ Snapped(r) = Snapped(j)
  BY <1>2 DEF Job, Snapped
<1>. HIDE DEF r
<1>11. r.pc \in RollbackLabels
  BY <1>10 DEF RollbackLabels
<1>12. ReturnOK(r, tbl')
  <2>1. AmountOf(tbl', j.on) = AmountOf(tbl, j.on)
    BY <1>2, <1>4, WriteGives
  <2>2. j.amount # 0 => j.on = "WALLET" /\ j.amount > 0 /\ j.amount < AmountOf(tbl, "WALLET")
    BY <1>1, <1>2 DEF ReturnOK
  <2>. QED
    BY <1>10, <2>1, <2>2 DEF ReturnOK
<1>13. RollbackInHand(r, tbl', pay')
  <2>1. \A k \in Ids : tbl'[k].state = "ROLLBACK_PROCESSING" => k = i
    BY <1>2, <1>5
  <2>. QED
    BY <1>1, <1>6, <1>10, <2>1 DEF RollbackInHand
<1>14. RollbackKind(r) /\ Balanced(r, tbl', pay', adjusted')
  BY <1>8, <1>10, <1>11 DEF RollbackKind, Balanced, Returned
<1>. QED
  BY <1>7, <1>9, <1>12, <1>13, <1>14 DEF Refunds, RefundOK

LEMMA RollbackSettleRefunds ==
  ASSUME BReady, [TNext]_tvars, NEW p \in Procs, RollbackSettle(p), Careful
  PROVE  Refunds(p)
<1>. DEFINE j == job[p]
            i == Snapped(j).id
            r == RolledBack(j)
<1>1. /\ j.pc = "rollback_settle" /\ j.pc \in RowLabels /\ j.pc \in RollbackLabels
      /\ RetireRow(i) /\ Become(p, r)
      /\ UNCHANGED <<pay, adjusted, late>>
  BY DEF RollbackSettle, RowLabels, RollbackLabels
<1>2. /\ Ready /\ j \in Job /\ PastGains(tbl, pay, adjusted) = j.amount
      /\ ReturnOK(j, tbl) /\ RollbackInHand(j, tbl, pay)
      /\ j.kind = "rollback"
  BY <1>1, RollingBack, BReadyIs
<1>3. tbl[i].state # "ROLLBACKED"
  BY <1>1, <1>2, ReadyIs DEF StandingOK, StatesAt, HoldLabels
<1>4. Writes(p) /\ tbl'[i].state = "ROLLBACKED"
  BY <1>1, <1>2, <1>3, RetireWrites
<1>5. LedgerStep /\ \A k \in Ids \ {i} : tbl'[k] = tbl[k]
  BY <1>2, <1>4, WriteMoves
<1>6. \A k \in Ids : tbl'[k].state # "ROLLBACK_PROCESSING"
  BY <1>2, <1>4, <1>5 DEF RollbackInHand
<1>7. ReleasedOK(tbl', pay')
  BY <1>1, <1>6, ReleasedStays
<1>8. PastGains(tbl', pay', adjusted') = j.amount
  BY <1>1, <1>2, <1>5, GainsStay
<1>9. job'[p] = r
  BY <1>1 DEF Become, BReady, IInv
<1>10. /\ j.on # "WALLET" => /\ r.pc = "rollback_read" /\ r.amount = j.amount
                             /\ r.on = IF j.on = "SADAD" THEN "CASH" ELSE "WALLET"
       /\ j.on = "WALLET" => r.kind = "create" \/ r.pc = "done"
  BY <1>1, <1>2, IsRollingBack, RolledBackIs
<1>11. RollbackFlow(r)
  BY <1>9, NextCInv, BReadyIs DEF Ready, CInv, CheckoutOK
<1>. HIDE DEF r
<1>12. j.amount # 0 => /\ j.on = "CASH" /\ j.amount > 0 /\ j.amount < AmountOf(tbl, "WALLET")
                       /\ Stands(tbl, "WALLET", {"COMPLETED"})
  BY <1>1, <1>2 DEF ReturnOK
<1>13. CASE j.on # "WALLET"
  <2>1. ReturnOK(r, tbl')
    <3>1. AmountOf(tbl', "WALLET") = AmountOf(tbl, "WALLET")
          /\ \A states : Stands(tbl', "WALLET", states) <=> Stands(tbl, "WALLET", states)
      BY <1>2, <1>4, <1>13, WriteLeaves DEF Methods
    <3>. QED
      BY <1>10, <1>12, <1>13, <3>1 DEF ReturnOK
  <2>. QED
    BY <1>6, <1>7, <1>8, <1>9, <1>10, <1>13, <2>1, RollsOn DEF Refunds
<1>14. CASE j.on = "WALLET"
  <2>1. j.amount = 0
    BY <1>12, <1>14
  <2>2. r.pc \notin RollbackLabels /\ (r.pc \in RestLabels \/ r.kind # "rollback")
    BY <1>10, <1>11, <1>14 DEF RollbackFlow, RestLabels, RollbackLabels
  <2>. QED
    BY <1>6, <1>7, <1>8, <1>9, <2>1, <2>2, Rested DEF Refunds
<1>. QED
  BY <1>13, <1>14

\* The call of a rollback is answered, and rolls its payment back for the first time.
LEMMA RollbackAnswered ==
  ASSUME BReady, NEW p \in Procs, RollbackCall(p)
  PROVE  LET j == job[p]
             i == Snapped(j).id
             released == IF j.on = "CASH" /\ IsReleased(i) THEN Snapped(j).amount ELSE 0
         IN  /\ LiveRow(tbl, i, j.on) /\ tbl' = tbl /\ pay[i] \notin Undone
             /\ pay' = [pay EXCEPT ![i] = To("rollback", pay[i])]
             /\ adjusted' = [adjusted EXCEPT ![i] = Adjusted(j)]
             /\ job'[p] = [j EXCEPT !.pc = "rollback_settle", !.amount = released]
<1>. DEFINE j == job[p]
            i == Snapped(j).id
            released == IF j.on = "CASH" /\ IsReleased(i) THEN Snapped(j).amount ELSE 0
            r == [j EXCEPT !.pc = "rollback_settle", !.amount = released]
            c == [op |-> "rollback", id |-> i, adjust |-> Adjusted(j)]
<1>1. /\ j.pc = "rollback_call" /\ j.pc \in RowLabels /\ j.pc \in RollbackLabels /\ tbl' = tbl
      /\ Call(p, "rollback", Adjusted(j), r)
  BY DEF RollbackCall, RowLabels, RollbackLabels
<1>2. Ready /\ j \in Job /\ RollbackInHand(j, tbl, pay)
  BY <1>1, RollingBack, BReadyIs
<1>3. i \in Ids /\ tbl[i].state = "ROLLBACK_PROCESSING" /\ tbl[i].pm = j.on
  BY <1>1, <1>2, WorkerKnows, ReadyIs DEF Ready, StandingOK, StatesAt, HoldLabels
<1>4. pay[i] \in {"CHARGED", "RELEASED", "CANCELLED"}
  <2>1. pay[i] \in Agreeing(tbl[i].pm)[tbl[i].state]
    BY <1>2, <1>3, ReadyIs DEF Sound, Agreed
  <2>. QED
    BY <1>1, <1>2, <1>3, <2>1 DEF Agreeing, States, Undone, RollbackInHand
<1>5. LiveRow(tbl, i, j.on)
  BY <1>2, <1>3, ReadyIs DEF Sound, Agreed, LiveRow, IsLive
<1>6. pay[i] \in From("rollback") /\ c.op = "rollback" /\ c.id = i /\ c.adjust = Adjusted(j)
  BY <1>4 DEF From
<1>7. Handle(c) /\ Become(p, r)
  <2>. HIDE DEF r
  <2>. QED
    BY <1>1, <1>6, CallAnswered DEF Accepts
<1>. HIDE DEF c, r
<1>8. /\ pay' = [pay EXCEPT ![i] = To("rollback", pay[i])]
      /\ adjusted' = [adjusted EXCEPT ![i] = Adjusted(j)]
  BY <1>6, <1>7 DEF Handle
<1>9. job'[p] = r
  BY <1>7 DEF Become, BReady, IInv
<1>. QED
  BY <1>1, <1>4, <1>5, <1>8, <1>9 DEF r, Undone

\* Rolling a payment back adds what it gains the wallet.
LEMMA GainsAdd ==
  ASSUME BReady, NEW i \in Ids, tbl' = tbl, pay[i] \notin Undone,
         NEW to \in PayStates, pay' = [pay EXCEPT ![i] = to],
         NEW adjust \in Nat, adjusted' = [adjusted EXCEPT ![i] = adjust]
  PROVE  PastGains(tbl', pay', adjusted')
           = PastGains(tbl, pay, adjusted) + PastGain(tbl[i], to, adjust)
<1>. DEFINE f == [k \in Ids |-> PastGain(tbl[k], pay[k], adjusted[k])]
            g == [k \in Ids |-> PastGain(tbl'[k], pay'[k], adjusted'[k])]
<1>1. tbl \in [Ids -> Row] /\ pay \in [Ids -> PayStates] /\ adjusted \in [Ids -> Nat]
  BY DEF BReady, IInv, LedgerOK
<1>2. pay'[i] = to /\ adjusted'[i] = adjust
      /\ \A k \in Ids \ {i} : pay'[k] = pay[k] /\ adjusted'[k] = adjusted[k]
  BY <1>1
<1>3. \A row \in Row : \A back \in Nat : \A paid : PastGain(row, paid, back) \in Int
  BY DEF PastGain, Row
<1>4. \A k \in Ids : adjusted'[k] \in Nat /\ tbl'[k] \in Row
  BY <1>1, <1>2
<1>5. \A k \in Ids : f[k] \in Int /\ g[k] \in Int
  <2>1. ASSUME NEW k \in Ids
        PROVE  /\ PastGain(tbl[k], pay[k], adjusted[k]) \in Int
               /\ PastGain(tbl'[k], pay'[k], adjusted'[k]) \in Int
    BY <1>1, <1>3, <1>4
  <2>. QED
    BY <2>1
<1>6. \A k \in Ids \ {i} : f[k] = g[k]
  BY <1>2
<1>7. f[i] = 0 /\ g[i] = PastGain(tbl[i], to, adjust)
  BY <1>2 DEF PastGain, Undone
<1>8. PastGains(tbl, pay, adjusted) = SumFunctionOnSet(f, Ids)
      /\ PastGains(tbl', pay', adjusted') = SumFunctionOnSet(g, Ids)
  BY DEF PastGains, SumFunction
<1>. HIDE DEF f, g
<1>9. SumFunctionOnSet(g, Ids) = SumFunctionOnSet(f, Ids) + g[i] - f[i]
  BY <1>5, <1>6, SumMoves, IdsAreFinite
<1>10. SumFunctionOnSet(f, Ids) \in Int
  BY <1>5, SumInt, IdsAreFinite
<1>. QED
  BY <1>5, <1>7, <1>8, <1>9, <1>10

\* Cash that was released left the wallet less than it was charged.
LEMMA ReleasedLess ==
  ASSUME BReady, NEW p \in Procs, NEW i \in Ids, LiveRow(tbl, i, "CASH"), pay[i] = "RELEASED"
  PROVE  /\ tbl[i].amount > 0 /\ tbl[i].amount < AmountOf(tbl, "WALLET")
         /\ Stands(tbl, "WALLET", {"COMPLETED"})
<1>1. /\ Stands(tbl, "WALLET", {"COMPLETED"}) /\ FinalTotals # {}
      /\ CashRowOK(tbl, pay, i) /\ tbl \in [Ids -> Row] /\ 0 \notin FinalTotals
      /\ tbl[i].amount > 0
  BY BReadyIs, ReadyIs DEF ReleasedOK, CashOK, Sound, LiveRow, IsLive
<1>2. PICK total \in FinalTotals : TRUE
  BY <1>1
<1>3. total \in Nat /\ total > 0 /\ AmountOf(tbl, "WALLET") \in Nat /\ tbl[i].amount \in Nat
  BY <1>1, <1>2, AmountsAreIntegers, AmountOfNat DEF Row
<1>4. total < AmountOf(tbl, "WALLET")
  BY <1>1, <1>2 DEF CashRowOK, CashOwed
<1>5. tbl[i].amount = IF total - AmountOf(tbl, "WALLET") < 0 THEN -(total - AmountOf(tbl, "WALLET"))
                      ELSE total - AmountOf(tbl, "WALLET")
  BY <1>1, <1>2 DEF CashRowOK, Leaves
<1>. QED
  BY <1>1, <1>3, <1>4, <1>5

\* Cash comes first and leaves in the worker's hands what it gained the wallet; the wallet gets
\* back that much less than it paid.
LEMMA RollbackCallRefunds ==
  ASSUME BReady, [TNext]_tvars, NEW p \in Procs, RollbackCall(p)
  PROVE  Refunds(p)
<1>. DEFINE j == job[p]
            i == Snapped(j).id
            released == IF j.on = "CASH" /\ IsReleased(i) THEN Snapped(j).amount ELSE 0
            r == [j EXCEPT !.pc = "rollback_settle", !.amount = released]
            to == To("rollback", pay[i])
            gain == PastGain(tbl[i], to, Adjusted(j))
<1>1. /\ j.pc = "rollback_call" /\ j.pc \in RollbackLabels /\ j.pc \in RowLabels
      /\ "rollback_settle" \in RollbackLabels
  BY DEF RollbackCall, RollbackLabels, RowLabels
<1>2. /\ Ready /\ j \in Job /\ PastGains(tbl, pay, adjusted) = j.amount
      /\ ReturnOK(j, tbl) /\ RollbackInHand(j, tbl, pay) /\ ReleasedOK(tbl, pay)
      /\ j.kind = "rollback"
  BY <1>1, RollingBack, BReadyIs
<1>3. /\ LiveRow(tbl, i, j.on) /\ tbl' = tbl /\ pay[i] \notin Undone
      /\ pay' = [pay EXCEPT ![i] = to] /\ adjusted' = [adjusted EXCEPT ![i] = Adjusted(j)]
      /\ job'[p] = r
  BY RollbackAnswered
<1>4. /\ pay \in [Ids -> PayStates] /\ tbl[i] \in Row /\ i \in Ids /\ tbl[i].pm = j.on
      /\ pay[i] = "RELEASED" => j.on = "CASH"
  BY <1>2, <1>3, ReadyIs DEF Sound, LiveRow, CashOK
<1>5. Snapped(j).amount = tbl[i].amount
  <2>1. Exists(Snapped(j)) /\ j.on \in Methods /\ Priced(j, tbl)
    BY <1>1, <1>2, WorkerKnows, ReadyIs DEF Ready, FlowOK
  <2>. QED
    BY <2>1 DEF Priced, Snapped
<1>6. to = IF pay[i] = "RELEASED" THEN "ROLLED_RELEASE" ELSE "ROLLED"
  BY DEF To
<1>7. released = IF pay[i] = "RELEASED" THEN tbl[i].amount ELSE 0
  BY <1>3, <1>4, <1>5 DEF IsReleased, Undone
<1>8. /\ Adjusted(j) \in Nat
      /\ j.on # "WALLET" => Adjusted(j) = 0 /\ j.amount = 0
      /\ j.on = "WALLET" => gain = -j.amount
  <2>1. j.snap["WALLET"] \in Snap /\ j.amount \in Int
    BY <1>2 DEF Job, Methods
  <2>2. j.amount # 0 => /\ j.on = "WALLET" /\ j.amount > 0 /\ j.amount < AmountOf(tbl, "WALLET")
    BY <1>1, <1>2 DEF ReturnOK
  <2>3. CASE j.on # "WALLET"
    BY <2>2, <2>3 DEF Adjusted
  <2>4. CASE j.on = "WALLET"
    <3>1. AmountOf(tbl, "WALLET") = tbl[i].amount /\ j.snap["WALLET"].amount = tbl[i].amount
      <4>1. LiveRow(tbl, i, j.on)
        BY <1>3
      <4>2. AmountOf(tbl, "WALLET") = tbl[i].amount
        <5>1. KeysUnique(tbl)
          BY <1>2, ReadyIs DEF Sound
        <5>. QED
          BY <2>4, <4>1, <5>1, AmountOfIs
      <4>3. j.snap["WALLET"].amount = tbl[i].amount
        BY <1>5, <2>4 DEF Snapped
      <4>. QED
        BY <4>2, <4>3
    <3>2. to = "ROLLED" /\ tbl[i].pm = "WALLET" /\ tbl[i].amount \in Nat
      BY <1>4, <1>6, <2>4 DEF Row
    <3>3. Adjusted(j) = IF j.amount > 0 THEN tbl[i].amount - j.amount ELSE 0
      BY <2>1, <2>2, <2>4, <3>1, <3>2 DEF Adjusted
    <3>. HIDE DEF to
    <3>4. gain = IF Adjusted(j) > 0 THEN Adjusted(j) - tbl[i].amount ELSE 0
      BY <3>2 DEF PastGain
    <3>. QED
      BY <2>1, <2>2, <2>4, <3>1, <3>2, <3>3, <3>4
  <2>. QED
    BY <2>3, <2>4
<1>9. j.amount + gain = released
  <2>1. CASE j.on = "WALLET"
    BY <1>2, <1>4, <1>7, <1>8, <2>1 DEF Job
  <2>2. CASE j.on # "WALLET"
    <3>1. gain = IF pay[i] = "RELEASED" THEN tbl[i].amount ELSE 0
      BY <1>4, <1>6, <1>8, <2>2 DEF PastGain
    <3>. QED
      BY <1>4, <1>7, <1>8, <2>2, <3>1 DEF Row
  <2>. QED
    BY <2>1, <2>2
<1>. HIDE DEF to, gain, released
<1>10. PastGains(tbl', pay', adjusted') = released
  <2>1. to \in PayStates
    BY <1>6 DEF PayStates
  <2>2. /\ i \in Ids /\ tbl' = tbl /\ pay[i] \notin Undone /\ Adjusted(j) \in Nat
        /\ pay' = [pay EXCEPT ![i] = to] /\ adjusted' = [adjusted EXCEPT ![i] = Adjusted(j)]
        /\ PastGains(tbl, pay, adjusted) = j.amount
    BY <1>2, <1>3, <1>4, <1>8
  <2>3. gain = PastGain(tbl[i], to, Adjusted(j))
    BY DEF gain
  <2>. HIDE DEF i, j
  <2>4. PastGains(tbl', pay', adjusted') = PastGains(tbl, pay, adjusted) + PastGain(tbl[i], to, Adjusted(j))
    BY <2>1, <2>2, GainsAdd
  <2>. QED
    BY <1>9, <2>2, <2>3, <2>4
<1>11. /\ r.pc = "rollback_settle" /\ r.amount = released /\ r.on = j.on /\ Snapped(r) = Snapped(j)
  BY <1>2 DEF Job, Snapped
<1>. HIDE DEF r
<1>12. ReturnOK(r, tbl')
  <2>1. CASE released = 0
    BY <1>11, <2>1 DEF ReturnOK
  <2>2. CASE released # 0
    <3>1. pay[i] = "RELEASED" /\ released = tbl[i].amount /\ j.on = "CASH"
      BY <1>4, <1>7, <2>2
    <3>. QED
      BY <1>3, <1>4, <1>11, <3>1, ReleasedLess DEF ReturnOK
  <2>. QED
    BY <2>1, <2>2
<1>13. RollbackInHand(r, tbl', pay')
  BY <1>1, <1>2, <1>3, <1>11 DEF RollbackInHand
<1>14. RollbackKind(r) /\ Balanced(r, tbl', pay', adjusted')
  BY <1>1, <1>10, <1>11 DEF RollbackKind, Balanced, Returned
<1>15. ReleasedOK(tbl', pay')
  <2>1. \A k \in Ids : pay'[k] = "RELEASED" => pay[k] = "RELEASED"
    BY <1>3, <1>4, <1>6
  <2>. QED
    BY <1>2, <1>3, <2>1 DEF ReleasedOK
<1>. QED
  BY <1>3, <1>12, <1>13, <1>14, <1>15 DEF Refunds, RefundOK

-----------------------------------------------------------------------------
\* Every step

LEMMA NextBInv ==
  ASSUME BReady, [TNext]_tvars
  PROVE  BInv'
<1>1. PICK w : Procs = {w}
  BY DEF BReady, RefundAssumption, CheckoutAssumption, Serial
<1>2. Ready /\ Faults = {} /\ late = {}
  BY BReadyIs
<1>3. CASE UNCHANGED tvars
  BY <1>3 DEF tvars, BReady, BInv
<1>4. CASE Payer
  BY <1>2, <1>4, PayerKeeps, <1>1 DEF Payer, PayBill, BInv
<1>5. CASE Serve(w) \/ Advance(w)
  <2>1. Careful
    BY <1>1, <1>2, <1>5, WorkerKeeps DEF Keeps
  <2>2. late' = {} /\ Refunds(w)
    <3>1. CASE RollbackRead(w) \/ RollbackMark(w) \/ RollbackSettle(w)
      BY <1>1, <1>2, <2>1, <3>1, RollbackReadRefunds, RollbackMarkRefunds, RollbackSettleRefunds
         DEF RollbackRead, RollbackMark, RollbackSettle, Mark
    <3>2. CASE RollbackCall(w)
      <4>1. late' = late
        BY <1>1, <3>2, CallAnswered DEF RollbackCall
      <4>. QED
        BY <1>1, <1>2, <3>2, <4>1, RollbackCallRefunds
    <3>3. CASE Serve(w)
      <4>1. job[w].pc \notin RollbackLabels
        BY <3>3 DEF Serve, Create, Cancel, Complete, Rollback, GetBreakdown, Notify, Request,
                    AtRest, RestLabels, RollbackLabels
      <4>. QED
        BY <1>1, <2>1, <3>3, <4>1, RequestsAreQuiet, QuietKeeps DEF Quiet, Refunds
    <3>4. CASE \/ ResolveWallet(w) \/ ResolveSadad(w) \/ CreateRead(w) \/ CancelRead(w)
               \/ CancelKey(w) \/ WalletRead(w) \/ CashRead(w) \/ Poll(w) \/ Status(w)
      <4>1. job[w].pc \notin RollbackLabels
        BY <3>4 DEF ResolveWallet, ResolveSadad, CreateRead, CancelRead, CancelKey, WalletRead,
                    CashRead, Poll, Status, RollbackLabels
      <4>. QED
        BY <1>1, <2>1, <3>4, <4>1, ReadsAreQuiet, QuietKeeps DEF Quiet, Refunds
    <3>5. CASE \/ HoldSettle(w) \/ PollSettle(w) \/ NotifySettle(w)
               \/ CompleteMark(w) \/ CompleteSettle(w)
               \/ CancelMark(w) \/ CancelRetire(w) \/ CancelWrite(w) \/ Insert(w)
      <4>1. job[w].pc \notin RollbackLabels
        BY <3>5 DEF HoldSettle, PollSettle, NotifySettle, CompleteMark, CompleteSettle, CancelMark,
                    CancelRetire, CancelWrite, Insert, RollbackLabels
      <4>. QED
        BY <1>1, <2>1, <3>5, <4>1, WritesAreQuiet, QuietKeeps DEF Quiet, Refunds
    <3>6. CASE HoldCall(w) \/ CancelCall(w) \/ CompleteCall(w)
      <4>1. job[w].pc \notin RollbackLabels
        BY <3>6 DEF HoldCall, CancelCall, CompleteCall, RollbackLabels
      <4>. QED
        BY <1>1, <2>1, <3>6, <4>1, CallsAreQuiet, QuietKeeps DEF Quiet, Refunds
    <3>. QED
      BY <1>5, <3>1, <3>2, <3>3, <3>4, <3>5, <3>6 DEF Advance
  <2>. QED
    BY <1>1, <2>2 DEF BInv, Refunds
<1>6. ~Crash(w) /\ ~LateCall
  BY <1>2 DEF Crash, LateCall
<1>. QED
  BY <1>1, <1>3, <1>4, <1>5, <1>6 DEF TNext

LEMMA InitBInv == TInit => BInv
<1>. SUFFICES ASSUME TInit PROVE BInv
  OBVIOUS
<1>1. /\ late = {} /\ \A i \in Ids : /\ tbl[i].state = "ABSENT" /\ pay[i] = "NONE"
  BY DEF TInit, TblInit, NoRow, PayInit
<1>2. ReleasedOK(tbl, pay)
  BY <1>1 DEF ReleasedOK
<1>3. PastGains(tbl, pay, adjusted) = 0
  <2>. DEFINE f == [i \in Ids |-> PastGain(tbl[i], pay[i], adjusted[i])]
  <2>1. \A i \in Ids : f[i] = 0
    BY <1>1 DEF PastGain
  <2>2. PastGains(tbl, pay, adjusted) = SumFunctionOnSet(f, Ids)
    BY DEF PastGains, SumFunction
  <2>. HIDE DEF f
  <2>. QED
    BY <2>1, <2>2, SumZero, IdsAreFinite
<1>4. ASSUME NEW p \in Procs
      PROVE  RefundOK(job[p], tbl, pay, adjusted)
  <2>1. job[p].pc = "idle" /\ job[p].kind = "none"
    BY DEF TInit, IdleJob
  <2>2. job[p].pc \in RestLabels \ RollbackLabels
    BY <2>1 DEF RestLabels, RollbackLabels
  <2>. QED
    BY <1>1, <1>3, <2>2, Rested
<1>. QED
  BY <1>1, <1>2, <1>4 DEF BInv

\* BInv holds in every state of a TransactionService whose requests are served one after the other
\* and do not fail: a rollback under way has in its hands what the released cash left in the
\* wallet, and nothing is left to make up for between requests.
THEOREM RefundInvariantHolds == RefundAssumption /\ TSpec => []BInv
<1>. SUFFICES ASSUME RefundAssumption PROVE TSpec => []BInv
  OBVIOUS
<1>1. CheckoutAssumption /\ Serial
  BY DEF RefundAssumption, CheckoutAssumption
<1>2. IInv /\ SInv /\ CInv /\ BInv /\ [TNext]_tvars => BInv'
  BY NextBInv DEF BReady
<1>. QED
  BY <1>1, <1>2, InitBInv, InvariantHolds, SerialInvariantHolds, CheckoutInvariantHolds, PTL
     DEF TSpec

\* A wallet is where it was once everything the order settled is rolled back: what rolling back
\* the cash leaves there is what its refund is reduced by (rollbackTransaction), for every order
\* total above nothing and every amount the wallet covered.
THEOREM RefundsHold == RefundAssumption /\ TSpec => []RefundsBalance
<1>. SUFFICES ASSUME RefundAssumption PROVE TSpec => []RefundsBalance
  OBVIOUS
<1>1. CheckoutAssumption /\ Serial
  BY DEF RefundAssumption, CheckoutAssumption
<1>2. IInv /\ SInv /\ CInv /\ BInv => RefundsBalance
  <2>. SUFFICES ASSUME BReady, \A p \in Procs : AtRest(p),
                       \A i \in Ids : pay[i] \notin {"CHARGED", "RELEASED"}
                PROVE  WalletGain = 0
    BY DEF RefundsBalance, BReady
  <2>. DEFINE f == [i \in Ids |-> PastGain(tbl[i], pay[i], adjusted[i])]
              g == [i \in Ids |->
                CASE pay[i] = "CHARGED" /\ tbl[i].pm = "WALLET" -> -tbl[i].amount
                  [] pay[i] = "ROLLED" /\ tbl[i].pm = "WALLET" /\ adjusted[i] > 0
                       -> adjusted[i] - tbl[i].amount
                  [] pay[i] \in {"RELEASED", "ROLLED_RELEASE"} -> tbl[i].amount
                  [] OTHER -> 0]
  <2>1. PICK w \in Procs : Procs = {w}
    BY <1>1 DEF Serial
  <2>2. PastGains(tbl, pay, adjusted) = 0
    <3>1. job[w].pc \notin RollbackLabels
      BY DEF AtRest, RestLabels, RollbackLabels
    <3>. QED
      BY <3>1, BReadyIs DEF RefundOK, Balanced, Returned
  <2>3. \A i \in Ids : f[i] = g[i]
    BY DEF PastGain
  <2>4. WalletGain = SumFunctionOnSet(g, Ids) /\ PastGains(tbl, pay, adjusted) = SumFunctionOnSet(f, Ids)
    BY DEF WalletGain, PastGains, SumFunction
  <2>. HIDE DEF f, g
  <2>. QED
    BY <2>2, <2>3, <2>4, SumSame, IdsAreFinite
<1>. QED
  BY <1>1, <1>2, InvariantHolds, SerialInvariantHolds, CheckoutInvariantHolds, RefundInvariantHolds,
     PTL
=============================================================================
