---------------------------- MODULE AccountProofs ----------------------------
(***************************************************************************)
(* TransactionService implements MethodAccount for any workers, ids,       *)
(* requests, faults and amounts.  A step either leaves the payments alone  *)
(* and the methods of their rows with them, or moves one payment; that a   *)
(* payment opens only when no other of its method is open follows from     *)
(* IInv after the step.                                                    *)
(***************************************************************************)
EXTENDS TransactionServiceProofs, AccountRefinement

\* A payment that was begun belongs to a row, whose method never changes.
RowsStay == \A i \in Ids : pay[i] # "NONE" => tbl'[i].pm = tbl[i].pm

Idle == pay' = pay /\ RowsStay

\* What a call or the payer does to a payment.
Onward(from, to) ==
  \/ from = "NONE" /\ to \in {"PENDING", "HELD"}
  \/ from = "PENDING" /\ to \in {"HELD", "CANCELLED"}
  \/ from = "HELD" /\ to \in {"CHARGED", "RELEASED", "CANCELLED"}
  \/ from \in {"CHARGED", "CANCELLED"} /\ to = "ROLLED"
  \/ from = "RELEASED" /\ to = "ROLLED_RELEASE"

Moves(i) ==
  /\ tbl' = tbl
  /\ \E to \in PayStates : Onward(pay[i], to) /\ pay' = [pay EXCEPT ![i] = to]

Quiet == Idle \/ \E i \in Ids : Moves(i)

-----------------------------------------------------------------------------
\* Steps

LEMMA OnwardCalls ==
  ASSUME NEW op \in Ops, NEW from \in From(op)
  PROVE  To(op, from) \in PayStates /\ Onward(from, To(op, from))
  BY DEF Ops, From, To, PayStates, Onward

LEMMA HandleQuiet ==
  ASSUME NEW c \in Calls, Handle(c), tbl' = tbl
  PROVE  Quiet
<1>1. CASE pay[c.id] \in From(c.op)
  <2>1. c.op \in Ops /\ c.id \in Ids
    BY DEF Calls
  <2>2. pay' = [pay EXCEPT ![c.id] = To(c.op, pay[c.id])]
    BY <1>1 DEF Handle
  <2>. QED
    BY <1>1, <2>1, <2>2, OnwardCalls DEF Quiet, Moves
<1>2. CASE pay[c.id] \notin From(c.op)
  BY <1>2 DEF Handle, Quiet, Idle, RowsStay
<1>. QED
  BY <1>1, <1>2

\* A write to a row that is there, whatever it says, keeps its method.
LEMMA WriteQuiet ==
  ASSUME IInv, NEW i, NEW row, tbl' = [tbl EXCEPT ![i] = row], UNCHANGED pay,
         i \in Ids => pay[i] = "NONE" \/ row.pm = tbl[i].pm
  PROVE  Quiet
  BY DEF IInv, LedgerOK, Quiet, Idle, RowsStay

LEMMA MarkQuiet ==
  ASSUME IInv, NEW p, NEW state, NEW j, Mark(p, state, j)
  PROVE  Quiet
<1>. DEFINE i == Snapped(job[p]).id
<1>1. tbl' = [tbl EXCEPT ![i] = [tbl[i] EXCEPT !.state = state]] /\ UNCHANGED pay
  BY DEF Mark, SetState
<1>2. i \in Ids => [tbl[i] EXCEPT !.state = state].pm = tbl[i].pm
  BY DEF IInv, LedgerOK, Row
<1>. QED
  BY <1>1, <1>2, WriteQuiet

LEMMA RetireQuiet ==
  ASSUME IInv, NEW i, RetireRow(i), UNCHANGED pay
  PROVE  Quiet
<1>. DEFINE row == [tbl[i] EXCEPT !.state = "ROLLBACKED", !.live = FALSE]
<1>1. i \in Ids => tbl' = [tbl EXCEPT ![i] = row] /\ row.pm = tbl[i].pm
  BY DEF IInv, LedgerOK, Row, RetireRow
<1>2. i \notin Ids => tbl' = tbl
  BY DEF IInv, LedgerOK, RetireRow
<1>. QED
  BY <1>1, <1>2, WriteQuiet DEF Quiet, Idle, RowsStay

LEMMA WriteCancelledQuiet ==
  ASSUME IInv, NEW i, NEW live, WriteCancelled(i, live), UNCHANGED pay
  PROVE  Quiet
<1>. DEFINE row == [tbl[i] EXCEPT !.state = "CANCELLED", !.live = live]
<1>1. i \in Ids => tbl' = [tbl EXCEPT ![i] = row] /\ row.pm = tbl[i].pm
  BY DEF IInv, LedgerOK, Row, WriteCancelled
<1>2. i \notin Ids => tbl' = tbl
  BY DEF IInv, LedgerOK, WriteCancelled
<1>. QED
  BY <1>1, <1>2, WriteQuiet DEF Quiet, Idle, RowsStay

LEMMA InsertQuiet ==
  ASSUME IInv, NEW p \in Procs, Insert(p)
  PROVE  Quiet
<1>1. CASE UNCHANGED tbl
  BY <1>1 DEF Insert, Quiet, Idle, RowsStay
<1>2. ASSUME NEW i \in Ids, NEW pm, NEW amount, NEW currency, CreateRow(i, pm, amount, currency)
      PROVE  Quiet
  <2>1. pay[i] = "NONE"
    BY <1>2 DEF CreateRow, Stored, IInv, LedgerOK, RowOK
  <2>. QED
    BY <1>2, <2>1 DEF CreateRow, Insert, IInv, LedgerOK, Quiet, Idle, RowsStay
<1>. QED
  BY <1>1, <1>2 DEF Insert

LEMMA CallQuiet ==
  ASSUME IInv, NEW p \in Procs, job[p].pc \in RowLabels, NEW op \in Ops, NEW adjust \in Nat,
         NEW answered, Call(p, op, adjust, answered), tbl' = tbl
  PROVE  Quiet
<1>. DEFINE c == [op |-> op, id |-> Snapped(job[p]).id, adjust |-> adjust]
<1>1. c \in Calls
  BY WorkerKnows DEF Calls
<1>2. Handle(c) \/ UNCHANGED pay
  BY DEF Call, Answered, Failed, Refused, AnswerLost, GivenUp
<1>3. UNCHANGED pay => Quiet
  BY DEF Quiet, Idle, RowsStay
<1>. QED
  BY <1>1, <1>2, <1>3, HandleQuiet

LEMMA CallsQuiet ==
  ASSUME IInv, NEW p \in Procs,
         HoldCall(p) \/ CancelCall(p) \/ CompleteCall(p) \/ RollbackCall(p)
  PROVE  Quiet
<1>1. job[p].pc \in RowLabels /\ tbl' = tbl
  BY DEF HoldCall, CancelCall, CompleteCall, RollbackCall, RowLabels, HoldLabels, CancelLabels,
         RollbackLabels
<1>2. HoldOp(job[p].on) \in Ops /\ {"cancel", "release", "charge", "rollback"} \subseteq Ops
  BY DEF HoldOp, Ops
<1>3. Adjusted(job[p]) \in Nat
  <2>1. job[p].snap["WALLET"] \in Snap /\ job[p].amount \in Int
    BY WorkerKnows DEF Job, Methods
  <2>2. job[p].snap["WALLET"].amount \in Nat
    BY <2>1 DEF Snap
  <2>. QED
    BY <2>1, <2>2 DEF Adjusted
<1>. QED
  BY <1>1, <1>2, <1>3, CallQuiet DEF HoldCall, CancelCall, CompleteCall, RollbackCall

\* Every step leaves the payments alone, or moves one.
LEMMA NextQuiet == IInv /\ [TNext]_tvars => Quiet
<1>. SUFFICES ASSUME IInv, [TNext]_tvars PROVE Quiet
  OBVIOUS
<1>1. UNCHANGED <<tbl, pay>> => Quiet
  BY DEF Quiet, Idle, RowsStay
<1>2. ASSUME NEW p \in Procs, Serve(p)
      PROVE  Quiet
  BY <1>1, <1>2 DEF Serve, Create, Cancel, Complete, Rollback, GetBreakdown, Request, Notify
<1>3. ASSUME NEW p \in Procs, Advance(p)
      PROVE  Quiet
  <2>1. CASE \/ ResolveWallet(p) \/ ResolveSadad(p) \/ CreateRead(p) \/ CancelRead(p)
             \/ WalletRead(p) \/ CashRead(p) \/ RollbackRead(p) \/ CancelKey(p)
             \/ Poll(p) \/ Status(p)
    BY <1>1, <2>1 DEF ResolveWallet, ResolveSadad, CreateRead, CancelRead, WalletRead, CashRead,
       RollbackRead, CancelKey, Poll, Status
  <2>2. CASE \/ HoldSettle(p) \/ CancelMark(p) \/ CompleteMark(p) \/ RollbackMark(p)
             \/ PollSettle(p) \/ NotifySettle(p) \/ CompleteSettle(p)
    BY <2>2, MarkQuiet DEF HoldSettle, CancelMark, CompleteMark, RollbackMark, PollSettle,
       NotifySettle, CompleteSettle
  <2>3. CASE CancelRetire(p) \/ RollbackSettle(p)
    BY <2>3, RetireQuiet DEF CancelRetire, RollbackSettle
  <2>4. CASE CancelWrite(p)
    BY <1>1, <2>4, WriteCancelledQuiet DEF CancelWrite
  <2>. QED
    BY <1>3, <2>1, <2>2, <2>3, <2>4, InsertQuiet, CallsQuiet DEF Advance
<1>4. ASSUME NEW p \in Procs, Crash(p)
      PROVE  Quiet
  BY <1>1, <1>4 DEF Crash
<1>5. CASE LateCall
  <2>1. PICK c \in late : HandleLate(c) /\ UNCHANGED tbl
    BY <1>5 DEF LateCall
  <2>. QED
    BY <2>1, HandleQuiet DEF HandleLate, IInv, LedgerOK
<1>6. CASE Payer
  <2>1. PICK i \in Ids : PayBill(i) /\ UNCHANGED tbl
    BY <1>6 DEF Payer
  <2>. QED
    BY <2>1 DEF PayBill, Quiet, Moves, Onward, PayStates
<1>7. CASE UNCHANGED tvars
  BY <1>1, <1>7 DEF tvars
<1>. QED
  BY <1>2, <1>3, <1>4, <1>5, <1>6, <1>7 DEF TNext

-----------------------------------------------------------------------------
\* The account of a method

\* Only one payment of a method that pays at once is open: an open one has kept its key.
LEMMA OneOpen ==
  ASSUME IInv, NEW m \in InstantMethods, NEW i \in OpenPayments(m), NEW k \in OpenPayments(m)
  PROVE  i = k
<1>1. \A x \in {i, k} : /\ x \in Ids /\ tbl[x].pm = m /\ IsInstantPayment(tbl[x].pm)
                        /\ RowOK(tbl[x], pay[x]) /\ pay[x] \notin Undone /\ pay[x] # "NONE"
  BY DEF IInv, LedgerOK, Undone, OpenPayments, IsOpen, InstantMethods
<1>2. \A x \in {i, k} : IsLive(tbl[x])
  BY <1>1, Zenon DEF RowOK, RetiredUndone, IsLive
<1>. QED
  BY <1>1, <1>2 DEF IInv, LedgerOK, KeysUnique

LEMMA CurrentIs ==
  ASSUME IInv, NEW m \in InstantMethods
  PROVE  /\ \A i \in OpenPayments(m) : CurrentOf(m) = i
         /\ OpenPayments(m) = {} => CurrentOf(m) = NoId
<1>1. ASSUME NEW i \in OpenPayments(m)
      PROVE  CurrentOf(m) = i
  <2>1. OpenPayments(m) = {i}
    BY <1>1, OneOpen
  <2>. QED
    BY <2>1 DEF CurrentOf
<1>. QED
  BY <1>1 DEF CurrentOf

\* What the state says of the account, as the abstract variables.
CurrentNow == [m \in InstantMethods |-> CurrentOf(m)]
StageNow == [i \in Ids |-> IF IsInstantPayment(tbl[i].pm) THEN StageOf(pay[i]) ELSE "new"]

LEMMA IdleKeepsAccount ==
  ASSUME Idle
  PROVE  CurrentNow' = CurrentNow /\ StageNow' = StageNow
<1>1. \A m \in InstantMethods : OpenPayments(m)' = OpenPayments(m)
  BY DEF Idle, RowsStay, OpenPayments, IsOpen
<1>2. CurrentNow' = CurrentNow
  BY <1>1 DEF CurrentNow, CurrentOf
<1>3. StageNow' = StageNow
  <2>1. ASSUME NEW i \in Ids
        PROVE  (IF IsInstantPayment(tbl[i].pm) THEN StageOf(pay[i]) ELSE "new")'
                 = IF IsInstantPayment(tbl[i].pm) THEN StageOf(pay[i]) ELSE "new"
    <3>1. pay'[i] = pay[i] /\ (pay[i] # "NONE" => tbl'[i].pm = tbl[i].pm) /\ StageOf("NONE") = "new"
      BY DEF Idle, RowsStay, StageOf
    <3>. QED
      BY <3>1
  <2>. QED
    BY <2>1 DEF StageNow
<1>. QED
  BY <1>2, <1>3

\* The payment that moves is that of its method's account before or after the step.
LEMMA MoveIsAccounted ==
  ASSUME IInv, IInv', NEW i \in Ids, Moves(i)
  PROVE  Account!Next \/ UNCHANGED <<CurrentNow, StageNow>>
<1>. PICK m \in Methods : m = tbl[i].pm
  BY DEF IInv, LedgerOK, Row
<1>1. PICK to \in PayStates : Onward(pay[i], to) /\ pay' = [pay EXCEPT ![i] = to]
  BY DEF Moves
<1>2. /\ tbl' = tbl /\ pay'[i] = to /\ pay[i] # to
      /\ \A k \in Ids \ {i} : pay'[k] = pay[k]
  BY <1>1 DEF Moves, Onward, IInv, LedgerOK
<1>3. \A n \in InstantMethods \ {m} : OpenPayments(n)' = OpenPayments(n)
  BY <1>2 DEF OpenPayments
<1>4. \A n \in InstantMethods \ {m} : CurrentOf(n)' = CurrentOf(n)
  BY <1>3 DEF CurrentOf
<1>5. CASE m \notin InstantMethods
  <2>1. CurrentNow' = CurrentNow
    BY <1>4, <1>5 DEF CurrentNow
  <2>2. StageNow' = StageNow
    BY <1>2, <1>5 DEF StageNow, InstantMethods
  <2>. QED
    BY <2>1, <2>2
<1>6. CASE m \in InstantMethods
  <2>1. /\ CurrentNow' = [CurrentNow EXCEPT ![m] = CurrentOf(m)']
        /\ CurrentNow[m] = CurrentOf(m)
    BY <1>4, <1>6 DEF CurrentNow
  <2>2. /\ StageNow' = [StageNow EXCEPT ![i] = StageOf(to)]
        /\ StageNow[i] = StageOf(pay[i])
    <3>. DEFINE S(x, paid) == IF IsInstantPayment(tbl[x].pm) THEN StageOf(paid) ELSE "new"
    <3>1. S(i, pay[i]) = StageOf(pay[i]) /\ S(i, to) = StageOf(to)
      BY <1>6 DEF InstantMethods
    <3>2. StageNow = [k \in Ids |-> S(k, pay[k])]
      BY DEF StageNow
    <3>3. StageNow' = [k \in Ids |-> S(k, pay'[k])]
      BY <1>2 DEF StageNow
    <3>. HIDE DEF S
    <3>. QED
      BY <1>2, <3>1, <3>2, <3>3
  <2>3. /\ i \in OpenPayments(m) <=> IsOpen(pay[i])
        /\ i \in OpenPayments(m)' <=> IsOpen(to)
    BY <1>2 DEF OpenPayments
  <2>4. /\ \A k \in Ids \ {i} : k \in OpenPayments(m)' <=> k \in OpenPayments(m)
        /\ OpenPayments(m) \subseteq Ids /\ OpenPayments(m)' \subseteq Ids
    BY <1>2 DEF OpenPayments
  <2>5. IsOpen(pay[i]) => OpenPayments(m) = {i} /\ CurrentOf(m) = i
    BY <1>6, <2>3, OneOpen, CurrentIs
  <2>6. IsOpen(to) => OpenPayments(m)' = {i} /\ CurrentOf(m)' = i
    <3>1. ASSUME IsOpen(to), NEW k \in OpenPayments(m)'
          PROVE  k = i
      <4>1. \A x \in {i, k} : /\ x \in Ids /\ tbl'[x].pm = m /\ IsInstantPayment(tbl'[x].pm)
                              /\ RowOK(tbl'[x], pay'[x])
                              /\ pay'[x] \notin Undone /\ pay'[x] # "NONE"
        BY <1>2, <1>6, <2>3, <3>1 DEF IInv, LedgerOK, Undone, OpenPayments, IsOpen, InstantMethods
      <4>2. \A x \in {i, k} : IsLive(tbl'[x])
        BY <4>1, Zenon DEF RowOK, RetiredUndone, IsLive
      <4>. QED
        BY <4>1, <4>2 DEF IInv, LedgerOK, KeysUnique
    <3>2. IsOpen(to) => OpenPayments(m)' = {i}
      BY <2>3, <3>1
    <3>. QED
      BY <3>2 DEF CurrentOf
  <2>7. CASE pay[i] = "NONE"
    <3>1. IsOpen(to) /\ ~IsOpen(pay[i]) /\ StageOf(pay[i]) = "new" /\ StageOf(to) = "held"
      BY <1>1, <2>7 DEF Onward, IsOpen, StageOf
    <3>2. OpenPayments(m) = {}
      BY <2>3, <2>4, <2>6, <3>1
    <3>3. CurrentOf(m) = NoId
      BY <1>6, <3>2, CurrentIs
    <3>4. Account!Hold(m, i)
      BY <2>1, <2>2, <2>6, <3>1, <3>3 DEF Account!Hold, CurrentNow, StageNow
    <3>. QED
      BY <1>6, <3>4 DEF Account!Next
  <2>8. CASE pay[i] = "PENDING" /\ to = "HELD"
    <3>1. CurrentOf(m)' = CurrentOf(m) /\ StageOf(to) = StageOf(pay[i])
      BY <2>5, <2>6, <2>8 DEF IsOpen, StageOf
    <3>2. CurrentNow' = CurrentNow
      BY <1>4, <3>1 DEF CurrentNow
    <3>3. StageNow' = StageNow
      BY <1>2, <3>1 DEF StageNow
    <3>. QED
      BY <3>2, <3>3
  <2>9. CASE pay[i] \in {"PENDING", "HELD"} /\ to # "HELD"
    <3>1. /\ IsOpen(to) /\ IsOpen(pay[i]) /\ StageOf(pay[i]) = "held"
          /\ StageOf(to) \in {"taken", "given", "dropped"}
      BY <1>1, <2>9 DEF Onward, IsOpen, StageOf
    <3>2. CurrentOf(m)' = CurrentOf(m) /\ CurrentOf(m) = i
      BY <2>5, <2>6, <3>1
    <3>3. CurrentNow' = CurrentNow
      BY <1>4, <3>2 DEF CurrentNow
    <3>4. Account!Settle(m, i)
      BY <2>1, <2>2, <3>1, <3>2, <3>3 DEF Account!Settle, CurrentNow, StageNow
    <3>. QED
      BY <1>6, <3>4 DEF Account!Next
  <2>10. CASE pay[i] \in {"CHARGED", "RELEASED", "CANCELLED"}
    <3>1. /\ ~IsOpen(to) /\ IsOpen(pay[i]) /\ StageOf(to) = "returned"
          /\ StageOf(pay[i]) \in {"taken", "given", "dropped"}
      BY <1>1, <2>10 DEF Onward, IsOpen, StageOf
    <3>2. OpenPayments(m)' = {} /\ CurrentOf(m) = i
      BY <2>3, <2>4, <2>5, <3>1
    <3>3. CurrentOf(m)' = NoId
      BY <3>2 DEF CurrentOf
    <3>4. Account!Return(m, i)
      BY <2>1, <2>2, <3>1, <3>2, <3>3 DEF Account!Return, CurrentNow, StageNow
    <3>. QED
      BY <1>6, <3>4 DEF Account!Next
  <2>. QED
    BY <1>1, <2>7, <2>8, <2>9, <2>10 DEF Onward
<1>. QED
  BY <1>5, <1>6

\* TransactionService keeps each instant method's account for any number of requests at once:
\* one payment open at a time, settled one way, replaced only once returned.
THEOREM AccountsHold == TSpec => OneAccountPerMethod
<1>1. TInit => Account!Init
  <2>. SUFFICES ASSUME TInit PROVE Account!Init
    OBVIOUS
  <2>1. \A i \in Ids : pay[i] = "NONE"
    BY DEF TInit, PayInit
  <2>2. \A m \in InstantMethods : OpenPayments(m) = {}
    BY <2>1 DEF OpenPayments, IsOpen
  <2>. QED
    BY <2>1, <2>2 DEF Account!Init, CurrentOf, StageOf
<1>2. IInv /\ IInv' /\ [TNext]_tvars => [Account!Next]_(Account!accountvars)
  BY NextQuiet, IdleKeepsAccount, MoveIsAccounted
     DEF Quiet, Account!accountvars, CurrentNow, StageNow
<1>. QED
  BY <1>1, <1>2, InvariantHolds, PTL DEF TSpec, OneAccountPerMethod, Account!Spec
=============================================================================
