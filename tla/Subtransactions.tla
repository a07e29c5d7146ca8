-------------------------- MODULE Subtransactions --------------------------
(***************************************************************************)
(* The subtransaction table of one order and the statements DbWrapper      *)
(* runs on it.  Each operator that primes tbl is one committed database    *)
(* transaction.                                                            *)
(*                                                                         *)
(* idemp_key is abstracted to one bit.  A row is inserted under the key    *)
(* `${orderId}_${method}` (live); retiring it appends `_${id}`, a key no   *)
(* lookup asks for and no other row can have (not live).                   *)
(***************************************************************************)
EXTENDS PaymentEnums

VARIABLE tbl            \* id |-> row; state "ABSENT" until the row is inserted

Row == [state : States \cup {"ABSENT"}, pm : Methods, amount : Nat,
        currency : Currencies, live : BOOLEAN]

NoRow == [state |-> "ABSENT", pm |-> "CASH", amount |-> 0,
          currency |-> "PKR", live |-> FALSE]

\* An entity as read: the row's fields at that moment, never refreshed.
Snap == [id : Ids \cup {NoId}, state : States \cup {"ABSENT"}, amount : Nat,
         currency : Currencies, live : BOOLEAN]

NoSnap == [id |-> NoId, state |-> "ABSENT", amount |-> 0,
           currency |-> "PKR", live |-> FALSE]

SnapOf(i) == [id |-> i, state |-> tbl[i].state, amount |-> tbl[i].amount,
              currency |-> tbl[i].currency, live |-> tbl[i].live]

Exists(s) == s.state # "ABSENT"

TblInit == tbl = [i \in Ids |-> NoRow]

-----------------------------------------------------------------------------
\* Rows

Stored(i) == tbl[i].state # "ABSENT"

LiveIds(pm) == {i \in Ids : Stored(i) /\ tbl[i].live /\ tbl[i].pm = pm}

\* findByIdempKey: a row under the method's key, or undefined.
FindByIdempKey(pm) ==
  IF LiveIds(pm) = {} THEN {NoSnap} ELSE {SnapOf(i) : i \in LiveIds(pm)}

\* Mutant of ActiveStates: what waits for its payer is not active.
ActiveStatesHeld == {"HOLD", "COMPLETED", "COMPLETE_PROCESSING"}

\* findAllByOrderId, filtered and keyed by method as getSubtransactions does: of several
\* rows of one method the last one read wins, and the query does not order them.
ActiveStates == {"HOLD", "AWAITING_PAYMENT", "COMPLETED", "COMPLETE_PROCESSING"}

FindActive(pm) ==
  LET active == {i \in Ids : tbl[i].pm = pm /\ tbl[i].state \in ActiveStates}
  IN  IF active = {} THEN {NoSnap} ELSE {SnapOf(i) : i \in active}

-----------------------------------------------------------------------------
\* Statements

\* Mutant of KeyFree: no unique index.
KeyFreeNoIndex(pm) == TRUE

\* The unique index on idemp_key.
KeyFree(pm) == LiveIds(pm) = {}

\* createSubtransaction: an insert with the column default for the state.
CreateRow(i, pm, amount, currency) ==
  /\ ~Stored(i)
  /\ KeyFree(pm)
  /\ tbl' = [tbl EXCEPT ![i] = [state |-> "HOLD_PROCESSING", pm |-> pm, amount |-> amount,
                                currency |-> currency, live |-> TRUE]]

\* setSubtransactionState: unconditional, whatever the state was.
SetState(i, state) == tbl' = [tbl EXCEPT ![i].state = state]

\* Mutant of RetireRow: the end state without freeing the key.
RetireRowKeepsKey(i) == tbl' = [tbl EXCEPT ![i].state = "ROLLBACKED"]

\* rollbackSubtransaction and its alias cancelIntent: the end state, and the key freed.
\* Appending `_${id}` to a retired key leaves a retired key.
RetireRow(i) == tbl' = [tbl EXCEPT ![i].state = "ROLLBACKED", ![i].live = FALSE]

\* cancelSubtransaction, second half: writes the state together with the idempKey its first
\* half read.  Writing back a live key is refused when another row has it by now.
CanWriteBack(i, live) == live => LiveIds(tbl[i].pm) \subseteq {i}

WriteCancelled(i, live) ==
  /\ CanWriteBack(i, live)
  /\ tbl' = [tbl EXCEPT ![i].state = "CANCELLED", ![i].live = live]

-----------------------------------------------------------------------------
TblTypeOK == tbl \in [Ids -> Row]
=============================================================================
