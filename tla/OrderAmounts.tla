---------------------------- MODULE OrderAmounts ----------------------------
(***************************************************************************)
(* The amounts of one order, to the last digit the service reads: what a   *)
(* create holds by each method, what a complete takes in cash, and what    *)
(* the rider is told to collect.  TransactionService follows every state   *)
(* of the same handlers in whole units; here requests run to their end one *)
(* after the other, nothing fails, and only the digits matter.             *)
(***************************************************************************)
EXTENDS Money

CONSTANTS
  Totals,         \* decimals a client may send as the order's total
  Balances,       \* decimals the wallet service may answer, of either sign
  MaxRequests     \* bound: requests of the order

ASSUME AmountsAssumption ==
  Totals \subseteq Nat /\ Balances \subseteq Int /\ MaxRequests \in Nat

VARIABLES
  quoted,         \* the total of the last create
  final,          \* the total of the last complete
  wallet, sadad, cash,    \* the rows' amounts in units, NoRow where there is none
  topup,          \* the cash row is released to the wallet, not charged
  outcome,        \* "open", "mismatch", "stuck" or "done"
  requests

avars == <<quoted, final, wallet, sadad, cash, topup, outcome, requests>>

NoRow == -1

Exists(row) == row # NoRow

\* A row of nothing is not held, and so stays in HOLD_PROCESSING.
Held(row) == row > 0

AmountOf(row) == IF Exists(row) THEN FromColumn(row) ELSE 0

AInit ==
  /\ quoted = 0 /\ final = 0
  /\ wallet = NoRow /\ sadad = NoRow /\ cash = NoRow
  /\ topup = FALSE
  /\ outcome = "open"
  /\ requests = 0

-----------------------------------------------------------------------------
\* Mutant of Inserted: a row for nothing, or less.
InsertedAlways(deduction) == Column(deduction)

\* createSubtransaction: no row for nothing.
Inserted(deduction) == IF deduction <= 0 THEN NoRow ELSE Column(deduction)

\* resolvePMAmount of the wallet: a row there is keeps its amount.
WalletRow(total, balance) ==
  IF Exists(wallet) THEN wallet
  ELSE IF balance < 0 THEN NoRow
  ELSE Inserted(IF Subtract(total, balance) >= 0 THEN balance ELSE total)

\* Mutant of SadadRow: the bill is for the whole total.
SadadRowGross(total, w) == Inserted(total)

\* resolvePMAmount of SADAD: the row there was is retired.
SadadRow(total, w) == Inserted(IF Exists(w) THEN Subtract(total, FromColumn(w)) ELSE total)

Request ==
  /\ outcome \in {"open", "mismatch"}
  /\ requests < MaxRequests
  /\ requests' = requests + 1

\* A create makes the order's amounts anew.
Creates == Request /\ outcome' = "open"

\* createTransaction with SADAD, without or with the wallet.
CreateSadad(decimal) ==
  LET total == FromJSON(decimal) IN
  /\ Creates
  /\ ~Exists(wallet)
  /\ quoted' = total
  /\ sadad' = SadadRow(total, NoRow)
  /\ UNCHANGED <<final, wallet, cash, topup>>

\* WALLET_EXISTS, thrown after the SADAD row was retired.
CreateSadadRejected ==
  /\ Creates
  /\ Exists(wallet)
  /\ sadad' = NoRow
  /\ UNCHANGED <<quoted, final, wallet, cash, topup>>

CreateSadadWallet(decimal, balance) ==
  LET total == FromJSON(decimal)
      w     == WalletRow(total, FromJSON(balance)) IN
  /\ Creates
  /\ quoted' = total
  /\ wallet' = w
  /\ sadad' = SadadRow(total, w)
  /\ UNCHANGED <<final, cash, topup>>

\* createTransaction with cash, without or with the wallet: cash has no row yet, SADAD's is
\* retired.
CreateCod(decimal) ==
  /\ Creates
  /\ quoted' = FromJSON(decimal)
  /\ sadad' = NoRow
  /\ UNCHANGED <<final, wallet, cash, topup>>

CreateCodWallet(decimal, balance) ==
  LET total == FromJSON(decimal) IN
  /\ Creates
  /\ quoted' = total
  /\ wallet' = WalletRow(total, FromJSON(balance))
  /\ sadad' = NoRow
  /\ UNCHANGED <<final, cash, topup>>

-----------------------------------------------------------------------------
\* completeTransaction

\* What the wallet leaves of a total.
Remaining(total) == Subtract(total, AmountOf(wallet))

\* A wallet row that was never held cannot be completed.
Outcome == IF Exists(wallet) /\ ~Held(wallet) THEN "stuck" ELSE "done"

\* TOTAL_AMOUNT_MISMATCH.
CompleteRejected(decimal) ==
  LET total == FromJSON(decimal) IN
  /\ Request
  /\ Held(sadad)
  /\ ~IsAlmostZero(Subtract(Remaining(total), FromColumn(sadad)))
  /\ final' = total
  /\ outcome' = "mismatch"
  /\ UNCHANGED <<quoted, wallet, sadad, cash, topup>>

CompleteSadad(decimal) ==
  LET total == FromJSON(decimal) IN
  /\ Request
  /\ Held(sadad)
  /\ IsAlmostZero(Subtract(Remaining(total), FromColumn(sadad)))
  /\ final' = total
  /\ outcome' = Outcome
  /\ UNCHANGED <<quoted, wallet, sadad, cash, topup>>

\* The rest is cash, or went to the wallet too much and comes back as a top-up.
CompleteCash(decimal) ==
  LET total == FromJSON(decimal)
      rest  == Remaining(total) IN
  /\ Request
  /\ ~Held(sadad)
  /\ final' = total
  /\ cash' = IF rest = 0 THEN NoRow ELSE Column(Magnitude(rest))
  /\ topup' = (rest < 0)
  /\ outcome' = Outcome
  /\ UNCHANGED <<quoted, wallet, sadad>>

ANext ==
  \/ CreateSadadRejected
  \/ \E decimal \in Totals :
       \/ CreateSadad(decimal)
       \/ CreateCod(decimal)
       \/ CompleteRejected(decimal)
       \/ CompleteSadad(decimal)
       \/ CompleteCash(decimal)
       \/ \E balance \in Balances :
            CreateSadadWallet(decimal, balance) \/ CreateCodWallet(decimal, balance)

ASpec == AInit /\ [][ANext]_avars

-----------------------------------------------------------------------------
\* calculateCashAmount: what the rider is told, as a decimal.

\* Mutant of CashTold: subtracted the wrong way round.
CashToldSwapped(total) ==
  IF ~Exists(wallet) THEN ToJSON(total) ELSE ToJSON(Subtract(FromColumn(wallet), total))

CashTold(total) ==
  IF ~Exists(wallet) THEN ToJSON(total) ELSE ToJSON(Subtract(total, FromColumn(wallet)))

-----------------------------------------------------------------------------
\* Types.  In particular no request puts a row of less than nothing in the table
\* (createSubtransaction, putInDb).
AmountsTypeOK ==
  /\ quoted \in Nat /\ final \in Nat /\ requests \in Nat
  /\ wallet \in Nat \cup {NoRow} /\ sadad \in Nat \cup {NoRow} /\ cash \in Nat \cup {NoRow}
  /\ topup \in BOOLEAN
  /\ outcome \in {"open", "mismatch", "stuck", "done"}

\* The SADAD bill and the wallet add up to the total they were created for, but for less than one
\* unit, however often the method was changed (resolvePMAmount).
SadadCoversQuote ==
  Held(sadad) => LET short == quoted - AmountOf(wallet) - AmountOf(sadad)
                 IN  -Parts < short /\ short < Parts

\* TOTAL_AMOUNT_MISMATCH is for another total than the one the order was created with: what
\* roundings lose between create and complete never rejects the same total
\* (completeTransaction, isAlmostZero).
MismatchMeansAnotherTotal == outcome = "mismatch" => final # quoted

Collected == AmountOf(wallet) + (IF topup THEN -AmountOf(cash) ELSE AmountOf(cash))

\* Cash makes up what the wallet leaves of the final total, or gives back what it took too much:
\* the payer never pays more than the total, nor one whole unit less, whatever totals and
\* balances came before (resolvePMAmount, completeTransaction).
CashMakesUp ==
  outcome = "done" /\ ~Held(sadad) => Collected <= final /\ final - Collected < Parts

\* The cash the rider is told to collect is the cash of the row: to the unit when there is a
\* wallet, at most one unit more without, and none where there is a top-up (calculateCashAmount,
\* completeTransaction).
CashToldIsTaken ==
  outcome = "done" /\ ~Held(sadad) =>
    LET told == FromJSON(CashTold(final))
        row  == IF topup THEN 0 ELSE AmountOf(cash)
    IN  told = row \/ (~Exists(wallet) /\ told = row + Parts)
=============================================================================
