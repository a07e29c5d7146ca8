------------------------- MODULE OrderAmountsProofs -------------------------
(***************************************************************************)
(* The roundings of MoneyDto are bounded, and therefore harmless: whatever *)
(* totals clients send and balances the wallet service answers.            *)
(***************************************************************************)
EXTENDS OrderAmounts, TLAPS

-----------------------------------------------------------------------------
\* What the conversions do to an amount

LEMMA NearestPart ==
  ASSUME NEW a \in Int
  PROVE  /\ FromJSON(a) \in Int
         /\ a >= 0 => FromJSON(a) >= 0
  BY DEF FromJSON, Nearest

LEMMA NearestUnit ==
  ASSUME NEW a \in Int
  PROVE  /\ Column(a) \in Int
         /\ a >= 0 => Column(a) >= 0
         /\ a - 50 <= 100 * Column(a) /\ 100 * Column(a) <= a + 50
  BY DEF Column, Nearest, Parts

LEMMA WholeUnits ==
  ASSUME NEW k \in Int
  PROVE  Column(FromColumn(k)) = k
  BY DEF Column, FromColumn, Nearest, Parts

LEMMA Floored ==
  ASSUME NEW a \in Int
  PROVE  \E k \in Int : /\ NewMoney(a) = FromColumn(k)
                        /\ 100 * k <= a /\ a < 100 * k + 100
  <1>1. a \div 100 \in Int /\ 100 * (a \div 100) <= a /\ a < 100 * (a \div 100) + 100
    OBVIOUS
  <1> QED  BY <1>1 DEF NewMoney, FromColumn, Parts

\* What the table holds reaches the other side of a call unchanged: toJSON shows a row's amount
\* in the main currency and fromJSON reads the same amount from it.
THEOREM JsonKeepsUnits ==
  ASSUME NEW k \in Nat
  PROVE  FromJSON(ToJSON(FromColumn(k))) = FromColumn(k)
  <1>1. ToJSON(FromColumn(k)) = 1000 * k
    BY WholeUnits DEF ToJSON, FromColumn, Column, Nearest, Parts
  <1>2. FromJSON(1000 * k) = 100 * k
    BY DEF FromJSON, Nearest
  <1> QED  BY <1>1, <1>2 DEF FromColumn, Parts
-----------------------------------------------------------------------------
\* The amounts of an order

AInv ==
  /\ AmountsTypeOK
  /\ SadadCoversQuote
  /\ MismatchMeansAnotherTotal
  /\ CashMakesUp
  /\ CashToldIsTaken

LEMMA AmountIsInt ==
  ASSUME NEW row \in Nat \cup {NoRow}
  PROVE  AmountOf(row) \in Int
  BY DEF AmountOf, Exists, FromColumn, Parts, NoRow

LEMMA FlooredSubtract ==
  ASSUME NEW a \in Int, NEW b \in Int
  PROVE  /\ Subtract(a, b) \in Int
         /\ Subtract(a, b) <= a - b /\ a - b < Subtract(a, b) + 100
         /\ \E k \in Int : Subtract(a, b) = FromColumn(k)
  BY Floored, a - b \in Int DEF Subtract, FromColumn, Parts

LEMMA InsertedRow ==
  ASSUME NEW a \in Int
  PROVE  /\ Inserted(a) \in Nat \cup {NoRow}
         /\ Held(Inserted(a)) => /\ a - 50 <= 100 * Inserted(a)
                                 /\ 100 * Inserted(a) <= a + 50
         /\ \A k \in Int : a = FromColumn(k) /\ Held(Inserted(a)) => Inserted(a) = k
  BY NearestUnit, WholeUnits DEF Inserted, Held, NoRow

LEMMA NewWalletRow ==
  ASSUME AmountsTypeOK, NEW total \in Int, NEW balance \in Int
  PROVE  WalletRow(total, balance) \in Nat \cup {NoRow}
  BY InsertedRow DEF WalletRow, AmountsTypeOK

\* A new SADAD row covers what the wallet leaves of the total.
LEMMA NewSadadRow ==
  ASSUME NEW total \in Int, NEW w \in Nat \cup {NoRow}
  PROVE  LET s == SadadRow(total, w)
         IN  /\ s \in Nat \cup {NoRow}
             /\ Held(s) => LET short == total - AmountOf(w) - AmountOf(s)
                           IN  -Parts < short /\ short < Parts
  <1> DEFINE s == SadadRow(total, w)
  <1>1. CASE Exists(w)
    <2>1. w \in Int /\ FromColumn(w) = 100 * w /\ AmountOf(w) = 100 * w
      BY <1>1 DEF Exists, AmountOf, FromColumn, Parts, NoRow
    <2>2. PICK b \in Int : b = FromColumn(w)
      BY <2>1
    <2>3. Subtract(total, b) <= total - b /\ total - b < Subtract(total, b) + 100
      BY FlooredSubtract
    <2>4. PICK k \in Int : Subtract(total, b) = FromColumn(k)
      BY FlooredSubtract
    <2>5. FromColumn(k) = 100 * k
      BY DEF FromColumn, Parts
    <2>6. s = Inserted(FromColumn(k)) /\ s \in Nat \cup {NoRow}
      BY <1>1, <2>2, <2>4, <2>5, InsertedRow DEF SadadRow
    <2>7. Held(s) => s = k
      BY <2>5, <2>6, InsertedRow
    <2> QED  BY <2>1, <2>2, <2>3, <2>4, <2>5, <2>6, <2>7
             DEF Held, AmountOf, Exists, FromColumn, Parts, NoRow
  <1>2. CASE ~Exists(w)
    <2>1. s = Inserted(total) /\ AmountOf(w) = 0
      BY <1>2 DEF SadadRow, AmountOf
    <2> QED  BY <2>1, InsertedRow DEF Held, AmountOf, Exists, FromColumn, Parts, NoRow
  <1> QED  BY <1>1, <1>2

\* With the total it was created for, a completion is not rejected.
LEMMA SameTotalAccepted ==
  ASSUME AmountsTypeOK, SadadCoversQuote, Held(sadad)
  PROVE  IsAlmostZero(Subtract(Remaining(quoted), FromColumn(sadad)))
  <1>1. PICK w \in Int : w = AmountOf(wallet)
    BY AmountIsInt DEF AmountsTypeOK
  <1>2. PICK s \in Int : s = FromColumn(sadad) /\ s = AmountOf(sadad)
    BY DEF AmountsTypeOK, AmountOf, Exists, Held, FromColumn, Parts, NoRow
  <1>3. quoted \in Int /\ -100 < quoted - w - s /\ quoted - w - s < 100
    BY <1>1, <1>2 DEF AmountsTypeOK, SadadCoversQuote, Parts
  <1>4. PICK r \in Int : r = Subtract(quoted, w) /\ r <= quoted - w /\ quoted - w < r + 100
    BY <1>3, FlooredSubtract
  <1>5. PICK d \in Int : d = Subtract(r, s) /\ d <= r - s /\ r - s < d + 100
    BY FlooredSubtract
  <1>6. IsAlmostZero(d)
    BY <1>3, <1>4, <1>5 DEF IsAlmostZero, Units, Parts
  <1> QED  BY <1>1, <1>2, <1>4, <1>5, <1>6 DEF Remaining

\* What a completion takes in cash, or tops up.
LEMMA NewCashRow ==
  ASSUME AmountsTypeOK, NEW total \in Int,
         NEW c, c = IF Remaining(total) = 0 THEN NoRow ELSE Column(Magnitude(Remaining(total)))
  PROVE  LET row == AmountOf(c)
             taken == IF Remaining(total) < 0 THEN -row ELSE row
         IN  /\ c \in Nat \cup {NoRow}
             /\ row >= 0
             /\ taken = Remaining(total)
             /\ Remaining(total) <= total - AmountOf(wallet)
             /\ total - AmountOf(wallet) < Remaining(total) + 100
  <1>1. PICK w \in Int : w = AmountOf(wallet)
    BY AmountIsInt DEF AmountsTypeOK
  <1>2. PICK r \in Int : r = Remaining(total) /\ r <= total - w /\ total - w < r + 100
    BY <1>1, FlooredSubtract DEF Remaining
  <1>3. PICK k \in Int : r = FromColumn(k)
    BY <1>1, <1>2, FlooredSubtract DEF Remaining
  <1>4. r = 100 * k
    BY <1>3 DEF FromColumn, Parts
  <1>5. CASE r = 0
    BY <1>1, <1>2, <1>5 DEF AmountOf, Exists, NoRow
  <1>6. CASE r > 0
    <2>1. Magnitude(r) = FromColumn(k)
      BY <1>4, <1>6 DEF Magnitude, NewMoney, FromColumn, Parts
    <2>2. c = k /\ k > 0
      BY <1>2, <1>4, <1>6, <2>1, WholeUnits
    <2> QED  BY <1>1, <1>2, <1>4, <1>6, <2>2 DEF AmountOf, Exists, FromColumn, Parts, NoRow
  <1>7. CASE r < 0
    <2>1. Magnitude(r) = FromColumn(-k)
      BY <1>4, <1>7 DEF Magnitude, NewMoney, FromColumn, Parts
    <2>2. c = -k /\ -k > 0 /\ -k \in Int
      BY <1>2, <1>4, <1>7, <2>1, WholeUnits
    <2> QED  BY <1>1, <1>2, <1>4, <1>7, <2>2 DEF AmountOf, Exists, FromColumn, Parts, NoRow
  <1> QED  BY <1>5, <1>6, <1>7

\* What the rider is told, against what the wallet leaves.
LEMMA ToldOfRemaining ==
  ASSUME AmountsTypeOK, NEW total \in Int, total >= 0
  PROVE  LET told == FromJSON(CashTold(total))
             row  == IF Remaining(total) < 0 THEN 0 ELSE Remaining(total)
         IN  told = row \/ (~Exists(wallet) /\ told = row + Parts)
  <1> DEFINE told == FromJSON(CashTold(total))
  <1>1. PICK w \in Int : w = AmountOf(wallet)
    BY AmountIsInt DEF AmountsTypeOK
  <1>2. PICK r \in Int : r = Remaining(total) /\ r <= total - w /\ total - w < r + 100
    BY <1>1, FlooredSubtract DEF Remaining
  <1>3. PICK k \in Int : r = FromColumn(k)
    BY <1>1, <1>2, FlooredSubtract DEF Remaining
  <1>4. r = 100 * k
    BY <1>3 DEF FromColumn, Parts
  <1>5. FromJSON(0) = 0
    BY DEF FromJSON, Nearest
  <1>6. CASE Exists(wallet)
    <2>1. CashTold(total) = ToJSON(r)
      BY <1>1, <1>2, <1>6 DEF CashTold, Remaining, AmountOf
    <2>2. CASE r < 0
      BY <1>2, <1>5, <2>1, <2>2 DEF ToJSON
    <2>3. CASE r >= 0
      <3>1. k \in Nat
        BY <1>4, <2>3
      <3>2. told = r
        BY <1>3, <2>1, <3>1, JsonKeepsUnits
      <3> QED  BY <1>2, <2>3, <3>2
    <2> QED  BY <2>2, <2>3
  <1>7. CASE ~Exists(wallet)
    <2>1. w = 0 /\ r >= 0
      BY <1>1, <1>2, <1>4, <1>7 DEF AmountOf
    <2>2. CashTold(total) = 1000 * Column(total) /\ Column(total) \in Int
      BY <1>7, NearestUnit DEF CashTold, ToJSON, Column, Parts
    <2>3. told = 100 * Column(total)
      <3>1. PICK c \in Int : c = Column(total)
        BY <2>2
      <3>2. FromJSON(1000 * c) = 100 * c
        BY DEF FromJSON, Nearest
      <3> QED  BY <2>2, <3>1, <3>2
    <2>4. total - 50 <= 100 * Column(total) /\ 100 * Column(total) <= total + 50
      BY NearestUnit
    <2>5. Column(total) = k \/ Column(total) = k + 1
      BY <1>2, <1>4, <2>1, <2>2, <2>4
    <2> QED  BY <1>2, <1>4, <1>7, <2>1, <2>3, <2>5 DEF Parts
  <1> QED  BY <1>6, <1>7

-----------------------------------------------------------------------------
\* The invariant

LEMMA Initially == AInit => AInv
  <1> SUFFICES ASSUME AInit PROVE AInv
    OBVIOUS
  <1>1. ~Held(sadad) /\ outcome = "open"
    BY DEF AInit, Held, NoRow
  <1>2. AmountsTypeOK
    BY DEF AInit, AmountsTypeOK
  <1> QED  BY <1>1, <1>2
           DEF AInv, SadadCoversQuote, MismatchMeansAnotherTotal, CashMakesUp, CashToldIsTaken

\* A create puts the rows in order again and forgets what the last completion said.
LEMMA CreateKeeps ==
  ASSUME AInv, Creates, AmountsTypeOK', SadadCoversQuote'
  PROVE  AInv'
  BY DEF AInv, Creates, MismatchMeansAnotherTotal, CashMakesUp, CashToldIsTaken

LEMMA TotalRead ==
  ASSUME NEW decimal \in Totals
  PROVE  FromJSON(decimal) \in Nat
  BY AmountsAssumption, NearestPart

LEMMA BalanceRead ==
  ASSUME NEW balance \in Balances
  PROVE  FromJSON(balance) \in Int
  BY AmountsAssumption, NearestPart

\* Each request keeps it.
LEMMA InvariantKept ==
  ASSUME AInv, ANext
  PROVE  AInv'
  <1> USE DEF AInv
  <1>1. ASSUME NEW total \in Nat, NEW w \in Nat \cup {NoRow}, Creates, quoted' = total,
               wallet' = w, sadad' = SadadRow(total, w), UNCHANGED <<final, cash, topup>>
        PROVE  AInv'
    <2>1. total \in Int
      OBVIOUS
    <2>2. AmountsTypeOK'
      BY <1>1, <2>1, NewSadadRow DEF AmountsTypeOK, Creates, Request
    <2>3. SadadCoversQuote'
      BY <1>1, <2>1, NewSadadRow DEF SadadCoversQuote, Held, AmountOf, Exists
    <2> QED  BY <1>1, <2>2, <2>3, CreateKeeps
  <1>2. ASSUME NEW total \in Nat, NEW w \in Nat \cup {NoRow}, Creates, quoted' = total,
               wallet' = w, sadad' = NoRow, UNCHANGED <<final, cash, topup>>
        PROVE  AInv'
    <2>1. AmountsTypeOK'
      BY <1>2 DEF AmountsTypeOK, Creates, Request
    <2>2. SadadCoversQuote'
      BY <1>2 DEF SadadCoversQuote, Held, NoRow
    <2> QED  BY <1>2, <2>1, <2>2, CreateKeeps
  <1>3. ASSUME NEW decimal \in Totals, CreateSadad(decimal) PROVE AInv'
    <2>1. wallet = NoRow
      BY <1>3 DEF CreateSadad, Exists
    <2> QED  BY <1>1, <1>3, <2>1, TotalRead DEF CreateSadad
  <1>4. CASE CreateSadadRejected
    <2>1. quoted \in Nat /\ wallet \in Nat \cup {NoRow}
      BY DEF AmountsTypeOK
    <2> QED  BY <1>2, <1>4, <2>1 DEF CreateSadadRejected
  <1>5. ASSUME NEW decimal \in Totals, NEW balance \in Balances,
               CreateSadadWallet(decimal, balance)
        PROVE  AInv'
    <2>1. FromJSON(decimal) \in Nat /\ FromJSON(decimal) \in Int
      BY TotalRead
    <2>2. WalletRow(FromJSON(decimal), FromJSON(balance)) \in Nat \cup {NoRow}
      BY <2>1, BalanceRead, NewWalletRow
    <2> QED  BY <1>1, <1>5, <2>1, <2>2 DEF CreateSadadWallet
  <1>6. ASSUME NEW decimal \in Totals, CreateCod(decimal) PROVE AInv'
    <2>1. wallet \in Nat \cup {NoRow}
      BY DEF AmountsTypeOK
    <2> QED  BY <1>2, <1>6, <2>1, TotalRead DEF CreateCod
  <1>7. ASSUME NEW decimal \in Totals, NEW balance \in Balances,
               CreateCodWallet(decimal, balance)
        PROVE  AInv'
    <2>1. FromJSON(decimal) \in Nat /\ FromJSON(decimal) \in Int
      BY TotalRead
    <2>2. WalletRow(FromJSON(decimal), FromJSON(balance)) \in Nat \cup {NoRow}
      BY <2>1, BalanceRead, NewWalletRow
    <2> QED  BY <1>2, <1>7, <2>1, <2>2 DEF CreateCodWallet
  <1>8. ASSUME NEW decimal \in Totals, CompleteRejected(decimal) PROVE AInv'
    <2>1. FromJSON(decimal) # quoted
      BY <1>8, SameTotalAccepted DEF CompleteRejected
    <2>2. AmountsTypeOK' /\ SadadCoversQuote'
      BY <1>8, TotalRead
         DEF CompleteRejected, Request, AmountsTypeOK, SadadCoversQuote, Held, AmountOf, Exists
    <2> QED  BY <1>8, <2>1, <2>2
             DEF CompleteRejected, MismatchMeansAnotherTotal, CashMakesUp, CashToldIsTaken
  <1>9. ASSUME NEW decimal \in Totals, CompleteSadad(decimal) PROVE AInv'
    <2>1. AmountsTypeOK' /\ SadadCoversQuote'
      BY <1>9, TotalRead
         DEF CompleteSadad, Request, Outcome, AmountsTypeOK, SadadCoversQuote, Held, AmountOf,
             Exists
    <2> QED  BY <1>9, <2>1
             DEF CompleteSadad, Outcome, MismatchMeansAnotherTotal, CashMakesUp, CashToldIsTaken,
                 Held
  <1>10. ASSUME NEW decimal \in Totals, CompleteCash(decimal) PROVE AInv'
    <2>1. PICK total \in Int : total = FromJSON(decimal) /\ total >= 0
      BY TotalRead
    <2>2. PICK r \in Int : r = Remaining(total)
      <3>1. PICK w \in Int : w = AmountOf(wallet)
        BY AmountIsInt DEF AmountsTypeOK
      <3> QED  BY <3>1, FlooredSubtract DEF Remaining
    <2>3. /\ final' = total /\ topup' = (r < 0)
          /\ cash' = IF r = 0 THEN NoRow ELSE Column(Magnitude(r))
          /\ outcome' \in {"stuck", "done"}
          /\ UNCHANGED <<quoted, wallet, sadad>>
          /\ requests' \in Nat
      BY <1>10, <2>1, <2>2 DEF CompleteCash, Request, Outcome, AmountsTypeOK
    <2>4. /\ cash' \in Nat \cup {NoRow}
          /\ AmountOf(cash') >= 0
          /\ r = IF r < 0 THEN -AmountOf(cash') ELSE AmountOf(cash')
          /\ r <= total - AmountOf(wallet) /\ total - AmountOf(wallet) < r + 100
      BY <2>1, <2>2, <2>3, NewCashRow
    <2>5. AmountsTypeOK' /\ SadadCoversQuote' /\ MismatchMeansAnotherTotal'
      BY <2>1, <2>3, <2>4
         DEF AmountsTypeOK, SadadCoversQuote, MismatchMeansAnotherTotal, Held, AmountOf, Exists
    <2>6. CashMakesUp'
      <3>1. PICK w \in Int : w = AmountOf(wallet)
        BY AmountIsInt DEF AmountsTypeOK
      <3>2. PICK c \in Int : c = AmountOf(cash')
        BY <2>4, AmountIsInt
      <3>3. Collected' = w + r
        BY <2>3, <2>4, <3>1, <3>2 DEF Collected, AmountOf, Exists
      <3> QED  BY <2>1, <2>3, <2>4, <3>1, <3>3 DEF CashMakesUp, Parts
    <2>7. CashToldIsTaken'
      <3>1. CashTold(total)' = CashTold(total) /\ Exists(wallet)' = Exists(wallet)
        BY <2>3 DEF CashTold, Exists
      <3>2. (IF topup THEN 0 ELSE AmountOf(cash))' = IF r < 0 THEN 0 ELSE r
        BY <2>3, <2>4 DEF AmountOf, Exists
      <3> QED  BY <2>1, <2>2, <2>3, <3>1, <3>2, ToldOfRemaining
               DEF CashToldIsTaken, CashTold, Exists
    <2> QED  BY <2>5, <2>6, <2>7
  <1> QED  BY <1>3, <1>4, <1>5, <1>6, <1>7, <1>8, <1>9, <1>10 DEF ANext

\* Whatever the digits of totals and balances and the order of requests, the rows' amounts are
\* sound: the SADAD bill covers the quoted total, the same total is never rejected, cash makes
\* up the final total, and the rider is told what is taken.
THEOREM AmountsHold == ASpec => []AInv
  <1>1. AInv /\ UNCHANGED avars => AInv'
    BY DEF AInv, avars, AmountsTypeOK, SadadCoversQuote, MismatchMeansAnotherTotal, CashMakesUp,
           CashToldIsTaken, CashTold, Collected, Held, AmountOf, Exists
  <1> QED  BY <1>1, Initially, InvariantKept, PTL DEF ASpec

\* A completion for the total the order was created with is never TOTAL_AMOUNT_MISMATCH.
THEOREM MismatchHolds == ASpec => []MismatchMeansAnotherTotal
  BY AmountsHold, PTL DEF AInv

\* What wallet and cash collect is the final total, but for less than a unit in the payer's favour.
THEOREM CashHolds == ASpec => []CashMakesUp
  BY AmountsHold, PTL DEF AInv

\* The SADAD bill and the wallet's hold add up to the order's total, but for less than a unit,
\* whatever digits the totals and the balances have.
THEOREM SadadHolds == ASpec => []SadadCoversQuote
  BY AmountsHold, PTL DEF AInv

\* The cash the rider is told to collect is the cash row's, or one unit more without a wallet.
THEOREM CashToldHolds == ASpec => []CashToldIsTaken
  BY AmountsHold, PTL DEF AInv

\* No sequence of requests stores an amount of less than nothing.
THEOREM AmountsTyped == ASpec => []AmountsTypeOK
  BY AmountsHold, PTL DEF AInv
=============================================================================
