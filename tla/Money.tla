------------------------------- MODULE Money -------------------------------
(***************************************************************************)
(* MoneyDto: how amounts are read, computed with, stored and written.      *)
(* Clients and services exchange decimals of the main currency; the        *)
(* service computes in the lowest denomination and reads two digits more;  *)
(* the table stores whole units of the lowest denomination.                *)
(*                                                                         *)
(* The integers here are: a decimal, in tenths of a part; an amount, in    *)
(* parts; a column value, in units.                                        *)
(***************************************************************************)
EXTENDS Integers

\* PRECISION: fromJSON tells hundredths of the lowest denomination apart.
Parts == 100

\* LOWEST_DENOMINATION.
Units == 100

\* To the nearest multiple, half away from zero: toFixed, and MySQL storing a decimal as bigint.
Nearest(a, n) ==
  IF a >= 0 THEN (2 * a + n) \div (2 * n) ELSE -((n - 2 * a) \div (2 * n))

\* The Transform of amount, in plainToClass and fromJSON.
FromJSON(decimal) == Nearest(decimal, 10)

\* toJSON by way of getAmountInDouble: nothing below zero, and PRECISION digits.
ToJSON(amount) == IF amount < 0 THEN 0 ELSE 10 * Parts * Nearest(amount, Parts)

\* Mutant of NewMoney: rounds to the nearest unit.
NewMoneyNearest(amount) == Parts * Nearest(amount, Parts)

\* The constructor: whole units, towards the lower one.
NewMoney(amount) == Parts * (amount \div Parts)

Subtract(amount, subtrahend) == NewMoney(amount - subtrahend)

Magnitude(amount) == IF amount < 0 THEN NewMoney(-amount) ELSE NewMoney(amount)

\* Mutant of IsAlmostZero: nothing but zero passes.
IsZero(amount) == amount = 0

\* Less than one unit of the main currency.
IsAlmostZero(amount) == -(Units * Parts) < amount /\ amount < Units * Parts

\* An amount inserted in the bigint column, and a row's amount made MoneyDto again.
Column(amount) == Nearest(amount, Parts)

FromColumn(units) == Parts * units
=============================================================================
