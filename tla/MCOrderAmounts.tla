--------------------------- MODULE MCOrderAmounts ---------------------------
(***************************************************************************)
(* Instances of OrderAmounts for TLC.  Decimals are in tenths of a part:   *)
(* 1000 is one unit.                                                       *)
(***************************************************************************)
EXTENDS OrderAmounts

\* Nothing, dust, both sides of half a unit and of a unit, and totals more than the tolerance
\* of 100 units apart.
OrderTotals == {0, 4, 495, 505, 1499, 1500, 250496, 250504, 351999}

\* Overdrawn, empty, dust, fractions on both sides of a half, ample.
WalletBalances == {-2500, 0, 400, 500, 1505, 1494, 250499, 400000}
=============================================================================
