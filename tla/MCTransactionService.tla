------------------------ MODULE MCTransactionService ------------------------
(***************************************************************************)
(* Instances of TransactionService for TLC: symmetry of the identifiers,   *)
(* which no definition orders or chooses among.                            *)
(***************************************************************************)
EXTENDS BreakdownSafety, AccountRefinement, TLC

\* What the wallet service answers: an overdrawn, an empty, a short and an ample wallet; the
\* empty one may hold a fraction of the lowest denomination.
WalletBalances == {-1, 0, 3, 9}

IdSymmetry == Permutations(Ids)

IdProcSymmetry == Permutations(Ids) \cup Permutations(Procs)
=============================================================================
