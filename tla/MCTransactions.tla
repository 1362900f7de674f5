--------------------------- MODULE MCTransactions ---------------------------
(***************************************************************************)
(* Instances of Transactions for TLC.                                      *)
(***************************************************************************)
EXTENDS Transactions, TLC

OneRoute  == {1}
TwoRoutes == {2}
AnyRoutes == {1, 2}

Symmetry == Permutations(Msgs) \cup Permutations(Clients)
=============================================================================
