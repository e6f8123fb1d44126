---------------------------- MODULE MCReceipts ----------------------------
(***************************************************************************)
(* Receipts for the model checker.                                         *)
(***************************************************************************)
EXTENDS Receipts, TLC

Symmetry == Permutations(Keys)
=============================================================================
